---------------------------- MODULE MCAllowLists ----------------------------
(***************************************************************************)
(* CallGovernance on the runbooks of MCRunCases, for the claim that a       *)
(* dynamically included runbook never widens what its parent allows.        *)
(***************************************************************************)
EXTENDS MCRunCases

VARIABLES book, phase, roots, tools, frozen, stack, asked, ran, refused

Allow == INSTANCE CallGovernance WITH Books <- CallBooks, Flows <- CallFlows, Actions <- CallActions,
           Children <- CallChildren, MaxDepth <- 3, MaxIncludeDepth <- 2

Spec == Allow!Spec

\* No command that an enclosing allow list leaves out is run (dynamic_resolver.go:161-166).
AllowListsHold == Allow!AllowListsHold
==============================================================================
