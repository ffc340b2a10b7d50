---------------------------- MODULE MCPlannerIds ----------------------------
(***************************************************************************)
(* FlowPlanner on a runbook that includes a child eagerly, where the child  *)
(* includes a leaf lazily, and the two include steps do or do not have the  *)
(* same id.  Step ids are unique within a runbook only                      *)
(* (parser/validate_semantic.go), so both are valid documents.              *)
(***************************************************************************)
EXTENDS MCRunbookCases

VARIABLES input, stack, depth, lazyAt, dynamicAt, seen, sites, steps, snapshot, phase

IdDocs == {[root |-> PlD(<<PlI(x, "child", "eager"), PlN("verify", "task")>>, "", {}),
            child |-> PlD(<<PlN("prepare", "task"), PlI(y, "leaf", "lazy")>>, "", {}),
            leaf |-> PlD(<<PlN("act", "task")>>, "", {})] : x, y \in {"diagnose", "collect"}}

Ids == INSTANCE FlowPlanner WITH Cases <- {PlCase(f, "", Absent) : f \in IdDocs},
         Threshold <- 5, MaxIncludeDepth <- 10, Tools <- <<>>, None <- Absent

Spec == Ids!Spec

\* The steps of a plan form a tree: each step's depth is that of the flow it stands in (planner.go:561-567).
PlanIsTree == Ids!PlanIsTree
==============================================================================
