---- MODULE CallGovernance ----
(***************************************************************************)
(* Calls inside a run: tool actions executed as a runbook (substitutions), *)
(* dynamic includes, and the governance each composes on the way down      *)
(* (pkgsubst, executor/tool.go, tool_materializer.go, dynamic_resolver.go, *)
(* include.go, cli.go, governance/builder.go).                             *)
(*                                                                         *)
(* Freezing walks the plan before the run and plans every substitution it  *)
(* reaches; the run walks the same flows again, and those of the dynamic   *)
(* includes it resolves.  A flow is a sequence of nodes; a body stands for *)
(* the steps of a branch, an iteration, a parallel step or a compensation. *)
(* A policy is an approval flag, the allowed commands ({}: any) and the    *)
(* denied ones, which stand for denied variables and redactions too.       *)
(***************************************************************************)
EXTENDS Naturals, Sequences, FiniteSets

CONSTANTS
  Books,            \* entry runbooks: their flow and governance
  Flows,            \* per flow: its nodes (kind, ref)
  Actions,          \* per tool action: its contract, governance and execution; its substitute if a runbook
  Children,         \* per runbook a dynamic include may resolve: flow and governance
  MaxDepth,         \* nested substitutions
  MaxIncludeDepth   \* nested dynamic includes

VARIABLES
  book, phase,      \* the entry runbook; "freeze", "run", "completed", "failed", "refused"
  roots,            \* planned actions still to be frozen
  tools, frozen,    \* the actions in the plan, and those with a frozen substitute
  stack,            \* where the walk is: flow, position, frames, governance, policy, chain
  asked,            \* the call whose approval is awaited
  ran, refused      \* history: the commands run, with the governance around them; the
                    \* substitutions the run refused, and whether behind a deferred include

vars == <<book, phase, roots, tools, frozen, stack, asked, ran, refused>>

None == [at |-> 0]
Free == [approve |-> FALSE, allow |-> {}, deny |-> {}]

(***************************************************************************)
(* Composition.                                                            *)
(***************************************************************************)
\* EffectiveGovernanceFromTool: a tool has no list of denials.
EffectiveGovernanceFromTool(a) == [Free EXCEPT !.approve = Actions[a].approve, !.allow = Actions[a].allow]

\* composeGovernance: what a substitute allows beyond its caller is an error.
Widens(caller, sub) == caller.allow # {} /\ ~(sub.allow \subseteq caller.allow)

\* Mutant: the substitute's own list replaces the caller's.
composeGovernanceReplacing(caller, sub) ==
  [approve |-> sub.approve, allow |-> sub.allow, deny |-> caller.deny \cup sub.deny]

composeGovernance(caller, sub) ==
  [approve |-> caller.approve \/ sub.approve,
   allow |-> IF sub.allow # {} THEN sub.allow ELSE caller.allow,
   deny |-> caller.deny \cup sub.deny]

\* intersectOrInherit: an empty intersection is no list at all.
intersectOrInherit(parent, child) ==
  IF parent = {} THEN child ELSE IF child = {} THEN parent ELSE parent \cap child

ComposeGovernance(parent, child) ==
  [approve |-> parent.approve \/ child.approve,
   allow |-> intersectOrInherit(parent.allow, child.allow),
   deny |-> parent.deny \cup child.deny]

\* Mutant: an allowed command is not looked up among the denied.
CheckCommandAllowFirst(policy, command) ==
  \/ command \in policy.allow
  \/ policy.allow = {} /\ command \notin policy.deny

\* CheckCommand: denials first, then the list, where there is one.
CheckCommand(policy, command) ==
  /\ command \notin policy.deny
  /\ policy.allow # {} => command \in policy.allow

(***************************************************************************)
(* The contract of a substitute.                                           *)
(***************************************************************************)
\* validateInputs: the same names, types and members; required where the
\* action requires; bound from the context only.
validateInputs(action, sub) ==
  /\ DOMAIN sub.inputs = DOMAIN action.args
  /\ \A n \in DOMAIN sub.inputs :
       /\ sub.inputs[n].type = action.args[n].type
       /\ action.args[n].required => sub.inputs[n].required
       /\ sub.inputs[n].from \in {"", "context"}

\* validateOutputs: the same names and types; not optional where required;
\* one way to produce it, or optional.
validateOutputs(action, sub) ==
  /\ DOMAIN sub.outputs = DOMAIN action.outputs
  /\ \A n \in DOMAIN sub.outputs :
       /\ sub.outputs[n].type = action.outputs[n].type
       /\ ~(sub.outputs[n].optional /\ action.outputs[n].required)
       /\ sub.outputs[n].values <= 1
       /\ sub.outputs[n].values = 0 => sub.outputs[n].optional

\* validateFrame: no cycle, no nesting beyond the maximum.
validateFrame(a, frames) ==
  /\ \A i \in DOMAIN frames : frames[i] # a
  /\ Len(frames) < MaxDepth

\* The governance a frame starts from: the enclosing frame's, or the tool's.
Caller(a, top) == IF top.frames = <<>> THEN EffectiveGovernanceFromTool(a) ELSE top.governance

\* Plan and PlanFrozen accept the call.
Planned(a, top) ==
  /\ validateFrame(a, top.frames)
  /\ validateInputs(Actions[a], Actions[a].substitute)
  /\ validateOutputs(Actions[a], Actions[a].substitute)
  /\ ~Widens(Caller(a, top), Actions[a].substitute.governance)

IsSubstitution(a) == Actions[a].execution = "runbook"

(***************************************************************************)
(* Walking.                                                                *)
(***************************************************************************)
Top == stack[Len(stack)]
Node == Flows[Top.flow][Top.at]
AtNode(kind) == stack # <<>> /\ asked = None /\ Top.at <= Len(Flows[Top.flow]) /\ Node.kind = kind
Stepped == [stack EXCEPT ![Len(stack)].at = @ + 1]
Enter(entry) == stack' = Append(Stepped, entry)

\* A step fails: some step around it tolerates that (on_error), or none does.
Fails(positions) ==
  \E k \in 0..Len(positions) :
    /\ phase' = IF k = 0 THEN "failed" ELSE phase
    /\ stack' = [i \in 1..k |-> IF i = k THEN [positions[i] EXCEPT !.failed = TRUE] ELSE positions[i]]

\* The entry of a substitute (freezeAction, executePlannedSubstitution).
Substitute(a, top) ==
  [top EXCEPT !.flow = Actions[a].substitute.flow, !.at = 1, !.failed = FALSE, 
              !.frames = Append(@, a), !.governance = composeGovernance(Caller(a, top), Actions[a].substitute.governance)]

\* The flows a flow reaches without resolving anything.
StaticallyUnder(flow) ==
  LET Step(S) == S \cup {n.ref : n \in {m \in UNION {{Flows[f][i] : i \in DOMAIN Flows[f]} : f \in S} : m.kind \in {"include", "body"}}}
      Under[n \in Nat] == IF n = 0 THEN {flow} ELSE Step(Under[n - 1])
  IN Under[Cardinality(DOMAIN Flows)]

\* The planner's tools of a flow: not those of lazy includes.
ToolsOf(flow) ==
  {n.ref : n \in {m \in UNION {{Flows[f][i] : i \in DOMAIN Flows[f]} : f \in StaticallyUnder(flow)} : m.kind = "tool"}}

Entry(flow, policy) ==
  [flow |-> flow, at |-> 1, frames |-> <<>>, governance |-> Free, policy |-> policy, around |-> {policy},
   chain |-> <<>>, deferred |-> FALSE, failed |-> FALSE]

Init ==
  /\ book \in Books
  /\ phase = "freeze"
  /\ tools = ToolsOf(book.flow) /\ roots = {a \in tools : IsSubstitution(a)}
  /\ frozen = {} /\ stack = <<>> /\ asked = None /\ ran = {} /\ refused = {}

(***************************************************************************)
(* Freezing (MaterializeToolSubstitutions), before the run.                *)
(***************************************************************************)
\* Plan, or PlanFrozen where the action is frozen already; the includes of the
\* substitute are expanded, and its tools join the plan.
freezeAction(a, top) ==
  IF Planned(a, top)
  THEN /\ frozen' = frozen \cup {a}
       /\ tools' = tools \cup {a} \cup ToolsOf(Actions[a].substitute.flow)
       /\ UNCHANGED phase
  ELSE phase' = "refused" /\ UNCHANGED <<frozen, tools>>

FreezeRoot(a) ==
  LET top == Entry(book.flow, Free) IN
  /\ phase = "freeze" /\ stack = <<>> /\ a \in roots
  /\ roots' = roots \ {a}
  /\ freezeAction(a, top)
  /\ stack' = IF Planned(a, top) THEN <<Substitute(a, top)>> ELSE <<>>
  /\ UNCHANGED <<book, asked, ran, refused>>

\* Mutant: the includes of a substitute are not walked.
FreezeIncludeSkipped ==
  /\ phase = "freeze" /\ AtNode("include")
  /\ stack' = Stepped
  /\ UNCHANGED <<book, phase, roots, tools, frozen, asked, ran, refused>>

\* freezeNestedStep, freezeNestedTools: a static include or a body.
FreezeInclude ==
  /\ phase = "freeze" /\ AtNode("include")
  /\ Enter([Top EXCEPT !.flow = Node.ref, !.at = 1, !.failed = FALSE])
  /\ UNCHANGED <<book, phase, roots, tools, frozen, asked, ran, refused>>
FreezeBody ==
  /\ phase = "freeze" /\ AtNode("body")
  /\ Enter([Top EXCEPT !.flow = Node.ref, !.at = 1, !.failed = FALSE])
  /\ UNCHANGED <<book, phase, roots, tools, frozen, asked, ran, refused>>

FreezeTool ==
  LET a == Node.ref IN
  /\ phase = "freeze" /\ AtNode("tool")
  /\ IF IsSubstitution(a)
     THEN /\ freezeAction(a, Top)
          /\ IF Planned(a, Top) THEN Enter(Substitute(a, Top)) ELSE stack' = <<>>
     ELSE tools' = tools \cup {a} /\ stack' = Stepped /\ UNCHANGED <<phase, frozen>>
  /\ UNCHANGED <<book, roots, asked, ran, refused>>

\* Dynamic and lazy includes, and other steps, are not walked.
FreezePasses ==
  /\ phase = "freeze" /\ (AtNode("dynamic") \/ AtNode("lazy") \/ AtNode("cli"))
  /\ stack' = Stepped
  /\ UNCHANGED <<book, phase, roots, tools, frozen, asked, ran, refused>>

AtEnd == stack # <<>> /\ asked = None /\ Top.at > Len(Flows[Top.flow])
FreezeLeave ==
  /\ phase = "freeze" /\ AtEnd
  /\ stack' = SubSeq(stack, 1, Len(stack) - 1)
  /\ UNCHANGED <<book, phase, roots, tools, frozen, asked, ran, refused>>

\* Every root is frozen: the run starts, under the entry runbook's governance
\* (WithEntryGovernance).
Start ==
  /\ phase = "freeze" /\ stack = <<>> /\ roots = {}
  /\ phase' = "run"
  /\ stack' = <<Entry(book.flow, book.governance)>>
  /\ UNCHANGED <<book, roots, tools, frozen, asked, ran, refused>>

(***************************************************************************)
(* The run.                                                                *)
(***************************************************************************)
\* A tool action that is a process returns, or fails, or breaks its contract.
InvokeProcess ==
  /\ phase = "run" /\ AtNode("tool") /\ ~IsSubstitution(Node.ref)
  /\ \/ stack' = Stepped /\ UNCHANGED phase
     \/ Fails(Stepped)
  /\ UNCHANGED <<book, roots, tools, frozen, asked, ran, refused>>

\* executePlannedSubstitution: the arguments, the approval, the nested run.
Call(a) ==
  \/ Fails(Stepped) /\ UNCHANGED asked
  \/ /\ Substitute(a, Top).governance.approve
     /\ asked' = [at |-> Len(stack), entry |-> Substitute(a, Top)] /\ UNCHANGED <<phase, stack>>
  \/ /\ ~Substitute(a, Top).governance.approve
     /\ Enter(Substitute(a, Top)) /\ UNCHANGED <<phase, asked>>

Refuse(a) ==
  /\ Fails(Stepped)
  /\ refused' = refused \cup {[action |-> a, deferred |-> Top.deferred]}
  /\ UNCHANGED asked

\* A frozen substitute is planned again, against the frames of the call.
ExecuteFrozenSubstitution ==
  LET a == Node.ref IN
  /\ phase = "run" /\ AtNode("tool") /\ a \in frozen
  /\ IF Planned(a, Top) THEN Call(a) /\ UNCHANGED refused ELSE Refuse(a)
  /\ UNCHANGED <<book, roots, tools, frozen, ran>>

\* One that is not frozen is read from its package, where it may have changed.
executeSubstitution ==
  LET a == Node.ref IN
  /\ phase = "run" /\ AtNode("tool") /\ IsSubstitution(a) /\ a \notin frozen
  /\ \/ Planned(a, Top) /\ Call(a) /\ UNCHANGED refused
     \/ Refuse(a)
  /\ UNCHANGED <<book, roots, tools, frozen, ran>>

\* The end of a flow.  A substitute fails with any of its steps, tolerated or
\* not; a nested flow may break its output contract.
RunLeave ==
  LET outer == SubSeq(stack, 1, Len(stack) - 1)
      substituted == outer # <<>> /\ outer[Len(outer)].frames # Top.frames
  IN
  /\ phase = "run" /\ AtEnd
  /\ \/ /\ ~(substituted /\ Top.failed)
        /\ stack' = outer /\ phase' = IF outer = <<>> THEN "completed" ELSE phase
     \/ outer # <<>> /\ Fails(outer)
  /\ UNCHANGED <<book, roots, tools, frozen, asked, ran, refused>>

\* Includes and bodies keep the context of their step.
RunInclude ==
  /\ phase = "run" /\ (AtNode("include") \/ AtNode("body") \/ AtNode("lazy"))
  /\ Enter([Top EXCEPT !.flow = Node.ref, !.at = 1, !.failed = FALSE, !.deferred = @ \/ Node.kind = "lazy"])
  /\ UNCHANGED <<book, phase, roots, tools, frozen, asked, ran, refused>>

\* A dynamic include: cycle and depth, composition, approval.
Child(c) ==
  LET policy == ComposeGovernance(Top.policy, Children[c].governance) IN
  [Top EXCEPT !.flow = Children[c].flow, !.at = 1, !.failed = FALSE, !.chain = Append(@, c), !.policy = policy,
              !.around = @ \cup {Children[c].governance}, !.deferred = TRUE]
RunDynamic ==
  LET c == Node.ref IN
  /\ phase = "run" /\ AtNode("dynamic")
  /\ IF (\E i \in DOMAIN Top.chain : Top.chain[i] = c) \/ Len(Top.chain) >= MaxIncludeDepth
     THEN Fails(Stepped) /\ UNCHANGED asked
     ELSE IF Child(c).policy.approve
          THEN asked' = [at |-> Len(stack), entry |-> Child(c)] /\ UNCHANGED <<phase, stack>>
          ELSE Enter(Child(c)) /\ UNCHANGED <<phase, asked>>
  /\ UNCHANGED <<book, roots, tools, frozen, ran, refused>>
\* The reference resolves to nothing: a failure, unless that is tolerated.
ResolveFails ==
  /\ phase = "run" /\ AtNode("dynamic")
  /\ \/ stack' = Stepped /\ UNCHANGED phase
     \/ Fails(Stepped)
  /\ UNCHANGED <<book, roots, tools, frozen, asked, ran, refused>>

\* The approval is given, or it is not: a denied substitution is a denied step,
\* a denied include an error.
Awaiting == phase = "run" /\ asked # None
Approved ==
  /\ Awaiting
  /\ Enter(asked.entry) /\ asked' = None
  /\ UNCHANGED <<book, phase, roots, tools, frozen, ran, refused>>
Denied ==
  /\ Awaiting /\ asked' = None
  /\ IF Node.kind = "tool" THEN stack' = Stepped /\ UNCHANGED phase ELSE Fails(Stepped)
  /\ UNCHANGED <<book, roots, tools, frozen, ran, refused>>

\* A command is checked against the policy of the enclosing dynamic include, or
\* of the entry runbook; it may fail.
RunCommand ==
  /\ phase = "run" /\ AtNode("cli")
  /\ \/ /\ CheckCommand(Top.policy, Node.ref)
        /\ ran' = ran \cup {[command |-> Node.ref, around |-> Top.around]}
        /\ \/ stack' = Stepped /\ UNCHANGED phase
           \/ Fails(Stepped)
     \/ ~CheckCommand(Top.policy, Node.ref) /\ Fails(Stepped) /\ UNCHANGED ran
  /\ UNCHANGED <<book, roots, tools, frozen, asked, refused>>

Next ==
  \/ \E a \in roots : FreezeRoot(a)
  \/ FreezeInclude \/ FreezeBody \/ FreezeTool \/ FreezePasses \/ FreezeLeave \/ Start
  \/ InvokeProcess \/ ExecuteFrozenSubstitution \/ executeSubstitution \/ RunLeave \/ RunInclude \/ RunDynamic \/ ResolveFails \/ Approved \/ Denied \/ RunCommand

Spec == Init /\ [][Next]_vars

CallsTypeOK ==
  /\ phase \in {"freeze", "run", "completed", "failed", "refused"}
  /\ roots \subseteq DOMAIN Actions /\ frozen \subseteq tools /\ tools \subseteq DOMAIN Actions
  /\ phase \in {"completed", "failed", "refused"} => stack = <<>>

\* Freezing reaches every substitution the plan reaches: the run refuses one
\* (a cycle, its contract, its governance, a changed package) only behind an
\* include that is resolved or loaded later.
FrozenNeverRefused == \A r \in refused : r.deferred

\* Calls are bounded, whatever tools and includes name each other: no action is
\* active twice, and neither are included runbooks.
CallsBounded ==
  \A i \in DOMAIN stack :
    /\ Len(stack[i].frames) <= MaxDepth /\ Len(stack[i].chain) <= MaxIncludeDepth
    /\ \A j, k \in DOMAIN stack[i].frames : j # k => stack[i].frames[j] # stack[i].frames[k]
    /\ \A j, k \in DOMAIN stack[i].chain : j # k => stack[i].chain[j] # stack[i].chain[k]

\* Governance only tightens on the way down: a frame allows no more than the
\* frame (or, outermost, the tool) that called it, denies all that it denied, and
\* needs the approval that it needed.
Tighter(g, h) ==
  /\ h.approve => g.approve
  /\ h.deny \subseteq g.deny
  /\ h.allow # {} => g.allow # {} /\ g.allow \subseteq h.allow
FramesTighten ==
  \A i \in 2..Len(stack) :
    /\ Len(stack[i].frames) = 1 => Tighter(stack[i].governance, EffectiveGovernanceFromTool(stack[i].frames[1]))
    /\ stack[i - 1].frames # <<>> => Tighter(stack[i].governance, stack[i - 1].governance)
    /\ stack[i - 1].policy.deny \subseteq stack[i].policy.deny
    /\ stack[i - 1].policy.approve => stack[i].policy.approve

\* No command runs that the entry runbook, or any included runbook around it,
\* denies.
DenialsHold == \A r \in ran : \A p \in r.around : r.command \notin p.deny

\* Calls inside a run are contained.
CallsContained == FrozenNeverRefused /\ CallsBounded /\ FramesTighten /\ DenialsHold

\* "Non-widening invariant: the child can tighten restrictions but never relax
\* what the parent forbade": a command runs only if every list around it allows
\* it.
AllowListsHold == \A r \in ran : \A p \in r.around : p.allow # {} => r.command \in p.allow
====
