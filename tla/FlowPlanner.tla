---------------------------- MODULE FlowPlanner ----------------------------
(***************************************************************************)
(* From a parsed runbook to a plan that survives a restart: the walker     *)
(* (pkg/flowwalk), the planning visitor (internal/planner), the expansion  *)
(* policy (pkg/expand), the preparation of a durable plan (deferred static *)
(* includes replaced by the documents they name, the flat list rebuilt,    *)
(* the concurrency and resume-safety checks) and the plan snapshot.        *)
(*                                                                         *)
(* A document is a tree of nodes.  A node is a record                      *)
(*   id, kind, arms (a sequence of [label, steps]), target (the document   *)
(*   an include names, the tool a tool step calls), alias (the include     *)
(*   names its target through imports:), expand, writes (the bindings its  *)
(*   capture or assignment sets), concurrent (an iterate with concurrency  *)
(*   above one), state ("none", "lazy", "resolved"), path, mutable.        *)
(* The last three are what planning attaches to an include; its resolved   *)
(* steps are its only arm.  Names, inputs, outputs and expressions are     *)
(* data no property tells apart and are left out.                          *)
(*                                                                         *)
(* The engine runs the steps of depth zero in order and skips the others   *)
(* (their composite dispatches them), so a wrong depth silently drops or   *)
(* repeats a step.                                                         *)
(***************************************************************************)
EXTENDS Integers, Sequences, SequencesExt, FiniteSets, TLC

CONSTANTS Cases,           \* the inputs: [files, root, default, profile]
          Threshold,       \* AutoIncludeThreshold of the expansion policy
          MaxIncludeDepth, \* the walker's MaxDepth
          Tools,           \* the registry: name -> [environments, transport, hosts]
          None

VARIABLES input,    \* the member of Cases this planning run works on
          stack,    \* the walker's recursion, innermost frame last
          depth,    \* execDepth = displayDepth of the visitor
          lazyAt,   \* step id -> path of an include it decided to defer
          dynamicAt,\* ids of the includes resolved at run time
          seen,     \* paths of the includes being walked
          sites,    \* what EnterInclude attached, by position in the tree
          steps,    \* the flat plan: ExecutionPlan.Steps
          snapshot, \* the persisted plan
          phase     \* walking, planned, prepared, saved, restored, refused

vars == <<input, stack, depth, lazyAt, dynamicAt, seen, sites, steps, snapshot, phase>>

files == input.files

Composite == {"branch", "iterate", "parallel", "parallelStep", "compensate"}
\* The kind a step has in the plan: both spellings of parallel are one kind.
Kind(n) == CASE n.kind = "parallelStep" -> "parallel" [] n.kind = "dynamic" -> "include" [] OTHER -> n.kind
Concurrent(n) == \/ n.kind \in {"parallel", "parallelStep"}
                 \/ n.kind = "iterate" /\ n.concurrent

\* The sequence of Op(s[i], i).
MapSeq(Op(_, _), s) == FoldLeft(LAMBDA done, x : Append(done, Op(x, Len(done) + 1)), <<>>, s)
\* A node with Op applied to each step of its arms, by arm and index.
MapArms(Op(_, _, _), n) ==
  [n EXCEPT !.arms = MapSeq(LAMBDA arm, a : [label |-> arm.label, steps |-> MapSeq(LAMBDA m, i : Op(m, a, i), arm.steps)], @)]

-----------------------------------------------------------------------------
(* The expansion policy. *)

\* Every include step of the flow outside other includes.  The step spelling
\* of parallel is not looked into.
RECURSIVE DirectIncludes(_)
DirectIncludes(flow) ==
  FoldLeft(LAMBDA count, n : count +
             CASE n.kind \in {"include", "dynamic"} -> 1
               [] n.kind \in {"branch", "compensate", "iterate", "parallel"} ->
                    FoldLeft(LAMBDA k, arm : k + DirectIncludes(arm.steps), 0, n.arms)
               [] OTHER -> 0,
           0, flow)

\* The site's mode, else the runbook's, else the policy's default, else lazy.
Resolve(site, runbook) ==
  CASE site # "" -> site
    [] runbook # "" -> runbook
    [] input.default # "" -> input.default
    [] OTHER -> "lazy"

Deferred(n, doc) ==
  LET mode == Resolve(n.expand, doc.expand)
  IN \/ mode = "lazy"
     \/ mode = "auto" /\ DirectIncludes(doc.flow) > Threshold

-----------------------------------------------------------------------------
(* Preflight of a tool against the runtime profile. *)

PreflightAllows(t, profile) ==
  profile # None =>
    /\ t.environments # {} => profile.context \in t.environments
    /\ IF profile.context = "test"
       THEN t.transport \in {"native"} \cup (IF profile.subprocess THEN {"mcp"} ELSE {})
       ELSE t.transport = "mcp-http" /\ profile.override # "" => profile.override \in t.hosts

AttendanceAllows(profile) ==
  profile # None /\ profile.attended => profile.context \notin {"ci", "headless-server"}

ToolResolves(n) == n.target \in DOMAIN Tools /\ PreflightAllows(Tools[n.target], input.profile)

-----------------------------------------------------------------------------
(* The walk.  A frame is a flow being walked, or the arms of a composite.  *)
(* The position of a node is the sequence of arm and node indices that     *)
(* leads to it; it stands for the pointer the flat step shares with the    *)
(* tree.                                                                   *)

Body(flow, at, ctx, of) == [arms |-> <<>>, flow |-> flow, next |-> 1, at |-> at, ctx |-> ctx, of |-> of]
Arms(n, at, ctx) == [arms |-> n.arms, flow |-> <<>>, next |-> 1, at |-> at, ctx |-> ctx, of |-> n]
Root == [id |-> "", kind |-> "root"]

RootCtx(doc) == [origin |-> doc, parent |-> "", kind |-> "", label |-> "", nest |-> 0]
ChildCtx(ctx, n, label) == [ctx EXCEPT !.parent = n.id, !.kind = Kind(n), !.label = label]
IncludeCtx(ctx, n, path) ==
  [origin |-> path, parent |-> n.id, kind |-> "include", label |-> "", nest |-> ctx.nest + 1]

\* makeStep: the flat record of a node at the visitor's current depth.
MakeStep(n, at, ctx) ==
  [id |-> n.id, kind |-> Kind(n), at |-> at, depth |-> depth, origin |-> ctx.origin,
   parent |-> ctx.parent, parentKind |-> ctx.kind, label |-> ctx.label, node |-> n]

top == stack[Len(stack)]
Advanced == [stack EXCEPT ![Len(stack)].next = @ + 1]

Walking == phase = "walking" /\ stack # <<>>
AtNode(kinds) == Walking /\ top.arms = <<>> /\ top.next <= Len(top.flow) /\ top.flow[top.next].kind \in kinds
Node == top.flow[top.next]
Here == top.at \o <<top.next>>

Refuse == /\ phase' = "refused"
          /\ UNCHANGED <<input, stack, depth, lazyAt, dynamicAt, seen, sites, steps, snapshot>>

EnterStep ==
  /\ AtNode({"task", "handoff", "results", "tool"})
  /\ Node.kind = "tool" => ToolResolves(Node)
  /\ steps' = Append(steps, MakeStep(Node, Here, top.ctx))
  /\ stack' = Advanced
  /\ UNCHANGED <<input, depth, lazyAt, dynamicAt, seen, sites, snapshot, phase>>

ToolRefused == AtNode({"tool"}) /\ ~ToolResolves(Node) /\ Refuse

\* EnterIterate, EnterParallel and EnterStep of a branch, a compensate or the
\* step spelling of parallel: the parent is listed before its body.
EnterComposite ==
  /\ AtNode(Composite)
  /\ steps' = Append(steps, MakeStep(Node, Here, top.ctx))
  /\ stack' = Append(Advanced, Arms(Node, Here, top.ctx))
  /\ UNCHANGED <<input, depth, lazyAt, dynamicAt, seen, sites, snapshot, phase>>

EnterArm ==
  /\ Walking /\ top.arms # <<>> /\ top.next <= Len(top.arms)
  /\ LET arm == top.arms[top.next]
     IN stack' = Append(Advanced, Body(arm.steps, top.at \o <<top.next>>, ChildCtx(top.ctx, top.of, arm.label), top.of))
  /\ depth' = depth + 1
  /\ UNCHANGED <<input, lazyAt, dynamicAt, seen, sites, steps, snapshot, phase>>

LeaveComposite ==
  /\ Walking /\ top.arms # <<>> /\ top.next > Len(top.arms)
  /\ stack' = Front(stack)
  /\ UNCHANGED <<input, depth, lazyAt, dynamicAt, seen, sites, steps, snapshot, phase>>

\* LeaveArm, LeaveParallelBranch, LeaveIterate, LeaveCompensate.
LeaveArm ==
  /\ Walking /\ top.arms = <<>> /\ top.next > Len(top.flow) /\ top.of.kind \in Composite
  /\ stack' = Front(stack)
  /\ depth' = depth - 1
  /\ UNCHANGED <<input, lazyAt, dynamicAt, seen, sites, steps, snapshot, phase>>

\* BeforeInclude: the decision is remembered under the step's id.
BeforeInclude(n, doc) ==
  IF n.kind = "dynamic" THEN [load |-> FALSE, lazy |-> lazyAt, dynamic |-> dynamicAt \cup {n.id}]
  ELSE IF Deferred(n, doc)
       THEN [load |-> FALSE, dynamic |-> dynamicAt,
             lazy |-> [id \in DOMAIN lazyAt \cup {n.id} |-> IF id = n.id THEN n.target ELSE lazyAt[id]]]
       ELSE [load |-> TRUE, lazy |-> lazyAt, dynamic |-> dynamicAt]

\* LeaveInclude pops the depth unless the site is known to be deferred.
\* Mutant: the depth is popped whatever EnterInclude did.
LeaveIncludeAlwaysPops(id, lazy, dynamic) == depth - 1
LeaveInclude(id, lazy, dynamic) == IF id \in DOMAIN lazy \cup dynamic THEN depth ELSE depth - 1

Document(ctx) == files[ctx.origin]

CanLoad(n) == n.target \in DOMAIN files /\ n.target \notin seen /\ top.ctx.nest + 1 <= MaxIncludeDepth

\* EnterInclude and, when it recurses, the start of the child's walk.  A site
\* whose id is in dynamicAt or lazyAt becomes a placeholder.
EnterInclude ==
  /\ AtNode({"include", "dynamic"})
  /\ LET n == Node
         before == BeforeInclude(n, Document(top.ctx))
         dynamic == n.id \in before.dynamic
         lazy == ~dynamic /\ n.id \in DOMAIN before.lazy
         child == files[n.target]
     IN /\ before.load => CanLoad(n)
        /\ lazyAt' = before.lazy
        /\ dynamicAt' = before.dynamic
        /\ steps' = Append(steps, MakeStep(n, Here, top.ctx))
        /\ IF dynamic
           THEN sites' = sites
           ELSE sites' = sites @@ (Here :>
                  IF lazy THEN [state |-> "lazy", path |-> before.lazy[n.id], flow |-> <<>>, mutable |-> {}]
                  ELSE [state |-> "resolved", path |-> n.target, flow |-> child.flow, mutable |-> child.mutable])
        /\ IF before.load /\ ~dynamic /\ ~lazy
           THEN /\ depth' = depth + 1
                /\ seen' = seen \cup {n.target}
                /\ stack' = Append(Advanced, Body(child.flow, Here \o <<1>>, IncludeCtx(top.ctx, n, n.target), n))
           ELSE /\ depth' = LeaveInclude(n.id, before.lazy, before.dynamic)
                /\ stack' = Advanced
                /\ seen' = seen
  /\ UNCHANGED <<input, snapshot, phase>>

IncludeRefused ==
  /\ AtNode({"include"})
  /\ BeforeInclude(Node, Document(top.ctx)).load
  /\ ~CanLoad(Node)
  /\ Refuse

\* The child's flow is walked: its path leaves the cycle guard.
LeaveIncluded ==
  /\ Walking /\ top.arms = <<>> /\ top.next > Len(top.flow) /\ top.of.kind = "include"
  /\ stack' = Front(stack)
  /\ depth' = LeaveInclude(top.of.id, lazyAt, dynamicAt)
  /\ seen' = seen \ {top.of.target}
  /\ UNCHANGED <<input, lazyAt, dynamicAt, sites, steps, snapshot, phase>>

-----------------------------------------------------------------------------
(* The tree the plan's specs point into, as the walk left it. *)

RECURSIVE Attached(_, _)
Attached(n, here) ==
  LET site == sites[here]
      own == IF here \in DOMAIN sites
             THEN [n EXCEPT !.state = site.state, !.path = site.path, !.mutable = site.mutable,
                            !.arms = IF site.state = "resolved" THEN <<[label |-> "", steps |-> site.flow]>> ELSE <<>>]
             ELSE n
  IN MapArms(LAMBDA m, a, i : Attached(m, here \o <<a, i>>), own)

\* The flat steps with the specs they point to.
Resolved ==
  LET tree == MapSeq(LAMBDA n, i : Attached(n, <<i>>), files[input.root].flow)
      RECURSIVE At(_, _)
      At(flow, at) == LET n == flow[at[1]] IN IF Len(at) = 1 THEN n ELSE At(n.arms[at[2]].steps, SubSeq(at, 3, Len(at)))
  IN MapSeq(LAMBDA s, i : [s EXCEPT !.node = At(tree, s.at)], steps)

-----------------------------------------------------------------------------
(* validateHandoffConcurrency: the flat list with a stack of flags by       *)
(* depth, then every spec's tree.                                           *)

FlatHandoffOK(list) ==
  FoldLeft(LAMBDA acc, s :
             LET flags == SubSeq(acc.flags, 1, IF s.depth < Len(acc.flags) THEN s.depth ELSE Len(acc.flags))
                 under == TRUE \in Range(flags)
             IN [ok |-> acc.ok /\ ~(under /\ s.kind = "handoff"),
                 flags |-> IF s.depth = Len(flags) THEN Append(flags, under \/ Concurrent(s.node)) ELSE flags],
           [ok |-> TRUE, flags |-> <<>>], list).ok

RECURSIVE TreeHandoffOK(_, _)
TreeHandoffOK(n, concurrent) ==
  \A a \in DOMAIN n.arms : \A i \in DOMAIN n.arms[a].steps :
    LET m == n.arms[a].steps[i]
        under == concurrent \/ Concurrent(n)
    IN ~(under /\ m.kind = "handoff") /\ TreeHandoffOK(m, under)

ValidatePlan(list) == FlatHandoffOK(list) /\ \A i \in DOMAIN list : TreeHandoffOK(list[i].node, FALSE)

\* The end of Plan: the walk is over and the plan is validated.
PlanEnds ==
  /\ Walking /\ Len(stack) = 1 /\ top.next > Len(top.flow) /\ top.of = Root
  /\ stack' = <<>>
  /\ steps' = Resolved
  /\ phase' = IF ValidatePlan(Resolved) THEN "planned" ELSE "refused"
  /\ UNCHANGED <<input, depth, lazyAt, dynamicAt, seen, sites, snapshot>>

-----------------------------------------------------------------------------
(* PrepareDurablePlan. *)

RECURSIVE HasDeferred(_)
HasDeferred(n) ==
  \/ n.state = "lazy"
  \/ \E a \in DOMAIN n.arms : \E i \in DOMAIN n.arms[a].steps : HasDeferred(n.arms[a].steps[i])

\* The loader of a deferred include marks every static include of the document
\* it parsed: with the literal path, an import alias is not looked up, and not
\* beneath the step spelling of parallel.
RECURSIVE StampLazyIncludes(_)
StampLazyIncludes(n) ==
  CASE n.kind = "include" -> [n EXCEPT !.state = "lazy", !.path = IF n.alias THEN None ELSE n.target]
    [] n.kind = "parallelStep" -> n
    [] OTHER -> MapArms(LAMBDA m, a, i : StampLazyIncludes(m), n)

\* materializeLazySpec: None stands for its error (a cycle among the deferred
\* documents being loaded, or a document that cannot be read).
RECURSIVE Materialize(_, _)
Materialize(n, loading) ==
  IF n.state = "lazy" /\ (n.path \notin DOMAIN files \/ n.path \in loading) THEN None
  ELSE LET lazy == n.state = "lazy"
           doc == files[n.path]
           loaded == IF lazy
                     THEN [n EXCEPT !.state = "resolved", !.mutable = doc.mutable,
                             !.arms = <<[label |-> "", steps |-> MapSeq(LAMBDA m, i : StampLazyIncludes(m), doc.flow)]>>]
                     ELSE n
           filled == MapArms(LAMBDA m, a, i : Materialize(m, loading \cup IF lazy THEN {n.path} ELSE {}), loaded)
       IN IF \E a \in DOMAIN filled.arms : None \in Range(filled.arms[a].steps) THEN None ELSE filled

\* The names in scope a flow writes; a dynamic include hides what it writes.
\* Mutant: only the branch's own steps are looked at.
WritesOfSteps(flow, names) == UNION {(flow[i].writes \cap names) \cup (flow[i].mutable \cap names) : i \in DOMAIN flow}
RECURSIVE Writes(_, _)
Writes(flow, names) ==
  UNION {LET n == flow[i]
         IN (n.writes \cap names) \cup (n.mutable \cap names)
            \cup UNION {Writes(n.arms[a].steps, names) : a \in DOMAIN n.arms} : i \in DOMAIN flow}

RECURSIVE HidesWrites(_)
HidesWrites(flow) ==
  \E i \in DOMAIN flow : \/ flow[i].kind = "dynamic"
                          \/ \E a \in DOMAIN flow[i].arms : HidesWrites(flow[i].arms[a].steps)

\* Includes own their results.
RECURSIVE HasResults(_)
HasResults(flow) ==
  \E i \in DOMAIN flow :
    \/ flow[i].kind = "results"
    \/ /\ flow[i].kind \in {"branch", "iterate", "parallel", "compensate"}
       /\ \E a \in DOMAIN flow[i].arms : HasResults(flow[i].arms[a].steps)

\* ValidateTypedBoundClosure: walkSpec.
RECURSIVE TypedBoundOK(_, _)
TypedBoundOK(n, names) ==
  LET scope == IF n.kind = "include" THEN names \cup n.mutable ELSE names
      bodies == [a \in DOMAIN n.arms |-> n.arms[a].steps]
  IN /\ Concurrent(n) => \A a \in DOMAIN bodies : ~HasResults(bodies[a]) /\ (names # {} => ~HidesWrites(bodies[a]))
     /\ Concurrent(n) /\ n.kind = "iterate" => \A a \in DOMAIN bodies : Writes(bodies[a], names) = {}
     /\ Concurrent(n) /\ n.kind # "iterate" =>
          \A a, b \in DOMAIN bodies : a # b => Writes(bodies[a], names) \cap Writes(bodies[b], names) = {}
     /\ \A a \in DOMAIN bodies : \A i \in DOMAIN bodies[a] : TypedBoundOK(bodies[a][i], scope)

\* FinalizeMaterializedPlan: the steps of depth zero without a parent are the
\* roots, everything beneath them is listed again from their specs.
RECURSIVE AppendChildren(_, _, _, _)
AppendChildren(n, at, origin, level) ==
  LET source == IF n.state = "resolved" THEN n.path ELSE origin
      Listed(m, here, label) ==
        <<[id |-> m.id, kind |-> Kind(m), at |-> here, depth |-> level, origin |-> source,
           parent |-> n.id, parentKind |-> Kind(n), label |-> label, node |-> m]>>
        \o AppendChildren(m, here, source, level + 1)
  IN FlattenSeq(MapSeq(LAMBDA arm, a :
       FlattenSeq(MapSeq(LAMBDA m, i : Listed(m, at \o <<a, i>>, arm.label), arm.steps)), n.arms))

Finalize(list) ==
  LET roots == SelectSeq(list, LAMBDA s : s.depth = 0 /\ s.parent = "")
  IN FlattenSeq(MapSeq(LAMBDA s, i : <<s>> \o AppendChildren(s.node, s.at, s.origin, 1), roots))

\* ValidateResumeSafetyForState of a run with a writer epoch: dynamic includes
\* may stay open, a static one must carry its closure.
RECURSIVE ResumeSafe(_)
ResumeSafe(n) ==
  /\ n.kind = "include" => n.state = "resolved"
  /\ \A a \in DOMAIN n.arms : \A i \in DOMAIN n.arms[a].steps : ResumeSafe(n.arms[a].steps[i])

Specs(list) == {list[i].node : i \in DOMAIN list}

Prepared ==
  LET deferred == \E n \in Specs(steps) : HasDeferred(n)
      filled == MapSeq(LAMBDA s, i : [s EXCEPT !.node = Materialize(@, {})], steps)
      failed == None \in Specs(filled)
      roots == {i \in DOMAIN filled : filled[i].depth = 0}
      final == IF deferred THEN Finalize(filled) ELSE filled
  IN IF failed THEN <<>>
     ELSE IF /\ \A i \in roots : TypedBoundOK(filled[i].node, files[input.root].mutable)
             /\ deferred => ValidatePlan(final)
             /\ \A n \in Specs(final) : ResumeSafe(n)
          THEN final ELSE <<>>

PrepareDurablePlan ==
  /\ phase = "planned"
  /\ steps' = IF Prepared = <<>> THEN steps ELSE Prepared
  /\ phase' = IF Prepared = <<>> THEN "refused" ELSE "prepared"
  /\ UNCHANGED <<input, stack, depth, lazyAt, dynamicAt, seen, sites, snapshot>>

-----------------------------------------------------------------------------
(* The snapshot: every flat step with its spec; a step inside a spec is     *)
(* split into its common fields and its encoded spec, and put together on   *)
(* the way back.                                                            *)

RECURSIVE EncodeStepSpec(_), SnapshotFlowStep(_)
EncodeStepSpec(n) ==
  MapArms(LAMBDA m, a, i : SnapshotFlowStep(m),
    [arms |-> n.arms, state |-> n.state, path |-> n.path, mutable |-> n.mutable, concurrent |-> n.concurrent,
     writes |-> n.writes, target |-> n.target, expand |-> n.expand])
SnapshotFlowStep(n) == [common |-> [id |-> n.id, kind |-> n.kind, alias |-> n.alias], spec |-> EncodeStepSpec(n)]
SnapshotStep(s) == [s EXCEPT !.node = SnapshotFlowStep(@)]

RECURSIVE DecodeStepSpec(_), RestoreFlowStep(_)
DecodeStepSpec(e) == MapArms(LAMBDA m, a, i : RestoreFlowStep(m), e)
RestoreFlowStep(e) == e.common @@ DecodeStepSpec(e.spec)
RestoreStep(s) == [s EXCEPT !.node = RestoreFlowStep(@)]

FromExecutionPlan ==
  /\ phase = "prepared"
  /\ snapshot' = MapSeq(LAMBDA s, i : SnapshotStep(s), steps)
  /\ phase' = "saved"
  /\ UNCHANGED <<input, stack, depth, lazyAt, dynamicAt, seen, sites, steps>>

\* A process starts again and restores the plan: it is validated once more.
Restore ==
  /\ phase = "saved"
  /\ LET restored == MapSeq(LAMBDA s, i : RestoreStep(s), snapshot)
     IN /\ steps' = restored
        /\ phase' = IF ValidatePlan(restored) THEN "restored" ELSE "refused"
  /\ UNCHANGED <<input, stack, depth, lazyAt, dynamicAt, seen, sites, snapshot>>

-----------------------------------------------------------------------------
Init ==
  /\ input \in Cases
  /\ stack = <<Body(files[input.root].flow, <<>>, RootCtx(input.root), Root)>>
  /\ depth = 0 /\ lazyAt = <<>> /\ dynamicAt = {} /\ seen = {input.root} /\ sites = <<>>
  /\ steps = <<>> /\ snapshot = <<>>
  /\ phase = IF AttendanceAllows(input.profile) THEN "walking" ELSE "refused"

Next ==
  \/ EnterStep \/ ToolRefused \/ EnterComposite \/ EnterArm \/ LeaveArm \/ LeaveComposite
  \/ EnterInclude \/ IncludeRefused \/ LeaveIncluded \/ PlanEnds
  \/ PrepareDurablePlan \/ FromExecutionPlan \/ Restore

Spec == Init /\ [][Next]_vars

-----------------------------------------------------------------------------
(* Properties. *)

\* The flow a document stands for: each static include replaced by the
\* document it names, except the ones the policy leaves to run time.
RECURSIVE Meaning(_, _, _)
Meaning(n, doc, open) ==
  CASE n.kind = "dynamic" -> n
    [] n.kind = "include" /\ open /\ Deferred(n, files[doc]) -> [n EXCEPT !.state = "lazy", !.path = n.target]
    [] n.kind = "include" /\ ~(open /\ Deferred(n, files[doc])) ->
         MapArms(LAMBDA m, a, i : Meaning(m, n.target, open),
           [n EXCEPT !.state = "resolved", !.path = n.target, !.mutable = files[n.target].mutable,
                     !.arms = <<[label |-> "", steps |-> files[n.target].flow]>>])
    [] OTHER -> MapArms(LAMBDA m, a, i : Meaning(m, doc, open), n)

\* The flat list of the root document: pre-order, depth the number of ancestors.
Listing(open) ==
  LET Listed(n, i) == <<[id |-> n.id, kind |-> Kind(n), at |-> <<i>>, depth |-> 0, origin |-> input.root,
                         parent |-> "", parentKind |-> "", label |-> "", node |-> n]>>
                      \o AppendChildren(n, <<i>>, input.root, 1)
  IN FlattenSeq(MapSeq(LAMBDA n, i : Listed(Meaning(n, input.root, open), i), files[input.root].flow))

\* A plan lists exactly the steps of the runbook it was made from: every step
\* once, in pre-order, at the depth of its nesting and under its own parent,
\* every include expanded to the document it names.  A fresh plan leaves open
\* the includes the policy defers; a prepared one, and the one restored after
\* a restart, leaves open only the dynamic ones.
PlanIsTree ==
  /\ phase = "planned" => steps = Listing(TRUE)
  /\ phase \in {"prepared", "saved", "restored"} => steps = Listing(FALSE)

\* Concurrency the plan accepts is harmless: beneath a parallel or a concurrent
\* iterate no prepared plan has a handoff or a published result, two branches
\* of a parallel never write one mutable binding of a surrounding document, and
\* a concurrent iterate writes none.
Inside(list, i) == {j \in DOMAIN list : Len(list[j].at) > Len(list[i].at) /\ SubSeq(list[j].at, 1, Len(list[i].at)) = list[i].at}

ConcurrencySafe ==
  phase \in {"prepared", "restored"} =>
    LET list == Listing(FALSE)
        Scope(i) == files[input.root].mutable
                    \cup UNION {list[j].node.mutable : j \in {k \in DOMAIN list : i \in Inside(list, k)}}
        Lane(i, j) == list[j].at[Len(list[i].at) + 1]
    IN \A i \in {k \in DOMAIN list : Concurrent(list[k].node)} : \A j, k \in Inside(list, i) :
         /\ list[j].kind # "handoff"
         /\ list[j].kind = "results" => \E m \in Inside(list, i) : list[m].kind = "include" /\ j \in Inside(list, m)
         /\ Lane(i, j) # Lane(i, k) => list[j].node.writes \cap list[k].node.writes \cap Scope(i) = {}
         /\ list[i].kind = "iterate" => list[j].node.writes \cap Scope(i) = {}
=============================================================================
