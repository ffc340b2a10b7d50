--------------------------- MODULE DynamicRevision ---------------------------
(***************************************************************************)
(* Dynamic includes and the execution graph.                               *)
(*                                                                         *)
(* A dynamic include names the runbook it runs only when it is reached.    *)
(* The engine pins what was chosen; the session coordinator then rebuilds, *)
(* from the frozen plan and all the pins so far, a revised plan and a      *)
(* cumulative graph, commits them as the segment's next revision, and the  *)
(* protocol consumer publishes the graph and gives every event of a child  *)
(* step the graph node of the invocation it belongs to.  The graph is      *)
(* never edited: every revision is computed anew, also by a process that   *)
(* restarted from the last revised plan.                                   *)
(*                                                                         *)
(* Sources: sessioncoordinator/dynamic_revision.go, handoff_graph.go,      *)
(* tool_dynamic_revision.go, tool_graph.go, tool_projection.go,            *)
(* presentation_inspection.go, session_run_store.go, the pins and paths of *)
(* engine.go and adapter/wire.go, and cmd/yawr/stdio_graph.go.             *)
(*                                                                         *)
(* A step is [id, kind, arms]; an arm is [label, steps].  An include that  *)
(* is not resolved yet has kind "dynamic" and no arm.  Kind "each" is an   *)
(* iterate that runs its items concurrently, "tool" a tool step whose      *)
(* action is a frozen runbook, "again" a step that may fail and go back to *)
(* the first step.  A qualified node id is the sequence of step ids that   *)
(* leads to it; a digest is the value it digests.                          *)
(***************************************************************************)
EXTENDS Integers, Sequences, SequencesExt, FiniteSets, TLC

CONSTANTS Runbooks,     \* [flow, catalog]: a root flow and the flows its references may select
          Scoped,       \* the plan carries tool scopes
          Items,        \* items of an iterate
          MaxPins,      \* bound on the resolutions of a run
          MaxRepeats,   \* bound on the jumps back
          MaxRestarts,  \* bound on the restarts
          QueueSize     \* events the consumer may lag behind

VARIABLES
    runbook,    \* the runbook that runs
    plan,       \* the plan the process holds: [tree, meta]
    pins,       \* the committed resolutions, by revision
    finished,   \* the revisions whose include step has settled
    lanes,      \* the running frames: id -> frame
    opened,     \* structural paths of all frames begun
    segment,    \* the segment's latest revision: [tree, doc]
    queue,      \* events on their way to the protocol consumer
    view,       \* the published graph: [rev, doc, bindings]
    shown,      \* the last event sent: [event, node]
    refused,    \* a revision or a reload was refused
    repeats, restarts

vars == <<runbook, plan, pins, finished, lanes, opened, segment, queue, view, shown, refused, repeats, restarts>>

---------------------------------------------------------------------------
(* The materialized plan: the flat steps of a tree.                        *)

\* Folds a sequence from the left.
Fold(Op(_, _), base, seq) ==
    LET upTo[i \in 0 .. Len(seq)] == IF i = 0 THEN base ELSE Op(upTo[i - 1], seq[i])
    IN upTo[Len(seq)]

\* <<Op(1), ..., Op(n)>>
Build(n, Op(_)) == Fold(LAMBDA acc, i : Append(acc, Op(i)), <<>>, [i \in 1 .. n |-> i])

Kind(n) == IF n.kind = "dynamic" THEN "include"
           ELSE IF n.kind = "each" THEN "iterate"
           ELSE n.kind

\* Only the arms of a branch or of a parallel step carry a label.
Labelled(n) == n.kind \in {"branch", "parallel"}

ArmLabel(n, a) == IF Labelled(n) THEN a.label ELSE ""

RECURSIVE appendFlow(_, _, _, _)
\* A tool's frozen runbook is not part of the plan's steps.
appendFlow(nodes, depth, parent, label) ==
    Fold(LAMBDA acc, n :
                 acc \o <<[id |-> n.id, kind |-> Kind(n), node |-> n,
                           depth |-> depth, parent |-> parent, label |-> label]>>
                     \o IF n.kind = "tool" THEN <<>>
                        ELSE Fold(LAMBDA sub, a :
                                 sub \o appendFlow(a.steps, depth + 1, n.id, ArmLabel(n, a)),
                                 <<>>, n.arms),
             <<>>, nodes)

FinalizeMaterializedPlan(tree) == appendFlow(tree, 0, "", "")

\* The deepest earlier step with the parent's id, the latest among equals.
handoffPlanParentIndex(steps, i) ==
    LET above == {j \in 1 .. (i - 1) : /\ steps[j].id = steps[i].parent
                                       /\ steps[j].depth < steps[i].depth}
    IN CHOOSE j \in above : \A k \in above :
           \/ steps[k].depth < steps[j].depth
           \/ (steps[k].depth = steps[j].depth /\ k <= j)

RECURSIVE ancestors(_, _)
ancestors(steps, i) ==
    IF steps[i].parent = "" THEN <<>>
    ELSE LET p == handoffPlanParentIndex(steps, i) IN Append(ancestors(steps, p), p)

\* Where a plan step sits: the containers around it, outermost first, each with
\* the label of the arm that leads on.
IdentityBelow(steps, up, i) ==
    LET ids(n) == [k \in 1 .. n |-> steps[up[k]].id]
        next(k) == IF k < Len(up) THEN up[k + 1] ELSE i
    IN [qid |-> Append(ids(Len(up)), steps[i].id),
        path |-> [k \in 1 .. Len(up) |-> [qid |-> ids(k), kind |-> steps[up[k]].kind,
                                          label |-> steps[next(k)].label]]]

planDynamicStructuralIdentity(steps, i) == IdentityBelow(steps, ancestors(steps, i), i)

\* A place of the plan has no iteration and no invocation: only these are compared.
Place(identity) == <<identity.qid, identity.kind, identity.label>>

sameDynamicPlanStructuralPath(actual, expected) ==
    /\ Len(actual) = Len(expected)
    /\ \A k \in DOMAIN actual : Place(actual[k]) = Place(expected[k])

---------------------------------------------------------------------------
(* Applying a pin to a plan.                                               *)

Body(flow) == <<[label |-> "", steps |-> flow]>>

RECURSIVE clearDynamicFlow(_)
clearDynamicFlow(nodes) ==
    Fold(LAMBDA acc, n :
                 Append(acc, IF n.kind = "dynamic" THEN [n EXCEPT !.arms = <<>>]
                             ELSE IF n.kind = "tool" THEN n
                             ELSE [n EXCEPT !.arms =
                                      Fold(LAMBDA as, a : Append(as, [a EXCEPT !.steps = clearDynamicFlow(a.steps)]),
                                               <<>>, n.arms)]),
             <<>>, nodes)

\* Mutant: the base keeps what was materialized inside a container.
baseDynamicRevisionPlanRootOnly(p) ==
    [ok |-> p.ok, meta |-> <<>>,
     tree |-> Fold(LAMBDA acc, n : Append(acc, IF n.kind = "dynamic" THEN [n EXCEPT !.arms = <<>>] ELSE n),
                       <<>>, p.tree)]

baseDynamicRevisionPlan(p) == [ok |-> p.ok, tree |-> clearDynamicFlow(p.tree), meta |-> <<>>]

RECURSIVE attachDynamicPinInFlow(_, _, _, _)
\* The container's own entry of the path keeps the label of the arm it stands in,
\* unless it is a branch or a parallel step, whose entry takes the arm's.
attachDynamicPinInFlow(nodes, path, label, pin) ==
    Fold(LAMBDA acc, n :
        LET qid == Append(IF path = <<>> THEN <<>> ELSE Last(path).qid, n.id)
            here == /\ n.kind = "dynamic" /\ pin.qid = qid
                    /\ IF path = <<>> THEN pin.path = <<>>
                       ELSE pin.path # <<>> => sameDynamicPlanStructuralPath(pin.path, path)
            arms == IF here THEN Body(pin.flow) ELSE IF n.kind = "tool" THEN <<>> ELSE n.arms
            entry(a) == [qid |-> qid, kind |-> Kind(n), label |-> IF Labelled(n) THEN a.label ELSE label]
            sub == Fold(LAMBDA s, a :
                       LET inner == attachDynamicPinInFlow(a.steps, Append(path, entry(a)), ArmLabel(n, a), pin)
                       IN [matches |-> s.matches + inner.matches,
                           arms |-> Append(s.arms, [a EXCEPT !.steps = inner.nodes])],
                       [matches |-> 0, arms |-> <<>>], arms)
        IN [matches |-> acc.matches + (IF here THEN 1 ELSE 0) + sub.matches,
            nodes |-> Append(acc.nodes, IF n.kind = "tool" THEN n ELSE [n EXCEPT !.arms = sub.arms])],
        [matches |-> 0, nodes |-> <<>>], nodes)

dynamicRevisionParents(steps, pin) ==
    {i \in DOMAIN steps :
        /\ steps[i].id = Last(pin.qid)
        /\ steps[i].kind = "include"
        /\ \E site \in {planDynamicStructuralIdentity(steps, i)} :
              /\ site.qid = pin.qid
              /\ pin.path # <<>> => sameDynamicPlanStructuralPath(pin.path, site.path)}

Refusal == [ok |-> FALSE, tree |-> <<>>, meta |-> <<>>]

\* A pin inside the frozen runbook of tool step i, relative to that runbook.
PinBelow(site, pin) ==
    LET depth == Len(site.qid)
        owner == Append(site.path, [qid |-> site.qid, kind |-> "tool-substitution", label |-> ""])
    IN IF ~IsStrictPrefix(site.qid, pin.qid) THEN [status |-> "elsewhere"]
       ELSE IF \/ Len(pin.path) < Len(owner)
               \/ ~sameDynamicPlanStructuralPath(SubSeq(pin.path, 1, Len(owner)), owner)
            THEN [status |-> "error"]
       ELSE [status |-> "match",
             pin |-> [pin EXCEPT
                 !.qid = SubSeq(@, depth + 1, Len(@)),
                 !.path = [k \in 1 .. (Len(@) - Len(owner)) |->
                              [@[k + Len(owner)] EXCEPT !.qid = SubSeq(@, depth + 1, Len(@))]]]]

toolRelativeDynamicPin(steps, i, pin) == PinBelow(planDynamicStructuralIdentity(steps, i), pin)

frozenToolProjection(step) == [ok |-> TRUE, tree |-> step.node.arms[1].steps, meta |-> <<>>]

RECURSIVE applyDynamicRevisionPin(_, _)
RECURSIVE applyFrozenToolProjectionPins(_, _, _)

applyFrozenToolProjectionPins(steps, i, owned) ==
    LET Project(acc, local) ==
            IF ~acc.ok \/ local.status = "error" THEN Refusal
            ELSE IF local.status = "match" THEN applyDynamicRevisionPin(acc, local.pin)
            ELSE acc
    IN Fold(LAMBDA acc, pin : Project(acc, toolRelativeDynamicPin(steps, i, pin)),
            frozenToolProjection(steps[i]), owned)

\* A pin that belongs to no step of the plan must belong to a tool's frozen runbook.
validateDynamicToolRevisionPin(p, steps, pin) ==
    LET tools == {i \in DOMAIN steps : steps[i].kind = "tool"}
    IN \E local \in {[i \in tools |-> toolRelativeDynamicPin(steps, i, pin)]} : \E first \in tools :
         /\ local[first].status = "match"
         /\ \A j \in tools : j < first => local[j].status = "elsewhere"
         /\ \E projection \in {applyFrozenToolProjectionPins(steps, first, p.meta)} :
              projection.ok /\ applyDynamicRevisionPin(projection, local[first].pin).ok

applyDynamicRevisionPin(p, pin) ==
    LET Apply(steps, at, put) ==
            IF ~p.ok THEN Refusal
            ELSE IF at = {} /\ Scoped
                 THEN IF validateDynamicToolRevisionPin(p, steps, pin)
                      THEN [p EXCEPT !.meta = Append(@, pin)] ELSE Refusal
            ELSE IF \/ Cardinality(at) # 1
                    \/ \E i \in at : steps[i].node.kind # "dynamic"
                    \/ put.matches # 1
                 THEN Refusal
            ELSE [p EXCEPT !.tree = put.nodes, !.meta = Append(@, pin)]
        Of(steps) == Apply(steps, dynamicRevisionParents(steps, pin), attachDynamicPinInFlow(p.tree, <<>>, "", pin))
    IN Of(FinalizeMaterializedPlan(p.tree))

---------------------------------------------------------------------------
(* Which pin ran inside which, and which pins the plan keeps.              *)

Ambiguous == 0 - 1

\* Mutant: the place of the enclosing include is compared, not the invocation.
dynamicParentPinIndexBySite(prior, pin) ==
    LET at == {j \in DOMAIN prior : \E k \in DOMAIN pin.path :
                   pin.path[k].kind = "include" /\ prior[j].qid = pin.path[k].qid}
    IN IF at = {} THEN 0 ELSE CHOOSE j \in at : \A m \in at : m <= j

\* The pin of the invocation that `pin` ran in: the innermost include of its path
\* that is one of the earlier pins, at the same place and in the same invocation.
dynamicParentPinIndex(prior, pin) ==
    LET at(k) == {j \in DOMAIN prior :
                     /\ prior[j].qid = pin.path[k].qid
                     /\ pin.path[k].inv > 0 => prior[j].inv = pin.path[k].inv
                     /\ prior[j].path = SubSeq(pin.path, 1, k - 1)}
        known == {k \in DOMAIN pin.path : pin.path[k].kind = "include" /\ at(k) # {}}
        inner == CHOOSE k \in known : \A m \in known : m <= k
        above == {j \in DOMAIN prior : IsStrictPrefix(prior[j].qid, pin.qid)}
        longest == {j \in above : \A m \in above : Len(prior[m].qid) <= Len(prior[j].qid)}
        only(set) == IF Cardinality(set) = 1 THEN CHOOSE j \in set : TRUE ELSE Ambiguous
    IN IF known # {} THEN only(at(inner))
       ELSE IF above # {} THEN only(longest)
       ELSE 0

RECURSIVE dynamicPinLineage(_, _)
\* From the outermost pin to the k-th; empty when an ancestor is ambiguous.
dynamicPinLineage(all, k) ==
    LET Below(p, up) == IF p = Ambiguous \/ (p > 0 /\ up = <<>>) THEN <<>> ELSE Append(up, k)
        From(p) == Below(p, IF p > 0 THEN dynamicPinLineage(all, p) ELSE <<>>)
    IN From(dynamicParentPinIndex(SubSeq(all, 1, k - 1), all[k]))

dynamicPlanSiteKey(pin) == <<pin.qid, [k \in DOMAIN pin.path |-> Place(pin.path[k])]>>

\* The plan holds one pin per site: from the newest back, every lineage that
\* agrees with what is already kept.
selectedDynamicRevisionResolutions(all) ==
    LET Keep(kept, k) ==
            LET lineage == ToSet(dynamicPinLineage(all, k))
                clash == \E j \in lineage, m \in kept :
                             m # j /\ dynamicPlanSiteKey(all[m]) = dynamicPlanSiteKey(all[j])
            IN IF clash THEN kept ELSE kept \cup lineage
    IN Fold(Keep, {}, [i \in 1 .. Len(all) |-> Len(all) + 1 - i])

---------------------------------------------------------------------------
(* The graph of one plan.                                                  *)

Invisible == {"parallel", "compensate"}    \* containers that plan node ids skip

NodeIds(steps) ==
    LET Of(i) == LET up == SelectSeq(ancestors(steps, i), LAMBDA j : steps[j].kind \notin Invisible)
                 IN Append(Build(Len(up), LAMBDA k : steps[up[k]].id), steps[i].id)
    IN Build(Len(steps), Of)

Rendered(step) == step.kind = "include" /\ step.node.arms # <<>>

NoGroup == [of |-> <<>>, arm |-> 0]

handoffStructuralArmIndex(parent, child) ==
    IF Labelled(parent.node)
    THEN CHOOSE a \in DOMAIN parent.node.arms :
             \E m \in DOMAIN parent.node.arms[a].steps : parent.node.arms[a].steps[m].id = child.id
    ELSE 1

expectedHandoffNodeGroup(steps, ids, i) ==
    IF steps[i].parent = "" THEN NoGroup
    ELSE LET p == handoffPlanParentIndex(steps, i)
         IN [of |-> ids[p], arm |-> handoffStructuralArmIndex(steps[p], steps[i])]

\* The frame of a step is the innermost include around it.
FrameOf(steps, ids, i) ==
    LET up == SelectSeq(ancestors(steps, i), LAMBDA j : Rendered(steps[j]))
    IN IF up = <<>> THEN <<>> ELSE ids[Last(up)]

\* The first node of a group hangs under the group's parent, every other node under
\* the one before it in the same group (or in the root frame).
expectedDynamicGraphEdges(nodes) ==
    UNION {LET before == {j \in 1 .. (i - 1) : nodes[j].group = nodes[i].group}
           IN IF before # {}
              THEN {[from |-> nodes[CHOOSE j \in before : \A k \in before : k <= j].id,
                     to |-> nodes[i].id]}
              ELSE IF nodes[i].group # NoGroup
              THEN {[from |-> nodes[i].group.of, to |-> nodes[i].id]}
              ELSE {} : i \in DOMAIN nodes}

expectedHandoffGraphGroups(steps, ids) ==
    UNION {{[id |-> [of |-> ids[i], arm |-> a],
             frame |-> IF steps[i].kind = "include" THEN ids[i] ELSE FrameOf(steps, ids, i)]
            : a \in IF steps[i].kind = "tool" THEN {} ELSE DOMAIN steps[i].node.arms} : i \in DOMAIN steps}

\* Merges the graph of a tool's frozen runbook under the tool's node.
appendToolInvocationGraph(doc, child, id, rid) ==
    LET moved(g) == IF g = NoGroup THEN [of |-> id, arm |-> 1] ELSE [g EXCEPT !.of = id \o @]
        top == {j \in DOMAIN child.nodes : child.nodes[j].group = NoGroup}
    IN [ok |-> doc.ok /\ child.ok,
        nodes |-> doc.nodes \o Build(Len(child.nodes), LAMBDA j :
                      LET n == child.nodes[j]
                      IN [id |-> id \o n.id, rid |-> rid \o n.rid,
                          group |-> moved(n.group), frame |-> id \o n.frame]),
        frames |-> doc.frames \cup {id \o f : f \in child.frames},
        groups |-> doc.groups \cup {[id |-> [of |-> id, arm |-> 1], frame |-> id]}
                       \cup {[id |-> moved(g.id), frame |-> id \o g.frame] : g \in child.groups},
        edges |-> doc.edges
                       \cup {[from |-> id \o e.from, to |-> id \o e.to] : e \in child.edges}
                       \cup {[from |-> id, to |-> id \o child.nodes[j].id]
                             : j \in {j \in top : \A k \in top : j <= k}}]

NoGraph == [ok |-> FALSE, nodes |-> <<>>, frames |-> {}, groups |-> {}, edges |-> {}]

RECURSIVE executionPlanGraphCurrentVersion(_)
executionPlanGraphCurrentVersion(p) ==
    LET Own(steps, ids, nodes) ==
            [ok |-> p.ok, nodes |-> nodes,
             frames |-> {<<>>} \cup {ids[i] : i \in {j \in DOMAIN steps : Rendered(steps[j])}},
             groups |-> expectedHandoffGraphGroups(steps, ids),
             edges |-> expectedDynamicGraphEdges(nodes)]
        Of(steps, ids, rids) ==
            Fold(LAMBDA doc, i : appendToolInvocationGraph(doc,
                     executionPlanGraphCurrentVersion(applyFrozenToolProjectionPins(steps, i, p.meta)), ids[i], rids[i]),
                 Own(steps, ids, Build(Len(steps), LAMBDA i :
                     [id |-> ids[i], rid |-> rids[i], group |-> expectedHandoffNodeGroup(steps, ids, i),
                      frame |-> FrameOf(steps, ids, i)])),
                 SelectSeq([i \in DOMAIN steps |-> i], LAMBDA i : Scoped /\ steps[i].kind = "tool"))
        Named(steps, ids) ==
            Of(steps, ids, IF Scoped THEN [i \in DOMAIN steps |-> planDynamicStructuralIdentity(steps, i).qid] ELSE ids)
        All(steps) == Named(steps, NodeIds(steps))
    IN IF ~p.ok THEN NoGraph ELSE All(FinalizeMaterializedPlan(p.tree))

---------------------------------------------------------------------------
(* The cumulative graph: the base graph and one copy per resolution.       *)

\* A graph id of revision r: `at` is its id in the graph of one plan.  Revision 0
\* is the base graph, whose ids are kept as they are.
Id(r, at) == [rev |-> r, at |-> at]

GroupId(r, g) == [rev |-> r, of |-> g.of, arm |-> g.arm]

Lift(doc) ==
    [ok |-> doc.ok,
     nodes |-> Build(Len(doc.nodes), LAMBDA i :
                   [id |-> Id(0, doc.nodes[i].id), rid |-> doc.nodes[i].rid,
                    group |-> GroupId(0, doc.nodes[i].group), frame |-> Id(0, doc.nodes[i].frame)]),
     frames |-> {[id |-> Id(0, f), parent |-> Id(0, f)] : f \in doc.frames},
     groups |-> {[id |-> GroupId(0, g.id), parent |-> Id(0, g.id.of), frame |-> Id(0, g.frame)] : g \in doc.groups},
     edges |-> {[from |-> Id(0, e.from), to |-> Id(0, e.to)] : e \in doc.edges}]

\* The nodes below the include that pin r resolved get ids of their own; those that
\* hang under the include hang under the node of the invocation it belongs to.
appendDynamicOccurrenceGraph(doc, current, pin, r, parentRev) ==
    LET roots == {i \in DOMAIN current.nodes : current.nodes[i].rid = pin.qid}
        root == current.nodes[CHOOSE i \in roots : TRUE].id
        sites == {i \in DOMAIN doc.nodes : doc.nodes[i].id.rev = parentRev /\ doc.nodes[i].rid = pin.qid}
        parent == IF parentRev = 0 THEN Id(0, root) ELSE doc.nodes[CHOOSE i \in sites : TRUE].id
        below(at) == IsStrictPrefix(root, at)
        inside(at) == at = root \/ below(at)
        mapped(at) == IF at = root THEN parent ELSE IF below(at) THEN Id(r, at) ELSE Id(0, at)
        new == SelectSeq(current.nodes, LAMBDA n : below(n.id))
    IN IF \/ ~doc.ok \/ ~current.ok
          \/ Cardinality(roots) # 1
          \/ parentRev > 0 /\ sites = {}
          \/ \E i, j \in DOMAIN new : i # j /\ new[i].rid = new[j].rid
       THEN [doc EXCEPT !.ok = FALSE]
       ELSE [ok |-> TRUE,
             nodes |-> doc.nodes \o Build(Len(new), LAMBDA i :
                           [id |-> Id(r, new[i].id), rid |-> new[i].rid,
                            group |-> GroupId(r, new[i].group), frame |-> Id(r, new[i].frame)]),
             frames |-> doc.frames \cup
                 {[id |-> Id(r, f), parent |-> mapped(f)] : f \in {f \in current.frames : inside(f)}},
             groups |-> doc.groups \cup
                 {[id |-> GroupId(r, g.id), parent |-> mapped(g.id.of), frame |-> Id(r, g.frame)]
                  : g \in {g \in current.groups : inside(g.frame)}},
             edges |-> doc.edges \cup
                 {[from |-> mapped(e.from), to |-> Id(r, e.to)]
                  : e \in {e \in current.edges : below(e.to) /\ inside(e.from)}}]

\* Every frame, group, node and edge must name parts of the document.
graphDocumentFromHandoffGraph(doc) ==
    LET nodes == {doc.nodes[i].id : i \in DOMAIN doc.nodes}
        frames == {f.id : f \in doc.frames}
        groups == {g.id : g \in doc.groups}
    IN /\ doc.ok
       /\ Cardinality(nodes) = Len(doc.nodes)
       /\ \A f \in doc.frames : f.id = Id(0, <<>>) \/ f.parent \in nodes
       /\ \A g \in doc.groups : g.parent \in nodes /\ g.frame \in frames
       /\ \A i \in DOMAIN doc.nodes : /\ doc.nodes[i].frame \in frames
                                      /\ \/ doc.nodes[i].group = GroupId(0, NoGroup)
                                         \/ doc.nodes[i].group \in groups
       /\ \A e \in doc.edges : e.from \in nodes /\ e.to \in nodes

executionPlanGraph(p) ==
    LET Along(lineage) == Fold(LAMBDA q, k : applyDynamicRevisionPin(q, p.meta[k]), baseDynamicRevisionPlan(p), lineage)
        Occurrence(doc, r, lineage, current) ==
            IF r = 0 THEN Lift(current)
            ELSE IF ~doc.ok \/ lineage = <<>> THEN [doc EXCEPT !.ok = FALSE]
            ELSE appendDynamicOccurrenceGraph(doc, current, p.meta[r], r,
                     IF Len(lineage) > 1 THEN lineage[Len(lineage) - 1] ELSE 0)
        Grown(doc, r, lineage) == Occurrence(doc, r, lineage, executionPlanGraphCurrentVersion(Along(lineage)))
        Checked(doc) == [doc EXCEPT !.ok = graphDocumentFromHandoffGraph(doc)]
    IN Checked(Fold(LAMBDA doc, r : Grown(doc, r, IF r = 0 THEN <<>> ELSE dynamicPinLineage(p.meta, r)),
                    NoGraph, [i \in 1 .. (Len(p.meta) + 1) |-> i - 1]))

\* Which node stands for which step of which invocation.
Bindings(p, doc) ==
    [i \in DOMAIN doc.nodes |->
        LET r == doc.nodes[i].id.rev
        IN [node |-> doc.nodes[i].id, qid |-> doc.nodes[i].rid,
            path |-> IF r = 0 THEN <<>>
                     ELSE Append(p.meta[r].path,
                              [qid |-> p.meta[r].qid, kind |-> "include", label |-> "",
                               iter |-> 0, inv |-> p.meta[r].inv])]]

\* The plan of the newest revision: the base with the selected pins applied.
dynamicRevisionPlan(p, all) ==
    LET kept == selectedDynamicRevisionResolutions(all)
        order == SelectSeq([k \in DOMAIN all |-> k], LAMBDA k : k \in kept)
        usable == \A k \in DOMAIN all : dynamicPinLineage(all, k) # <<>>
        revised == Fold(LAMBDA q, k : applyDynamicRevisionPin(q, all[k]),
                            baseDynamicRevisionPlan(p), order)
    IN IF usable /\ revised.ok THEN [revised EXCEPT !.meta = all] ELSE Refusal

---------------------------------------------------------------------------
(* The run: frames, pins and the events the steps send.                    *)

Init ==
    /\ runbook \in Runbooks
    /\ plan = [ok |-> TRUE, tree |-> runbook.flow, meta |-> <<>>]
    /\ lanes = (1 :> [path |-> <<>>, at |-> <<>>, all |-> runbook.flow, rest |-> runbook.flow,
                      up |-> 0, iter |-> 0, pin |-> 0, occ |-> 0])
    /\ segment = [tree |-> runbook.flow, doc |-> executionPlanGraph(plan)]
    /\ pins = <<>> /\ finished = {} /\ opened = {} /\ queue = <<>>
    /\ view = [rev |-> 0 - 1, doc |-> NoGraph, bindings |-> <<>>]
    /\ shown = <<>>
    /\ refused = FALSE /\ repeats = 0 /\ restarts = 0

Busy(l) == \E m \in DOMAIN lanes : lanes[m].up = l

Head1(l) == Head(lanes[l].rest)

\* Lane l is at a step of one of these kinds and its event can be queued.
At(l, kinds) ==
    /\ ~refused
    /\ ~Busy(l)
    /\ lanes[l].rest # <<>>
    /\ Head1(l).kind \in kinds
    /\ Len(queue) < QueueSize

\* step/started carries the qualified node id and the structural path.
Started(l) ==
    queue' = Append(queue, [qid |-> Append(lanes[l].at, Head1(l).id), path |-> lanes[l].path,
                            occ |-> lanes[l].occ])

Pop(l) == lanes' = [lanes EXCEPT ![l].rest = Tail(@), ![l].iter = 0, ![l].pin = 0]

FreeIds(n) == LET free == (1 .. (Cardinality(DOMAIN lanes) + n)) \ DOMAIN lanes
              IN SetToSortSeq(free, <)

\* A frame begins under lane l, with the next invocation of its place and iteration.
Frame(l, kind, label, iter, flow, occ) ==
    LET lane == lanes[l]
        qid == Append(lane.at, Head1(l).id)
        same == {p \in opened : /\ Front(p) = lane.path
                                /\ Last(p).qid = qid /\ Last(p).kind = kind
                                /\ Last(p).label = label /\ Last(p).iter = iter}
        entry == [qid |-> qid, kind |-> kind, label |-> label, iter |-> iter, inv |-> Cardinality(same) + 1]
    IN [path |-> Append(lane.path, entry), at |-> qid, all |-> flow, rest |-> flow,
        up |-> l, iter |-> 0, pin |-> 0, occ |-> occ]

\* Begins the frames of a sequence together.
Begin(l, frames, iter) ==
    LET ids == FreeIds(Len(frames))
        new == {ids[k] : k \in DOMAIN frames}
    IN /\ lanes' = [m \in DOMAIN lanes \cup new |->
                       IF m \in new THEN frames[CHOOSE k \in DOMAIN frames : ids[k] = m]
                       ELSE IF m = l THEN [lanes[m] EXCEPT !.iter = iter] ELSE lanes[m]]
       /\ opened' = opened \cup {frames[k].path : k \in DOMAIN frames}

\* A plain step; "again" may also fail into a jump to the first step.
ExecuteStep(l) ==
    /\ At(l, {"noop", "again"})
    /\ Started(l)
    /\ \/ Pop(l) /\ UNCHANGED repeats
       \/ /\ Head1(l).kind = "again" /\ repeats < MaxRepeats
          /\ repeats' = repeats + 1
          /\ lanes' = [lanes EXCEPT ![l].rest = lanes[l].all, ![l].iter = 0, ![l].pin = 0]
    /\ UNCHANGED <<runbook, plan, pins, finished, opened, segment, view, shown, refused, restarts>>

\* The frames a container begins: one, or one per item or arm.
ContainerFrames(l, n) ==
    LET occ == lanes[l].occ
        one(kind, label, iter, flow) == {<<Frame(l, kind, label, iter, flow, occ)>>}
    IN CASE n.kind = "include" -> one("include", "", 0, n.arms[1].steps)
         [] n.kind = "tool"    -> one("tool-substitution", "", 0, n.arms[1].steps)
         [] n.kind = "branch"  -> UNION {one("branch", n.arms[a].label, 0, n.arms[a].steps) : a \in DOMAIN n.arms}
         [] n.kind = "iterate" -> one("iterate", "", 1, n.arms[1].steps)
         [] n.kind = "each"    -> {[i \in 1 .. Items |-> Frame(l, "iterate", "", i, n.arms[1].steps, occ)]}
         [] n.kind = "parallel" ->
                {[a \in DOMAIN n.arms |->
                     Frame(l, "parallel", IF n.arms[a].label = "" THEN "branch-" \o ToString(a - 1)
                                          ELSE n.arms[a].label, 0, n.arms[a].steps, occ)]}

EnterContainer(l) ==
    /\ At(l, {"include", "tool", "branch", "iterate", "each", "parallel"})
    /\ lanes[l].iter = 0
    /\ Started(l)
    /\ \E frames \in ContainerFrames(l, Head1(l)) : Begin(l, frames, 1)
    /\ UNCHANGED <<runbook, plan, pins, finished, segment, view, shown, refused, repeats, restarts>>

\* A sequential iterate begins the frame of its next item.
NextItem(l) ==
    /\ ~refused /\ ~Busy(l)
    /\ lanes[l].rest # <<>> /\ Head1(l).kind = "iterate"
    /\ lanes[l].iter \in 1 .. (Items - 1)
    /\ Begin(l, <<Frame(l, "iterate", "", lanes[l].iter + 1, Head1(l).arms[1].steps, lanes[l].occ)>>, lanes[l].iter + 1)
    /\ UNCHANGED <<runbook, plan, pins, finished, segment, queue, view, shown, refused, repeats, restarts>>

\* The frames of a container are done: its step settles.
LeaveContainer(l) ==
    /\ ~refused /\ ~Busy(l)
    /\ lanes[l].rest # <<>>
    /\ lanes[l].iter >= IF Head1(l).kind = "iterate" THEN Items ELSE 1
    /\ Pop(l)
    /\ finished' = finished \cup ({lanes[l].pin} \ {0})
    /\ UNCHANGED <<runbook, plan, pins, opened, segment, queue, view, shown, refused, repeats, restarts>>

EndFrame(l) ==
    /\ ~refused /\ ~Busy(l)
    /\ lanes[l].rest = <<>> /\ lanes[l].up # 0
    /\ lanes' = [m \in DOMAIN lanes \ {l} |-> lanes[m]]
    /\ UNCHANGED <<runbook, plan, pins, finished, opened, segment, queue, view, shown, refused, repeats, restarts>>

---------------------------------------------------------------------------
(* Dynamic includes.                                                       *)

ActivePin(l) ==
    {r \in DOMAIN pins \ finished :
        pins[r].qid = Append(lanes[l].at, Head1(l).id) /\ pins[r].path = lanes[l].path}

\* The segment's next revision; it is refused when the plan or its graph is.
Revision(revised, doc) == [ok |-> revised.ok /\ doc.ok, tree |-> revised.tree, doc |-> doc]
RevisionOf(revised) == Revision(revised, executionPlanGraph(revised))
commitDynamicSegmentRevision(all) == RevisionOf(dynamicRevisionPlan(plan, all))

\* The pin takes the next invocation of its site in this frame and the next revision,
\* and the save commits the segment's revision before the checkpoint.
CommitResolution(l) ==
    /\ At(l, {"dynamic"})
    /\ lanes[l].pin = 0
    /\ ActivePin(l) = {}
    /\ Len(pins) < MaxPins
    /\ Started(l)
    /\ \E flow \in runbook.catalog :
         LET qid == Append(lanes[l].at, Head1(l).id)
             inv == 1 + Cardinality({r \in DOMAIN pins : pins[r].qid = qid /\ pins[r].path = lanes[l].path})
             all == Append(pins, [qid |-> qid, path |-> lanes[l].path, inv |-> inv, flow |-> flow,
                                  occ |-> lanes[l].occ])
         IN \E revision \in {commitDynamicSegmentRevision(all)} :
              /\ refused' = ~revision.ok
              /\ IF revision.ok
                 THEN /\ pins' = all
                      /\ segment' = [tree |-> revision.tree, doc |-> revision.doc]
                      /\ lanes' = [lanes EXCEPT ![l].pin = Len(all)]
                 ELSE UNCHANGED <<pins, segment, lanes>>
    /\ UNCHANGED <<runbook, plan, finished, opened, view, shown, repeats, restarts>>

\* After a restart the include step runs again and finds its pin.
LookupResolution(l) ==
    /\ At(l, {"dynamic"})
    /\ lanes[l].pin = 0
    /\ \E r \in ActivePin(l) : lanes' = [lanes EXCEPT ![l].pin = r]
    /\ Started(l)
    /\ UNCHANGED <<runbook, plan, pins, finished, opened, segment, view, shown, refused, repeats, restarts>>

EnterPinned(l) ==
    /\ ~refused /\ ~Busy(l)
    /\ lanes[l].rest # <<>> /\ Head1(l).kind = "dynamic"
    /\ lanes[l].pin # 0 /\ lanes[l].iter = 0
    /\ LET r == lanes[l].pin
       IN Begin(l, <<Frame(l, "include", "", 0, pins[r].flow, r)>>, 1)
    /\ UNCHANGED <<runbook, plan, pins, finished, segment, queue, view, shown, refused, repeats, restarts>>

---------------------------------------------------------------------------
(* Publication and restart.                                                *)

\* The last binding whose path the event's path begins with.
graphNodeID(event, bindings) ==
    LET fit == {i \in DOMAIN bindings : /\ bindings[i].qid = event.qid
                                        /\ IsPrefix(bindings[i].path, event.path)}
    IN IF fit = {} THEN Id(0, event.qid)
       ELSE bindings[CHOOSE i \in fit : \A k \in fit : k <= i].node

\* The graph of a plan with its bindings, at the revision of its pins.
ViewWith(revised, doc) == [rev |-> Len(pins), doc |-> doc, bindings |-> Bindings(revised, doc)]
ViewOf(revised) == ViewWith(revised, executionPlanGraph(revised))

\* The consumer publishes the graph of the run's state of now, which may be ahead
\* of the event, and then sends the event with its node.
SendGraphEvent ==
    /\ queue # <<>> /\ ~refused
    /\ view' = IF view.rev >= Len(pins) THEN view
               ELSE ViewOf(IF pins = <<>> THEN plan ELSE dynamicRevisionPlan(plan, pins))
    /\ shown' = <<[event |-> Head(queue), node |-> graphNodeID(Head(queue), view'.bindings)]>>
    /\ refused' = ~view'.doc.ok
    /\ queue' = Tail(queue)
    /\ UNCHANGED <<runbook, plan, pins, finished, lanes, opened, segment, repeats, restarts>>

\* A step that was resolving its reference begins again, and finds its pin.
alignRunStateSnapshotWithPlan(lane) == IF lane.iter = 0 THEN [lane EXCEPT !.pin = 0] ELSE lane

\* A new process takes the segment's revised plan and the journalled resolutions, also
\* one whose revision was committed and whose checkpoint was not.
Restart ==
    /\ ~refused /\ restarts < MaxRestarts
    /\ restarts' = restarts + 1
    /\ plan' = [ok |-> TRUE, tree |-> segment.tree, meta |-> pins]
    /\ lanes' = [l \in DOMAIN lanes |-> alignRunStateSnapshotWithPlan(lanes[l])]
    /\ queue' = <<>>
    /\ view' = [rev |-> 0 - 1, doc |-> NoGraph, bindings |-> <<>>]
    /\ shown' = <<>>
    /\ UNCHANGED <<runbook, pins, finished, opened, segment, refused, repeats>>

Next ==
    \/ \E l \in DOMAIN lanes :
          \/ ExecuteStep(l) \/ EnterContainer(l) \/ NextItem(l) \/ LeaveContainer(l) \/ EndFrame(l)
          \/ CommitResolution(l) \/ LookupResolution(l) \/ EnterPinned(l)
    \/ SendGraphEvent
    \/ Restart

Spec == Init /\ [][Next]_vars

---------------------------------------------------------------------------
(* Properties                                                              *)

\* A dynamic include below a container that stands in a labelled arm itself:
\* attachDynamicPinInFlow passes the arm's label on to that container's entry,
\* which no path of the engine carries.
LabelPassedOn(tree) ==
    \E steps \in {FinalizeMaterializedPlan(tree)} : \E i \in DOMAIN steps :
        /\ steps[i].node.kind = "dynamic"
        /\ \E k \in ToSet(ancestors(steps, i)) : steps[k].label # "" /\ ~Labelled(steps[k].node)

\* Whatever the order in which concurrent invocations resolve, repeat and nest, and
\* however far the consumer lags, the node sent with an event is a node of the
\* published graph that stands for that step in the very invocation that ran it,
\* and the copy of every invocation hangs under the site of the invocation that
\* resolved it.  The graph the process publishes is the one the session recorded, also
\* when it was restarted from a revised plan.  No resolution the engine makes is
\* refused a revision, and no reload, but for the includes above.
OccurrencesExact ==
    /\ refused => LabelPassedOn(segment.tree)
    /\ view.rev = Len(pins) => view.doc = segment.doc
    /\ \A k \in DOMAIN shown :
          /\ shown[k].node.rev = shown[k].event.occ
          /\ \E i \in DOMAIN view.doc.nodes : /\ view.doc.nodes[i].id = shown[k].node
                                              /\ view.doc.nodes[i].rid = shown[k].event.qid
    /\ \A r \in DOMAIN pins :
          \E f \in segment.doc.frames :
              /\ f.id.rev = r
              /\ f.parent.rev = pins[r].occ
              /\ \E i \in DOMAIN segment.doc.nodes : /\ segment.doc.nodes[i].id = f.parent
                                                     /\ segment.doc.nodes[i].rid = pins[r].qid

\* A revision only adds to the graph: every node keeps its id, its place in the
\* order, its group and its frame, also when another process computes it.
GraphExtends ==
    /\ IsPrefix(segment.doc.nodes, segment'.doc.nodes)
    /\ segment.doc.frames \subseteq segment'.doc.frames
    /\ segment.doc.groups \subseteq segment'.doc.groups
    /\ segment.doc.edges \subseteq segment'.doc.edges
=============================================================================
