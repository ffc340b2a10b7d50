------------------------------- MODULE Replay -------------------------------
(***************************************************************************)
(* Replay of a recorded run.  A run executes its lanes (the concurrent     *)
(* iterations or branches of one container; one lane is a serial run) and  *)
(* its trace names every occurrence by node, structural path and           *)
(* invocation.  Replay builds exact fixtures from that trace, refuses      *)
(* dependencies that drifted, and runs the same plan again, each boundary  *)
(* answered by the fixture of its own occurrence or by a boundary error.   *)
(* A reviewed pattern scenario answers commands and tools by their text.   *)
(*                                                                         *)
(* Data: a node stands for a step with its qualified id, its command line  *)
(* and its tool; the lane is the structural path; an outcome is the status *)
(* and the value a step ended with; the six digests of the dependency lock *)
(* are Fields, a version each, 0 for an empty one.                         *)
(***************************************************************************)
EXTENDS Integers, Sequences, SequencesExt, FiniteSets

CONSTANTS Programs,   \* plans: [lanes : Seq(Seq([node, kind])), handoff : BOOLEAN]
          Values,     \* what a step may return
          Fields,     \* the digests of a dependency lock
          None

VARIABLES program,    \* the plan
          phase,      \* "record", "recorded", "strict", "pattern" or an end of the replay
          lane,       \* per lane: the step it is at, its phase and its invocation
          count,      \* DebugInvocationTracker.counts
          includes,   \* dynamic include occurrences counted per node and path
          ran,        \* per lane: the outcomes of the recorded run and of the replay
          trace,      \* the events of the recorded run
          pins,       \* dynamic includes pinned by the recorded run
          lock,       \* the dependency lock in the recorded run's first event
          current,    \* the dependency lock of the frozen plan
          scenario,   \* fixtures, expected handoffs and commands of the replay
          consumed    \* keys of the fixtures already used
vars == <<program, phase, lane, count, includes, ran, trace, pins, lock, current, scenario, consumed>>

Lanes == DOMAIN program.lanes
Running == phase \in {"record", "strict", "pattern"}
Recording == phase = "record"
Site(l) == program.lanes[l][lane[l].i]
Nodes == UNION {UNION {{s.node : s \in Range(p.lanes[l])} : l \in DOMAIN p.lanes} : p \in Programs}
Done == \A l \in Lanes : lane[l].i > Len(program.lanes[l])
NoFixtures == [fixtures |-> {}, commands |-> <<>>, tools |-> <<>>, expected |-> <<>>]
Start == [l \in DOMAIN program.lanes |-> [i |-> 1, pc |-> "next", inv |-> 0]]
Empty == [l \in DOMAIN program.lanes |-> <<>>]

Init == /\ program \in Programs
        /\ phase = "record"
        /\ lane = Start
        /\ count = [n \in Nodes |-> 0]
        /\ includes = [x \in Nodes \X Lanes |-> 0]
        /\ ran = [record |-> Empty, replay |-> Empty]
        /\ trace = <<>>
        /\ pins = {}
        /\ lock \in {[f \in Fields |-> 1]} \cup {[[f \in Fields |-> 1] EXCEPT ![g] = 0] : g \in Fields}
        /\ current = lock
        /\ scenario = NoFixtures
        /\ consumed = {}

(***************************************************************************)
(* Occurrences.  executeStep numbers a step when it enters it: one counter *)
(* per qualified node, shared by every lane.  A dynamic include counts its *)
(* own occurrences per node and path.                                      *)
(***************************************************************************)
EnterStep(l) ==
    /\ Running
    /\ lane[l].i <= Len(program.lanes[l])
    /\ lane[l].pc = "next"
    /\ count' = [count EXCEPT ![Site(l).node] = @ + 1]
    /\ lane' = [lane EXCEPT ![l].pc = "boundary", ![l].inv = count[Site(l).node] + 1]
    /\ UNCHANGED <<program, phase, includes, ran, trace, pins, lock, current, scenario, consumed>>

\* Mutant: the occurrence forgets the structural path.
OccurrenceOfNode(l) == [node |-> Site(l).node, path |-> 1, inv |-> lane[l].inv]
Occurrence(l) == [node |-> Site(l).node, path |-> l, inv |-> lane[l].inv]
Include(l) == [node |-> Site(l).node, path |-> l, inv |-> includes[Site(l).node, l] + 1]

At(l, kinds) == /\ lane[l].i <= Len(program.lanes[l])
                /\ lane[l].pc = "boundary"
                /\ Site(l).kind \in kinds
Returns(l, outcome) ==
    /\ lane' = [lane EXCEPT ![l].pc = "next", ![l].i = @ + 1]
    /\ ran' = IF Recording THEN [ran EXCEPT !.record[l] = Append(@, outcome)]
              ELSE [ran EXCEPT !.replay[l] = Append(@, outcome)]

(***************************************************************************)
(* The recorded run.  What a boundary returned reaches the trace only in   *)
(* some forms: a wait that timed out, an approval that was denied and a    *)
(* prompt that was cancelled leave no answer behind (outcome None).        *)
(***************************************************************************)
Saves == {"cli", "tool", "manual", "prompt", "approve"}
Answers == {"choice", "decision", "collector", "host_action"}
Outcomes(kind) ==
    CASE kind \in Saves -> {"completed", "failed"} \X Values
      [] kind \in Answers \cup {"approval", "wait_for_event"} -> {"completed"} \X (Values \cup {None})
      [] kind = "include" -> {"completed", "skipped"} \X Values
      [] OTHER -> {<<"completed", None>>}

traceOccurrencePayload(l, outcome) ==
    LET kind == Site(l).kind
        event == [kind |-> kind, at |-> Occurrence(l), outcome |-> outcome]
    IN CASE kind \in {"approval", "wait_for_event"} -> IF outcome[2] = None THEN <<>> ELSE <<event>>
         [] kind \in Saves \cup Answers -> <<event>>
         [] kind = "include" -> IF outcome[1] = "skipped" THEN <<[event EXCEPT !.at = Include(l)]>> ELSE <<>>
         [] OTHER -> <<>>

RecordStep(l) ==
    /\ Recording
    /\ At(l, Saves \cup Answers \cup {"approval", "wait_for_event", "include", "assert"})
    /\ \E outcome \in Outcomes(Site(l).kind) :
          /\ Returns(l, outcome)
          /\ trace' = trace \o traceOccurrencePayload(l, outcome)
          /\ pins' = IF Site(l).kind = "include" /\ outcome[1] = "completed"
                     THEN pins \cup {[at |-> Include(l), outcome |-> outcome]} ELSE pins
    /\ includes' = IF Site(l).kind = "include" THEN [includes EXCEPT ![Site(l).node, l] = @ + 1] ELSE includes
    /\ UNCHANGED <<program, phase, count, lock, current, scenario, consumed>>

\* A plan may hand the run over once its lanes end; whether it does follows from what they returned.
Failed(outcomes) == \E l \in DOMAIN outcomes : \E i \in DOMAIN outcomes[l] : outcomes[l][i][1] = "failed"
HandsOver(outcomes) == program.handoff /\ Failed(outcomes)

RecordEnd ==
    /\ Recording
    /\ Done
    /\ phase' = "recorded"
    /\ trace' = IF HandsOver(ran.record) THEN Append(trace, [kind |-> "handoff"]) ELSE trace
    /\ UNCHANGED <<program, lane, count, includes, ran, pins, lock, current, scenario, consumed>>

\* A dependency of the plan is no longer the one the run had.
Drift == /\ phase = "recorded"
         /\ current = lock
         /\ \E f \in Fields : current' = [current EXCEPT ![f] = 2]
         /\ UNCHANGED <<program, phase, lane, count, includes, ran, trace, pins, lock, scenario, consumed>>

(***************************************************************************)
(* Building the scenario from the trace.  Every event of the source run    *)
(* must name a step of the frozen plan by a complete selector.             *)
(***************************************************************************)
replayStepSites == UNION {{[node |-> s.node, kind |-> s.kind] : s \in Range(program.lanes[l])} : l \in Lanes}
validateReplaySelector(at) == at.inv >= 1 /\ at.path \in Lanes
lookup(e) == [node |-> e.at.node, kind |-> e.kind] \in replayStepSites

EventsOf(kinds) == SelectSeq(trace, LAMBDA e : e.kind \in kinds)
NotFoundFixtures == Range(EventsOf({"include"}))
ReceivedFixtures == Range(EventsOf({"approval", "wait_for_event"}))
StepFixtures == Range(EventsOf(Saves \cup Answers))
Transitions == EventsOf({"handoff"})
\* interactionBindingFromTrace, hostActionBindingFromTrace: a result without its answer is refused.
BindingFromTrace(e) == e.kind \in Answers => e.outcome[2] # None

buildScenarioFromTrace ==
    /\ \A e \in NotFoundFixtures \cup ReceivedFixtures \cup StepFixtures :
          validateReplaySelector(e.at) /\ lookup(e) /\ BindingFromTrace(e)
    /\ scenario' = [fixtures |-> NotFoundFixtures \cup ReceivedFixtures \cup StepFixtures,
                    commands |-> <<>>, tools |-> <<>>, expected |-> Transitions]

validateStrictDependencyRecord == \A f \in Fields : lock[f] # 0
validateReplayDependencyLock == \A f \in Fields : current[f] = lock[f]

ReplayStarts(mode) ==
    /\ phase = "recorded"
    /\ phase' = mode
    /\ lane' = Start
    /\ count' = [n \in Nodes |-> 0]
    /\ includes' = [x \in Nodes \X Lanes |-> 0]
    /\ UNCHANGED <<program, ran, trace, pins, lock, current, consumed>>

ReplayFromTrace ==
    /\ validateStrictDependencyRecord
    /\ validateReplayDependencyLock
    /\ buildScenarioFromTrace
    /\ ReplayStarts("strict")

\* A pattern scenario file is a reviewed copy of the commands and tools, run only when asked for.
LoadScenario ==
    /\ scenario' = [NoFixtures EXCEPT !.commands = EventsOf({"cli"}), !.tools = EventsOf({"tool"})]
    /\ ReplayStarts("pattern")

(***************************************************************************)
(* A boundary of the strict replay.  Every kind looks its fixture up by    *)
(* the key of the occurrence it is at; a fixture serves once; two fixtures *)
(* with one key fail every step.                                           *)
(***************************************************************************)
replayBindingKey(kind, at) == <<kind, at>>
Matching(kind, at) == {f \in scenario.fixtures : replayBindingKey(f.kind, f.at) = replayBindingKey(kind, at)}
initErr == \E f, g \in scenario.fixtures : f # g /\ replayBindingKey(f.kind, f.at) = replayBindingKey(g.kind, g.at)
consume(kind, at) == ~initErr /\ replayBindingKey(kind, at) \notin consumed

BoundaryError == /\ phase' = "failed"
                 /\ UNCHANGED <<program, lane, count, includes, ran, trace, pins, lock, current, scenario, consumed>>

Serve(l) ==
    /\ phase = "strict"
    /\ LET kind == Site(l).kind
           at == Occurrence(l)
       IN IF consume(kind, at) /\ Matching(kind, at) # {}
          THEN /\ \E f \in Matching(kind, at) : Returns(l, f.outcome)
               /\ consumed' = consumed \cup {replayBindingKey(kind, at)}
               /\ UNCHANGED <<program, phase, count, includes, trace, pins, lock, current, scenario>>
          ELSE BoundaryError
savedStep(l) == At(l, Saves) /\ Serve(l)
interaction(l) == At(l, {"choice", "decision", "collector"}) /\ Serve(l)
RequestApproval(l) == At(l, {"approval"}) /\ Serve(l)
ExecuteHostAction(l) == At(l, {"host_action"}) /\ Serve(l)
Wait(l) == At(l, {"wait_for_event"}) /\ Serve(l)

\* A dynamic include is bound to the pin of its occurrence, or skipped by a not-found fixture.
nextPin(at) == {p \in pins : p.at = at /\ <<"pin", at>> \notin consumed}
ReplayInclude(l) ==
    /\ phase = "strict"
    /\ At(l, {"include"})
    /\ LET at == Include(l)
           found == {[key |-> <<"pin", at>>, outcome |-> p.outcome] : p \in nextPin(at)}
           skipped == {[key |-> replayBindingKey("include", at), outcome |-> f.outcome] :
                          f \in {g \in Matching("include", at) : consume("include", at)}}
           chosen == IF found # {} THEN found ELSE skipped
       IN IF chosen # {}
          THEN /\ \E c \in chosen : Returns(l, c.outcome) /\ consumed' = consumed \cup {c.key}
               /\ includes' = [includes EXCEPT ![Site(l).node, l] = @ + 1]
               /\ UNCHANGED <<program, phase, count, trace, pins, lock, current, scenario>>
          ELSE BoundaryError

\* Control steps run for real, on the values that were replayed.
ReplayControl(l) ==
    /\ phase \in {"strict", "pattern"}
    /\ At(l, {"assert"})
    /\ Returns(l, <<"completed", None>>)
    /\ UNCHANGED <<program, phase, count, includes, trace, pins, lock, current, scenario, consumed>>

\* Pattern fixtures: the first unused command with this text, the last result of this tool.
MatchCommand(n) == {i \in DOMAIN scenario.commands :
                       scenario.commands[i].at.node = n /\ <<"command", i>> \notin consumed}
LastOf(n) == {i \in DOMAIN scenario.tools : scenario.tools[i].at.node = n}
ReplayPattern(l) ==
    /\ phase = "pattern"
    /\ At(l, Saves \cup Answers \cup {"approval", "wait_for_event", "include"})
    /\ LET n == Site(l).node
           first == CHOOSE i \in MatchCommand(n) : \A j \in MatchCommand(n) : i <= j
           last == CHOOSE i \in LastOf(n) : \A j \in LastOf(n) : j <= i
       IN CASE Site(l).kind = "cli" ->
                 IF MatchCommand(n) = {} THEN Returns(l, <<"failed", None>>) /\ UNCHANGED consumed
                 ELSE /\ Returns(l, scenario.commands[first].outcome)
                      /\ consumed' = consumed \cup {<<"command", first>>}
            [] Site(l).kind = "tool" ->
                 /\ Returns(l, IF LastOf(n) = {} THEN <<"failed", None>> ELSE scenario.tools[last].outcome)
                 /\ UNCHANGED consumed
            [] OTHER -> Returns(l, <<"completed", None>>) /\ UNCHANGED consumed
    /\ UNCHANGED <<program, phase, count, includes, trace, pins, lock, current, scenario>>

\* The end: a handoff must be the next expected one, a completion must leave none expected.
ValidateHandoff == scenario.expected # <<>>
ValidateCompletion == scenario.expected = <<>>
ReplayEnd ==
    /\ phase \in {"strict", "pattern"}
    /\ Done
    /\ phase' = IF phase = "pattern" \/ (IF HandsOver(ran.replay) THEN ValidateHandoff ELSE ValidateCompletion)
                THEN "replayed" ELSE "failed"
    /\ UNCHANGED <<program, lane, count, includes, ran, trace, pins, lock, current, scenario, consumed>>

Next == \/ \E l \in Lanes : \/ EnterStep(l) \/ RecordStep(l) \/ savedStep(l) \/ interaction(l)
                            \/ RequestApproval(l) \/ ExecuteHostAction(l) \/ Wait(l)
                            \/ ReplayInclude(l) \/ ReplayControl(l) \/ ReplayPattern(l)
        \/ RecordEnd \/ Drift \/ ReplayFromTrace \/ LoadScenario \/ ReplayEnd
Spec == Init /\ [][Next]_vars

-----------------------------------------------------------------------------
\* No two lanes enter the same node, and every outcome left its answer in the trace.
Replayable ==
    /\ \A l, m \in Lanes : l # m => \A s \in Range(program.lanes[l]), t \in Range(program.lanes[m]) : s.node # t.node
    /\ \A l \in Lanes : \A i \in DOMAIN ran.record[l] :
          ran.record[l][i][2] = None => program.lanes[l][i].kind = "assert"

\* A strict replay returns, at every step of every lane and in every
\* interleaving of the lanes, what that very step returned in the recorded
\* run, on the dependencies of that run; it ends in a boundary error only
\* where lanes share a node or an outcome left no answer.
ReplayedAsRecorded ==
    /\ phase = "strict" => current = lock
    /\ phase \in {"strict", "failed"} => \A l \in Lanes : IsPrefix(ran.replay[l], ran.record[l])
    /\ phase = "failed" => ~Replayable
=============================================================================
