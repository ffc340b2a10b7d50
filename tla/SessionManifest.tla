-------------------------- MODULE SessionManifest ---------------------------
(***************************************************************************)
(* What the commands of runtime/internal/sessionstore mean: the manifest   *)
(* of one investigation session as rebuildManifest computes it from the    *)
(* journal, and the commands that append to that journal.  SessionJournal  *)
(* shows that a command is recorded once and for good, so that here a      *)
(* command is one step, and a refused or repeated one is no step at all.   *)
(*                                                                         *)
(* A segment has exactly one attempt (validateCreateRequest and            *)
(* validatePreparedTransitionPayload demand it), so one identifier names   *)
(* the segment and its run.                                                *)
(*                                                                         *)
(* Most commands append their event before the manifest is rebuilt from    *)
(* it.  An event that the rebuild refuses makes the session unreadable for *)
(* ever: damaged records that, and is the hazard of this module.           *)
(***************************************************************************)
EXTENDS Integers, FiniteSets

CONSTANTS
    Segment,         \* segment identifiers, each with its one run
    Transition,      \* transition identifiers
    None,
    MaxCheckpoint,   \* bound on checkpoint sequences
    MaxTrace,        \* bound on trace sequences
    MaxRevision      \* bound on executable revisions

ASSUME NoneNotSegment == None \notin Segment
ASSUME BoundsAssumption == MaxCheckpoint \in Nat /\ MaxTrace \in Nat /\ MaxRevision \in Nat

VARIABLES
    status,          \* Session.Status
    activeSegment, activeRun,
    segment,         \* Segments[s].Status, "absent" before the segment exists
    ordinal, revision,
    attempt,         \* Attempts[s].Status, "absent" before the attempt exists
    checkpoint,      \* the checkpoint of ExecutionMutationHash, -1 for none
    committedTrace, journaledTrace,
    transition,      \* Transitions: status, source and target
    damaged          \* the journal holds an event that the rebuild refuses

topology == <<status, activeSegment, activeRun, segment, attempt>>
progress == <<checkpoint, committedTrace, journaledTrace>>
layout == <<ordinal, revision>>
vars == <<status, activeSegment, activeRun, segment, ordinal, revision, attempt,
          checkpoint, committedTrace, journaledTrace, transition, damaged>>

-----------------------------------------------------------------------------
(* Statuses. *)

Working == {"starting", "running", "waiting"}
Paused == {"paused_at_boundary", "handoff_pending"}
Finished == {"completed", "failed", "cancelled"}
AttemptStatus == Working \cup Paused \cup Finished \cup {"indeterminate"}
SegmentStatus == {"prepared", "active", "paused", "completed", "failed", "cancelled",
                  "indeterminate", "handed_off"}

isTerminalAttemptStatus(a) == a \in Finished \cup {"indeterminate"}

CloseStatus == {"resolved", "escalated", "cancelled", "abandoned"}
TerminalStatus == {"resolved", "escalated", "cancelled", "abandoned"}
SessionStatus == TerminalStatus \cup {"none", "active", "paused", "failed", "indeterminate"}

Ended == Finished \cup {"indeterminate"}

validAttemptTransition(from, to) ==
    \/ from = "starting" /\ to \in {"starting", "running", "failed", "cancelled", "indeterminate"}
    \/ from \in {"running", "waiting"} /\ to \in {"running", "waiting"} \cup Paused \cup Ended
    \/ from = "paused_at_boundary"
         /\ to \in {"paused_at_boundary", "running", "cancelled", "indeterminate"}
    \/ from = "handoff_pending" /\ to \in {"handoff_pending", "cancelled", "indeterminate"}
    \/ from = "indeterminate" /\ to \in {"running", "cancelled"}

Exists(s) == attempt[s] # "absent"

\* What a rebuild accepts as the next status of an attempt.
MayBecome(s, to) == Exists(s) /\ validAttemptTransition(attempt[s], to)

\* Mutant: an indeterminate attempt leaves the session as it was.
ApplyIndeterminateQuietly(s, to) ==
    /\ attempt' = [attempt EXCEPT ![s] = to]
    /\ segment' = [segment EXCEPT ![s] =
           IF to \in Working THEN "active" ELSE IF to \in Paused THEN "paused" ELSE to]
    /\ status' = IF to \in Working THEN "active"
                 ELSE IF to \in Paused \cup {"completed"} THEN "paused"
                 ELSE IF to \in Finished THEN to ELSE status
    /\ activeSegment' = IF to \in Working THEN s ELSE activeSegment
    /\ activeRun' = IF to \in Working THEN s ELSE IF to \in Finished THEN None ELSE activeRun

applyAttemptStatus(s, to) ==
    /\ attempt' = [attempt EXCEPT ![s] = to]
    /\ segment' = [segment EXCEPT ![s] =
           IF to \in Working THEN "active" ELSE IF to \in Paused THEN "paused" ELSE to]
    /\ status' = IF to \in Working THEN "active"
                 ELSE IF to \in Paused \cup {"completed"} THEN "paused" ELSE to
    /\ activeSegment' = IF to \in Working THEN s ELSE activeSegment
    /\ activeRun' = IF to \in Working THEN s ELSE IF to \in Finished THEN None ELSE activeRun

-----------------------------------------------------------------------------
(* What rebuildManifest demands of an event before it applies it. *)

RebuildsClosed(run, seg) ==
    /\ run # None => activeRun = run /\ activeSegment = seg /\ seg = run
    /\ activeRun # None => \/ isTerminalAttemptStatus(attempt[activeRun])
                           \/ status = "paused" /\ attempt[activeRun] \in Paused

RebuildsPaused(run) == activeRun = run /\ attempt[run] \in Paused

RebuildsResumed(run) ==
    /\ status = "paused" /\ activeRun = run
    /\ attempt[run] = "paused_at_boundary" /\ MayBecome(run, "running")

RebuildsDetached == status = "indeterminate" \/ activeRun = None

\* Mutant: events journaled on their own are forgotten.
CommittedOnly(s) == committedTrace[s]

LatestTrace(s) ==
    IF journaledTrace[s] > committedTrace[s] THEN journaledTrace[s] ELSE committedTrace[s]

\* Mutant: transitions are not consulted.
NoRunFrozen(s) == FALSE

preparedTransitionUsesRun(s) ==
    \E t \in Transition : transition[t].status = "prepared" /\ transition[t].source = s

RebuildsMutation(s, to, previous, sequence, trace) ==
    /\ ~preparedTransitionUsesRun(s)
    /\ Exists(s) /\ previous = checkpoint[s]
    /\ IF checkpoint[s] = -1 THEN sequence = 0 ELSE sequence > checkpoint[s]
    /\ trace >= LatestTrace(s)
    /\ MayBecome(s, to)

RebuildsTrace(s, sequence) == Exists(s) /\ sequence = LatestTrace(s) + 1

RebuildsRevised(s, number) ==
    /\ Exists(s) /\ activeSegment = s /\ activeRun = s
    /\ number = revision[s] + 1

\* Mutant: the identifiers of the target may be taken.
RebuildsAnyTarget(t, source, target) ==
    /\ transition[t].status = "absent"
    /\ activeSegment = source /\ activeRun = source
    /\ attempt[source] = "handoff_pending"

RebuildsPrepared(t, source, target) ==
    /\ transition[t].status = "absent"
    /\ activeSegment = source /\ activeRun = source
    /\ attempt[source] = "handoff_pending"
    /\ ~Exists(target)

RebuildsCommitted(t) ==
    LET source == transition[t].source IN
    /\ transition[t].status = "prepared"
    /\ attempt[source] = "handoff_pending" /\ checkpoint[source] # -1
    /\ activeSegment = source /\ activeRun = source
    /\ ~Exists(transition[t].target)

-----------------------------------------------------------------------------
(* Commands.  Each begins with a journal that loads and is not a repetition.  *)
(* The first group appends its event before the rebuild has seen it.          *)

Loads == status # "none" /\ ~damaged
Open == Loads /\ status \notin TerminalStatus

CreateSession(s) ==
    /\ status = "none"
    /\ \E running \in BOOLEAN :
          /\ attempt' = [attempt EXCEPT ![s] = IF running THEN "running" ELSE "starting"]
          /\ segment' = [segment EXCEPT ![s] = IF running THEN "active" ELSE "prepared"]
    /\ status' = "active" /\ activeSegment' = s /\ activeRun' = s
    /\ ordinal' = [ordinal EXCEPT ![s] = 1]
    /\ revision' = [revision EXCEPT ![s] = 1]
    /\ UNCHANGED <<progress, transition, damaged>>

\* Mutant: a close that keeps naming the active run.
CloseKeepingRun(to) ==
    LET paused == activeRun # None /\ attempt[activeRun] \in Paused IN
    /\ Open
    /\ activeRun # None => isTerminalAttemptStatus(attempt[activeRun]) \/ (status = "paused" /\ paused)
    /\ damaged' = ~RebuildsClosed(IF paused THEN activeRun ELSE None, activeSegment)
    /\ attempt' = [s \in Segment |-> IF paused /\ s = activeRun THEN "cancelled" ELSE attempt[s]]
    /\ segment' = [s \in Segment |-> IF paused /\ s = activeRun THEN "cancelled" ELSE segment[s]]
    /\ status' = to /\ UNCHANGED <<activeSegment, activeRun>>
    /\ UNCHANGED <<layout, progress, transition>>

CloseSession(to) ==
    LET paused == activeRun # None /\ attempt[activeRun] \in Paused IN
    /\ Open
    /\ activeRun # None => isTerminalAttemptStatus(attempt[activeRun]) \/ (status = "paused" /\ paused)
    /\ damaged' = ~RebuildsClosed(IF paused THEN activeRun ELSE None, activeSegment)
    /\ attempt' = [s \in Segment |-> IF paused /\ s = activeRun THEN "cancelled" ELSE attempt[s]]
    /\ segment' = [s \in Segment |-> IF paused /\ s = activeRun THEN "cancelled" ELSE segment[s]]
    /\ status' = to /\ activeSegment' = None /\ activeRun' = None
    /\ UNCHANGED <<layout, progress, transition>>

PauseSession ==
    /\ Open
    /\ activeRun # None /\ attempt[activeRun] \in Paused
    /\ damaged' = ~RebuildsPaused(activeRun)
    /\ status' = "paused"
    /\ UNCHANGED <<activeSegment, activeRun, segment, attempt, layout, progress, transition>>

ResumeSession ==
    /\ Loads
    /\ status = "paused" /\ activeRun # None
    /\ attempt[activeRun] = "paused_at_boundary"
    /\ damaged' = ~RebuildsResumed(activeRun)
    /\ applyAttemptStatus(activeRun, "running")
    /\ UNCHANGED <<layout, progress, transition>>

\* A detach leaves nothing but its receipt.
RecordDetach ==
    /\ Loads
    /\ status = "indeterminate" \/ activeRun = None
    /\ damaged' = ~RebuildsDetached
    /\ UNCHANGED <<topology, layout, progress, transition>>

\* Mutant: the session status is not looked at.
UpdateAttemptAlways(s, to) ==
    /\ Loads
    /\ Exists(s) /\ validAttemptTransition(attempt[s], to)
    /\ damaged' = ~MayBecome(s, to)
    /\ applyAttemptStatus(s, to)
    /\ UNCHANGED <<layout, progress, transition>>

UpdateAttempt(s, to) ==
    /\ Open
    /\ Exists(s) /\ validAttemptTransition(attempt[s], to)
    /\ damaged' = ~MayBecome(s, to)
    /\ applyAttemptStatus(s, to)
    /\ UNCHANGED <<layout, progress, transition>>

\* Mutant: the previous mutation and the checkpoint number are not compared.
AnyMutation(s, previous, sequence, trace) == trace >= LatestTrace(s)

\* The mutation continues the checkpoints and the trace of its run: its own trace
\* events, if it has any, begin right after the latest one.
MutationFollows(s, previous, sequence, trace) ==
    /\ previous = checkpoint[s]
    /\ IF checkpoint[s] = -1 THEN sequence = 0 ELSE sequence > checkpoint[s]
    /\ trace >= LatestTrace(s)

CommitExecutionMutation(s, to, previous, sequence, trace) ==
    /\ Open /\ Exists(s)
    /\ to # "starting"
    /\ ~preparedTransitionUsesRun(s)
    /\ validAttemptTransition(attempt[s], to)
    /\ MutationFollows(s, previous, sequence, trace)
    /\ damaged' = ~RebuildsMutation(s, to, previous, sequence, trace)
    /\ applyAttemptStatus(s, to)
    /\ checkpoint' = [checkpoint EXCEPT ![s] = sequence]
    /\ committedTrace' = [committedTrace EXCEPT ![s] = trace]
    /\ UNCHANGED <<journaledTrace, layout, transition>>

\* Of an ended session only the checkpoint event of the last mutation is still taken.
isTerminalCheckpointTrace(s, sequence) ==
    sequence = committedTrace[s] + 1 /\ journaledTrace[s] < sequence

CommitTraceEvent(s, sequence) ==
    /\ Loads /\ Exists(s)
    /\ status \in TerminalStatus => isTerminalCheckpointTrace(s, sequence)
    /\ sequence = LatestTrace(s) + 1
    /\ damaged' = ~RebuildsTrace(s, sequence)
    /\ journaledTrace' = [journaledTrace EXCEPT ![s] = sequence]
    /\ UNCHANGED <<topology, layout, checkpoint, committedTrace, transition>>

-----------------------------------------------------------------------------
(* Commands that try the rebuild before they append their event. *)

CommitSegmentRevision(s) ==
    /\ Loads
    /\ RebuildsRevised(s, revision[s] + 1)
    /\ revision[s] < MaxRevision
    /\ revision' = [revision EXCEPT ![s] = @ + 1]
    /\ UNCHANGED <<topology, ordinal, progress, transition, damaged>>

PrepareTransition(t, source, target) ==
    /\ Open
    /\ \A u \in Transition : transition[u].status # "absent" => transition[u].source # source
    /\ RebuildsPrepared(t, source, target)
    /\ transition' = [transition EXCEPT ![t] =
                         [status |-> "prepared", source |-> source, target |-> target]]
    /\ UNCHANGED <<topology, layout, progress, damaged>>

\* Mutant: the target is numbered like its source.
CommitSameOrdinal(t) ==
    LET source == transition[t].source
        target == transition[t].target IN
    /\ Loads
    /\ RebuildsCommitted(t)
    /\ segment' = [segment EXCEPT ![source] = "handed_off", ![target] = "prepared"]
    /\ attempt' = [attempt EXCEPT ![source] = "completed", ![target] = "starting"]
    /\ ordinal' = [ordinal EXCEPT ![target] = ordinal[source]]
    /\ revision' = [revision EXCEPT ![target] = 1]
    /\ transition' = [transition EXCEPT ![t].status = "committed"]
    /\ status' = "active" /\ activeSegment' = target /\ activeRun' = target
    /\ UNCHANGED <<progress, damaged>>

CommitTransition(t) ==
    LET source == transition[t].source
        target == transition[t].target IN
    /\ Loads
    /\ RebuildsCommitted(t)
    /\ segment' = [segment EXCEPT ![source] = "handed_off", ![target] = "prepared"]
    /\ attempt' = [attempt EXCEPT ![source] = "completed", ![target] = "starting"]
    /\ ordinal' = [ordinal EXCEPT ![target] = ordinal[source] + 1]
    /\ revision' = [revision EXCEPT ![target] = 1]
    /\ transition' = [transition EXCEPT ![t].status = "committed"]
    /\ status' = "active" /\ activeSegment' = target /\ activeRun' = target
    /\ UNCHANGED <<progress, damaged>>

AbortTransition(t) ==
    /\ Loads
    /\ transition[t].status = "prepared"
    /\ checkpoint[transition[t].source] = -1
    /\ transition' = [transition EXCEPT ![t].status = "aborted"]
    /\ UNCHANGED <<topology, layout, progress, damaged>>

-----------------------------------------------------------------------------

Init ==
    /\ status = "none" /\ activeSegment = None /\ activeRun = None
    /\ segment = [s \in Segment |-> "absent"] /\ attempt = [s \in Segment |-> "absent"]
    /\ ordinal = [s \in Segment |-> 0] /\ revision = [s \in Segment |-> 0]
    /\ checkpoint = [s \in Segment |-> -1]
    /\ committedTrace = [s \in Segment |-> 0] /\ journaledTrace = [s \in Segment |-> 0]
    /\ transition = [t \in Transition |-> [status |-> "absent", source |-> None, target |-> None]]
    /\ damaged = FALSE

SessionStep ==
    \/ \E s \in Segment : CreateSession(s)
    \/ \E to \in CloseStatus : CloseSession(to)
    \/ PauseSession
    \/ ResumeSession
    \/ RecordDetach

RunStep ==
    \E s \in Segment :
        \/ \E to \in AttemptStatus : UpdateAttempt(s, to)
        \/ \E to \in AttemptStatus, previous \in -1 .. MaxCheckpoint,
              sequence \in 0 .. MaxCheckpoint, trace \in 0 .. MaxTrace :
              CommitExecutionMutation(s, to, previous, sequence, trace)
        \/ \E sequence \in 1 .. MaxTrace : CommitTraceEvent(s, sequence)
        \/ CommitSegmentRevision(s)

HandoffStep ==
    \E t \in Transition :
        \/ \E source, target \in Segment : PrepareTransition(t, source, target)
        \/ CommitTransition(t)
        \/ AbortTransition(t)

Next == SessionStep \/ RunStep \/ HandoffStep

Spec == Init /\ [][Next]_vars

-----------------------------------------------------------------------------
(* Properties. *)

TypeOK ==
    /\ status \in SessionStatus
    /\ activeSegment \in Segment \cup {None} /\ activeRun \in Segment \cup {None}
    /\ segment \in [Segment -> SegmentStatus \cup {"absent"}]
    /\ ordinal \in [Segment -> Nat] /\ revision \in [Segment -> Nat]
    /\ attempt \in [Segment -> AttemptStatus \cup {"absent"}]
    /\ checkpoint \in [Segment -> Int]
    /\ committedTrace \in [Segment -> Nat] /\ journaledTrace \in [Segment -> Nat]
    /\ transition \in [Transition ->
          [status : {"absent", "prepared", "committed", "aborted"},
           source : Segment \cup {None}, target : Segment \cup {None}]]
    /\ damaged \in BOOLEAN

\* Every event that a command appends is one that rebuildManifest accepts: the session
\* stays readable, although CloseSession, ResumeSession, UpdateAttempt and the commits
\* of mutations and traces write their event before they rebuild.
EventsApply == ~damaged

\* At most one attempt can still run, and it is the active one of the active segment.
OneOpenAttempt ==
    /\ activeRun # None => activeSegment = activeRun /\ Exists(activeRun)
    /\ \A s \in Segment : attempt[s] \in Working \cup Paused => activeRun = s

\* The status shown for the session is the one its active attempt implies.
StatusAgrees ==
    activeRun # None =>
        /\ status = "active" <=> attempt[activeRun] \in Working
        /\ status = "paused" <=> attempt[activeRun] \in Paused
        /\ status = "indeterminate" <=> attempt[activeRun] = "indeterminate"

\* Handoffs form one chain: each existing segment but the first was entered by exactly
\* one committed transition and has the ordinal after its source; a source was handed
\* off by a completed run with a committed checkpoint.
HandoffChain ==
    /\ \A t \in Transition : transition[t].status = "committed" =>
          LET source == transition[t].source  target == transition[t].target IN
          /\ segment[source] = "handed_off" /\ attempt[source] = "completed"
          /\ checkpoint[source] # -1
          /\ Exists(target) /\ ordinal[target] = ordinal[source] + 1
    /\ \A s \in Segment : Exists(s) /\ ordinal[s] # 1 =>
          \E t \in Transition : transition[t].status = "committed" /\ transition[t].target = s
    /\ \A s, u \in Segment : Exists(s) /\ Exists(u) /\ ordinal[s] = ordinal[u] => s = u

\* A segment is the source of at most one transition, whatever became of it.
OneTransitionPerSource ==
    \A t, u \in Transition :
        transition[t].status # "absent" /\ transition[t].source = transition[u].source => t = u

\* A prepared handoff whose source still waits for it can be finished: the source is
\* the active run and the target's identifiers are still free.
HandoffCanFinish ==
    \A t \in Transition :
        transition[t].status = "prepared" /\ attempt[transition[t].source] = "handoff_pending" =>
            activeRun = transition[t].source /\ ~Exists(transition[t].target)

\* The strengthening that makes the properties above inductive.  Until the session has
\* ended, an attempt that has not finished is the active one, and the active segment is
\* the last of the chain; a prepared handoff keeps its target's identifiers free for as
\* long as its source has not finished.
Undecided == Working \cup Paused \cup {"indeterminate"}

Topology ==
    /\ status = "none" => /\ activeRun = None
                          /\ \A s \in Segment : ~Exists(s)
                          /\ \A t \in Transition : transition[t].status = "absent"
    /\ status \in TerminalStatus => activeRun = None
    /\ activeRun # None => attempt[activeRun] \in Undecided
    /\ status \notin TerminalStatus => \A s \in Segment : attempt[s] \in Undecided => activeRun = s

LastIsActive ==
    /\ \A s \in Segment : Exists(s) => ordinal[s] >= 1
    /\ activeRun # None => \A s \in Segment : Exists(s) => ordinal[s] <= ordinal[activeRun]

Handoffs ==
    \A t \in Transition :
      /\ transition[t].status = "absent" => transition[t].source = None
      /\ transition[t].status # "absent" =>
        /\ transition[t].source \in Segment /\ transition[t].target \in Segment
        /\ Exists(transition[t].source)
        /\ transition[t].status = "prepared" /\ attempt[transition[t].source] \in Undecided
              => ~Exists(transition[t].target)

ManifestIInv ==
    /\ TypeOK /\ EventsApply /\ OneOpenAttempt /\ StatusAgrees
    /\ Topology /\ LastIsActive /\ Handoffs /\ OneTransitionPerSource /\ HandoffChain

\* A session that ended never changes its status, its attempts or its segments again,
\* although several commands do not look at the session status.
TerminalIsFinal ==
    [][(status \in TerminalStatus) => UNCHANGED <<topology, layout, checkpoint>>]_vars

\* Checkpoints and trace positions of a run never go back, and a mutation covers every
\* trace event that was journaled before it on its own.
ProgressMonotone ==
    [][\A s \in Segment :
          /\ checkpoint'[s] >= checkpoint[s]
          /\ committedTrace'[s] >= committedTrace[s] /\ journaledTrace'[s] >= journaledTrace[s]
          /\ checkpoint'[s] # checkpoint[s] => committedTrace'[s] >= journaledTrace[s]]_vars

\* While a handoff is prepared, no checkpoint of its source is committed: what the
\* target is given at the commit is what the source had when it was prepared.
PreparedFreezes ==
    [][\A t \in Transition :
          transition[t].status = "prepared" /\ transition'[t].status \in {"prepared", "committed"}
              => checkpoint'[transition[t].source] = checkpoint[transition[t].source]]_vars

=============================================================================
