----------------------- MODULE SessionManifestProofs ------------------------
(***************************************************************************)
(* Proofs about SessionManifest.  The inductive invariant is ManifestIInv: *)
(* the properties that the runs check, and three facts about the shape of  *)
(* the manifest without which they do not carry over a step.               *)
(***************************************************************************)
EXTENDS SessionManifest, TLAPS

\* A session that does not exist yet satisfies the invariant.
LEMMA ManifestInit == Init => ManifestIInv
<1> SUFFICES ASSUME Init PROVE ManifestIInv
    BY Zenon
<1>1. TypeOK
  <2>1. checkpoint \in [Segment -> Int]
    BY DEF Init
  <2>2. transition \in [Transition ->
          [status : {"absent", "prepared", "committed", "aborted"},
           source : Segment \cup {None}, target : Segment \cup {None}]]
    BY Zenon DEF Init
  <2>3. status \in SessionStatus /\ damaged \in BOOLEAN
    BY Zenon DEF Init, SessionStatus
  <2> QED
    BY <2>1, <2>2, <2>3, Zenon DEF Init, TypeOK
<1>2. EventsApply /\ OneOpenAttempt /\ StatusAgrees
    BY Zenon DEF Init, EventsApply, OneOpenAttempt, StatusAgrees, Working, Paused
<1>3. Topology /\ LastIsActive /\ Handoffs
    BY Zenon DEF Init, Topology, LastIsActive, Handoffs, Exists, Undecided, Working, Paused,
           TerminalStatus
<1>4. OneTransitionPerSource /\ HandoffChain
    BY Zenon DEF Init, OneTransitionPerSource, HandoffChain, Exists
<1> QED
    BY <1>1, <1>2, <1>3, <1>4, Zenon DEF ManifestIInv

\* Before the session has ended, only the active attempt can change its status.
LEMMA OnlyActiveChanges ==
    ASSUME ManifestIInv, NEW s \in Segment, NEW to \in AttemptStatus,
           MayBecome(s, to), status \notin TerminalStatus
    PROVE  /\ activeRun = s /\ activeSegment = s /\ status # "none"
           /\ attempt[s] \in Undecided
<1>1. attempt[s] \in Undecided
    BY Zenon DEF MayBecome, validAttemptTransition, Undecided, Working, Paused
<1>2. activeRun = s
    BY <1>1, Zenon DEF ManifestIInv, Topology
<1> QED
    BY <1>1, <1>2, NoneNotSegment, Zenon DEF ManifestIInv, OneOpenAttempt, Topology

\* applyAttemptStatus keeps the invariant when the rebuild accepts the new status.
LEMMA AttemptStatusInv ==
    ASSUME ManifestIInv, NEW s \in Segment, NEW to \in AttemptStatus,
           MayBecome(s, to), status \notin TerminalStatus,
           applyAttemptStatus(s, to), UNCHANGED <<layout, transition>>, damaged' = FALSE,
           checkpoint' \in [Segment -> Int], committedTrace' \in [Segment -> Nat],
           journaledTrace' \in [Segment -> Nat],
           \A u \in Segment : checkpoint[u] # -1 => checkpoint'[u] # -1
    PROVE  ManifestIInv'
<1> USE DEF layout
<1>a. TypeOK /\ activeRun = s /\ activeSegment = s /\ status # "none" /\ attempt[s] \in Undecided
    BY OnlyActiveChanges, Zenon DEF ManifestIInv
<1>b. attempt' = [attempt EXCEPT ![s] = to]
    BY Zenon DEF applyAttemptStatus
<1>c. attempt'[s] = to /\ \A u \in Segment : u # s => attempt'[u] = attempt[u]
    BY <1>a, <1>b, Zenon DEF TypeOK
<1>d. \A u \in Segment : Exists(u)' <=> Exists(u)
    BY <1>a, <1>c, Zenon DEF Exists, Undecided, Working, Paused, AttemptStatus, Finished
<1>e. activeRun' = IF to \in Finished THEN None ELSE s
    BY <1>a, Zenon DEF applyAttemptStatus, Working, Finished
<1>f. activeSegment' = s
    BY <1>a, Zenon DEF applyAttemptStatus
<1>g. to \in Finished \/ to \in Undecided
    BY Zenon DEF AttemptStatus, Undecided
<1>h. to \in Finished => to \notin Undecided
    BY Zenon DEF Finished, Undecided, Working, Paused
<1>i. \A u \in Segment : u # s => attempt[u] \notin Undecided
    BY <1>a, Zenon DEF ManifestIInv, Topology
<1>j. segment' \in [Segment -> SegmentStatus \cup {"absent"}]
      /\ \A u \in Segment : u # s => segment'[u] = segment[u]
    BY <1>a, Zenon DEF TypeOK, applyAttemptStatus, SegmentStatus, AttemptStatus, Working, Paused, Finished
<1>1. TypeOK'
  <2>1. status' \in SessionStatus
    BY Zenon DEF applyAttemptStatus, AttemptStatus, SessionStatus, TerminalStatus, Working, Paused, Finished
  <2> QED
    BY <1>a, <1>b, <1>e, <1>f, <1>j, <2>1, Zenon DEF TypeOK
<1>2. EventsApply'
    BY Zenon DEF EventsApply
<1>3. OneOpenAttempt'
  <2>1. activeRun' # None => activeSegment' = activeRun' /\ attempt'[activeRun'] # "absent"
    BY <1>a, <1>c, <1>e, <1>f, <1>g, Zenon DEF Undecided, Working, Paused
  <2>2. \A u \in Segment : attempt'[u] \in Working \cup Paused => activeRun' = u
    BY <1>c, <1>e, <1>h, <1>i, Zenon DEF Undecided
  <2> QED
    BY <2>1, <2>2, Zenon DEF OneOpenAttempt, Exists
<1>4. StatusAgrees'
    BY <1>c, <1>e, NoneNotSegment, Zenon
    DEF StatusAgrees, applyAttemptStatus, AttemptStatus, Working, Paused, Finished
<1>5. Topology'
  <2>1. status' # "none"
    BY Zenon DEF applyAttemptStatus, AttemptStatus, Working, Paused, Finished
  <2>2. status' \in TerminalStatus => activeRun' = None
    BY <1>e, Zenon DEF applyAttemptStatus, AttemptStatus, TerminalStatus, Working, Paused, Finished
  <2>3. activeRun' # None => attempt'[activeRun'] \in Undecided
    BY <1>c, <1>e, <1>g, Zenon
  <2>4. \A u \in Segment : attempt'[u] \in Undecided => activeRun' = u
    BY <1>c, <1>e, <1>h, <1>i, Zenon
  <2> QED
    BY <2>1, <2>2, <2>3, <2>4, Zenon DEF Topology
<1>6. LastIsActive'
    BY <1>a, <1>d, <1>e, NoneNotSegment, Zenon DEF ManifestIInv, LastIsActive
<1>7. Handoffs'
    BY <1>a, <1>c, <1>d, Zenon DEF ManifestIInv, Handoffs
<1>8. OneTransitionPerSource'
    BY Zenon DEF ManifestIInv, OneTransitionPerSource
<1>9. HandoffChain'
  <2>1. \A t \in Transition : transition[t].status = "committed" =>
            transition[t].source \in Segment /\ transition[t].target \in Segment
    BY Zenon DEF ManifestIInv, Handoffs
  <2>2. \A t \in Transition : transition[t].status = "committed" => transition[t].source # s
    BY <1>a, Zenon DEF ManifestIInv, HandoffChain, Undecided, Working, Paused
  <2> QED
    BY <1>c, <1>d, <1>j, <2>1, <2>2 DEF ManifestIInv, HandoffChain
<1> QED
    BY <1>1, <1>2, <1>3, <1>4, <1>5, <1>6, <1>7, <1>8, <1>9, Zenon DEF ManifestIInv

-----------------------------------------------------------------------------
(* One lemma per command. *)

\* Creation leaves one segment, the active one, with ordinal 1.
LEMMA CreateInv ==
    ASSUME ManifestIInv, NEW s \in Segment, CreateSession(s)
    PROVE  ManifestIInv'
<1> USE DEF CreateSession, progress
<1>a. TypeOK /\ ~damaged /\ activeRun = None
      /\ (\A u \in Segment : attempt[u] = "absent")
      /\ (\A t \in Transition : transition[t].status = "absent")
    BY Zenon DEF ManifestIInv, Topology, EventsApply, Exists
<1>b. attempt'[s] \in {"running", "starting"}
      /\ \A u \in Segment : u # s => attempt'[u] = "absent"
    BY <1>a, Zenon DEF TypeOK
<1>1. TypeOK'
  <2>1. attempt' \in [Segment -> AttemptStatus \cup {"absent"}]
    BY <1>a, Zenon DEF TypeOK, AttemptStatus, Working
  <2>2. segment' \in [Segment -> SegmentStatus \cup {"absent"}]
    BY <1>a, Zenon DEF TypeOK, SegmentStatus
  <2>3. ordinal' \in [Segment -> Nat] /\ revision' \in [Segment -> Nat]
    BY <1>a, Zenon DEF TypeOK
  <2> QED
    BY <1>a, <2>1, <2>2, <2>3, Zenon DEF TypeOK, SessionStatus
<1>2. EventsApply' /\ OneOpenAttempt' /\ StatusAgrees'
    BY <1>a, <1>b, Zenon DEF EventsApply, OneOpenAttempt, StatusAgrees, Exists, Working, Paused
<1>3. Topology'
    BY <1>b, Zenon DEF Topology, Undecided, Working, Paused, TerminalStatus
<1>4. LastIsActive'
    BY <1>a, <1>b DEF LastIsActive, Exists, TypeOK
<1>5. Handoffs' /\ OneTransitionPerSource'
    BY <1>a, Zenon DEF ManifestIInv, Handoffs, OneTransitionPerSource
<1>6. HandoffChain'
    BY <1>a, <1>b, Zenon DEF HandoffChain, Exists, TypeOK
<1> QED
    BY <1>1, <1>2, <1>3, <1>4, <1>5, <1>6, Zenon DEF ManifestIInv

\* Closing cancels the paused active attempt, if there is one, and nothing else.
LEMMA CloseInv ==
    ASSUME ManifestIInv, NEW to \in CloseStatus, CloseSession(to)
    PROVE  ManifestIInv'
<1> DEFINE paused == activeRun # None /\ attempt[activeRun] \in Paused
<1> USE DEF progress, layout
<1>a. TypeOK /\ Open /\ OneOpenAttempt /\ Topology
      /\ status' = to /\ activeSegment' = None /\ activeRun' = None
      /\ UNCHANGED <<layout, progress, transition>>
    BY Zenon DEF ManifestIInv, CloseSession
<1>b. attempt' = [s \in Segment |-> IF paused /\ s = activeRun THEN "cancelled" ELSE attempt[s]]
      /\ segment' = [s \in Segment |-> IF paused /\ s = activeRun THEN "cancelled" ELSE segment[s]]
    BY Zenon DEF CloseSession
<1>c. damaged' = FALSE
  <2>1. damaged' = ~RebuildsClosed(IF paused THEN activeRun ELSE None, activeSegment)
    BY Zenon DEF CloseSession
  <2>2. activeRun # None => isTerminalAttemptStatus(attempt[activeRun]) \/ (status = "paused" /\ paused)
    BY Zenon DEF CloseSession
  <2>3. RebuildsClosed(IF paused THEN activeRun ELSE None, activeSegment)
    BY <1>a, <2>2, Zenon DEF RebuildsClosed, OneOpenAttempt
  <2> QED
    BY <2>1, <2>3, Zenon
<1>d. activeRun # None =>
          isTerminalAttemptStatus(attempt[activeRun]) \/ attempt[activeRun] \in Paused
    BY Zenon DEF CloseSession
<1>e. \A s \in Segment : attempt'[s] \notin Working \cup Paused
  <2> TAKE s \in Segment
  <2>1. CASE paused /\ s = activeRun
    BY <1>b, <2>1, Zenon DEF Working, Paused
  <2>2. CASE ~(paused /\ s = activeRun)
    <3>1. attempt'[s] = attempt[s]
      BY <1>b, <2>2, Zenon
    <3>2. attempt[s] \in Working \cup Paused => activeRun = s
      BY <1>a, Zenon DEF OneOpenAttempt
    <3>3. attempt[s] \in Working \cup Paused => s # activeRun
      BY <1>d, <2>2, NoneNotSegment, Zenon DEF isTerminalAttemptStatus, Working, Paused, Finished
    <3> QED
      BY <3>1, <3>2, <3>3, Zenon
  <2> QED
    BY <2>1, <2>2, Zenon
<1>f. \A s \in Segment : Exists(s)' <=> Exists(s)
    BY <1>b, Zenon DEF Exists, Paused
<1>g. to \in TerminalStatus /\ to # "none"
    BY Zenon DEF CloseStatus, TerminalStatus
<1>1. TypeOK'
  <2>1. attempt' \in [Segment -> AttemptStatus \cup {"absent"}]
    BY <1>a, <1>b, Zenon DEF TypeOK, AttemptStatus, Finished
  <2>2. segment' \in [Segment -> SegmentStatus \cup {"absent"}]
    BY <1>a, <1>b, Zenon DEF TypeOK, SegmentStatus
  <2> QED
    BY <1>a, <1>c, <1>g, <2>1, <2>2, Zenon DEF TypeOK, SessionStatus
<1>2. EventsApply' /\ OneOpenAttempt' /\ StatusAgrees'
    BY <1>a, <1>c, <1>e, Zenon DEF EventsApply, OneOpenAttempt, StatusAgrees
<1>3. Topology' /\ LastIsActive'
    BY <1>a, <1>f, <1>g, Zenon DEF ManifestIInv, Topology, LastIsActive
<1>4. Handoffs'
  <2>1. \A s \in Segment : attempt'[s] \in Undecided => attempt[s] \in Undecided
    BY <1>b, Zenon DEF Undecided, Working, Paused
  <2> QED
    BY <1>a, <1>f, <2>1, Zenon DEF ManifestIInv, Handoffs
<1>5. OneTransitionPerSource'
    BY <1>a, Zenon DEF ManifestIInv, OneTransitionPerSource
<1>6. HandoffChain'
  <2>1. \A t \in Transition : transition[t].status = "committed" =>
            transition[t].source \in Segment /\ transition[t].target \in Segment
    BY Zenon DEF ManifestIInv, Handoffs
  <2>2. \A s \in Segment : attempt[s] = "completed" => attempt'[s] = attempt[s] /\ segment'[s] = segment[s]
    BY <1>b, Zenon DEF Paused
  <2> QED
    BY <1>a, <1>f, <2>1, <2>2 DEF ManifestIInv, HandoffChain
<1> QED
    BY <1>1, <1>2, <1>3, <1>4, <1>5, <1>6, Zenon DEF ManifestIInv

\* A step that changes neither the topology nor the transitions, nor loses a checkpoint.
LEMMA QuietInv ==
    ASSUME ManifestIInv, UNCHANGED <<topology, ordinal, transition, damaged>>,
           revision' \in [Segment -> Nat], checkpoint' = checkpoint,
           committedTrace' \in [Segment -> Nat], journaledTrace' \in [Segment -> Nat]
    PROVE  ManifestIInv'
<1> USE DEF topology
<1>1. TypeOK'
    BY Zenon DEF ManifestIInv, TypeOK
<1>2. EventsApply' /\ OneOpenAttempt' /\ StatusAgrees' /\ Topology'
    BY Zenon DEF ManifestIInv, EventsApply, OneOpenAttempt, StatusAgrees, Topology, Exists
<1>3. LastIsActive' /\ Handoffs' /\ OneTransitionPerSource' /\ HandoffChain'
    BY DEF ManifestIInv, LastIsActive, Handoffs, OneTransitionPerSource, HandoffChain, Exists
<1> QED
    BY <1>1, <1>2, <1>3, Zenon DEF ManifestIInv

\* Pausing, detaching, journaling a trace event and revising a segment are such steps.
LEMMA QuietCommands ==
    ASSUME ManifestIInv,
           \/ PauseSession \/ RecordDetach
           \/ \E s \in Segment : \E sequence \in 1 .. MaxTrace : CommitTraceEvent(s, sequence)
           \/ \E s \in Segment : CommitSegmentRevision(s)
    PROVE  ManifestIInv'
<1> USE DEF progress, layout
<1>a. TypeOK /\ damaged = FALSE
    BY Zenon DEF ManifestIInv, EventsApply, TypeOK
<1>1. CASE PauseSession
  <2>1. status = "paused"
    BY <1>1, Zenon DEF PauseSession, ManifestIInv, StatusAgrees
  <2>2. damaged' = FALSE
    BY <1>1, Zenon DEF PauseSession, RebuildsPaused
  <2> QED
    BY <1>1, <1>a, <2>1, <2>2, QuietInv, Zenon DEF PauseSession, topology, TypeOK
<1>2. CASE RecordDetach
  <2>1. damaged' = FALSE
    BY <1>2, Zenon DEF RecordDetach, RebuildsDetached
  <2> QED
    BY <1>2, <1>a, <2>1, QuietInv, Zenon DEF RecordDetach, TypeOK
<1>3. ASSUME NEW s \in Segment, NEW sequence \in 1 .. MaxTrace, CommitTraceEvent(s, sequence)
      PROVE  ManifestIInv'
  <2>1. damaged' = FALSE
    BY <1>3, Zenon DEF CommitTraceEvent, RebuildsTrace
  <2>2. sequence \in Nat
    BY BoundsAssumption
  <2>3. journaledTrace' \in [Segment -> Nat]
    BY <1>3, <1>a, <2>2, Zenon DEF CommitTraceEvent, TypeOK
  <2> QED
    BY <1>3, <1>a, <2>1, <2>3, QuietInv, Zenon DEF CommitTraceEvent, TypeOK
<1>4. ASSUME NEW s \in Segment, CommitSegmentRevision(s)
      PROVE  ManifestIInv'
  <2>1. revision' \in [Segment -> Nat]
    BY <1>4, <1>a DEF CommitSegmentRevision, TypeOK
  <2> QED
    BY <1>4, <1>a, <2>1, QuietInv, Zenon DEF CommitSegmentRevision, TypeOK
<1> QED
    BY <1>1, <1>2, <1>3, <1>4, Zenon

\* Resuming, updating an attempt and committing a mutation change the status of the
\* active attempt, and append nothing that the rebuild refuses.
LEMMA StatusCommands ==
    ASSUME ManifestIInv,
           \/ ResumeSession
           \/ \E s \in Segment : \E to \in AttemptStatus : UpdateAttempt(s, to)
           \/ \E s \in Segment : \E to \in AttemptStatus, previous \in -1 .. MaxCheckpoint,
                  sequence \in 0 .. MaxCheckpoint, trace \in 0 .. MaxTrace :
                  CommitExecutionMutation(s, to, previous, sequence, trace)
    PROVE  ManifestIInv'
<1> USE DEF progress, layout
<1>a. TypeOK
    BY Zenon DEF ManifestIInv
<1>1. CASE ResumeSession
  <2>1. activeRun \in Segment /\ "running" \in AttemptStatus
    BY <1>1, <1>a, Zenon DEF ResumeSession, TypeOK, AttemptStatus, Working
  <2>2. MayBecome(activeRun, "running")
    BY <1>1, Zenon DEF ResumeSession, MayBecome, Exists, validAttemptTransition
  <2>3. damaged' = FALSE
    BY <1>1, <2>2, Zenon DEF ResumeSession, RebuildsResumed
  <2>4. status \notin TerminalStatus
    BY <1>1, Zenon DEF ResumeSession, TerminalStatus
  <2> HIDE DEF layout, progress
  <2>5. applyAttemptStatus(activeRun, "running") /\ UNCHANGED <<layout, transition>>
    BY <1>1, Zenon DEF ResumeSession
  <2>6. UNCHANGED <<checkpoint, committedTrace, journaledTrace>>
    BY <1>1, Zenon DEF ResumeSession, progress
  <2> QED
    BY <1>a, <2>1, <2>2, <2>3, <2>4, <2>5, <2>6, AttemptStatusInv, Zenon DEF TypeOK
<1>2. ASSUME NEW s \in Segment, NEW to \in AttemptStatus, UpdateAttempt(s, to)
      PROVE  ManifestIInv'
  <2>1. MayBecome(s, to) /\ damaged' = FALSE /\ status \notin TerminalStatus
    BY <1>2, Zenon DEF UpdateAttempt, MayBecome, Open
  <2> HIDE DEF layout, progress
  <2>2. applyAttemptStatus(s, to) /\ UNCHANGED <<layout, transition>>
    BY <1>2, Zenon DEF UpdateAttempt
  <2>3. UNCHANGED <<checkpoint, committedTrace, journaledTrace>>
    BY <1>2, Zenon DEF UpdateAttempt, progress
  <2> QED
    BY <1>a, <2>1, <2>2, <2>3, AttemptStatusInv, Zenon DEF TypeOK
<1>3. ASSUME NEW s \in Segment, NEW to \in AttemptStatus, NEW previous \in -1 .. MaxCheckpoint,
             NEW sequence \in 0 .. MaxCheckpoint, NEW trace \in 0 .. MaxTrace,
             CommitExecutionMutation(s, to, previous, sequence, trace)
      PROVE  ManifestIInv'
  <2>1. MayBecome(s, to) /\ status \notin TerminalStatus
    BY <1>3, Zenon DEF CommitExecutionMutation, MayBecome, Open
  <2>2. RebuildsMutation(s, to, previous, sequence, trace)
    BY <1>3, <2>1, Zenon DEF CommitExecutionMutation, RebuildsMutation, MutationFollows
  <2>3. damaged' = FALSE
    BY <1>3, <2>2, Zenon DEF CommitExecutionMutation
  <2>4. sequence \in Nat /\ trace \in Nat
    BY BoundsAssumption
  <2>5. checkpoint' \in [Segment -> Int] /\ committedTrace' \in [Segment -> Nat]
        /\ journaledTrace' \in [Segment -> Nat]
    BY <1>3, <1>a, <2>4 DEF CommitExecutionMutation, TypeOK
  <2>6. \A u \in Segment : checkpoint[u] # -1 => checkpoint'[u] # -1
    BY <1>3, <1>a, <2>4 DEF CommitExecutionMutation, TypeOK
  <2> HIDE DEF layout, progress
  <2>7. applyAttemptStatus(s, to) /\ UNCHANGED <<layout, transition>>
    BY <1>3, Zenon DEF CommitExecutionMutation
  <2> QED
    BY <2>1, <2>3, <2>5, <2>6, <2>7, AttemptStatusInv, Zenon
<1> QED
    BY <1>1, <1>2, <1>3, Zenon

\* Preparing a handoff records it, for a source that had none.
LEMMA PrepareInv ==
    ASSUME ManifestIInv, NEW t \in Transition, NEW source \in Segment, NEW target \in Segment,
           PrepareTransition(t, source, target)
    PROVE  ManifestIInv'
<1> USE DEF PrepareTransition, topology, layout, progress
<1>a. TypeOK /\ RebuildsPrepared(t, source, target)
    BY Zenon DEF ManifestIInv
<1>b. /\ transition'[t] = [status |-> "prepared", source |-> source, target |-> target]
      /\ \A u \in Transition : u # t => transition'[u] = transition[u]
    BY <1>a, Zenon DEF TypeOK
<1>c. Exists(source) /\ ~Exists(target) /\ transition[t].status = "absent" /\ status # "none"
    BY <1>a, Zenon DEF RebuildsPrepared, Exists, Open, Loads
<1>1. TypeOK'
  <2>1. transition' \in [Transition ->
          [status : {"absent", "prepared", "committed", "aborted"},
           source : Segment \cup {None}, target : Segment \cup {None}]]
    BY <1>a, Zenon DEF TypeOK
  <2> QED
    BY <1>a, <2>1, Zenon DEF TypeOK
<1>2. EventsApply' /\ OneOpenAttempt' /\ StatusAgrees' /\ Topology' /\ LastIsActive'
    BY <1>c, Zenon DEF ManifestIInv, EventsApply, OneOpenAttempt, StatusAgrees, Topology, LastIsActive, Exists
<1>3. Handoffs'
    BY <1>b, <1>c DEF ManifestIInv, Handoffs, Exists
<1>4. OneTransitionPerSource'
  <2> SUFFICES ASSUME NEW u \in Transition, NEW v \in Transition,
                      transition'[u].status # "absent",
                      transition'[u].source = transition'[v].source
               PROVE  u = v
    BY Zenon DEF OneTransitionPerSource
  <2>1. CASE u = t
    <3>1. v # t => transition[v].source = source
      BY <1>b, <2>1
    <3>2. v # t => transition[v].status = "absent"
      BY <3>1, Zenon
    <3>3. \A w \in Transition : transition[w].status = "absent" => transition[w].source # source
      BY NoneNotSegment, Zenon DEF ManifestIInv, Handoffs
    <3> QED
      BY <2>1, <3>1, <3>2, <3>3, Zenon
  <2>2. CASE u # t /\ v = t
    BY <1>b, <2>2
  <2>3. CASE u # t /\ v # t
    BY <1>b, <2>3 DEF ManifestIInv, OneTransitionPerSource
  <2> QED
    BY <2>1, <2>2, <2>3, Zenon
<1>5. HandoffChain'
    BY <1>b, <1>c DEF ManifestIInv, HandoffChain, Exists
<1> QED
    BY <1>1, <1>2, <1>3, <1>4, <1>5, Zenon DEF ManifestIInv

\* Committing a handoff ends its source and starts its target, the new end of the chain.
LEMMA CommitTransitionInv ==
    ASSUME ManifestIInv, NEW t \in Transition, CommitTransition(t)
    PROVE  ManifestIInv'
<1> USE DEF progress
<1>0. PICK source \in Segment, target \in Segment :
          source = transition[t].source /\ target = transition[t].target
    BY Zenon DEF ManifestIInv, Handoffs, CommitTransition, RebuildsCommitted
<1>a. TypeOK /\ status # "none" /\ damaged' = damaged
      /\ transition[t].status = "prepared" /\ attempt[source] = "handoff_pending"
      /\ checkpoint[source] # -1 /\ activeRun = source /\ ~Exists(target)
    BY <1>0, Zenon DEF ManifestIInv, CommitTransition, RebuildsCommitted, Loads
<1>b. source # target /\ Exists(source)
    BY <1>a, Zenon DEF Exists
<1>c. /\ attempt' = [attempt EXCEPT ![source] = "completed", ![target] = "starting"]
      /\ segment' = [segment EXCEPT ![source] = "handed_off", ![target] = "prepared"]
      /\ ordinal' = [ordinal EXCEPT ![target] = ordinal[source] + 1]
      /\ revision' = [revision EXCEPT ![target] = 1]
      /\ transition' = [transition EXCEPT ![t].status = "committed"]
      /\ status' = "active" /\ activeSegment' = target /\ activeRun' = target
      /\ UNCHANGED <<checkpoint, committedTrace, journaledTrace>>
    BY <1>0, Zenon DEF CommitTransition
<1>d. /\ attempt'[source] = "completed" /\ attempt'[target] = "starting"
      /\ segment'[source] = "handed_off"
      /\ ordinal'[target] = ordinal[source] + 1
      /\ \A s \in Segment : s # source /\ s # target => attempt'[s] = attempt[s] /\ segment'[s] = segment[s]
      /\ \A s \in Segment : s # target => ordinal'[s] = ordinal[s]
    BY <1>a, <1>b, <1>c, Zenon DEF TypeOK
<1>e. /\ transition'[t] = [status |-> "committed", source |-> source, target |-> target]
      /\ \A u \in Transition : u # t => transition'[u] = transition[u]
    BY <1>0, <1>a, <1>c, Zenon DEF TypeOK
<1>f. Exists(source)' /\ Exists(target)'
      /\ \A s \in Segment : s # target => (Exists(s)' <=> Exists(s))
    BY <1>a, <1>b, <1>d, Zenon DEF Exists
<1>g. \A s \in Segment : attempt[s] \in Undecided => s = source
    BY <1>a, <1>b, NoneNotSegment, Zenon DEF ManifestIInv, Topology
<1>h. \A s \in Segment : attempt'[s] \in Undecided <=> s = target
    BY <1>b, <1>d, <1>g, Zenon DEF Undecided, Working, Paused
<1>1. TypeOK'
  <2>1. attempt' \in [Segment -> AttemptStatus \cup {"absent"}]
    BY <1>a, <1>b, <1>c, Zenon DEF TypeOK, AttemptStatus, Working, Finished
  <2>2. segment' \in [Segment -> SegmentStatus \cup {"absent"}]
    BY <1>a, <1>b, <1>c, Zenon DEF TypeOK, SegmentStatus
  <2>3. ordinal' \in [Segment -> Nat] /\ revision' \in [Segment -> Nat]
    BY <1>a, <1>b, <1>c DEF TypeOK
  <2>4. transition' \in [Transition ->
          [status : {"absent", "prepared", "committed", "aborted"},
           source : Segment \cup {None}, target : Segment \cup {None}]]
    BY <1>a, <1>c DEF TypeOK
  <2> QED
    BY <1>a, <1>b, <1>c, <2>1, <2>2, <2>3, <2>4, Zenon DEF TypeOK, SessionStatus
<1>2. EventsApply' /\ OneOpenAttempt'
    BY <1>a, <1>b, <1>c, <1>f, <1>h, Zenon DEF ManifestIInv, EventsApply, OneOpenAttempt, Undecided
<1>3. StatusAgrees'
    BY <1>b, <1>c, <1>d, Zenon DEF StatusAgrees, Working, Paused
<1>4. Topology'
    BY <1>b, <1>c, <1>h, Zenon DEF Topology, TerminalStatus
<1>5. LastIsActive'
  <2>1. \A s \in Segment : ordinal[s] \in Nat
    BY <1>a, Zenon DEF TypeOK
  <2>2. \A s \in Segment : Exists(s) => ordinal[s] >= 1 /\ ordinal[s] <= ordinal[source]
    BY <1>a, <1>b, NoneNotSegment, Zenon DEF ManifestIInv, LastIsActive
  <2>3. \A s \in Segment : Exists(s)' => ordinal'[s] >= 1 /\ ordinal'[s] <= ordinal'[target]
    BY <1>b, <1>d, <1>f, <2>1, <2>2
  <2> QED
    BY <1>c, <2>3, Zenon DEF LastIsActive
<1>6. Handoffs'
  <2> SUFFICES ASSUME NEW u \in Transition
               PROVE  /\ transition'[u].status = "absent" => transition'[u].source = None
                      /\ transition'[u].status # "absent" =>
                            /\ transition'[u].source \in Segment /\ transition'[u].target \in Segment
                            /\ Exists(transition[u].source)'
                            /\ transition'[u].status = "prepared"
                                  /\ attempt'[transition'[u].source] \in Undecided
                                  => ~Exists(transition[u].target)'
    BY Zenon DEF Handoffs
  <2>1. CASE u = t
    BY <1>b, <1>e, <1>f, <2>1 DEF Exists
  <2>2. CASE u # t
    <3>1. transition'[u] = transition[u]
      BY <1>e, <2>2, Zenon
    <3>2. transition[u].status # "absent" =>
            transition[u].source \in Segment /\ transition[u].target \in Segment
              /\ Exists(transition[u].source)
      BY Zenon DEF ManifestIInv, Handoffs
    <3>3. transition[u].status # "absent" => transition[u].source # target
      BY <1>a, <3>2, Zenon
    <3>4. transition[u].status = "absent" => transition[u].source = None
      BY Zenon DEF ManifestIInv, Handoffs
    <3> QED
      BY <1>f, <1>h, <3>1, <3>2, <3>3, <3>4, Zenon DEF Exists
  <2> QED
    BY <2>1, <2>2, Zenon
<1>7. OneTransitionPerSource'
  <2>1. \A u \in Transition : transition'[u].source = transition[u].source
          /\ (transition'[u].status # "absent" => transition[u].status # "absent")
    BY <1>0, <1>a, <1>e
  <2> QED
    BY <2>1, Zenon DEF ManifestIInv, OneTransitionPerSource
<1>8. HandoffChain'
  <2>1. \A u \in Transition : u # t /\ transition[u].status = "committed" =>
          /\ transition[u].source \in Segment /\ transition[u].target \in Segment
          /\ transition[u].source # source /\ transition[u].source # target
          /\ transition[u].target # target
    BY <1>0, <1>a, Zenon DEF ManifestIInv, Handoffs, HandoffChain, OneTransitionPerSource
  <2>2. \A u \in Transition : transition'[u].status = "committed" =>
          /\ segment'[transition'[u].source] = "handed_off"
          /\ attempt'[transition'[u].source] = "completed"
          /\ checkpoint'[transition'[u].source] # -1
          /\ attempt'[transition'[u].target] # "absent"
          /\ ordinal'[transition'[u].target] = ordinal'[transition'[u].source] + 1
    <3> TAKE u \in Transition
    <3>1. CASE u = t
      <4>1. transition'[u].source = source /\ transition'[u].target = target
        BY <1>e, <3>1
      <4>2. ordinal'[source] = ordinal[source]
        BY <1>b, <1>d, Zenon
      <4> QED
        BY <1>a, <1>c, <1>d, <4>1, <4>2, ZenonT(40)
    <3>2. CASE u # t /\ transition[u].status = "committed"
      <4> DEFINE from == transition[u].source
                 into == transition[u].target
      <4>1. transition'[u] = transition[u] /\ from \in Segment /\ into \in Segment
            /\ from # source /\ from # target /\ into # target
        BY <1>e, <2>1, <3>2, Zenon
      <4>2. /\ segment[from] = "handed_off" /\ attempt[from] = "completed" /\ checkpoint[from] # -1
            /\ attempt[into] # "absent" /\ ordinal[into] = ordinal[from] + 1
        BY <3>2, Zenon DEF ManifestIInv, HandoffChain, Exists
      <4> HIDE DEF from, into
      <4>3. segment'[from] = "handed_off" /\ attempt'[from] = "completed" /\ checkpoint'[from] # -1
        BY <1>c, <1>d, <4>1, <4>2, Zenon
      <4>4. attempt'[into] # "absent" /\ ordinal'[into] = ordinal'[from] + 1
        BY <1>d, <4>1, <4>2, Zenon
      <4> QED
        BY <4>1, <4>3, <4>4, Zenon DEF from, into
    <3>3. CASE u # t /\ transition[u].status # "committed"
      BY <1>e, <3>3, Zenon
    <3> QED
      BY <3>1, <3>2, <3>3, Zenon
  <2>3. \A s \in Segment : Exists(s)' /\ ordinal'[s] # 1 =>
          \E u \in Transition : transition'[u].status = "committed" /\ transition'[u].target = s
    <3> SUFFICES ASSUME NEW s \in Segment, Exists(s)', ordinal'[s] # 1
                 PROVE  \E u \in Transition :
                           transition'[u].status = "committed" /\ transition'[u].target = s
      BY Zenon
    <3>1. CASE s = target
      BY <1>e, <3>1
    <3>2. CASE s # target
      <4>1. PICK u \in Transition : transition[u].status = "committed" /\ transition[u].target = s
        BY <1>d, <1>f, <3>2, Zenon DEF ManifestIInv, HandoffChain
      <4> QED
        BY <1>a, <1>e, <4>1, Zenon
    <3> QED
      BY <3>1, <3>2, Zenon
  <2>4. \A s, u \in Segment : Exists(s)' /\ Exists(u)' /\ ordinal'[s] = ordinal'[u] => s = u
    <3>1. \A s \in Segment : ordinal[s] \in Nat
      BY <1>a, Zenon DEF TypeOK
    <3>2. \A s \in Segment : Exists(s) => ordinal[s] <= ordinal[source]
      BY <1>a, <1>b, NoneNotSegment, Zenon DEF ManifestIInv, LastIsActive
    <3>3. \A s \in Segment : s # target /\ Exists(s)' => ordinal'[s] # ordinal'[target]
      BY <1>b, <1>d, <1>f, <3>1, <3>2
    <3> QED
      BY <1>d, <1>f, <3>3, Zenon DEF ManifestIInv, HandoffChain
  <2> QED
    BY <2>2, <2>3, <2>4, Zenon DEF HandoffChain, Exists
<1> QED
    BY <1>1, <1>2, <1>3, <1>4, <1>5, <1>6, <1>7, <1>8, Zenon DEF ManifestIInv

\* Aborting a handoff changes its status only.
LEMMA AbortInv ==
    ASSUME ManifestIInv, NEW t \in Transition, AbortTransition(t)
    PROVE  ManifestIInv'
<1> USE DEF AbortTransition, topology, layout, progress
<1>a. TypeOK
    BY Zenon DEF ManifestIInv
<1>b. /\ transition'[t] = [transition[t] EXCEPT !.status = "aborted"]
      /\ \A u \in Transition : u # t => transition'[u] = transition[u]
    BY <1>a, Zenon DEF TypeOK
<1>c. /\ transition'[t].status = "aborted"
      /\ \A u \in Transition : /\ transition'[u].source = transition[u].source
                               /\ transition'[u].target = transition[u].target
                               /\ u # t => transition'[u].status = transition[u].status
    BY <1>a, <1>b, Zenon DEF TypeOK
<1>1. TypeOK'
  <2>1. transition' \in [Transition ->
          [status : {"absent", "prepared", "committed", "aborted"},
           source : Segment \cup {None}, target : Segment \cup {None}]]
    BY <1>a DEF TypeOK
  <2> QED
    BY <1>a, <2>1, Zenon DEF TypeOK
<1>2. EventsApply' /\ OneOpenAttempt' /\ StatusAgrees' /\ Topology' /\ LastIsActive'
    BY Zenon DEF ManifestIInv, EventsApply, OneOpenAttempt, StatusAgrees, Topology, LastIsActive, Exists, Loads
<1>3. Handoffs' /\ OneTransitionPerSource'
    BY <1>c DEF ManifestIInv, Handoffs, OneTransitionPerSource, Exists
<1>4. HandoffChain'
    BY <1>c DEF ManifestIInv, HandoffChain, Exists
<1> QED
    BY <1>1, <1>2, <1>3, <1>4, Zenon DEF ManifestIInv

\* No command leaves the invariant.
LEMMA ManifestNext == ManifestIInv /\ [Next]_vars => ManifestIInv'
<1> SUFFICES ASSUME ManifestIInv, [Next]_vars PROVE ManifestIInv'
    BY Zenon
<1>1. CASE SessionStep
    BY <1>1, CreateInv, CloseInv, QuietCommands, StatusCommands, Zenon DEF SessionStep
<1>2. CASE RunStep
    BY <1>2, QuietCommands, StatusCommands, Zenon DEF RunStep
<1>3. CASE HandoffStep
    BY <1>3, PrepareInv, CommitTransitionInv, AbortInv, Zenon DEF HandoffStep
<1>4. CASE UNCHANGED vars
  <2>1. revision \in [Segment -> Nat] /\ committedTrace \in [Segment -> Nat]
        /\ journaledTrace \in [Segment -> Nat]
    BY Zenon DEF ManifestIInv, TypeOK
  <2> QED
    BY <1>4, <2>1, QuietInv, Zenon DEF vars, topology
<1> QED
    BY <1>1, <1>2, <1>3, <1>4, Zenon DEF Next

-----------------------------------------------------------------------------
(* Theorems. *)

\* The inductive invariant of the session manifest.
THEOREM ManifestInvariant == Spec => []ManifestIInv
<1>1. Init => ManifestIInv
    BY ManifestInit, Zenon
<1>2. ManifestIInv /\ [Next]_vars => ManifestIInv'
    BY ManifestNext, Zenon
<1> QED
    BY <1>1, <1>2, PTL DEF Spec

\* Whatever sequence of commands a session is given, its journal holds only events that
\* rebuildManifest accepts.
THEOREM EventsAlwaysApply == Spec => []EventsApply
<1>1. ManifestIInv => EventsApply
    BY Zenon DEF ManifestIInv
<1> QED
    BY <1>1, ManifestInvariant, PTL

\* However many handoffs a session went through, one attempt at most can still run, and
\* it is the active one.
THEOREM AlwaysOneOpenAttempt == Spec => []OneOpenAttempt
<1>1. ManifestIInv => OneOpenAttempt
    BY Zenon DEF ManifestIInv
<1> QED
    BY <1>1, ManifestInvariant, PTL

\* The session status is always the one that the active attempt implies.
THEOREM StatusAlwaysAgrees == Spec => []StatusAgrees
<1>1. ManifestIInv => StatusAgrees
    BY Zenon DEF ManifestIInv
<1> QED
    BY <1>1, ManifestInvariant, PTL

\* The segments of a session are always one chain of committed handoffs.
THEOREM AlwaysHandoffChain == Spec => []HandoffChain
<1>1. ManifestIInv => HandoffChain
    BY Zenon DEF ManifestIInv
<1> QED
    BY <1>1, ManifestInvariant, PTL

\* A prepared handoff whose source waits for it never loses its target.
THEOREM HandoffAlwaysCanFinish == Spec => []HandoffCanFinish
<1>1. ManifestIInv => HandoffCanFinish
  <2> SUFFICES ASSUME ManifestIInv, NEW t \in Transition, transition[t].status = "prepared",
                      attempt[transition[t].source] = "handoff_pending"
               PROVE  activeRun = transition[t].source /\ ~Exists(transition[t].target)
    BY Zenon DEF HandoffCanFinish
  <2>1. transition[t].source \in Segment
    BY Zenon DEF ManifestIInv, Handoffs
  <2>2. attempt[transition[t].source] \in Undecided
    BY Zenon DEF Undecided, Paused
  <2> QED
    BY <2>1, <2>2, Zenon DEF ManifestIInv, Handoffs, OneOpenAttempt, Paused
<1> QED
    BY <1>1, ManifestInvariant, PTL

\* An ended session keeps its status, attempts, segments and checkpoints for ever.
THEOREM EndedStaysEnded == Spec => TerminalIsFinal
<1>1. ManifestIInv /\ [Next]_vars =>
          [(status \in TerminalStatus) => UNCHANGED <<topology, layout, checkpoint>>]_vars
  <2> SUFFICES ASSUME ManifestIInv, Next, status \in TerminalStatus
               PROVE  UNCHANGED <<topology, layout, checkpoint>>
    BY Zenon DEF vars
  <2>a. activeRun = None /\ status # "none" /\ ~Open
    BY Zenon DEF ManifestIInv, Topology, Open, TerminalStatus
  <2>b. \A t \in Transition : ~RebuildsCommitted(t)
    BY <2>a, NoneNotSegment, Zenon DEF ManifestIInv, Handoffs, RebuildsCommitted
  <2>1. CASE SessionStep
    BY <2>1, <2>a, Zenon DEF SessionStep, CreateSession, CloseSession, PauseSession, ResumeSession,
                      RecordDetach, topology, layout, progress
  <2>2. CASE RunStep
    BY <2>2, <2>a, NoneNotSegment
    DEF RunStep, UpdateAttempt, CommitExecutionMutation, CommitTraceEvent, CommitSegmentRevision,
        RebuildsRevised, topology, layout, progress
  <2>3. CASE HandoffStep
    BY <2>3, <2>a, <2>b, Zenon DEF HandoffStep, PrepareTransition, CommitTransition, AbortTransition,
                            topology, layout, progress
  <2> QED
    BY <2>1, <2>2, <2>3, Zenon DEF Next
<1> QED
    BY <1>1, ManifestInvariant, PTL DEF Spec, TerminalIsFinal

\* The steps that change how far a run has got.
LEMMA ProgressSteps ==
    ASSUME ManifestIInv, [Next]_vars
    PROVE  \/ UNCHANGED progress
           \/ \E s \in Segment, to \in AttemptStatus, previous \in -1 .. MaxCheckpoint,
                 sequence \in 0 .. MaxCheckpoint, trace \in 0 .. MaxTrace :
                 CommitExecutionMutation(s, to, previous, sequence, trace)
           \/ \E s \in Segment, sequence \in 1 .. MaxTrace : CommitTraceEvent(s, sequence)
<1>1. CASE UNCHANGED vars
    BY <1>1 DEF vars, progress
<1>2. CASE SessionStep
    BY <1>2, Zenon DEF SessionStep, CreateSession, CloseSession, PauseSession, ResumeSession, RecordDetach
<1>3. CASE RunStep
    BY <1>3, Zenon DEF RunStep, UpdateAttempt, CommitSegmentRevision
<1>4. CASE HandoffStep
    BY <1>4, Zenon DEF HandoffStep, PrepareTransition, CommitTransition, AbortTransition
<1> QED
    BY <1>1, <1>2, <1>3, <1>4, Zenon DEF Next

\* However long a run is, CommitExecutionMutation and CommitTraceEvent never take its
\* checkpoint or its trace back, and a mutation covers what was journaled before it.
THEOREM ProgressAlwaysMonotone == Spec => ProgressMonotone
<1>1. ASSUME ManifestIInv, [Next]_vars, NEW s \in Segment
      PROVE  /\ checkpoint'[s] >= checkpoint[s]
             /\ committedTrace'[s] >= committedTrace[s] /\ journaledTrace'[s] >= journaledTrace[s]
             /\ checkpoint'[s] # checkpoint[s] => committedTrace'[s] >= journaledTrace[s]
  <2>0. /\ checkpoint \in [Segment -> Int]
        /\ committedTrace \in [Segment -> Nat] /\ journaledTrace \in [Segment -> Nat]
    BY <1>1, Zenon DEF ManifestIInv, TypeOK
  <2>1. CASE UNCHANGED progress
    BY <2>0, <2>1 DEF progress
  <2>2. ASSUME NEW u \in Segment, NEW to \in AttemptStatus, NEW previous \in -1 .. MaxCheckpoint,
               NEW sequence \in 0 .. MaxCheckpoint, NEW trace \in 0 .. MaxTrace,
               CommitExecutionMutation(u, to, previous, sequence, trace)
        PROVE  /\ checkpoint'[s] >= checkpoint[s]
               /\ committedTrace'[s] >= committedTrace[s] /\ journaledTrace'[s] >= journaledTrace[s]
               /\ checkpoint'[s] # checkpoint[s] => committedTrace'[s] >= journaledTrace[s]
    <3>1. /\ IF checkpoint[u] = -1 THEN sequence = 0 ELSE sequence > checkpoint[u]
          /\ trace >= LatestTrace(u)
          /\ checkpoint' = [checkpoint EXCEPT ![u] = sequence]
          /\ committedTrace' = [committedTrace EXCEPT ![u] = trace]
          /\ journaledTrace' = journaledTrace
      BY <2>2, Zenon DEF CommitExecutionMutation, MutationFollows
    <3> QED
      BY <2>0, <3>1 DEF LatestTrace
  <2>3. ASSUME NEW u \in Segment, NEW sequence \in 1 .. MaxTrace, CommitTraceEvent(u, sequence)
        PROVE  /\ checkpoint'[s] >= checkpoint[s]
               /\ committedTrace'[s] >= committedTrace[s] /\ journaledTrace'[s] >= journaledTrace[s]
               /\ checkpoint'[s] # checkpoint[s] => committedTrace'[s] >= journaledTrace[s]
    <3>1. /\ sequence = LatestTrace(u) + 1
          /\ journaledTrace' = [journaledTrace EXCEPT ![u] = sequence]
          /\ checkpoint' = checkpoint /\ committedTrace' = committedTrace
      BY <2>3, Zenon DEF CommitTraceEvent
    <3> QED
      BY <2>0, <3>1 DEF LatestTrace
  <2> QED
    BY <1>1, <2>1, <2>2, <2>3, ProgressSteps, Zenon
<1>2. ManifestIInv /\ [Next]_vars =>
      [\A s \in Segment :
          /\ checkpoint'[s] >= checkpoint[s]
          /\ committedTrace'[s] >= committedTrace[s] /\ journaledTrace'[s] >= journaledTrace[s]
          /\ checkpoint'[s] # checkpoint[s] => committedTrace'[s] >= journaledTrace[s]]_vars
    BY <1>1, Zenon
<1> QED
    BY <1>2, ManifestInvariant, PTL DEF Spec, ProgressMonotone

\* From PrepareTransition to CommitTransition the checkpoint of the source stays what it
\* was, since a mutation of a run that a prepared transition uses is refused.
THEOREM PreparedAlwaysFreezes == Spec => PreparedFreezes
<1>1. ASSUME ManifestIInv, [Next]_vars, NEW t \in Transition, transition[t].status = "prepared"
      PROVE  checkpoint'[transition[t].source] = checkpoint[transition[t].source]
  <2>0. checkpoint \in [Segment -> Int] /\ transition[t].source \in Segment
    BY <1>1, Zenon DEF ManifestIInv, TypeOK, Handoffs
  <2>1. ASSUME NEW s \in Segment, NEW to, NEW previous, NEW sequence, NEW trace,
               CommitExecutionMutation(s, to, previous, sequence, trace)
        PROVE  checkpoint'[transition[t].source] = checkpoint[transition[t].source]
    <3>1. s # transition[t].source /\ checkpoint' = [checkpoint EXCEPT ![s] = sequence]
      BY <1>1, <2>1, Zenon DEF CommitExecutionMutation, preparedTransitionUsesRun
    <3> QED
      BY <2>0, <3>1, Zenon
  <2>2. ASSUME NEW s \in Segment, NEW sequence, CommitTraceEvent(s, sequence)
        PROVE  checkpoint'[transition[t].source] = checkpoint[transition[t].source]
    BY <2>2, Zenon DEF CommitTraceEvent
  <2> QED
    BY <1>1, <2>1, <2>2, ProgressSteps, Zenon DEF progress
<1>2. ManifestIInv /\ [Next]_vars =>
      [\A t \in Transition :
          transition[t].status = "prepared" /\ transition'[t].status \in {"prepared", "committed"}
              => checkpoint'[transition[t].source] = checkpoint[transition[t].source]]_vars
    BY <1>1, Zenon
<1> QED
    BY <1>2, ManifestInvariant, PTL DEF Spec, PreparedFreezes
=============================================================================
