---------------------------- MODULE SessionView -----------------------------
(***************************************************************************)
(* What an operator sees of a session: the projector turns every event of   *)
(* the session journal into a group of frames (sessionstdio/projector.go),  *)
(* the editor folds the groups into its own copy of the manifest and of the *)
(* graphs (SessionGraphModel), keeps that copy in a cache file written      *)
(* behind its back, and starts from the cache when the window is reloaded.  *)
(* The view is never told the manifest outright: most groups carry only     *)
(* what changed.                                                           *)
(*                                                                         *)
(* The journal is SessionManifest's.  SessionStdio models how the groups    *)
(* travel; here group n + 1 follows group n.  Node states, interactions and *)
(* the composed drawing are left out.  A segment and its run have one name. *)
(***************************************************************************)
EXTENDS Naturals, Sequences, SequencesExt, FiniteSets

CONSTANTS Segment, Transition, None, MaxCheckpoint, MaxTrace, MaxRevision,
          MaxLog           \* bound: events of the journal

VARIABLES
    status, activeSegment, activeRun, segment, ordinal, revision, attempt,
    checkpoint, committedTrace, journaledTrace, transition, damaged,
    log,         \* the journal with the manifest after each event
    filter,      \* the one graph the attachment sends in full, or "all"
    view,        \* SessionGraphModel
    writer,      \* CoalescedAsyncWriter: what waits, and the write under way
    disk         \* the cache file

M == INSTANCE SessionManifest

server == <<status, activeSegment, activeRun, segment, ordinal, revision, attempt,
            checkpoint, committedTrace, journaledTrace, transition, damaged>>
vars == <<server, log, filter, view, writer, disk>>

NoManifest == [seq |-> 0]
Empty == [seq |-> 0, man |-> NoManifest, loaded |-> [s \in Segment |-> 0],
          avail |-> [s \in Segment |-> {}], trace |-> [s \in Segment |-> 0], fault |-> FALSE]

----------------------------------------------------------------------------
(* The journal. *)

Manifest ==
    [seq |-> 0, status |-> status, active |-> activeRun, segment |-> segment,
     attempt |-> attempt, revision |-> revision,
     transition |-> [t \in Transition |-> transition[t].status]]

\* An event, the run it is about, the trace events lo+1..hi it carries and the manifest after it.
Logged(kind, s, lo, hi) ==
    /\ Len(log) < MaxLog
    /\ log' = Append(log, [kind |-> kind, run |-> s, lo |-> lo, hi |-> hi,
                           man |-> [(Manifest') EXCEPT !.seq = Len(log) + 1]])

\* The coordinator reports an attempt only as running.
ServerCommits ==
    \/ \E s \in Segment :
         \/ M!CreateSession(s) /\ Logged("created", s, 0, 0)
         \/ M!UpdateAttempt(s, "running") /\ Logged("attempt", s, 0, 0)
         \/ \E to \in M!AttemptStatus, trace \in 0..MaxTrace :
              /\ checkpoint[s] < MaxCheckpoint
              /\ M!CommitExecutionMutation(s, to, checkpoint[s], checkpoint[s] + 1, trace)
              /\ Logged("execution", s, M!LatestTrace(s), trace)
         \/ \E trace \in 1..MaxTrace :
              M!CommitTraceEvent(s, trace) /\ Logged("trace", s, trace - 1, trace)
         \/ M!CommitSegmentRevision(s) /\ Logged("revised", s, 0, 0)
         \/ \E t \in Transition, target \in Segment :
              M!PrepareTransition(t, s, target) /\ Logged("prepared", s, 0, 0)
    \/ \E t \in Transition :
         \/ M!CommitTransition(t) /\ Logged("committed", transition[t].target, 0, 0)
         \/ M!AbortTransition(t) /\ Logged("aborted", transition[t].source, 0, 0)
    \/ M!PauseSession /\ Logged("paused", activeRun, 0, 0)
    \/ M!ResumeSession /\ Logged("resumed", activeRun, 0, 0)
    \/ M!RecordDetach /\ Logged("detached", None, 0, 0)
    \/ M!CloseSession("resolved")
         /\ Logged("closed", IF activeRun # None /\ attempt[activeRun] \in M!Paused
                             THEN activeRun ELSE None, 0, 0)

ServerStep == ServerCommits /\ UNCHANGED <<filter, view, writer, disk>>

----------------------------------------------------------------------------
(* Projector: the frames of an event. *)

\* A frame of a run; "told" when its payload gives the status of the attempt.
Frame(type, s, m) == [type |-> type, run |-> s, man |-> m, lo |-> 0, hi |-> 0, told |-> TRUE]
Untold(type, s, m) == [Frame(type, s, m) EXCEPT !.told = FALSE]
RunEvents(e) == [Frame("run.event", e.run, e.man) EXCEPT !.lo = e.lo, !.hi = e.hi]

\* manifestFrame: the manifest as it was after the event.
Snapshot(e) == Frame("session.snapshot", e.run, e.man)

\* graphFrames: the graph itself, or the note that it can be had.
GraphFrames(e, only) ==
    LET wanted == only = "all" \/ only = <<e.run, e.man.revision[e.run]>> IN
    Frame(IF wanted THEN "segment.graph" ELSE "segment.graph.available", e.run, e.man)

Finishing(e) == << Frame("attempt.finished", e.run, e.man), Frame("segment.finished", e.run, e.man) >>
    \o IF e.man.status = "cancelled" THEN << Frame("session.finished", e.run, e.man) >> ELSE <<>>

AttemptFrames(e) ==
    CASE e.man.attempt[e.run] \in {"waiting"} \cup M!Paused -> << Frame("attempt.paused", e.run, e.man) >>
      [] M!isTerminalAttemptStatus(e.man.attempt[e.run]) -> Finishing(e)
      [] OTHER -> <<>>

\* Mutant: a checkpoint sends what happened, without the manifest.
ExecutionWithoutSnapshot(e) == << RunEvents(e) >>

ExecutionFrames(e) == << Snapshot(e), RunEvents(e) >> \o AttemptFrames(e)

projectEvent(e, only) ==
    CASE e.kind = "created" ->
           << Snapshot(e), Frame("segment.added", e.run, e.man), GraphFrames(e, only),
              Frame("attempt.started", e.run, e.man) >>
      [] e.kind = "attempt" -> << Frame("attempt.started", e.run, e.man) >>
      [] e.kind = "trace" -> << RunEvents(e) >>
      [] e.kind = "revised" -> << Snapshot(e), GraphFrames(e, only) >>
      [] e.kind = "prepared" -> << Frame("transition.prepared", e.run, e.man) >>
      [] e.kind = "committed" ->
           << Frame("transition.committed", e.run, e.man), Frame("segment.added", e.run, e.man),
              GraphFrames(e, only), Frame("attempt.started", e.run, e.man) >>
      [] e.kind = "closed" ->
           (IF e.run = None THEN <<>>
            ELSE << Frame("attempt.finished", e.run, e.man), Frame("segment.finished", e.run, e.man) >>)
           \o << Frame("session.finished", e.run, e.man) >>
      [] e.kind = "execution" -> ExecutionFrames(e)
      [] e.kind \in {"aborted", "detached"} -> << Snapshot(e) >>
      [] e.kind = "paused" -> << Untold("attempt.paused", e.run, e.man) >>
      [] e.kind = "resumed" -> << Untold("attempt.started", e.run, e.man) >>

----------------------------------------------------------------------------
(* SessionGraphModel: a group is applied to the view, or refused. *)

Refused(v) == [v EXCEPT !.fault = TRUE]

\* mergeSessionManifest refuses a snapshot that goes back.
MergeSnapshot(v, m) ==
    IF v.man # NoManifest
       /\ (m.seq < v.man.seq \/ \E s \in Segment : m.revision[s] < v.man.revision[s])
    THEN Refused(v) ELSE [v EXCEPT !.man = m]

\* applyAttempt.  Without a status a pause keeps a pending handoff, a start means running.
AppliedStatus(v, f) ==
    IF f.told THEN f.man.attempt[f.run]
    ELSE IF f.type = "attempt.started" THEN "running"
    ELSE IF v.man.attempt[f.run] = "handoff_pending" THEN "handoff_pending" ELSE "paused_at_boundary"

ApplyAttempt(v, f) ==
    [v EXCEPT !.man.attempt[f.run] = AppliedStatus(v, f),
              !.man.active = IF f.type = "attempt.started" THEN f.run ELSE @,
              !.man.status = IF f.type = "attempt.started" THEN "active" ELSE @]

\* applyCommittedTransition: only a transition that was seen prepared.
ApplyCommitted(v, f) ==
    LET t == CHOOSE u \in Transition : f.man.transition[u] = "committed"
                                       /\ v.man.transition[u] # f.man.transition[u]
        source == v.man.active IN
    IF ~\E u \in Transition : v.man.transition[u] = "prepared" /\ f.man.transition[u] = "committed"
    THEN Refused(v)
    ELSE [v EXCEPT !.man.transition[t] = "committed",
                   !.man.segment[source] = "handed_off", !.man.segment[f.run] = f.man.segment[f.run],
                   !.man.attempt[source] = "completed", !.man.attempt[f.run] = f.man.attempt[f.run],
                   !.man.revision[f.run] = f.man.revision[f.run],
                   !.man.active = f.run, !.man.status = "active"]

ApplyFinished(v, f) ==
    LET a == v.man.active
        left == a # None /\ v.man.attempt[a] \in {"waiting"} \cup M!Paused IN
    [v EXCEPT !.man.attempt = [s \in Segment |-> IF left /\ s = a THEN "cancelled" ELSE @[s]],
              !.man.segment = [s \in Segment |-> IF left /\ s = a THEN "cancelled" ELSE @[s]],
              !.man.status = f.man.status, !.man.active = None]

\* applyRunEvent throws when an event rewrites an occurrence that has ended.
ApplyRunEvent(v, f) ==
    IF f.hi > f.lo /\ f.lo < v.trace[f.run] THEN Refused(v)
    ELSE [v EXCEPT !.trace[f.run] = IF f.hi > f.lo THEN f.hi ELSE @]

Known(v, s) == v.avail[s] \cup {0, v.loaded[s]}

\* applyGraphAvailable: an older graph is unloaded.
ApplyAvailable(v, f) ==
    LET r == f.man.revision[f.run] IN
    IF v.man.revision[f.run] # r \/ (r \notin v.avail[f.run] /\ \A k \in Known(v, f.run) : r > k + 1)
    THEN Refused(v)
    ELSE [v EXCEPT !.avail[f.run] = @ \cup {r}, !.loaded[f.run] = IF @ = r THEN r ELSE 0]

applyFrame(v, f) ==
    IF v.fault \/ (v.man = NoManifest /\ f.type # "session.snapshot") THEN Refused(v)
    ELSE CASE f.type = "session.snapshot" -> MergeSnapshot(v, f.man)
           [] f.type \in {"segment.added", "segment.finished"} ->
                [v EXCEPT !.man.segment[f.run] = f.man.segment[f.run],
                          !.man.revision[f.run] = f.man.revision[f.run]]
           [] f.type = "segment.graph.available" -> ApplyAvailable(v, f)
           [] f.type \in {"attempt.started", "attempt.paused", "attempt.finished"} -> ApplyAttempt(v, f)
           [] f.type = "transition.prepared" -> [v EXCEPT !.man.transition = f.man.transition]
           [] f.type = "transition.committed" -> ApplyCommitted(v, f)
           [] f.type = "session.finished" -> ApplyFinished(v, f)
           [] f.type = "run.event" -> ApplyRunEvent(v, f)
           [] f.type = "segment.graph" -> v

\* validateGraphManifestTransaction: a new revision comes with its graph, or the note, and
\* with the snapshot that binds it.
GraphBound(before, after, frames) ==
    before = NoManifest \/ \A s \in Segment :
        before.revision[s] # 0 /\ before.revision[s] # after.revision[s] =>
            /\ \E f \in ToSet(frames) : f.type \in {"segment.graph", "segment.graph.available"} /\ f.run = s
            /\ \E f \in ToSet(frames) : f.type = "session.snapshot"

\* applyGraphUpdate.
ApplyGraph(v, f) ==
    LET r == f.man.revision[f.run] IN
    IF v.fault \/ v.man.revision[f.run] # r
       \/ (r \notin v.avail[f.run] /\ \A k \in Known(v, f.run) : r > k + 1)
    THEN Refused(v)
    ELSE [v EXCEPT !.avail[f.run] = @ \cup {r}, !.loaded[f.run] = r]

\* applyGroup: a refused group leaves the view as it was, and the client gives up.
applyGroup(v, n, frames) ==
    LET framed == FoldLeft(applyFrame, v, frames)
        graphs == SelectSeq(frames, LAMBDA f : f.type = "segment.graph")
        drawn == FoldLeft(ApplyGraph, framed, graphs) IN
    IF drawn.fault \/ ~GraphBound(v.man, framed.man, frames) THEN Refused(v)
    ELSE [drawn EXCEPT !.seq = n, !.man.seq = IF @ < n THEN n ELSE @]

----------------------------------------------------------------------------
(* The editor. *)

\* persistInvestigationCheckpoint: the newest checkpoint replaces the one that waits.
Enqueued(v) == [writer EXCEPT !.pending = v]

Receive ==
    /\ ~view.fault /\ view.seq < Len(log)
    /\ view' = applyGroup(view, view.seq + 1, projectEvent(log[view.seq + 1], filter))
    /\ writer' = IF view'.fault THEN writer ELSE Enqueued(view')
    /\ UNCHANGED <<server, log, filter, disk>>

\* sendAttachmentSnapshot, when there was nothing to replay: the handshake.
Handshake ==
    /\ ~view.fault /\ view.seq = Len(log) /\ view.seq > 0
    /\ LET v == MergeSnapshot(view, log[view.seq].man) IN
       view' = IF v.fault THEN Refused(view) ELSE v
    /\ UNCHANGED <<server, log, filter, writer, disk>>

\* ensureInvestigationGraph: any revision the view knows of may be fetched later.
loadGraphRevision(s, r) ==
    /\ ~view.fault /\ view.man # NoManifest /\ r \in view.avail[s] /\ view.loaded[s] = 0
    /\ view' = [view EXCEPT !.loaded[s] = IF r = view.man.revision[s] THEN r ELSE @]
    /\ writer' = Enqueued(view')
    /\ UNCHANGED <<server, log, filter, disk>>

\* CoalescedAsyncWriter.drain and SessionGraphCacheStore.save, which removes the old file
\* before it renames the new one.
WriterTakes ==
    /\ writer.writing = Empty /\ writer.pending # Empty
    /\ writer' = [pending |-> Empty, writing |-> writer.pending]
    /\ UNCHANGED <<server, log, filter, view, disk>>

WriterRemoves ==
    /\ writer.writing # Empty /\ disk # Empty
    /\ disk' = Empty
    /\ UNCHANGED <<server, log, filter, view, writer>>

WriterRenames ==
    /\ writer.writing # Empty /\ disk = Empty
    /\ disk' = writer.writing
    /\ writer' = [writer EXCEPT !.writing = Empty]
    /\ UNCHANGED <<server, log, filter, view>>

\* Mutant: the view is restored without the graphs it knew of.
RestoreForgetting(c) == [c EXCEPT !.avail = [s \in Segment |-> {}]]

\* restore, with validateRestoredGraphAvailability; recoverySequence is the cache's.
Restored(c) ==
    IF c.man # NoManifest /\ \E s \in Segment : \E r \in 1..c.man.revision[s] : r \notin c.avail[s]
    THEN Refused(c) ELSE c

\* The active segment, or the last one there was.
attachmentGraphSegmentID ==
    IF activeSegment # None THEN activeSegment
    ELSE CHOOSE s \in Segment : \A o \in Segment : ordinal[s] >= ordinal[o]

\* The window is reloaded, or the process is gone: what waits to be written is lost, the
\* next attachment sends the graph of one segment as it is now.
Reconnect ==
    /\ Len(log) > 0
    /\ view' = Restored(disk)
    /\ writer' = [pending |-> Empty, writing |-> Empty]
    /\ filter' = <<attachmentGraphSegmentID, revision[attachmentGraphSegmentID]>>
    /\ UNCHANGED <<server, log, disk>>

Init ==
    /\ M!Init
    /\ log = <<>> /\ filter = "all" /\ view = Empty /\ disk = Empty
    /\ writer = [pending |-> Empty, writing |-> Empty]

Next ==
    \/ ServerStep \/ Receive \/ Handshake \/ WriterTakes \/ WriterRemoves \/ WriterRenames \/ Reconnect
    \/ \E s \in Segment, r \in 1..MaxRevision : loadGraphRevision(s, r)

Spec == Init /\ [][Next]_vars

----------------------------------------------------------------------------

\* The view refuses nothing that the runtime sends and nothing that it cached itself,
\* however often the window was reloaded: a refused group ends the attachment, and a cache
\* that cannot be restored would end every later one.
ViewNeverRefuses == ~view.fault

\* After group n the editor believes of the session, of its runs and of its handoffs what
\* the manifest said after event n.
ViewAgrees ==
    view.seq > 0 =>
        LET m == log[view.seq].man IN
        /\ view.man.status = m.status /\ view.man.active = m.active
        /\ view.man.attempt = m.attempt /\ view.man.transition = m.transition
        /\ view.man.revision = m.revision
=============================================================================
