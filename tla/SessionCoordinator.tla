------------------------- MODULE SessionCoordinator -------------------------
(***************************************************************************)
(* The coordinator of investigation sessions (sessioncoordinator): it takes *)
(* the session lease, keeps the run store of each attempt in step with the  *)
(* session journal, drives the engine and carries out handoffs.  The run    *)
(* store and the journal are separate: a checkpoint is written to the run   *)
(* store first and committed to the journal in a second step, and a process *)
(* may fail or crash between any two of them.  The journal is the authority *)
(* and the next attachment restores the run store from it.                  *)
(*                                                                         *)
(* SessionJournal and SessionManifest model what a commit does; here it is  *)
(* one step that succeeds when the writer's manifest is current, or fails   *)
(* (an ErrProjection, after which the receipt is found, is a success).      *)
(* A checkpoint is the writer epoch that made it and the status of the run; *)
(* a state is the sequence of checkpoints that led to it.                   *)
(***************************************************************************)
EXTENDS Naturals, Sequences

CONSTANTS
    Process,       \* runtime processes that attach to the session
    Runs,          \* bound: runs of the handoff chain
    MaxEpoch,      \* bound: session writer epochs
    MaxSteps       \* bound: checkpoints of one run made by steps

CoordRun == 1..Runs
Nobody == 0
NoRun == 0
Gone == <<>>      \* the run directory does not exist

VARIABLES
    journal,       \* seq, active run, status and checkpoint of each attempt, transitions
    sessionLease,  \* writer epoch and holder
    runStore,      \* run -> writer epoch, holder of its lease, state in its directory
    proc           \* process -> its coordinator, handle and engine run

vars == <<journal, sessionLease, runStore, proc>>

Idle == [pc |-> "off", via |-> "none", epoch |-> 0, run |-> NoRun, handle |-> NoRun, seq |-> 0,
         mem |-> <<>>, next |-> "off", detaching |-> NoRun, ack |-> FALSE]

Working == {"starting", "running"}
Ended == {"completed", "cancelled"}

Status(r) == journal.attempt[r].status
Checkpoint(r) == journal.attempt[r].checkpoint
Newest(states) == states[Len(states)]
Current(p) == proc[p].epoch = sessionLease.epoch /\ sessionLease.holder = p
Fresh(p) == proc[p].seq = journal.seq

\* attemptStatusFromRun; a prepared dispatch is a running run, a halt is indeterminate.
attemptStatusFromRun(st) ==
    IF st = "dispatch" THEN "running" ELSE IF st = "halted" THEN "indeterminate" ELSE st

\* Statuses with which the engine has stopped and given back the run lease.
Stops(st) == st \notin {"running", "dispatch"}

----------------------------------------------------------------------------
(* Leases. *)

\* AcquireSessionLease: every acquisition is a new writer epoch.
AcquireSession(p) ==
    /\ proc[p].pc = "off" /\ sessionLease.holder = Nobody /\ sessionLease.epoch < MaxEpoch
    /\ sessionLease' = [epoch |-> sessionLease.epoch + 1, holder |-> p]
    /\ proc' = [proc EXCEPT ![p] = [Idle EXCEPT !.pc = "leased", !.epoch = sessionLease.epoch + 1]]
    /\ UNCHANGED <<journal, runStore>>

FreedRuns(p) ==
    [r \in CoordRun |-> IF runStore[r].holder = p THEN [runStore[r] EXCEPT !.holder = Nobody]
                        ELSE runStore[r]]

\* Release, the release of a failed Start or attachment, and the end of the process.
Release(p) ==
    /\ proc[p].pc \in {"leased", "attached", "failed", "stopped"}
    /\ sessionLease' = [sessionLease EXCEPT !.holder = Nobody]
    /\ runStore' = FreedRuns(p)
    /\ proc' = [proc EXCEPT ![p] = Idle]
    /\ UNCHANGED journal

\* The process dies; the operating system drops its file locks.
Crash(p) ==
    /\ proc[p].pc # "off"
    /\ sessionLease' = [sessionLease EXCEPT !.holder = IF @ = p THEN Nobody ELSE @]
    /\ runStore' = FreedRuns(p)
    /\ proc' = [proc EXCEPT ![p] = Idle]
    /\ UNCHANGED journal

----------------------------------------------------------------------------
(* Entry points: Start, and ResumeAttached for an attachment. *)

\* Start creates the session, or finds it created by the same command.
StartSession(p) ==
    /\ proc[p].pc = "leased"
    /\ journal' = IF journal.seq > 0 THEN journal
                  ELSE [journal EXCEPT !.seq = 1, !.active = 1, !.attempt[1].status = "starting"]
    /\ proc' = [proc EXCEPT ![p] = [@ EXCEPT !.pc = "restore", !.via = "start", !.run = 1,
                                              !.seq = journal'.seq]]
    /\ UNCHANGED <<sessionLease, runStore>>

\* AttachReconciled: an attempt that looks as if it were running was orphaned.
ReconcileAttached(p) ==
    /\ proc[p].pc = "leased" /\ journal.seq > 0
    /\ proc' = [proc EXCEPT ![p] =
          IF journal.active # NoRun /\ Status(journal.active) \in Working
          THEN [@ EXCEPT !.pc = "resume", !.via = "reconcile"]
          ELSE [@ EXCEPT !.pc = "attached"]]
    /\ UNCHANGED <<journal, sessionLease, runStore>>

\* The client asks for session.resume.
ClientResume(p) ==
    /\ proc[p].pc = "attached"
    /\ proc' = [proc EXCEPT ![p] = [@ EXCEPT !.pc = "resume", !.via = "resume"]]
    /\ UNCHANGED <<journal, sessionLease, runStore>>

\* resumeWithLease, up to the start of the run or the recovery of a handoff.
resumeWithLease(p, ack) ==
    LET r == journal.active IN
    /\ proc[p].pc = "resume"
    /\ proc' = [proc EXCEPT ![p] =
          IF r = NoRun THEN [@ EXCEPT !.pc = "failed"]
          ELSE IF Status(r) = "handoff"
          THEN [@ EXCEPT !.pc = IF journal.transition[r] = "prepared" THEN "commit" ELSE "source",
                         !.run = r, !.seq = journal.seq]
          ELSE IF Status(r) \in Working \cup {"paused"} \/ (Status(r) = "indeterminate" /\ ack)
          THEN [@ EXCEPT !.pc = "restore", !.run = r, !.seq = journal.seq, !.ack = ack]
          ELSE [@ EXCEPT !.pc = "failed"]]
    /\ UNCHANGED <<journal, sessionLease, runStore>>

----------------------------------------------------------------------------
(* The run store is brought to the journal's state. *)

\* Mutant: the run directory is used as it was found.
DirectoryTrusted(p) ==
    LET r == proc[p].run IN
    /\ proc[p].pc = "restore"
    /\ IF runStore[r].holder # Nobody
       THEN /\ proc' = [proc EXCEPT ![p].pc = "failed"]
            /\ UNCHANGED runStore
       ELSE /\ proc' = [proc EXCEPT ![p] = [@ EXCEPT !.pc = "engine", !.mem = runStore[r].state]]
            /\ UNCHANGED runStore
    /\ UNCHANGED <<journal, sessionLease>>

\* startOrResumeRun replaces the directory of a run that has a committed checkpoint (the
\* old one is moved away first), and discards that of a run that has none.
DiscardProjection(p) ==
    LET r == proc[p].run IN
    /\ proc[p].pc = "restore"
    /\ IF runStore[r].holder # Nobody
       THEN /\ proc' = [proc EXCEPT ![p].pc = "failed"]
            /\ UNCHANGED runStore
       ELSE /\ proc' = [proc EXCEPT ![p] = [@ EXCEPT !.mem = Checkpoint(r),
                    !.pc = IF Checkpoint(r) = <<>> THEN "engine" ELSE "restoring"]]
            /\ runStore' = [runStore EXCEPT ![r].state = Gone]
    /\ UNCHANGED <<journal, sessionLease>>

RestoreRunProjection(p) ==
    LET r == proc[p].run IN
    /\ proc[p].pc = "restoring"
    /\ runStore' = [runStore EXCEPT ![r].state = proc[p].mem]
    /\ proc' = [proc EXCEPT ![p].pc = "engine"]
    /\ UNCHANGED <<journal, sessionLease>>

\* loadHandoffSource restores the source of a handoff in the same way.
loadHandoffSource(p) ==
    LET r == proc[p].run IN
    /\ proc[p].pc = "source"
    /\ IF runStore[r].holder # Nobody
       THEN /\ proc' = [proc EXCEPT ![p].pc = "failed"]
            /\ UNCHANGED runStore
       ELSE /\ proc' = [proc EXCEPT ![p].pc = "prepare"]
            /\ runStore' = [runStore EXCEPT ![r].state = Checkpoint(r)]
    /\ UNCHANGED <<journal, sessionLease>>

----------------------------------------------------------------------------
(* The engine starts. *)

\* AcquireRunLease of sessionRunStore: the run's epoch follows the session's.
EpochTaken(p) == runStore[proc[p].run].epoch + 1 > proc[p].epoch

\* The engine asks the session's run store for the lease of the run and gets one with the
\* session's epoch, or none.
LeaseRefused(p) ==
    LET r == proc[p].run IN
    /\ proc[p].pc = "engine" /\ (runStore[r].holder # Nobody \/ EpochTaken(p))
    /\ runStore' = IF runStore[r].holder # Nobody THEN runStore
                   ELSE [runStore EXCEPT ![r].epoch = @ + 1]
    /\ proc' = [proc EXCEPT ![p].pc = "failed"]
    /\ UNCHANGED <<journal, sessionLease>>

SaveNext(q, st, next) ==
    [q EXCEPT !.pc = "save", !.mem = Append(@, [epoch |-> q.epoch, st |-> st]), !.next = next]

\* Start of a new run, or Resume from the restored checkpoint.  A dispatch without a result
\* makes the run indeterminate, active frames are given the new epoch, and a run that
\* waits for its handoff or has ended is refused.
EngineRuns(p, refence) ==
    LET r == proc[p].run
        mem == proc[p].mem
        st == IF mem = <<>> THEN "new" ELSE IF Newest(mem).st = "halted" THEN "indeterminate" ELSE Newest(mem).st
        refused == st \in Ended \cup {"handoff"} \/ (st = "indeterminate" /\ ~ proc[p].ack)
    IN
    /\ proc[p].pc = "engine" /\ runStore[r].holder = Nobody /\ ~ EpochTaken(p)
    /\ refence => st \in {"running", "paused"}
    /\ runStore' = [runStore EXCEPT ![r].epoch = proc[p].epoch,
                    ![r].holder = IF refused THEN Nobody ELSE p]
    /\ proc' = [proc EXCEPT ![p] =
          IF refused THEN [@ EXCEPT !.pc = "failed"]
          ELSE IF st = "dispatch" THEN SaveNext(@, "indeterminate", "refused")
          ELSE IF st = "new" THEN SaveNext(@, "running", "begun")
          ELSE IF refence THEN SaveNext(@, st, "register")
          ELSE [@ EXCEPT !.pc = "register"]]
    /\ UNCHANGED <<journal, sessionLease>>

\* The engine asks for an acknowledgement; an attachment that reconciles goes on.
Refused(p) ==
    /\ proc[p].pc = "refused"
    /\ IF proc[p].via = "reconcile" /\ Status(proc[p].run) = "indeterminate"
       THEN /\ sessionLease' = [sessionLease EXCEPT !.epoch = @ + 1]
            /\ proc' = [proc EXCEPT ![p] = [Idle EXCEPT !.pc = "attached", !.epoch = sessionLease'.epoch]]
       ELSE /\ proc' = [proc EXCEPT ![p].pc = "failed"]
            /\ UNCHANGED sessionLease
    /\ UNCHANGED <<journal, runStore>>

----------------------------------------------------------------------------
(* SaveState of sessionRunStore: run store first, journal second. *)

WriteCheckpoint(p) ==
    LET r == proc[p].run IN
    /\ proc[p].pc = "save" /\ runStore[r].holder = p
    /\ runStore' = [runStore EXCEPT ![r].state = proc[p].mem]
    /\ proc' = [proc EXCEPT ![p].pc = "journal"]
    /\ UNCHANGED <<journal, sessionLease>>

\* Where the coordinator goes on once the engine has saved.
After(q) == IF q.next = "begun" THEN "register" ELSE q.next

CommitExecutionMutation(p) ==
    LET r == proc[p].run
        st == Newest(proc[p].mem).st
    IN
    /\ proc[p].pc = "journal" /\ Current(p) /\ Fresh(p) /\ ~ journal.closed
    /\ journal' = [journal EXCEPT !.seq = @ + 1,
          !.attempt[r] = [status |-> attemptStatusFromRun(st), checkpoint |-> runStore[r].state],
          !.active = IF st \in Ended THEN NoRun ELSE r]
    /\ runStore' = IF Stops(st) /\ proc[p].next # "register" THEN [runStore EXCEPT ![r].holder = Nobody] ELSE runStore
    /\ proc' = [proc EXCEPT ![p] = [@ EXCEPT !.pc = After(proc[p]), !.seq = proc[p].seq + 1]]
    /\ UNCHANGED sessionLease

\* A write fails.  The first checkpoint of a run is followed by a cancellation of the run,
\* any other by a marker; when that fails too the engine stops with what the journal has.
SaveFails(p) ==
    LET q == proc[p]
        st == Newest(q.mem).st
        leave == IF q.next \in {"begun", "register", "refused", "failed"} THEN "failed" ELSE "stopped"
    IN
    /\ q.pc \in {"save", "journal"}
    /\ proc' = [proc EXCEPT ![p] =
          IF q.next = "begun" THEN SaveNext(q, "cancelled", "failed")
          ELSE IF q.next \in {"register", "refused"} \/ st = "halted" THEN [q EXCEPT !.pc = leave]
          ELSE SaveNext(q, "halted", leave)]
    /\ runStore' = IF proc'[p].pc = leave THEN FreedRuns(p) ELSE runStore
    /\ UNCHANGED <<journal, sessionLease>>

----------------------------------------------------------------------------
(* The run is registered and driven. *)

\* Start and a handoff target need no event of their own; a resumption is recorded with
\* ResumeSession or UpdateAttempt.  The handle then belongs to the caller.
RegisterRun(p) ==
    LET q == proc[p] IN
    /\ q.pc = "register"
    /\ IF q.via \in {"start", "target"}
       THEN UNCHANGED journal
       ELSE /\ Current(p) /\ Fresh(p)
            /\ journal' = [journal EXCEPT !.seq = @ + 1, !.attempt[q.run].status = "running"]
    /\ proc' = [proc EXCEPT ![p] =
          IF q.via = "reconcile"
          THEN SaveNext([q EXCEPT !.seq = journal'.seq], "paused", "pause")
          ELSE [q EXCEPT !.pc = "drive", !.handle = q.run, !.seq = journal'.seq]]
    /\ UNCHANGED <<sessionLease, runStore>>

RegisterFails(p) ==
    /\ proc[p].pc = "register" /\ proc[p].via \in {"reconcile", "resume"}
    /\ proc' = [proc EXCEPT ![p] = SaveNext(@, "cancelled", "failed")]
    /\ UNCHANGED <<journal, sessionLease, runStore>>

\* One checkpoint of Handle.Next: the run goes on, prepares a dispatch, ends or asks for a
\* handoff to the next runbook.
Step(p, st) ==
    LET q == proc[p] IN
    /\ q.pc = "drive" /\ Len(q.mem) < MaxSteps
    /\ st = "handoff" => q.run < Runs
    /\ proc' = [proc EXCEPT ![p] = SaveNext(q, st,
          CASE st = "handoff" -> "prepare" [] st = "completed" -> "stopped" [] OTHER -> "drive")]
    /\ UNCHANGED <<journal, sessionLease, runStore>>

CancelCommand(p) ==
    LET q == proc[p] IN
    /\ q.pc = "drive"
    /\ proc' = [proc EXCEPT ![p] =
          SaveNext(q, IF Newest(q.mem).st = "dispatch" THEN "indeterminate" ELSE "cancelled", "stopped")]
    /\ UNCHANGED <<journal, sessionLease, runStore>>

----------------------------------------------------------------------------
(* Handoff: prepareAndCommitHandoff, then startHandoffTarget. *)

\* Mutant: the target's attempt is there as soon as the handoff is prepared.
PrepareWithTarget(p) ==
    LET q == proc[p] IN
    /\ q.pc = "prepare" /\ Current(p) /\ Fresh(p)
    /\ journal.active = q.run /\ Status(q.run) = "handoff" /\ journal.transition[q.run] = "none"
    /\ journal' = [journal EXCEPT !.seq = @ + 1, !.transition[q.run] = "prepared",
                                  !.attempt[q.run + 1].status = "starting"]
    /\ proc' = [proc EXCEPT ![p].pc = "commit"]
    /\ UNCHANGED <<sessionLease, runStore>>

PrepareTransition(p) ==
    LET q == proc[p] IN
    /\ q.pc = "prepare" /\ Current(p) /\ Fresh(p)
    /\ journal.active = q.run /\ Status(q.run) = "handoff" /\ journal.transition[q.run] = "none"
    /\ journal' = [journal EXCEPT !.seq = @ + 1, !.transition[q.run] = "prepared"]
    /\ proc' = [proc EXCEPT ![p].pc = "commit"]
    /\ UNCHANGED <<sessionLease, runStore>>

\* The commit uses the manifest that the preparation returned, not the handle's.
CommitTransition(p) ==
    LET q == proc[p]
        target == q.run + 1
    IN
    /\ q.pc = "commit" /\ Current(p) /\ journal.transition[q.run] = "prepared"
    /\ journal' = [journal EXCEPT !.seq = @ + 1, !.transition[q.run] = "committed",
          !.active = target, !.attempt[q.run].status = "handed_off",
          !.attempt[target].status = "starting"]
    /\ proc' = [proc EXCEPT ![p] = [q EXCEPT !.pc = "restore", !.run = target, !.mem = <<>>,
          !.seq = journal'.seq, !.via = IF q.handle = NoRun THEN @ ELSE "target"]]
    /\ UNCHANGED <<sessionLease, runStore>>

\* Resolution, validation or a commit of the handoff fails; a driven run stays on the
\* handle, with the manifest it had before the handoff.
HandoffFails(p) ==
    LET q == proc[p] IN
    /\ q.pc \in {"prepare", "commit"}
    /\ proc' = [proc EXCEPT ![p].pc = IF q.handle = NoRun THEN "failed" ELSE "stopped"]
    /\ UNCHANGED <<journal, sessionLease, runStore>>

----------------------------------------------------------------------------
(* Detach, from another thread than the driver's. *)

\* detachCommand reads the run of the handle without the lock of Next.
DetachBegins(p) ==
    LET q == proc[p] IN
    /\ q.handle # NoRun /\ q.detaching = NoRun
    /\ proc' = [proc EXCEPT ![p].detaching = q.handle]
    /\ UNCHANGED <<journal, sessionLease, runStore>>

\* The engine pauses the run at a boundary, unless a dispatch has no result.
DetachEngine(p) ==
    LET q == proc[p] IN
    /\ q.pc = "drive" /\ q.detaching = q.run
    /\ proc' = [proc EXCEPT ![p] =
          SaveNext(q, IF Newest(q.mem).st = "dispatch" THEN "indeterminate" ELSE "paused", "pause")]
    /\ UNCHANGED <<journal, sessionLease, runStore>>

\* The driver has finished a handoff meanwhile: the detach starts again with its target.
DetachAgain(p) ==
    LET q == proc[p] IN
    /\ q.pc = "drive" /\ q.detaching \notin {NoRun, q.run}
    /\ proc' = [proc EXCEPT ![p].detaching = q.run]
    /\ UNCHANGED <<journal, sessionLease, runStore>>

DetachStopped(p) ==
    LET q == proc[p] IN
    /\ q.pc = "stopped" /\ q.detaching = q.handle /\ q.handle # NoRun
    /\ proc' = [proc EXCEPT ![p].pc = "pause"]
    /\ UNCHANGED <<journal, sessionLease, runStore>>

\* Mutant: the attachment keeps the epoch with which it reconciled.
EpochKept(p) == sessionLease.epoch

\* advanceWriterEpoch after a reconciliation.
Advanced(p) == sessionLease.epoch + 1

\* PauseSession, or RecordDetach for an indeterminate run; then the session lease is given
\* back, or kept under a new epoch by an attachment that has reconciled.
PauseSession(p) ==
    LET q == proc[p]
        r == journal.active
    IN
    /\ q.pc = "pause"
    /\ IF Fresh(p) /\ Current(p) /\ r # NoRun /\ Status(r) \in {"paused", "handoff", "indeterminate"}
       THEN /\ journal' = [journal EXCEPT !.seq = @ + 1]
            /\ IF q.via = "reconcile"
               THEN /\ sessionLease' = [sessionLease EXCEPT !.epoch = Advanced(p)]
                    /\ proc' = [proc EXCEPT ![p] =
                          [Idle EXCEPT !.pc = "attached", !.epoch = sessionLease'.epoch]]
               ELSE /\ sessionLease' = [sessionLease EXCEPT !.holder = Nobody]
                    /\ proc' = [proc EXCEPT ![p] = Idle]
       ELSE /\ proc' = [proc EXCEPT ![p].pc = "failed"]
            /\ UNCHANGED <<journal, sessionLease>>
    /\ UNCHANGED runStore

\* CloseInvestigation of a session whose run has stopped.
CloseSession(p) ==
    LET q == proc[p]
        r == journal.active
    IN
    /\ q.pc \in {"stopped", "attached"} /\ Current(p) /\ (q.pc = "attached" \/ Fresh(p))
    /\ r # NoRun => Status(r) \in {"paused", "handoff", "indeterminate"}
    /\ ~ journal.closed
    /\ journal' = [journal EXCEPT !.seq = @ + 1, !.closed = TRUE, !.active = NoRun]
    /\ proc' = [proc EXCEPT ![p].pc = "failed"]
    /\ UNCHANGED <<sessionLease, runStore>>

----------------------------------------------------------------------------

Init ==
    /\ journal = [seq |-> 0, active |-> NoRun, closed |-> FALSE,
                  attempt |-> [r \in CoordRun |-> [status |-> "absent", checkpoint |-> <<>>]],
                  transition |-> [r \in CoordRun |-> "none"]]
    /\ sessionLease = [epoch |-> 0, holder |-> Nobody]
    /\ runStore = [r \in CoordRun |-> [epoch |-> 0, holder |-> Nobody, state |-> Gone]]
    /\ proc = [p \in Process |-> Idle]

ProcessStep(p) ==
    \/ AcquireSession(p) \/ Release(p) \/ Crash(p)
    \/ StartSession(p) \/ ReconcileAttached(p) \/ ClientResume(p)
    \/ \E ack \in BOOLEAN : resumeWithLease(p, ack)
    \/ DiscardProjection(p) \/ RestoreRunProjection(p) \/ loadHandoffSource(p)
    \/ LeaseRefused(p) \/ \E refence \in BOOLEAN : EngineRuns(p, refence)
    \/ Refused(p)
    \/ WriteCheckpoint(p) \/ CommitExecutionMutation(p) \/ SaveFails(p)
    \/ RegisterRun(p) \/ RegisterFails(p)
    \/ \E st \in {"running", "dispatch", "completed", "handoff"} : Step(p, st)
    \/ CancelCommand(p)
    \/ PrepareTransition(p) \/ CommitTransition(p) \/ HandoffFails(p)
    \/ DetachBegins(p) \/ DetachEngine(p) \/ DetachAgain(p) \/ DetachStopped(p)
    \/ PauseSession(p) \/ CloseSession(p)

Next == \E p \in Process : ProcessStep(p)

Spec == Init /\ [][Next]_vars

----------------------------------------------------------------------------

\* A process drives the active run, under both leases and with the session's epoch, and
\* what the engine holds in memory is what the run store and the journal hold: no run goes
\* on from a checkpoint that the journal does not have, whatever failed before.
DrivesCommitted ==
    \A p \in Process : proc[p].pc = "drive" =>
        LET r == proc[p].run IN
        /\ Current(p) /\ runStore[r].holder = p /\ runStore[r].epoch = proc[p].epoch
        /\ journal.active = r \/ journal.closed
        /\ proc[p].mem = Checkpoint(r) /\ runStore[r].state = Checkpoint(r)

\* The target of a handoff has no trace of execution before the transition is committed,
\* the checkpoint of the source is final once it is prepared, and one attempt at most is
\* at work: a handoff takes effect once, wherever it was interrupted.
HandoffOnce ==
    /\ \A r \in CoordRun \ {Runs} :
         /\ journal.transition[r] # "committed" => runStore[r + 1].epoch = 0 /\ Checkpoint(r + 1) = <<>>
         /\ journal.transition[r] # "none" =>
              Newest(Checkpoint(r)).st = "handoff" /\ Status(r) \in {"handoff", "handed_off"}
    /\ \A r \in CoordRun : Status(r) \in Working => journal.active = r

\* The writer epoch of a run never passes that of the session, so that the engine can take
\* the run's lease whenever the coordinator resumes: AcquireRunLease has no other way to
\* make the two equal than to raise the run's.
RunLeaseObtainable ==
    \A p \in Process : proc[p].pc = "engine" => ~ EpochTaken(p)
=============================================================================
