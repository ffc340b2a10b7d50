----------------------------- MODULE DurableRun -----------------------------
(***************************************************************************)
(* One durable run: runtime/internal/engine (runHandle, Start, Resume)     *)
(* over runtime/internal/runstore (DirRunStore) and the JSONL trace of     *)
(* runtime/internal/trace.                                                 *)
(*                                                                         *)
(* A run is advanced by the process that holds its writer lease.  What it  *)
(* did is kept twice: numbered checkpoints, written once each and never    *)
(* replaced, and the trace, a file of lines.  Events that a checkpoint     *)
(* commits travel inside it (its outbox, PendingTraceEvents) and are       *)
(* copied to the trace afterwards; other events are written to the trace   *)
(* alone.  A process can crash between any two writes, a write can fail,   *)
(* and another process then resumes the run.                               *)
(*                                                                         *)
(* The handle's mutex is free only while a tool runs or a person is asked; *)
(* everything else a handler does is one program, the agenda below, of     *)
(* which each entry is one write.  Steps run in order; structural frames,  *)
(* handoffs, compensation and results are not here.  Consecutive direct    *)
(* events with nothing between them are one event, and so are the events   *)
(* that a commit stages before its execution/committed event.              *)
(***************************************************************************)
EXTENDS Integers, Sequences

CONSTANTS
    Procs,          \* processes, each with one DirRunStore
    Kind,           \* the plan: for each step "tool" or "ask"
    Answers,        \* what a person may answer
    None,
    Faults,         \* failures that happen: subset of {"save", "saved", "trace"}
    MaxFaults,      \* how many of them
    MaxEpoch,       \* writer epochs issued
    LeasesPerStore  \* leases of this run that one store takes in its lifetime

ASSUME PlanAssumption == Kind \in Seq({"tool", "ask"})
ASSUME FaultAssumption == Faults \subseteq {"save", "saved", "trace"}
ASSUME BoundAssumption == MaxFaults \in Nat /\ MaxEpoch \in Nat /\ LeasesPerStore \in Nat
ASSUME NoneAssumption == None \notin Procs \cup Answers \cup {"done", "failed", "indeterminate", "pending"}

VARIABLES
    lock,        \* holder of the flock on .<run>.writer.lock
    epochFile,   \* .<run>.writer.epoch
    plan,        \* whether the plan snapshot is on disk
    checkpoints, \* snapshots/checkpoint-<n>.json, by number
    trace,       \* lines of trace.jsonl
    lease,       \* DirRunStore.leaseEpochs of each process, 0 for none
    index,       \* identities known to the JSONLWriter it has cached, or NoWriter
    leases,      \* leases taken since its store was opened
    agenda,      \* what the handle of each process has left to do
    run,         \* its run
    late,        \* the tools of its cancelled runs that have not returned
    faults,      \* failures so far
    effects,     \* how often the effect of each step was started
    acked        \* the answer acknowledged for each step

disk == <<lock, epochFile, plan, checkpoints, trace>>
store == <<lease, index, leases>>
ghosts == <<effects, acked>>
vars == <<disk, store, agenda, run, late, faults, ghosts>>

Steps == DOMAIN Kind
Result == {"done", "failed", "indeterminate"} \cup Answers

\* A trace event: its sequence number, and, for its identity (a fresh UUID), the
\* writer that made it and how many writes had failed when that writer last
\* rolled a commit back.
NewEvent(seq, epoch, try) == [seq |-> seq, epoch |-> epoch, try |-> try]
\* A last line without a newline, and a complete line that does not parse.
Torn == NewEvent(0, 0, 0)
Garbage == NewEvent(0, 0, 1)
Records(lines) == {lines[i] : i \in DOMAIN lines} \ {Torn, Garbage}

Consistent(records) == \A a, b \in records : a.seq = b.seq => a = b
Highest(S) == CHOOSE n \in S : \A m \in S : m <= n
LastSeq(lines) == Highest({e.seq : e \in Records(lines)} \cup {0})

NoWriter == {Torn}

NewRun(epoch) ==
    [epoch |-> epoch, seq |-> 0, committed |-> 0, checkpoint |-> 0, pending |-> <<>>, try |-> 0,
     sent |-> 0, traceErr |-> FALSE, halted |-> FALSE, status |-> "running", step |-> 0, dispatch |-> "none",
     turn |-> None, back |-> [dispatch |-> "none", turn |-> None],
     results |-> [s \in Steps |-> None]]
NoRun == NewRun(0)

Terminal == {"completed", "failed", "cancelled"}
-----------------------------------------------------------------------------
(* The trace file.                                                         *)

\* NewJSONLWriter cuts off a last line that has no newline.
Unfinished(lines) == lines # <<>> /\ lines[Len(lines)] = Torn
WithoutLast(lines) == [i \in 1..Len(lines) - 1 |-> lines[i]]
Repaired(lines) == IF Unfinished(lines) THEN WithoutLast(lines) ELSE lines

\* A line written after an unfinished one completes that line.
WithLine(lines, event) ==
    IF Unfinished(lines) THEN Append(WithoutLast(lines), Garbage) ELSE Append(lines, event)

\* writerFor: the cached writer, or a new one that reads the file.
Opened(p) == IF index[p] = NoWriter THEN Repaired(trace) ELSE trace
\* Mutant: a new writer starts with an empty index.
KnownSinceOpen(p) == IF index[p] = NoWriter THEN {} ELSE index[p]
Known(p) == IF index[p] = NoWriter THEN Records(trace) ELSE index[p]

\* Mutant: the store's own lease is not consulted.
EpochFileOnly(p, epoch) == epochFile = epoch
ValidWriterEpoch(p, epoch) == epochFile = epoch /\ lease[p] = epoch

\* WriteTrace is accepted: the writer is the leaseholder and knows no other
\* event under that sequence number.  WritesAccepted says that no write of a
\* handle is ever refused for this reason, so there is no action for a refusal.
Accepts(p, r, event) ==
    /\ ValidWriterEpoch(p, r.epoch)
    /\ Consistent(Known(p) \cup {event})

WriteTrace(p, event) ==
    /\ trace' = IF event \in Known(p) THEN Opened(p) ELSE WithLine(Opened(p), event)
    /\ index' = [index EXCEPT ![p] = Known(p) \cup {event}]

\* The append fails and is rolled back.
FailTrace(p) ==
    /\ "trace" \in Faults
    /\ faults < MaxFaults
    /\ faults' = faults + 1
    /\ trace' = Opened(p)
    /\ index' = [index EXCEPT ![p] = Known(p)]
-----------------------------------------------------------------------------
(* Checkpoints.                                                            *)

\* LoadState: the checkpoint with the highest number.
Newest == checkpoints[Len(checkpoints)]

\* nextExecutionCursorSet: the step to go on with.
\* Mutant: the cursor is not kept within the plan.
NextStepUnbounded(r) ==
    IF r.dispatch = "prepared" \/ (r.turn # None /\ r.step \in Steps) THEN r.step ELSE r.step + 1
\* Mutant: a paused run always goes on with the step it was at.
StayWhenPaused(r) ==
    IF r.step \in Steps /\ (r.status = "paused" \/ r.dispatch = "prepared" \/ r.turn # None) THEN r.step
    ELSE IF r.step <= Len(Kind) THEN r.step + 1 ELSE Len(Kind) + 1
NextStep(r) ==
    IF \/ r.status = "paused" /\ r.step \in Steps /\ r.results[r.step] = None
       \/ r.dispatch = "prepared"
       \/ r.turn # None /\ r.step \in Steps
    THEN r.step
    ELSE IF r.step <= Len(Kind) THEN r.step + 1 ELSE Len(Kind) + 1

\* The events that a commit of r stages: n of them, the last one being
\* execution/committed.
Staged(r, n) ==
    [r EXCEPT !.pending = @ \o [i \in 1..n |-> NewEvent(r.seq + i, r.epoch, r.try)],
              !.seq = @ + n,
              !.committed = r.seq + n]

Snapshot(r) ==
    [epoch |-> r.epoch, committed |-> r.committed, pending |-> r.pending, status |-> r.status,
     next |-> NextStep(r), dispatch |-> r.dispatch, turn |-> r.turn, results |-> r.results]

\* SaveState takes a checkpoint only from the leaseholder and only under the
\* number that follows the highest one.
Saves(p, r) == ValidWriterEpoch(p, r.epoch) /\ r.checkpoint = Len(checkpoints)

\* persistCompletedCheckpoint of the run r with n staged events: the new run.
SaveState(p, r, n) ==
    /\ Saves(p, r)
    /\ checkpoints' = Append(checkpoints, Snapshot(Staged(r, n)))
    /\ run' = [run EXCEPT ![p] = [Staged(r, n) EXCEPT !.checkpoint = @ + 1]]
    /\ UNCHANGED faults

\* SaveState reports an error.  The checkpoint may have been published all the
\* same: writeFileExclusive links it and then synchronises the directory.
FailSave(p, r, n) ==
    /\ \/ ~Saves(p, r) /\ UNCHANGED <<checkpoints, faults>>
       \/ /\ "save" \in Faults /\ faults < MaxFaults
          /\ faults' = faults + 1
          /\ UNCHANGED checkpoints
       \/ /\ "saved" \in Faults /\ faults < MaxFaults
          /\ Saves(p, r)
          /\ faults' = faults + 1
          /\ checkpoints' = Append(checkpoints, Snapshot(Staged(r, n)))

\* What a failed call of PrepareDispatch, PrepareInteraction or
\* AcceptInteraction puts back.
PutBack(r) == [r EXCEPT !.dispatch = r.back.dispatch, !.turn = r.back.turn, !.sent = 0]
Kept(r) == [r EXCEPT !.back = [dispatch |-> r.dispatch, turn |-> r.turn]]

Go(p, ops) == agenda' = [agenda EXCEPT ![p] = ops]
At(p, op) == agenda[p] # <<>> /\ Head(agenda[p]) = op
Rest(p) == Tail(agenda[p])

\* r is committed and the handler goes on with then; or SaveState fails, the
\* staged events are dropped, and it goes on with otherwise.
Commit(p, r, n, then, otherwise) ==
    \/ SaveState(p, r, n) /\ Go(p, then)
    \/ /\ FailSave(p, r, n)
       /\ run' = [run EXCEPT ![p] = [PutBack(r) EXCEPT !.try = faults']]
       /\ Go(p, otherwise)

-----------------------------------------------------------------------------
(* The writer lease.                                                       *)

AcquireRunLease(p) ==
    /\ agenda[p] = <<>>
    /\ lock = None
    /\ epochFile < MaxEpoch /\ leases[p] < LeasesPerStore
    /\ lock' = p
    /\ epochFile' = epochFile + 1
    /\ lease' = [lease EXCEPT ![p] = epochFile + 1]
    /\ leases' = [leases EXCEPT ![p] = @ + 1]

\* Run ids are fresh, so a run is started once.
Start(p) ==
    /\ ~plan
    /\ AcquireRunLease(p)
    /\ plan' = TRUE
    /\ run' = [run EXCEPT ![p] = NewRun(epochFile + 1)]
    /\ Go(p, <<"ready">>)
    /\ UNCHANGED <<checkpoints, trace, index, late, faults, ghosts>>

\* shutdownExtensions, Release.  The store keeps the trace writer it opened.
Release(p) ==
    /\ At(p, "release")
    /\ lock' = None
    /\ lease' = [lease EXCEPT ![p] = 0]
    /\ run' = [run EXCEPT ![p] = NoRun]
    /\ Go(p, <<>>)
    /\ UNCHANGED <<epochFile, plan, checkpoints, trace, index, leases, late, faults, ghosts>>

\* DirRunStore.Close by a process that advances no run.
Close(p) ==
    /\ agenda[p] = <<>>
    /\ leases[p] > 0
    /\ index' = [index EXCEPT ![p] = NoWriter]
    /\ leases' = [leases EXCEPT ![p] = 0]
    /\ late' = [late EXCEPT ![p] = {}]
    /\ UNCHANGED <<disk, lease, agenda, run, faults, ghosts>>

\* The process dies; the line it was writing may be left without its end.
Crash(p) ==
    /\ agenda[p] # <<>>
    /\ trace' \in {trace} \cup
         (IF Head(agenda[p]) \in {"emit!", "emit?", "project", "recover"}
          THEN {Append(Repaired(trace), Torn)} ELSE {})
    /\ lock' = None
    /\ lease' = [lease EXCEPT ![p] = 0]
    /\ index' = [index EXCEPT ![p] = NoWriter]
    /\ leases' = [leases EXCEPT ![p] = 0]
    /\ run' = [run EXCEPT ![p] = NoRun]
    /\ late' = [late EXCEPT ![p] = {}]
    /\ Go(p, <<>>)
    /\ UNCHANGED <<epochFile, plan, checkpoints, faults, ghosts>>
-----------------------------------------------------------------------------
(* Writes to the trace.                                                    *)

\* projectPendingTraceEventsLocked and recoverPendingTraceEvents write the
\* outbox one event after the other; it is emptied when all are written.
Projected(r) ==
    IF r.sent + 1 < Len(r.pending) THEN [r EXCEPT !.sent = @ + 1]
    ELSE [r EXCEPT !.sent = 0, !.pending = <<>>]

NextPending(r) == r.pending[r.sent + 1]

Project(p) ==
    /\ At(p, "project") \/ At(p, "recover")
    /\ run[p].pending # <<>>
    /\ Accepts(p, run[p], NextPending(run[p]))
    /\ WriteTrace(p, NextPending(run[p]))
    /\ run' = [run EXCEPT ![p] = Projected(@)]
    /\ IF run[p].sent + 1 < Len(run[p].pending) THEN UNCHANGED agenda ELSE Go(p, Rest(p))
    /\ UNCHANGED <<lock, epochFile, plan, checkpoints, lease, leases, late, faults, ghosts>>

\* A failed projection makes the handle halt, except in Resume and in the halt
\* itself; AcceptInteraction reports it to the person who answered, who may be
\* served by the step (which then halts) or by the broker (which goes on).
ProjectFails(p) ==
    /\ At(p, "project") \/ At(p, "recover")
    /\ run[p].pending # <<>>
    /\ FailTrace(p)
    /\ run' = [run EXCEPT ![p] = [PutBack(@) EXCEPT !.traceErr = TRUE]]
    /\ \/ (run[p].halted \/ At(p, "recover")) /\ Go(p, <<"release">>)
       \/ ~run[p].halted /\ At(p, "project") /\ Go(p, <<"halt">>)
       \/ Rest(p) = <<"accepted">> /\ Go(p, <<"asking">>)
    /\ UNCHANGED <<lock, epochFile, plan, checkpoints, lease, leases, late, ghosts>>

\* emitEventLocked: the sequence number is taken before the write and stays
\* taken when the write fails.  "emit!" is followed by a check of traceErr.
Emitted(r) == [r EXCEPT !.seq = @ + 1]
DirectEvent(r) == NewEvent(r.seq + 1, r.epoch, r.try)

Emit(p) ==
    /\ At(p, "emit!") \/ At(p, "emit?")
    /\ ~run[p].traceErr
    /\ Accepts(p, run[p], DirectEvent(run[p]))
    /\ WriteTrace(p, DirectEvent(run[p]))
    /\ run' = [run EXCEPT ![p] = Emitted(@)]
    /\ Go(p, Rest(p))
    /\ UNCHANGED <<lock, epochFile, plan, checkpoints, lease, leases, late, faults, ghosts>>

EmitFails(p) ==
    /\ At(p, "emit!") \/ At(p, "emit?")
    /\ ~run[p].traceErr
    /\ FailTrace(p)
    /\ run' = [run EXCEPT ![p] = [Emitted(@) EXCEPT !.traceErr = TRUE]]
    /\ Go(p, IF At(p, "emit!") THEN <<"halt">> ELSE Rest(p))
    /\ UNCHANGED <<lock, epochFile, plan, checkpoints, lease, leases, late, ghosts>>

TraceErrSeen(p) ==
    /\ At(p, "emit!")
    /\ run[p].traceErr
    /\ Go(p, <<"halt">>)
    /\ UNCHANGED <<disk, store, run, late, faults, ghosts>>
-----------------------------------------------------------------------------
(* Steps of the plan.                                                      *)

\* What a step that only commits leaves alone.
onlyCommit == <<lock, epochFile, plan, trace, store>>

\* Next: the cursor moves and the step is announced.
BeginStep(p) ==
    /\ agenda[p] = <<"ready">>
    /\ run[p].step < Len(Kind)
    /\ run' = [run EXCEPT ![p].step = @ + 1, ![p].dispatch = "none"]
    /\ Go(p, <<"emit!", Kind[run[p].step + 1]>>)
    /\ UNCHANGED <<disk, store, late, faults, ghosts>>

\* completeRun
Complete(p) ==
    /\ agenda[p] = <<"ready">>
    /\ run[p].step >= Len(Kind)
    /\ Commit(p, Kept([run[p] EXCEPT !.step = Len(Kind) + 1, !.status = "completed"]), 2,
              <<"project", "emit!", "release">>, <<"halt">>)
    /\ UNCHANGED <<onlyCommit, late, ghosts>>

\* The intent to run the tool is committed before the tool is.
PrepareDispatch(p) ==
    /\ At(p, "tool")
    /\ Commit(p, [Kept(run[p]) EXCEPT !.dispatch = "prepared"], 1,
              <<"project", "emit?", "emit!", "exec">>, <<"halt">>)
    /\ UNCHANGED <<onlyCommit, late, ghosts>>

Execute(p) ==
    /\ agenda[p] = <<"exec">>
    /\ effects' = [effects EXCEPT ![run[p].step] = @ + 1]
    /\ Go(p, <<"running">>)
    /\ UNCHANGED <<disk, store, run, late, faults, acked>>

WithResult(r, result) == Kept([r EXCEPT !.results[r.step] = result])

\* markPreparedDispatchesIndeterminate
Indeterminate(r) ==
    IF r.dispatch = "prepared"
    THEN WithResult([r EXCEPT !.dispatch = "indeterminate", !.status = "indeterminate"], "indeterminate")
    ELSE r

\* settleStep of a tool that returned: its result, a failure that stops the
\* run, or (haltIndeterminate) an answer that does not tell whether it acted.
SettleTool(p) ==
    /\ agenda[p] = <<"running">>
    /\ LET returned == [run[p] EXCEPT !.dispatch = "settled"]
       IN \/ Commit(p, WithResult(returned, "done"), 2, <<"project", "emit!", "ready">>, <<"halt">>)
          \/ Commit(p, WithResult([returned EXCEPT !.status = "failed"], "failed"), 2,
                    <<"project", "emit!", "release">>, <<"halt">>)
          \/ Commit(p, Indeterminate(run[p]), 2, <<"project", "emit?", "release">>, <<"halt">>)
    /\ UNCHANGED <<onlyCommit, late, ghosts>>

\* PrepareInteraction: a turn that was asked before is asked again, and one
\* that was answered before is not asked.
PrepareInteraction(p) ==
    /\ At(p, "ask")
    /\ run[p].turn \notin Answers
    /\ Commit(p, [Kept(run[p]) EXCEPT !.turn = "pending", !.status = "waiting"], 1,
              <<"project", "asking">>, <<"halt">>)
    /\ UNCHANGED <<onlyCommit, late, ghosts>>

AlreadyAnswered(p) ==
    /\ At(p, "ask")
    /\ run[p].turn \in Answers
    /\ Go(p, <<"answered">>)
    /\ UNCHANGED <<disk, store, run, late, faults, ghosts>>

\* acceptInteraction.  An error goes to the step, which halts, or to the
\* broker, which keeps the turn open.
\* Mutant: the answer is acknowledged before it is committed.
AcceptInMemory(p, answer) ==
    /\ agenda[p] = <<"asking">>
    /\ run[p].turn = "pending"
    /\ run' = [run EXCEPT ![p].turn = answer]
    /\ Go(p, <<"accepted">>)
    /\ UNCHANGED <<disk, store, late, faults, ghosts>>
AcceptInteraction(p, answer) ==
    /\ agenda[p] = <<"asking">>
    /\ run[p].turn = "pending"
    /\ ~run[p].traceErr
    /\ \E otherwise \in {<<"asking">>, <<"halt">>} :
         Commit(p, [Kept(run[p]) EXCEPT !.turn = answer], 1, <<"project", "accepted">>, otherwise)
    /\ UNCHANGED <<onlyCommit, late, ghosts>>

Acknowledge(p) ==
    /\ agenda[p] = <<"accepted">>
    /\ acked' = [acked EXCEPT ![run[p].step] = run[p].turn]
    /\ Go(p, <<"answered">>)
    /\ UNCHANGED <<disk, store, run, late, faults, effects>>

SettleAnswer(p) ==
    /\ agenda[p] = <<"answered">>
    /\ Commit(p, WithResult([run[p] EXCEPT !.turn = None, !.status = "running"], run[p].turn), 2,
              <<"project", "emit!", "ready">>, <<"halt">>)
    /\ UNCHANGED <<onlyCommit, late, ghosts>>

\* haltCheckpointCommit: one attempt to mark the run as indeterminate.
Halt(p) ==
    /\ At(p, "halt")
    /\ Commit(p, [Kept(Indeterminate(run[p])) EXCEPT !.status = "indeterminate", !.halted = TRUE], 2,
              IF run[p].traceErr THEN <<"release">> ELSE <<"project", "emit?", "release">>, <<"release">>)
    /\ UNCHANGED <<onlyCommit, late, ghosts>>
-----------------------------------------------------------------------------
(* Requests from outside, which come in whenever the mutex is free.        *)

Stopped(r) == IF r.dispatch = "prepared" THEN Indeterminate(r) ELSE Kept([r EXCEPT !.status = "cancelled"])

\* cancelRunLocked.  A tool that is running goes on by itself.
Cancel(p) ==
    /\ agenda[p] \in {<<"ready">>, <<"exec">>, <<"running">>, <<"asking">>, <<"answered">>}
    /\ Commit(p, Stopped(run[p]), 2,
              <<"project", IF run[p].dispatch = "prepared" THEN "emit?" ELSE "emit!", "release">>, <<"halt">>)
    /\ late' = IF agenda[p] \in {<<"exec">>, <<"running">>}
               THEN [late EXCEPT ![p] = @ \cup {[epoch |-> run[p].epoch, step |-> run[p].step,
                                                started |-> agenda[p] = <<"running">>]}]
               ELSE late
    /\ UNCHANGED <<onlyCommit, ghosts>>

\* Detach waits for the step that runs, which the cancelled context ends: a
\* tool settles (SettleTool), a question is left open.
Detach(p) ==
    /\ agenda[p] \in {<<"ready">>, <<"asking">>}
    /\ Commit(p, Kept([run[p] EXCEPT !.status = "paused"]), 2,
              <<"project", "emit?", "release">>, <<"halt">>)
    /\ UNCHANGED <<onlyCommit, late, ghosts>>

\* The tool of a cancelled run returns without an answer: executeStep tries to
\* commit that, in the name of the lease that the run once had.
LateReturn(p) == \E call \in late[p] :
    /\ run[p].epoch # call.epoch
    /\ effects' = IF call.started THEN effects ELSE [effects EXCEPT ![call.step] = @ + 1]
    /\ checkpoints' = IF checkpoints # <<>> /\ ValidWriterEpoch(p, call.epoch)
                      THEN Append(checkpoints, [Newest EXCEPT !.epoch = call.epoch, !.status = "indeterminate"])
                      ELSE checkpoints
    /\ late' = [late EXCEPT ![p] = @ \ {call}]
    /\ UNCHANGED <<lock, epochFile, plan, trace, store, agenda, run, faults, acked>>
-----------------------------------------------------------------------------
(* Resume.                                                                 *)

\* The run of a checkpoint, with the step before the one to go on with (or
\* the one whose dispatch is open) as the current one.
\* Mutant: the step to go on with is taken for the current one.
RebuiltPastNext(c, epoch) ==
    Kept([NewRun(epoch) EXCEPT
            !.committed = c.committed, !.checkpoint = Len(checkpoints), !.pending = c.pending,
            !.status = c.status, !.step = IF c.next <= Len(Kind) THEN c.next ELSE Len(Kind),
            !.dispatch = c.dispatch, !.turn = c.turn, !.results = c.results])
\* Mutant: the step results are not restored.
RebuiltWithoutResults(c, epoch) ==
    Kept([NewRun(epoch) EXCEPT
            !.committed = c.committed, !.checkpoint = Len(checkpoints), !.pending = c.pending,
            !.status = c.status, !.step = IF c.dispatch = "prepared" THEN c.next ELSE c.next - 1,
            !.dispatch = c.dispatch, !.turn = c.turn])
Rebuilt(c, epoch) ==
    Kept([NewRun(epoch) EXCEPT
            !.committed = c.committed, !.checkpoint = Len(checkpoints), !.pending = c.pending,
            !.status = c.status, !.step = IF c.dispatch = "prepared" THEN c.next ELSE c.next - 1,
            !.dispatch = c.dispatch, !.turn = c.turn, !.results = c.results])

\* Mutant: the outbox of the last checkpoint is not projected again.
ResumeWithoutOutbox(p, acknowledged) ==
    /\ plan
    /\ AcquireRunLease(p)
    /\ IF checkpoints = <<>> \/ (Newest.status = "indeterminate" /\ ~acknowledged)
       THEN run' = [run EXCEPT ![p] = NewRun(epochFile + 1)] /\ Go(p, <<"release">>)
       ELSE run' = [run EXCEPT ![p] = Rebuilt(Newest, epochFile + 1)] /\ Go(p, <<"scan">>)
    /\ UNCHANGED <<plan, checkpoints, trace, index, late, faults, ghosts>>
\* The outcome of an indeterminate run must be acknowledged.
Resume(p, acknowledged) ==
    /\ plan
    /\ AcquireRunLease(p)
    /\ IF checkpoints = <<>> \/ (Newest.status = "indeterminate" /\ ~acknowledged)
       THEN run' = [run EXCEPT ![p] = NewRun(epochFile + 1)] /\ Go(p, <<"release">>)
       ELSE run' = [run EXCEPT ![p] = Rebuilt(Newest, epochFile + 1)] /\ Go(p, <<"recover", "scan">>)
    /\ UNCHANGED <<plan, checkpoints, trace, index, late, faults, ghosts>>

\* ScanTrace: numbering goes on after the last event found in the trace.
\* Mutant: numbering goes on after the checkpoint only.
ScannedCheckpoint(r) == [r EXCEPT !.seq = r.committed]
\* Mutant: numbering skips a number.
ScannedPastEnd(r) ==
    LET last == Highest({LastSeq(trace), r.committed}) + 1
    IN [r EXCEPT !.committed = last, !.seq = last]
Scanned(r) ==
    LET last == Highest({LastSeq(trace), r.committed})
    IN [r EXCEPT !.committed = last, !.seq = last]

\* recoverUnmatchedDispatches: the open dispatch of a dead writer is recorded
\* as indeterminate and the resumption is refused.
\* Mutant: the dispatch is prepared and run again.
RerunDispatch(p) ==
    /\ At(p, "scan")
    /\ run[p].dispatch = "prepared"
    /\ run' = [run EXCEPT ![p] = [Scanned(@) EXCEPT !.step = @ - 1]]
    /\ Go(p, <<"emit!", "ready">>)
    /\ UNCHANGED <<disk, store, late, faults, ghosts>>
RecoverDispatch(p) ==
    /\ At(p, "scan")
    /\ run[p].dispatch = "prepared"
    /\ Commit(p, Indeterminate(Scanned(run[p])), 1, <<"recover", "release">>, <<"release">>)
    /\ UNCHANGED <<onlyCommit, late, ghosts>>

RefuseTerminal(p) ==
    /\ At(p, "scan")
    /\ run[p].dispatch # "prepared"
    /\ run[p].status \in Terminal
    /\ Go(p, <<"release">>)
    /\ UNCHANGED <<disk, store, run, late, faults, ghosts>>

RebuildRun(p) ==
    /\ At(p, "scan")
    /\ run[p].dispatch # "prepared"
    /\ run[p].status \notin Terminal
    /\ run' = [run EXCEPT ![p] = [Scanned(@) EXCEPT !.status = "running"]]
    /\ Go(p, <<"emit!", "ready">>)
    /\ UNCHANGED <<disk, store, late, faults, ghosts>>
-----------------------------------------------------------------------------
Init ==
    /\ lock = None
    /\ epochFile = 0
    /\ plan = FALSE
    /\ checkpoints = <<>>
    /\ trace = <<>>
    /\ lease = [p \in Procs |-> 0]
    /\ index = [p \in Procs |-> NoWriter]
    /\ leases = [p \in Procs |-> 0]
    /\ agenda = [p \in Procs |-> <<>>]
    /\ run = [p \in Procs |-> NoRun]
    /\ late = [p \in Procs |-> {}]
    /\ faults = 0
    /\ effects = [s \in Steps |-> 0]
    /\ acked = [s \in Steps |-> None]

Next ==
    \E p \in Procs :
        \/ Start(p) \/ Release(p) \/ Close(p) \/ Crash(p)
        \/ Project(p) \/ ProjectFails(p)
        \/ Emit(p) \/ EmitFails(p) \/ TraceErrSeen(p)
        \/ BeginStep(p) \/ Complete(p) \/ PrepareDispatch(p) \/ Execute(p) \/ SettleTool(p)
        \/ PrepareInteraction(p) \/ AlreadyAnswered(p) \/ Acknowledge(p) \/ SettleAnswer(p)
        \/ \E answer \in Answers : AcceptInteraction(p, answer)
        \/ Halt(p) \/ Cancel(p) \/ Detach(p) \/ LateReturn(p)
        \/ \E acknowledged \in BOOLEAN : Resume(p, acknowledged)
        \/ RecoverDispatch(p) \/ RefuseTerminal(p) \/ RebuildRun(p)

Spec == Init /\ [][Next]_vars
-----------------------------------------------------------------------------
(* Properties.                                                             *)

Dispatch == {"none", "prepared", "settled", "indeterminate"}
Status == {"running", "waiting", "paused", "indeterminate"} \cup Terminal
Op == {"ready", "emit!", "emit?", "project", "recover", "scan", "tool", "ask", "exec", "running",
       "asking", "accepted", "answered", "halt", "release"}

\* The values the variables of the run store and of the handle take; a handle
\* that is at work holds the lock and the current epoch.
TypeOK ==
    /\ lock \in Procs \cup {None}
    /\ epochFile \in 0..MaxEpoch
    /\ plan \in BOOLEAN
    /\ \A n \in DOMAIN checkpoints :
         /\ checkpoints[n].status \in Status
         /\ checkpoints[n].dispatch \in Dispatch
         /\ checkpoints[n].turn \in {None, "pending"} \cup Answers
         /\ checkpoints[n].next \in 1..Len(Kind) + 1
         /\ checkpoints[n].results \in [Steps -> Result \cup {None}]
    /\ \A i \in DOMAIN trace : trace[i] = Torn => i = Len(trace)
    /\ lease \in [Procs -> 0..MaxEpoch]
    /\ leases \in [Procs -> 0..LeasesPerStore]
    /\ faults \in 0..MaxFaults
    /\ acked \in [Steps -> Answers \cup {None}]
    /\ \A p \in Procs :
         /\ agenda[p] \in Seq(Op)
         /\ run[p].status \in Status
         /\ run[p].dispatch \in Dispatch
         /\ run[p].step \in 0..Len(Kind) + 1
         /\ agenda[p] # <<>> <=> lock = p
         /\ lock = p => lease[p] = epochFile /\ run[p].epoch = epochFile

\* The effect of a tool step is started at most once in the life of the run,
\* whatever crashes, cancellations and resumptions there are: the committed
\* intent of PrepareDispatch keeps the next writer from running it again.
EffectOnce == \A s \in Steps : effects[s] <= 1

\* Checkpoints are only ever added, one at a time, while the writer's lease is
\* held, in its epoch, and their trace positions never go back: a cancelled
\* run whose tool returns late writes nothing.
FencedCheckpoints ==
    [][(checkpoints' # checkpoints) =>
         /\ lock # None
         /\ Len(checkpoints') = Len(checkpoints) + 1
         /\ \A n \in DOMAIN checkpoints : checkpoints'[n] = checkpoints[n]
         /\ Newest'.epoch = epochFile
         /\ checkpoints # <<>> => Newest'.committed > Newest.committed]_vars

\* A result that a checkpoint records for a step is in every later checkpoint:
\* resuming never runs a settled step again or forgets what it returned.
ResultsStable ==
    [][(checkpoints # <<>>) =>
         \A s \in Steps : Newest.results[s] # None
                            => Newest'.results[s] = Newest.results[s]]_vars

\* An answer whose acceptance was acknowledged is the one the newest checkpoint
\* records, as the answered turn or as the result of its step.
AckedAnswerKept ==
    \A s \in Steps : acked[s] # None =>
        /\ checkpoints # <<>>
        /\ LET c == Newest
           IN c.results[s] = acked[s] \/ (c.turn = acked[s] /\ c.next = s /\ c.results[s] = None)

\* The lines of the trace have strictly increasing sequence numbers: no event
\* twice, no two events under one number, whatever was rolled back or replayed.
TraceOrdered ==
    LET lines == SelectSeq(trace, LAMBDA e : e \notin {Torn, Garbage})
    IN \A i, j \in DOMAIN lines : i < j => lines[i].seq < lines[j].seq

\* No write of a handle to the trace is refused: its lease is current and no
\* other event has the sequence number, whatever an earlier writer left in the
\* checkpoints and in the trace.  Resume is never locked out by an outbox.
WritesAccepted ==
    \A p \in Procs : agenda[p] # <<>> =>
        /\ Head(agenda[p]) \in {"project", "recover"} /\ run[p].pending # <<>>
             => Accepts(p, run[p], NextPending(run[p]))
        /\ Head(agenda[p]) \in {"emit!", "emit?"} /\ ~run[p].traceErr
             => Accepts(p, run[p], DirectEvent(run[p]))

\* While no write failed, whatever crashed, the trace is one that ReadAllStrict
\* accepts: its lines are numbered 1, 2, 3 and so on, and none but the last is
\* damaged.  (A direct event whose write fails keeps its number and leaves a gap.)
TraceContiguous ==
    faults = 0 =>
        \A i \in DOMAIN trace : trace[i].seq = i \/ (i = Len(trace) /\ trace[i] = Torn)

\* When a handle waits for its next step without a trace error, every event
\* that any checkpoint committed is a readable line of the trace.
CommittedProjected ==
    \A p \in Procs : agenda[p] = <<"ready">> /\ ~run[p].traceErr =>
        \A n \in DOMAIN checkpoints : Records(checkpoints[n].pending) \subseteq Records(trace)

\* The cursor of a checkpoint that can be resumed names a step that has not
\* been settled: resuming does not execute a settled step a second time.
CursorUnsettled ==
    checkpoints # <<>> =>
        LET c == Newest
        IN c.next \in Steps /\ c.status \notin Terminal => c.results[c.next] = None

\* A run that is recorded as completed has a result for each of its steps, if
\* no write failed (crashes included): no crash makes a resumption skip a step.
CompletedInFull ==
    faults = 0 /\ checkpoints # <<>> /\ Newest.status = "completed" =>
        \A s \in Steps : Newest.results[s] # None
=============================================================================
