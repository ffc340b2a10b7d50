---------------------------- MODULE ExecutionFrames ----------------------------
(***************************************************************************)
(* How the engine executes the steps of a plan that contain other steps,    *)
(* and how a run interrupted inside one goes on (internal/engine/engine.go, *)
(* internal/adapter/wire.go, internal/executor, internal/resume).           *)
(*                                                                         *)
(* An include, a branch and an iteration run their children in a           *)
(* sub-engine, a parallel step runs a goroutine per branch, and a failed    *)
(* step undoes what was registered for compensation.  Each of these works   *)
(* on an execution frame of the root run: BeginExecutionFrame opens or      *)
(* resumes it, CommitExecutionFrameStep records one child.  Every such call *)
(* saves the whole run in one checkpoint, and a process that dies loses     *)
(* what it did since the last.  Here a container is a sequence of lanes,    *)
(* executed one after the other or at the same time; a lane has a frame.    *)
(*                                                                         *)
(* The save itself, the trace and the writer lease are in DurableRun.       *)
(***************************************************************************)
EXTENDS Naturals, Sequences, FiniteSetsExt, SequencesExt

CONSTANTS Plans,      \* the plans that a run may have
          MaxEpoch,   \* how often a process takes the run
          MaxVersion  \* versions of a runbook that the catalog goes through

VARIABLES plan,    \* the steps of this run
          run,     \* the run in the memory of the process
          disk,    \* the last checkpoint
          root,    \* what the root engine is doing
          thread,  \* what each lane of the current container is doing; 0: a step without a frame
          catalog, \* the version that a dynamic include would find now
          log      \* every effect outside the process, in order: step, lane, child

vars == <<plan, run, disk, root, thread, catalog, log>>

Sequential == {"include", "branch", "dynamic", "iterate"}
Parallel == {"parallel", "concurrent"}
Steps == DOMAIN plan
Lanes(s) == DOMAIN plan[s].lanes
Slots == {<<s, l>> : s \in Steps, l \in UNION {Lanes(t) : t \in Steps}}
Threads == 0 .. Max({0} \cup UNION {Lanes(t) : t \in Steps})

Idle == [t \in Threads |-> [pc |-> "idle", out |-> "none"]]
NoFrame == [status |-> "none", epoch |-> 0, def |-> 0, results |-> <<>>]
Fresh == [at |-> 0, status |-> "running", epoch |-> 1, result |-> [s \in Steps |-> "none"],
          registered |-> {}, frame |-> [f \in Slots |-> NoFrame], prepared |-> {}, pin |-> [s \in Steps |-> 0]]

Children(f) == plan[f[1]].lanes[f[2]]
Child(f) == Children(f)[Len(run.frame[f].results) + 1]
Full(r, f) == Len(r.frame[f].results) = Len(Children(f))
Active(r) == {f \in Slots : r.frame[f].status = "active"}

Init ==
    /\ plan \in Plans
    /\ run = Fresh /\ disk = Fresh
    /\ root = [pc |-> "next", owner |-> 0, out |-> "none"]
    /\ thread = Idle
    /\ catalog = 1
    /\ log = <<>>

----------------------------------------------------------------------------
\* Ends of a run and of a process.

\* persistCompletedCheckpoint: what is in memory is what is saved.
Checkpoint(r) == run' = r /\ disk' = r

Ends(r) ==
    /\ Checkpoint(r)
    /\ root' = [root EXCEPT !.pc = "off"]
    /\ thread' = Idle

\* failRun: no compensation runs.  The result that it records is told apart from a failed
\* step that was settled.
FailRun(r) == Ends([r EXCEPT !.status = "failed", !.result[r.at] = IF @ = "none" THEN "error" ELSE @])

\* A dispatch of a lane belongs to the next child of an active frame.
Recoverable(r, d) ==
    d[2] # 0 => LET f == <<d[1], d[2]>> IN r.frame[f].status = "active" /\ d[3] = Len(r.frame[f].results)

\* markPreparedDispatchesIndeterminate: whether the effect happened is not known, so the
\* child counts as passed and the run has to be acknowledged before it goes on.
Marked(r) ==
    [r EXCEPT !.status = "indeterminate", !.prepared = {},
              !.result = [s \in Steps |-> IF <<s, 0, 0>> \in r.prepared THEN "indeterminate" ELSE @[s]],
              !.frame = [f \in Slots |-> IF \E d \in r.prepared : d[2] # 0 /\ <<d[1], d[2]>> = f
                                         THEN [@[f] EXCEPT !.results = Append(@, "indeterminate")] ELSE @[f]]]

HaltIndeterminate(r) ==
    Ends([r EXCEPT !.status = "indeterminate", !.result[r.at] = "indeterminate",
                   !.prepared = {d \in @ : d[2] # 0}])

----------------------------------------------------------------------------
\* The root: Next, executeStep and settleStep.

\* A restored failure whose compensation was interrupted is settled again, not executed.
HasActiveCompensation(s) ==
    run.result[s] = "failed" /\ \E f \in Active(run) : plan[f[1]].kind = "compensate" /\ f[1] \in run.registered

Starts(s) ==
    CASE plan[s].kind \in {"task", "dynamic"} -> [Idle EXCEPT ![0].pc = "ready"]
      [] plan[s].kind \in Sequential -> [Idle EXCEPT ![1].pc = "begin"]
      [] plan[s].kind \in Parallel -> [t \in Threads |-> IF t \in Lanes(s) THEN [pc |-> "begin", out |-> "none"] ELSE Idle[t]]
      [] OTHER -> Idle

\* A step inside which the run was interrupted: its condition, over the variables that the
\* checkpoint restores, holds again.
Entered(s) == run.pin[s] # 0 \/ \E f \in Active(run) : f[1] = s

Advance ==
    /\ root.pc = "next" /\ UNCHANGED <<plan, catalog, log>>
    /\ LET s == run.at + 1 IN
       \/ /\ s > Len(plan)
          /\ Ends([run EXCEPT !.at = s, !.status = "completed"])
       \/ /\ s <= Len(plan) /\ HasActiveCompensation(s)
          /\ run' = [run EXCEPT !.at = s]
          /\ root' = [root EXCEPT !.pc = "undo"]
          /\ UNCHANGED <<disk, thread>>
       \/ /\ s <= Len(plan) /\ ~HasActiveCompensation(s)
          /\ run' = [run EXCEPT !.at = s]
          /\ \/ plan[s].kind \in {"compensate", "local"} /\ thread' = Idle
                /\ \E out \in IF plan[s].kind = "local" THEN {"completed", "failed"} ELSE {"completed"} :
                     root' = [pc |-> "settle", owner |-> s, out |-> out]
             \/ /\ plan[s].when /\ ~Entered(s)
                /\ thread' = Idle /\ root' = [pc |-> "settle", owner |-> s, out |-> "skipped"]
             \/ plan[s].kind \notin {"compensate", "local"} /\ thread' = Starts(s)
                /\ root' = [pc |-> IF plan[s].kind = "dynamic" THEN "resolve" ELSE "lanes", owner |-> s, out |-> "none"]
          /\ UNCHANGED disk

\* Mutant: only the frames of a step that succeeded are finished.
FinishFramesOnSuccess(fr, s, status) ==
    [f \in Slots |->
        IF f[1] = s /\ fr[f].status = "active" /\ status = "completed" /\ Len(fr[f].results) = Len(Children(f))
        THEN [fr[f] EXCEPT !.status = "completed"] ELSE fr[f]]

\* finishExecutionFrames: a failed step leaves the frames of compensations alone.
FinishFrames(fr, s, status) ==
    [f \in Slots |->
        IF f[1] # s \/ fr[f].status # "active" \/ (plan[s].kind = "compensate" /\ status = "failed") THEN fr[f]
        ELSE [fr[f] EXCEPT !.status =
                CASE status \in {"completed", "skipped"} ->
                       IF Len(fr[f].results) = Len(Children(f)) THEN "completed" ELSE "active"
                  [] status = "indeterminate" -> "indeterminate"
                  [] OTHER -> "failed"]]

\* CompensateExecutor only registers what a later failure undoes.
Registered(s, out) == IF plan[s].kind = "compensate" /\ out = "completed" THEN {s} ELSE {}

\* settleStep up to the compensations: all of it is in memory.
Settled(s, out) ==
    LET status == IF out = "terminal" THEN "completed" ELSE out IN
    [run EXCEPT !.result[s] = status,
                !.frame = FinishFrames(@, s, status),
                !.pin[s] = 0,
                !.registered = @ \cup Registered(s, out)]

Settle ==
    /\ root.pc = "settle" /\ UNCHANGED <<plan, catalog, log>>
    /\ LET r == Settled(run.at, root.out) IN
       \/ /\ root.out = "failed"
          /\ run' = r /\ root' = [root EXCEPT !.pc = "undo"] /\ thread' = Idle
          /\ UNCHANGED disk
       \/ root.out = "terminal" /\ Ends([r EXCEPT !.status = "completed"])
       \/ /\ root.out \in {"completed", "skipped", "denied"}
          /\ Checkpoint(r) /\ root' = [root EXCEPT !.pc = "next"] /\ thread' = Idle

----------------------------------------------------------------------------
\* Compensation: the last that was registered is undone first.

Runnable(r) == {c \in r.registered : plan[c].policy = "failure"}

\* Mutant: compensations run in the order of the plan.
NextUndoInPlanOrder == Min(Runnable(run))

NextUndo == Max(Runnable(run))

UndoNext ==
    /\ root.pc = "undo" /\ Runnable(run) # {}
    /\ root' = [root EXCEPT !.pc = "undoing", !.owner = NextUndo]
    /\ thread' = [Idle EXCEPT ![1].pc = "begin"]
    /\ UNCHANGED <<plan, run, disk, catalog, log>>

\* The frame is finished and the registration deleted in memory; the next checkpoint saves both.
UndoDone ==
    /\ root.pc = "undoing" /\ thread[1].pc = "done"
    /\ run' = [run EXCEPT !.frame = FinishFrames(@, root.owner, "completed"), !.registered = @ \ {root.owner}]
    /\ root' = [root EXCEPT !.pc = "undo"]
    /\ thread' = Idle
    /\ UNCHANGED <<plan, disk, catalog, log>>

\* Everything is undone: on_error of the step that failed, and the checkpoint of settleStep.
UndoEnds ==
    /\ root.pc = "undo" /\ Runnable(run) = {} /\ UNCHANGED <<plan, catalog, log>>
    /\ LET step == plan[run.at] IN
       \/ step.onError = "stop" /\ Ends([run EXCEPT !.status = "failed"])
       \/ /\ step.onError \in {"continue", "goto"}
          /\ Checkpoint([run EXCEPT !.at = IF step.onError = "goto" THEN step.target - 1 ELSE @])
          /\ root' = [root EXCEPT !.pc = "next"]
          /\ UNCHANGED thread

\* An indeterminate child of a compensation halts the run as a failed checkpoint does.
UndoHalts ==
    /\ root.pc = "undoing" /\ thread[1].pc = "lost"
    /\ Ends(Marked(run))
    /\ UNCHANGED <<plan, catalog, log>>

----------------------------------------------------------------------------
\* A dynamic include resolves its target once and pins it before the first child runs.

ResolvePinned ==
    /\ root.pc = "resolve" /\ thread[0].pc = "ready" /\ run.pin[run.at] # 0
    /\ root' = [root EXCEPT !.pc = "lanes"]
    /\ thread' = [Idle EXCEPT ![1].pc = "begin"]
    /\ UNCHANGED <<plan, run, disk, catalog, log>>

ResolvePrepare ==
    /\ root.pc = "resolve" /\ thread[0].pc = "ready" /\ run.pin[run.at] = 0
    /\ Checkpoint([run EXCEPT !.prepared = @ \cup {<<run.at, 0, 0>>}])
    /\ thread' = [thread EXCEPT ![0].pc = "prepared"]
    /\ UNCHANGED <<plan, root, catalog, log>>

\* CommitDynamicIncludeResolution settles the dispatch of the resolver with the pin.
ResolveCommit ==
    /\ root.pc = "resolve" /\ thread[0].pc = "prepared"
    /\ Checkpoint([run EXCEPT !.prepared = {}, !.pin[run.at] = catalog])
    /\ root' = [root EXCEPT !.pc = "lanes"]
    /\ thread' = [Idle EXCEPT ![1].pc = "begin"]
    /\ UNCHANGED <<plan, catalog, log>>

\* handleResolveError: on_not_found continue skips the step, any other error fails the run.
ResolveFails ==
    /\ root.pc = "resolve" /\ thread[0].pc = "prepared" /\ UNCHANGED <<plan, catalog, log>>
    /\ \/ FailRun(run)
       \/ /\ plan[run.at].policy = "continue"
          /\ run' = [run EXCEPT !.prepared = {}]
          /\ root' = [root EXCEPT !.pc = "settle", !.out = "skipped"]
          /\ thread' = Idle /\ UNCHANGED disk

----------------------------------------------------------------------------
\* The lanes of a container, and of a compensation.

Owner == root.owner
Live(l) == root.pc \in {"lanes", "undoing"} /\ thread[l].pc # "idle"
To(l, pc, out) == thread' = [thread EXCEPT ![l] = [pc |-> pc, out |-> out]]

\* Mutant: an interrupted frame is not looked for.
OpenedAnew(f) == [NoFrame EXCEPT !.status = "active", !.epoch = run.epoch, !.def = run.pin[f[1]]]

\* BeginExecutionFrame: an active frame of the same request is resumed where it stopped.
Opened(f) ==
    IF run.frame[f].status = "active" THEN [run.frame[f] EXCEPT !.epoch = run.epoch]
    ELSE [NoFrame EXCEPT !.status = "active", !.epoch = run.epoch, !.def = run.pin[f[1]]]

Begin(l) ==
    /\ Live(l) /\ thread[l].pc = "begin" /\ UNCHANGED <<plan, root, catalog, log>>
    /\ LET f == <<Owner, l>>
           old == run.frame[f]
           new == Opened(f) IN
       /\ old.status = "active" => old.def = run.pin[Owner]
       /\ Checkpoint([run EXCEPT !.frame[f] = new])
       /\ To(l, IF Len(new.results) = Len(Children(f)) THEN "done" ELSE "ready", "none")

\* PrepareDispatch of a child that acts outside the process.
Prepare(l) ==
    /\ Live(l) /\ thread[l].pc = "ready" /\ UNCHANGED <<plan, root, catalog, log>>
    /\ \/ /\ l = 0
          /\ Checkpoint([run EXCEPT !.prepared = @ \cup {<<Owner, 0, 0>>}])
       \/ /\ l # 0 /\ Child(<<Owner, l>>).kind = "tool"
          /\ Checkpoint([run EXCEPT !.prepared = @ \cup {<<Owner, l, Len(run.frame[<<Owner, l>>].results)>>}])
    /\ To(l, "prepared", "none")

Effect(l) ==
    /\ Live(l) /\ thread[l].pc = "prepared"
    /\ log' = Append(log, <<Owner, l, IF l = 0 THEN 0 ELSE Len(run.frame[<<Owner, l>>].results)>>)
    /\ \E out \in {"completed", "failed", "error", "lost"} : To(l, "ran", out)
    /\ UNCHANGED <<plan, run, disk, root, catalog>>

\* The governance check of executeStep, which branches of a parallel step do not pass through:
\* a step that is denied has that as its result; one whose approval is refused fails its
\* engine, and nothing of it is committed.
Refused(l) ==
    /\ root.pc = "lanes" /\ thread[l].pc = "ready" /\ plan[run.at].kind # "parallel"
    /\ l # 0 => Child(<<Owner, l>>).kind = "tool"
    /\ UNCHANGED <<plan, catalog, log>>
    /\ \/ To(l, "ran", "denied") /\ UNCHANGED <<run, disk, root>>
       \/ l # 0 /\ To(l, "failed", "none") /\ UNCHANGED <<run, disk, root>>
       \/ l = 0 /\ FailRun(run)

\* A child that acts inside the process only; an end step completes.
Local(l) ==
    /\ Live(l) /\ l # 0 /\ thread[l].pc = "ready" /\ Child(<<Owner, l>>).kind # "tool"
    /\ \E out \in IF Child(<<Owner, l>>).kind = "end" THEN {"completed"} ELSE {"completed", "failed"} : To(l, "ran", out)
    /\ UNCHANGED <<plan, run, disk, root, catalog, log>>

\* After an end step the rest of the frame is skipped in the same checkpoint.
Recorded(f, out) ==
    LET results == Append(run.frame[f].results,
                          CASE out = "lost" -> "indeterminate" [] out = "error" -> "failed" [] OTHER -> out)
        rest == Len(Children(f)) - Len(results) IN
    IF Child(f).kind = "end" THEN results \o [i \in 1 .. rest |-> "skipped"] ELSE results

CanCommit(f) == run.frame[f].status = "active" /\ run.frame[f].epoch = run.epoch

\* A compensation never stops at a failed child; elsewhere on_error of the child decides,
\* except that an executor's error always ends the branch of a parallel step.
Stops(f, out) ==
    /\ root.pc = "lanes" /\ out \in {"failed", "error"}
    /\ Child(f).onError = "stop" \/ (out = "error" /\ plan[f[1]].kind = "parallel")

Commit(l) ==
    /\ Live(l) /\ l # 0 /\ thread[l].pc = "ran" /\ UNCHANGED <<plan, root, catalog, log>>
    /\ LET f == <<Owner, l>>
           out == thread[l].out
           results == Recorded(f, out) IN
       /\ CanCommit(f)
       /\ Checkpoint([run EXCEPT !.frame[f].results = results, !.prepared = {d \in @ : d[2] # l}])
       /\ To(l, CASE out = "lost" -> "lost"
                  [] Stops(f, out) -> "failed"
                  [] Len(results) = Len(Children(f)) -> "done"
                  [] OTHER -> "ready", "none")

\* The first failure of a concurrent lane cancels the others before their next child.
Cancelled(l) ==
    /\ Live(l) /\ plan[run.at].kind \in Parallel /\ thread[l].pc = "ready"
    /\ \E m \in Lanes(run.at) : thread[m].pc \in {"failed", "lost"}
    /\ To(l, "failed", "none")
    /\ UNCHANGED <<plan, run, disk, root, catalog, log>>

----------------------------------------------------------------------------
\* The container when its lanes have ended.

At(pcs) == {l \in Lanes(run.at) : thread[l].pc \in pcs}
Results(l) == Range(run.frame[<<run.at, l>>].results)
SawEnd(l) == \E i \in DOMAIN plan[run.at].lanes[l] :
                 plan[run.at].lanes[l][i].kind = "end" /\ run.frame[<<run.at, l>>].results[i] = "completed"
SettleAs(out) ==
    /\ root' = [root EXCEPT !.pc = "settle", !.out = out]
    /\ thread' = Idle
    /\ UNCHANGED <<run, disk>>

\* IncludeExecutor: the failure of the sub-run is the result of the step.
JoinInclude ==
    /\ plan[run.at].kind \in {"include", "dynamic"}
    /\ \/ thread[1].pc = "failed" /\ SettleAs("failed")
       \/ thread[1].pc = "lost" /\ HaltIndeterminate(run)
       \/ thread[1].pc = "done" /\ SettleAs("completed")

\* BranchExecutor: as an include, and an end step inside ends the run.
JoinBranch ==
    /\ plan[run.at].kind = "branch"
    /\ \/ thread[1].pc = "failed" /\ SettleAs("failed")
       \/ thread[1].pc = "lost" /\ HaltIndeterminate(run)
       \/ thread[1].pc = "done" /\ SettleAs(IF SawEnd(1) THEN "terminal" ELSE "completed")

\* IterateExecutor.executeSequential: the failure of an iteration is an error of the run.
JoinIterations ==
    /\ plan[run.at].kind = "iterate"
    /\ \/ At({"failed"}) # {} /\ FailRun(run)
       \/ At({"lost"}) # {} /\ HaltIndeterminate(run)
       \/ \E l \in At({"done"}) :
            \/ /\ l + 1 \in Lanes(run.at) /\ ~SawEnd(l)
               /\ thread' = [Idle EXCEPT ![l + 1].pc = "begin"]
               /\ UNCHANGED <<run, disk, root>>
            \/ /\ l + 1 \notin Lanes(run.at) \/ SawEnd(l)
               /\ SettleAs(IF \E m \in 1 .. l : "failed" \in Results(m) THEN "failed"
                           ELSE IF SawEnd(l) THEN "terminal" ELSE "completed")

\* executeConcurrent: the first error is returned; an end step inside does not end the run.
JoinConcurrent ==
    /\ plan[run.at].kind = "concurrent" /\ At({"done", "failed", "lost"}) = Lanes(run.at)
    /\ \/ At({"failed"}) # {} /\ FailRun(run)
       \/ At({"lost"}) # {} /\ HaltIndeterminate(run)
       \/ /\ At({"done"}) = Lanes(run.at)
          /\ SettleAs(IF \E m \in Lanes(run.at) : "failed" \in Results(m) THEN "failed" ELSE "completed")

\* executeParallel: join.on_failure decides what a failed branch is to the step.
JoinParallel ==
    /\ plan[run.at].kind = "parallel" /\ At({"done", "failed", "lost"}) = Lanes(run.at)
    /\ \/ At({"lost"}) # {} /\ HaltIndeterminate(run)
       \/ /\ At({"lost"}) = {}
          /\ SettleAs(IF At({"failed"}) # {} /\ plan[run.at].policy # "continue" THEN "failed" ELSE "completed")

\* executeStep of a step without children.
JoinTask ==
    /\ plan[run.at].kind = "task" /\ thread[0].pc = "ran"
    /\ \/ thread[0].out \in {"lost", "error"} /\ HaltIndeterminate(run)
       \/ /\ thread[0].out \in {"completed", "failed", "denied"}
          /\ run' = [run EXCEPT !.prepared = {}]
          /\ root' = [root EXCEPT !.pc = "settle", !.out = thread[0].out]
          /\ thread' = Idle /\ UNCHANGED disk

Join ==
    /\ root.pc = "lanes" /\ UNCHANGED <<plan, catalog, log>>
    /\ (JoinTask \/ JoinInclude \/ JoinBranch \/ JoinIterations \/ JoinConcurrent \/ JoinParallel)

----------------------------------------------------------------------------
\* Interruption and resumption.

Crash ==
    /\ root.pc # "off"
    /\ run' = disk /\ root' = [root EXCEPT !.pc = "off"] /\ thread' = Idle
    /\ UNCHANGED <<plan, disk, catalog, log>>

\* haltCheckpointCommit: the store refused a checkpoint; the second attempt may succeed.
CheckpointFails ==
    /\ root.pc \notin {"off", "next"}
    /\ \E r \in {disk, Marked(run)} : Checkpoint(r)
    /\ root' = [root EXCEPT !.pc = "off"] /\ thread' = Idle
    /\ UNCHANGED <<plan, catalog, log>>

\* recoverUnmatchedDispatches: what the last process prepared and did not settle.
RecoverDispatches ==
    /\ root.pc = "off" /\ disk.status \in {"running", "indeterminate"} /\ disk.prepared # {}
    /\ \A d \in disk.prepared : Recoverable(disk, d)
    /\ Checkpoint(Marked(disk))
    /\ UNCHANGED <<plan, root, thread, catalog, log>>

\* executionFrameCursors and resumeStepIndexFromExecutionFrames: a frame that has a child left
\* belongs to the current root step, or undoes what that step left behind.
Unfinished == {f \in Active(disk) : ~Full(disk, f)}
CursorsMatch ==
    \A f \in Unfinished :
        \/ f[1] = disk.at
        \/ plan[f[1]].kind = "compensate" /\ disk.at \in Steps /\ disk.result[disk.at] = "failed"

\* nextExecutionCursorSet and resumeStepIndex: work under way starts again at the current root step.
UnderWay == Active(disk) # {} \/ \E s \in Steps : disk.pin[s] # 0

\* refenceActiveExecutionState gives the frames the epoch of the new writer.
Refenced(epoch) ==
    [disk EXCEPT !.epoch = epoch,
                 !.frame = [f \in Slots |-> IF f \in Active(disk) THEN [@[f] EXCEPT !.epoch = epoch] ELSE @[f]]]

\* RebuildRun: Next will execute the step after the one the rebuilt run is at.
Rebuilt(r) == [r EXCEPT !.status = "running", !.at = IF UnderWay THEN @ - 1 ELSE @]

Resume ==
    /\ root.pc = "off" /\ disk.status \in {"running", "indeterminate"} /\ disk.prepared = {}
    /\ disk.epoch < MaxEpoch /\ CursorsMatch
    /\ disk' = Refenced(disk.epoch + 1)
    /\ run' = Rebuilt(disk')
    /\ root' = [pc |-> "next", owner |-> 0, out |-> "none"]
    /\ UNCHANGED <<plan, thread, catalog, log>>

CatalogChanges ==
    /\ catalog < MaxVersion /\ \E s \in Steps : plan[s].kind = "dynamic"
    /\ catalog' = catalog + 1
    /\ UNCHANGED <<plan, run, disk, root, thread, log>>

Next ==
    \/ Advance \/ Settle \/ UndoNext \/ UndoDone \/ UndoEnds \/ UndoHalts
    \/ ResolvePinned \/ ResolvePrepare \/ ResolveCommit \/ ResolveFails
    \/ \E l \in Threads : Begin(l) \/ Prepare(l) \/ Effect(l) \/ Refused(l) \/ Local(l) \/ Commit(l) \/ Cancelled(l)
    \/ Join \/ Crash \/ CheckpointFails \/ RecoverDispatches \/ Resume \/ CatalogChanges

Spec == Init /\ [][Next]_vars

----------------------------------------------------------------------------

\* No effect outside the process happens twice, however often the run is interrupted and
\* resumed: not in an include, an iteration, a branch of a parallel step or a compensation.
EffectsOnce == IsInjective(log)

\* A run that a failed step stopped has undone everything that was registered, and what was
\* registered last is undone before the frame of anything registered earlier is opened.
Compensated ==
    /\ \A r \in {run, disk} : \A f \in Active(r) :
         plan[f[1]].kind = "compensate" => \A c \in Runnable(r) : c <= f[1]
    /\ disk.status = "failed" /\ disk.result[disk.at] = "failed" => Runnable(disk) = {}

\* Every checkpoint of a run that has not ended is one that the next process can go on from:
\* what was prepared belongs to the next child of its frame, and every frame with a child left
\* belongs to the step that the run is at.
Resumable ==
    disk.status \in {"running", "indeterminate"} =>
        CursorsMatch /\ \A d \in disk.prepared : Recoverable(disk, d)

\* A process never meets a frame that is not where it left it: each commit is of an active
\* frame of this writer, a frame that is resumed has the definition that was pinned when it
\* was opened, and each checkpoint can be resumed.
FramesResume ==
    /\ Resumable
    /\ \A l \in Threads : Live(l) /\ l # 0 /\ thread[l].pc = "ran" => CanCommit(<<Owner, l>>)
    /\ \A l \in Threads : Live(l) /\ thread[l].pc = "begin" /\ run.frame[<<Owner, l>>].status = "active"
         => run.frame[<<Owner, l>>].def = run.pin[Owner]
=============================================================================
