---------------------------- MODULE PromptBroker ----------------------------
(***************************************************************************)
(* One run of the HTTP server: its attachments, the queues in which the     *)
(* prompt broker keeps open turns, the prompt calls of the engine, the      *)
(* answers that clients post, and the goroutines that tear it all down.     *)
(*                                                                          *)
(* An attachment is numbered, and owns the queue and the engine handle of   *)
(* its number: POST /runs or run.resume registers the queue, starts the     *)
(* engine, adds the registry entry and starts the event pump.  A turn is a  *)
(* question of the run, which keeps its id across resumes; the run's        *)
(* checkpoint says whether it is pending or how it was answered.            *)
(***************************************************************************)
EXTENDS Naturals, FiniteSets

CONSTANTS
    MaxAttach,  \* bound: attachments
    Turn,       \* questions of the run
    Post,       \* answers posted by clients
    Answer,
    None

ASSUME BrokerAssumption ==
    /\ MaxAttach \in Nat \ {0}
    /\ None \notin Answer
    /\ Answer \cap {"none", "pending", "closed", "idle", "prepare", "insert", "wait", "error",
                   "cancelled"} = {}

VARIABLES
    cur,        \* broker.runs[runID]: the registered queue, 0 for none
    closed,     \* queue -> q.closed
    pending,    \* queue -> turn -> the handle whose prompt waits for it, 0 for none
    entry,      \* the registry's entry for the run: its handle, 0 for none
    completed,  \* handle -> the entry's CompletedAt is set
    lease,      \* the handle that holds the run's lease, 0 for none
    handle,     \* handle -> its engine's status
    attach,     \* attachment -> how far its request is
    pump,       \* handle -> its event pump
    taken,      \* teardown -> the queue it has taken out of the map, 0 for none
    cancel,     \* the cancel request: its state and its handle
    prompt,     \* handle -> turn -> the prompt call, or the answer it returned
    at,         \* handle -> turn -> the queue the prompt call found
    channel,    \* handle -> turn -> the turn's answer channel
    saved,      \* turn -> the interaction in the run's checkpoint
    post,       \* post -> the request
    acked       \* <<turn, answer>> pairs a client was told are accepted

vars == <<cur, closed, pending, entry, completed, lease, handle, attach, pump, taken,
          cancel, prompt, at, channel, saved, post, acked>>
queueVars == <<cur, closed, pending>>
runVars == <<entry, completed, lease, handle, attach, pump, cancel>>
promptVars == <<prompt, at, channel>>
postVars == <<saved, post, acked>>

Handle == 1..MaxAttach
Canceller == 0
Over == {"ended", "indeterminate", "paused"}
Asking == {"prepare", "insert", "wait"}
NoPost == [pc |-> "idle", queue |-> 0, turn |-> None, answer |-> None]
Replied == [NoPost EXCEPT !.pc = "done"]

----------------------------------------------------------------------------
(* Attaching the run                                                        *)

\* Attachments are numbered in the order in which they begin.
InOrder(n) == \A m \in 1..(n - 1) : attach[m] # "idle"

\* run.resume refuses a run that is in the registry.
CheckEntry(n) ==
    /\ attach[n] = "idle" /\ InOrder(n) /\ entry = 0
    /\ attach' = [attach EXCEPT ![n] = "checked"]
    /\ UNCHANGED <<entry, completed, lease, handle, pump, cancel, queueVars, promptVars, postVars, taken>>

registerExclusive(n) ==
    /\ attach[n] = "checked"
    /\ IF cur = 0
       THEN cur' = n /\ attach' = [attach EXCEPT ![n] = "reserved"]
       ELSE UNCHANGED cur /\ attach' = [attach EXCEPT ![n] = "idle"]
    /\ UNCHANGED <<closed, pending, entry, completed, lease, handle, pump, cancel, promptVars, postVars, taken>>

\* The engine resumes the run when nobody holds its lease and it has not ended.
Resume(n) ==
    /\ attach[n] = "reserved" /\ lease = 0
    /\ \A h \in Handle : handle[h] # "ended"
    /\ lease' = n
    /\ handle' = [handle EXCEPT ![n] = "open"]
    /\ attach' = [attach EXCEPT ![n] = "resumed"]
    /\ UNCHANGED <<entry, completed, pump, cancel, queueVars, promptVars, postVars, taken>>

ResumeFails(n) ==
    /\ attach[n] = "reserved"
    /\ attach' = [attach EXCEPT ![n] = "failed"]
    /\ UNCHANGED <<entry, completed, lease, handle, pump, cancel, queueVars, promptVars, postVars, taken>>

AddEntry(n) ==
    /\ attach[n] = "resumed"
    /\ entry' = n
    /\ attach' = [attach EXCEPT ![n] = "attached"]
    /\ pump' = [pump EXCEPT ![n] = "run"]
    /\ UNCHANGED <<completed, lease, handle, cancel, queueVars, promptVars, postVars, taken>>

----------------------------------------------------------------------------
(* The end of a run                                                         *)

\* The engine completes, fails, halts or pauses when no step is executing.
HandleEnds(n, status) ==
    /\ handle[n] = "open" /\ attach[n] = "attached"
    /\ \A t \in Turn : prompt[n][t] \notin Asking
    /\ handle' = [handle EXCEPT ![n] = status]
    /\ lease' = 0
    /\ UNCHANGED <<entry, completed, attach, pump, cancel, queueVars, promptVars, postVars, taken>>

\* Mutant: the pump waits for a terminal event, which a paused run does not send.
PumpSeesTerminal(n) ==
    /\ pump[n] = "run" /\ handle[n] \in Over \ {"paused"}
    /\ pump' = [pump EXCEPT ![n] = "take"]
    /\ completed' = [completed EXCEPT ![n] = TRUE]
    /\ UNCHANGED <<entry, lease, handle, attach, cancel, queueVars, promptVars, postVars, taken>>

\* The pump sees the terminal event, the closed channel or the cancelled context, and
\* copies the state of the run into its entry; a paused run has no completion time.
PumpSees(n) ==
    /\ pump[n] = "run" /\ handle[n] \in Over
    /\ pump' = [pump EXCEPT ![n] = "take"]
    /\ completed' = [completed EXCEPT ![n] = @ \/ handle[n] # "paused"]
    /\ UNCHANGED <<entry, lease, handle, attach, cancel, queueVars, promptVars, postVars, taken>>

\* DELETE /runs/{id} and run.cancel: the engine cancels the run, which cancels the
\* context of its steps.  The checkpoint that says so may fail to be written.
CancelRun ==
    /\ cancel.pc = "idle" /\ entry # 0
    /\ cancel' = [pc |-> "take", handle |-> entry]
    /\ \E status \in {"ended", "indeterminate"} :
         handle' = [handle EXCEPT ![entry] = IF @ = "open" THEN status ELSE @]
    /\ lease' = IF lease = entry THEN 0 ELSE lease
    /\ UNCHANGED <<entry, completed, attach, pump, queueVars, promptVars, postVars, taken>>

\* Which teardowns run Unregister: the pump of a handle, a failed attachment, and the
\* cancel request.
Unregisters(x) ==
    IF x = Canceller THEN cancel.pc = "take" ELSE pump[x] = "take" \/ attach[x] = "failed"

Torn(x) ==
    /\ pump' = IF x # Canceller /\ pump[x] = "take" THEN [pump EXCEPT ![x] = "done"] ELSE pump
    /\ attach' = IF x # Canceller /\ attach[x] = "failed" THEN [attach EXCEPT ![x] = "over"] ELSE attach
    /\ cancel' = IF x = Canceller THEN [cancel EXCEPT !.pc = "idle"] ELSE cancel
    /\ completed' = IF x = Canceller THEN [completed EXCEPT ![cancel.handle] = TRUE] ELSE completed
    /\ UNCHANGED <<entry, lease, handle>>

\* Unregister, first part: the queue leaves the map under the broker's lock.
UnregisterTake(x) ==
    /\ Unregisters(x) /\ taken[x] = 0 /\ cur # 0
    /\ taken' = [taken EXCEPT ![x] = cur]
    /\ cur' = 0
    /\ UNCHANGED <<closed, pending, runVars, promptVars, postVars>>

UnregisterNothing(x) ==
    /\ Unregisters(x) /\ taken[x] = 0 /\ cur = 0
    /\ Torn(x)
    /\ UNCHANGED <<taken, queueVars, promptVars, postVars>>

\* Mutant: the queue is closed and its turns are dropped, but their prompts not told.
UnregisterQuietly(x) ==
    /\ taken[x] # 0
    /\ closed' = [closed EXCEPT ![taken[x]] = TRUE]
    /\ pending' = [pending EXCEPT ![taken[x]] = [t \in Turn |-> 0]]
    /\ taken' = [taken EXCEPT ![x] = 0]
    /\ Torn(x)
    /\ UNCHANGED <<cur, promptVars, postVars>>

\* Unregister, second part: under the queue's lock every open turn is cancelled.
UnregisterClose(x) ==
    /\ taken[x] # 0
    /\ LET q == taken[x] IN
         /\ closed' = [closed EXCEPT ![q] = TRUE]
         /\ channel' = [h \in Handle |-> [t \in Turn |->
                          IF pending[q][t] = h THEN "closed" ELSE channel[h][t]]]
         /\ pending' = [pending EXCEPT ![q] = [t \in Turn |-> 0]]
    /\ taken' = [taken EXCEPT ![x] = 0]
    /\ Torn(x)
    /\ UNCHANGED <<cur, prompt, at, postVars>>

\* The registry forgets an entry MaxRunAge, an hour, after its completion: long after
\* the goroutines that were tearing it down are done.
GC ==
    /\ entry # 0 /\ completed[entry]
    /\ pump[entry] = "done" /\ cancel.pc = "idle"
    /\ entry' = 0
    /\ UNCHANGED <<completed, lease, handle, attach, pump, cancel, queueVars, promptVars, postVars, taken>>

----------------------------------------------------------------------------
(* Prompt calls of the engine                                               *)

Prompts(h, t, to) == prompt' = [prompt EXCEPT ![h][t] = to]

Prompt(h, t) ==
    /\ handle[h] = "open" /\ attach[h] = "attached" /\ prompt[h][t] = "idle"
    /\ Prompts(h, t, IF cur = 0 THEN "error" ELSE "prepare")
    /\ at' = [at EXCEPT ![h][t] = cur]
    /\ UNCHANGED <<channel, queueVars, runVars, postVars, taken>>

\* prepareInteraction asks the engine to record the turn: a new one is recorded, a
\* pending one is asked again, an answered one returns its answer without asking.
PrepareInteraction(h, t) ==
    /\ prompt[h][t] = "prepare" /\ handle[h] = "open"
    /\ \/ saved[t] \in Answer /\ Prompts(h, t, saved[t]) /\ UNCHANGED saved
       \/ /\ saved[t] \notin Answer /\ Prompts(h, t, "insert")
          /\ saved' = [saved EXCEPT ![t] = "pending"]
    /\ UNCHANGED <<at, channel, queueVars, runVars, post, acked, taken>>

PrepareFails(h, t) ==
    /\ prompt[h][t] = "prepare"
    /\ Prompts(h, t, "error")
    /\ UNCHANGED <<at, channel, queueVars, runVars, postVars, taken>>

Insert(h, t) ==
    /\ prompt[h][t] = "insert"
    /\ IF closed[at[h][t]]
       THEN Prompts(h, t, "cancelled") /\ UNCHANGED pending
       ELSE Prompts(h, t, "wait") /\ pending' = [pending EXCEPT ![at[h][t]][t] = h]
    /\ UNCHANGED <<at, channel, cur, closed, runVars, postVars, taken>>

\* Mutant: the prompt takes what it reads from a closed channel for an answer.
ReceiveAnything(h, t) ==
    /\ prompt[h][t] = "wait" /\ channel[h][t] # "none"
    /\ Prompts(h, t, channel[h][t])
    /\ UNCHANGED <<at, channel, queueVars, runVars, postVars, taken>>

Receive(h, t) ==
    /\ prompt[h][t] = "wait" /\ channel[h][t] # "none"
    /\ Prompts(h, t, IF channel[h][t] = "closed" THEN "cancelled" ELSE channel[h][t])
    /\ UNCHANGED <<at, channel, queueVars, runVars, postVars, taken>>

\* The prompt's context is done: the run was cancelled, the step timed out, or another
\* worker of the step failed.  The turn leaves the queue the prompt put it into.
CtxDone(h, t) ==
    /\ prompt[h][t] = "wait"
    /\ Prompts(h, t, "cancelled")
    /\ pending' = [pending EXCEPT ![at[h][t]][t] = 0]
    /\ UNCHANGED <<at, channel, cur, closed, runVars, postVars, taken>>

----------------------------------------------------------------------------
(* Answers                                                                  *)

AnswerFinds(x, t, a) ==
    /\ post[x].pc = "idle" /\ cur # 0
    /\ post' = [post EXCEPT ![x] = [pc |-> "found", queue |-> cur, turn |-> t, answer |-> a]]
    /\ UNCHANGED <<saved, acked, queueVars, runVars, promptVars, taken>>

Owner(x) == pending[post[x].queue][post[x].turn]

\* The turn is not pending (any more), or the commit of the answer fails: 409 or 500.
AnswerRefused(x) ==
    /\ post[x].pc = "found"
    /\ post' = [post EXCEPT ![x] = Replied]
    /\ UNCHANGED <<saved, acked, queueVars, runVars, promptVars, taken>>

\* Mutant: an error of the commit is ignored.
AnswerUncommitted(x) ==
    /\ post[x].pc = "found" /\ Owner(x) # 0
    /\ saved' = [saved EXCEPT ![post[x].turn] =
                   IF handle[Owner(x)] = "open" THEN post[x].answer ELSE @]
    /\ pending' = [pending EXCEPT ![post[x].queue][post[x].turn] = 0]
    /\ post' = [post EXCEPT ![x].pc = "deliver", ![x].queue = Owner(x)]
    /\ UNCHANGED <<acked, cur, closed, runVars, promptVars, taken>>

\* AnswerCommand under the queue's lock: the engine commits the answer, and the turn
\* leaves the queue.  A handle that is over has no lease, and its commit fails.
AnswerCommits(x) ==
    /\ post[x].pc = "found" /\ Owner(x) # 0 /\ handle[Owner(x)] = "open"
    /\ saved' = [saved EXCEPT ![post[x].turn] = post[x].answer]
    /\ pending' = [pending EXCEPT ![post[x].queue][post[x].turn] = 0]
    /\ post' = [post EXCEPT ![x].pc = "deliver", ![x].queue = Owner(x)]
    /\ UNCHANGED <<acked, cur, closed, runVars, promptVars, taken>>

\* AnswerCommand after the lock: the answer goes into the turn's channel.
AnswerDelivers(x) ==
    /\ post[x].pc = "deliver"
    /\ channel' = [channel EXCEPT ![post[x].queue][post[x].turn] =
                     IF @ = "none" THEN post[x].answer ELSE @]
    /\ acked' = acked \cup {<<post[x].turn, post[x].answer>>}
    /\ post' = [post EXCEPT ![x] = Replied]
    /\ UNCHANGED <<saved, prompt, at, queueVars, runVars, taken>>

----------------------------------------------------------------------------

Init ==
    /\ cur = 0 /\ entry = 0 /\ lease = 0
    /\ closed = [q \in Handle |-> FALSE]
    /\ pending = [q \in Handle |-> [t \in Turn |-> 0]]
    /\ completed = [h \in Handle |-> FALSE]
    /\ handle = [h \in Handle |-> "none"]
    /\ attach = [h \in Handle |-> "idle"]
    /\ pump = [h \in Handle |-> "none"]
    /\ taken = [x \in 0..MaxAttach |-> 0]
    /\ cancel = [pc |-> "idle", handle |-> 0]
    /\ prompt = [h \in Handle |-> [t \in Turn |-> "idle"]]
    /\ at = [h \in Handle |-> [t \in Turn |-> 0]]
    /\ channel = [h \in Handle |-> [t \in Turn |-> "none"]]
    /\ saved = [t \in Turn |-> "none"]
    /\ post = [x \in Post |-> NoPost]
    /\ acked = {}

Teardown(x) == UnregisterTake(x) \/ UnregisterNothing(x) \/ UnregisterClose(x)

Attaching(n) ==
    \/ CheckEntry(n) \/ registerExclusive(n) \/ Resume(n) \/ ResumeFails(n) \/ AddEntry(n)

Prompting(h, t) ==
    \/ Prompt(h, t) \/ PrepareInteraction(h, t) \/ PrepareFails(h, t)
    \/ Insert(h, t) \/ Receive(h, t) \/ CtxDone(h, t)

Answering(x) ==
    \/ \E t \in Turn, a \in Answer : AnswerFinds(x, t, a)
    \/ AnswerRefused(x) \/ AnswerCommits(x) \/ AnswerDelivers(x)

Next ==
    \/ \E n \in Handle : Attaching(n) \/ PumpSees(n)
    \/ \E n \in Handle, status \in Over : HandleEnds(n, status)
    \/ CancelRun
    \/ \E x \in 0..MaxAttach : Teardown(x)
    \/ GC
    \/ \E h \in Handle, t \in Turn : Prompting(h, t)
    \/ \E x \in Post : Answering(x)

Spec == Init /\ [][Next]_vars

\* A goroutine that can go on does; a prompt leaves its wait when its channel says so or
\* when its run is over, because ending the run cancels the context of its steps.
FairSpec ==
    /\ Spec
    /\ \A n \in Handle : WF_vars(PumpSees(n))
    /\ \A x \in 0..MaxAttach : WF_vars(Teardown(x))
    /\ \A x \in Post : WF_vars(AnswerDelivers(x))
    /\ \A h \in Handle, t \in Turn :
         /\ WF_vars(PrepareInteraction(h, t) \/ PrepareFails(h, t))
         /\ WF_vars(Insert(h, t))
         /\ WF_vars(Receive(h, t))
         /\ WF_vars(handle[h] \in Over /\ CtxDone(h, t))

----------------------------------------------------------------------------
(* Properties                                                               *)

TypeOK ==
    /\ cur \in 0..MaxAttach /\ entry \in 0..MaxAttach /\ lease \in 0..MaxAttach
    /\ closed \in [Handle -> BOOLEAN] /\ completed \in [Handle -> BOOLEAN]
    /\ pending \in [Handle -> [Turn -> 0..MaxAttach]]
    /\ handle \in [Handle -> {"none", "open"} \cup Over]
    /\ attach \in [Handle -> {"idle", "checked", "reserved", "failed", "resumed", "attached", "over"}]
    /\ pump \in [Handle -> {"none", "run", "take", "done"}]
    /\ taken \in [0..MaxAttach -> 0..MaxAttach]
    /\ cancel \in [pc : {"idle", "take"}, handle : 0..MaxAttach]
    /\ prompt \in [Handle -> [Turn -> {"idle", "error", "cancelled"} \cup Asking \cup Answer]]
    /\ at \in [Handle -> [Turn -> 0..MaxAttach]]
    /\ channel \in [Handle -> [Turn -> {"none", "closed"} \cup Answer]]
    /\ saved \in [Turn -> {"none", "pending"} \cup Answer]
    /\ post \in [Post -> [pc : {"idle", "found", "deliver", "done"}, queue : 0..MaxAttach,
                         turn : Turn \cup {None}, answer : Answer \cup {None}]]
    /\ acked \subseteq Turn \X Answer

\* The answer a client was told is accepted (204), and the answer any prompt of the run
\* returned, before or after a resume, is the one in the run's checkpoint.
AnswersAgree ==
    /\ \A ta \in acked : saved[ta[1]] = ta[2]
    /\ \A h \in Handle, t \in Turn : prompt[h][t] \in Answer => saved[t] = prompt[h][t]

\* Every prompt so far found the queue of its own attachment.
OwnQueues == \A h \in Handle, t \in Turn : at[h][t] \in {0, h}

\* A prompt that waits can be reached: its turn is in the queue it was put into and that
\* queue is registered or about to be closed, or its answer or cancellation is on the way.
\* A run that lost its queue to a stale teardown (LiveRunHasQueue) may ask in the queue of
\* a later attachment, where the two prompts of one turn displace each other.
WaitingReachable ==
    OwnQueues =>
    \A h \in Handle, t \in Turn :
        prompt[h][t] = "wait" =>
            \/ channel[h][t] # "none"
            \/ \E x \in Post : post[x].pc = "deliver" /\ post[x].queue = h /\ post[x].turn = t
            \/ /\ pending[at[h][t]][t] = h
               /\ at[h][t] = cur \/ \E x \in 0..MaxAttach : taken[x] = at[h][t]

\* A run that is attached and still open has its own queue registered: no teardown of an
\* earlier attachment, and no failed attachment, takes away the queue of a live run.
LiveRunHasQueue ==
    \A h \in Handle : attach[h] = "attached" /\ handle[h] = "open" => cur = h

\* When a run is over, its queue is taken down, which ends the clients' streams, and
\* every prompt call of it returns to the engine.
RunTornDown ==
    \A h \in Handle :
        handle[h] \in Over ~> cur # h /\ \A t \in Turn : prompt[h][t] \notin Asking
=============================================================================
