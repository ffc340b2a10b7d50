---------------------------- MODULE ToolDispatch ----------------------------
(***************************************************************************)
(* runtime/internal/tool: DefaultInvoker.Invoke over a FileDispatchStore.  *)
(* A call records its intent, runs the tool and settles the record, so     *)
(* that a second call with the same idempotency key is answered from the   *)
(* record and does not run the tool again.                                 *)
(*                                                                         *)
(* Every call may be in a process of its own: it can crash at any point,   *)
(* which frees the file locks it holds.  A record is written by renaming a *)
(* temporary file, hence at once; but a dispatch has two records, one      *)
(* found by key and one by occurrence, and they are written one after the  *)
(* other.  A call prepares one occurrence at most, so the call names it.   *)
(*                                                                         *)
(* The checks before the dispatch (resolution, authority, arguments,       *)
(* governance, approval) refuse a call or let it through; only calls that  *)
(* were let through appear.  The mutex of a store guards nothing that the  *)
(* lock of the key does not guard too, and is left out.                    *)
(***************************************************************************)
EXTENDS Naturals, FiniteSets

CONSTANTS
    Call,      \* invocations, each made once
    Key,       \* idempotency keys that callers supply
    Request,   \* what is asked for: tool, action and arguments
    None

ASSUME NoneIsNoKey == None \notin Key \cup Request \cup Call \cup {"ok", "fail", "empty"}
ASSUME KeysAreNotRequests == Key \cap Request = {}

VARIABLES
    given,     \* InvocationRequest.IdempotencyKey of each call, or None
    request,   \* its request digest
    pc,
    span,      \* holder of the .span lock of each key
    lock,      \* holder of the lock of each key
    keyRec,    \* keys/<key>.json
    occRec,    \* records/<occurrence>.json
    ran,       \* calls whose tool was started
    result,    \* what the tool gave to each of them
    outcome    \* what each call returned

vars == <<given, request, pc, span, lock, keyRec, occRec, ran, result, outcome>>
input == <<given, request>>
locks == <<span, lock>>
records == <<keyRec, occRec>>
execution == <<ran, result>>

\* A key that the store derives from a request is named by that request.
AllKeys == Key \cup Request

Result == {"ok", "fail"}
Status == {"prepared", "settled", "indeterminate"}
Record == [status : Status, occurrence : Call, digest : Request, result : Result \cup {None}]
NoRecord == [status |-> "none", occurrence |-> None, digest |-> None, result |-> None]
Outcome == {"conflict", "indeterminate", "error", "completed", "empty"} \cup Result

Points == {"idle", "awaitSpan", "awaitPrepare", "prepare", "mark", "intent", "replay", "ready",
           "running", "awaitSettle", "settle", "settleKey", "done", "dead"}

\* The key that a call's record is filed under.
KeyOf(c) == IF given[c] # None THEN given[c] ELSE request[c]

Existing(c) == keyRec[KeyOf(c)]

Intent(c, status) ==
    [status |-> status, occurrence |-> c, digest |-> request[c], result |-> None]

\* The call returns: LockKey's release is deferred, and so is releaseLock.
Return(c, value) ==
    /\ pc' = [pc EXCEPT ![c] = "done"]
    /\ outcome' = [outcome EXCEPT ![c] = value]
    /\ span' = [k \in AllKeys |-> IF span[k] = c THEN None ELSE span[k]]
    /\ lock' = [k \in AllKeys |-> IF lock[k] = c THEN None ELSE lock[k]]

Goto(c, to) == pc' = [pc EXCEPT ![c] = to] /\ UNCHANGED outcome

\* Mutant: the lock of the key is not given back.
KeepLock(c) == UNCHANGED <<lock, span>>

Unlock(c) == lock' = [lock EXCEPT ![KeyOf(c)] = None] /\ UNCHANGED span

-----------------------------------------------------------------------------
(* Before the dispatch. *)

Start(c, k, r) ==
    /\ pc[c] = "idle"
    /\ given' = [given EXCEPT ![c] = k] /\ request' = [request EXCEPT ![c] = r]
    /\ Goto(c, IF k # None THEN "awaitSpan" ELSE "awaitPrepare")
    /\ UNCHANGED <<locks, records, execution>>

\* Mutant: the span is not exclusive.
LockKeyShared(c) ==
    /\ pc[c] = "awaitSpan"
    /\ span' = [span EXCEPT ![KeyOf(c)] = c]
    /\ Goto(c, "awaitPrepare")
    /\ UNCHANGED <<input, lock, records, execution>>

\* Only a key that the caller supplied is locked for the whole span.
LockKey(c) ==
    /\ pc[c] = "awaitSpan" /\ span[KeyOf(c)] = None
    /\ span' = [span EXCEPT ![KeyOf(c)] = c]
    /\ Goto(c, "awaitPrepare")
    /\ UNCHANGED <<input, lock, records, execution>>

\* Mutant: the lock of the key may be held by another call.
acquireAnyLock(c) ==
    /\ \/ pc[c] = "awaitPrepare" /\ Goto(c, "prepare")
       \/ pc[c] = "awaitSettle" /\ Goto(c, "settle")
    /\ lock' = [lock EXCEPT ![KeyOf(c)] = c]
    /\ UNCHANGED <<input, span, records, execution>>

acquireLock(c) ==
    /\ \/ pc[c] = "awaitPrepare" /\ Goto(c, "prepare")
       \/ pc[c] = "awaitSettle" /\ Goto(c, "settle")
    /\ lock[KeyOf(c)] = None
    /\ lock' = [lock EXCEPT ![KeyOf(c)] = c]
    /\ UNCHANGED <<input, span, records, execution>>

\* The context ends while the call waits for a lock before its tool has run.
CancelWait(c) ==
    /\ pc[c] \in {"awaitSpan", "awaitPrepare"}
    /\ Return(c, "error")
    /\ UNCHANGED <<input, records, execution>>

-----------------------------------------------------------------------------
(* PrepareDispatch, under the lock of the key. *)

Conflict(c) ==
    /\ pc[c] = "prepare"
    /\ Existing(c) # NoRecord /\ Existing(c).digest # request[c]
    /\ Return(c, "conflict")
    /\ UNCHANGED <<input, records, execution>>

Recorded(c, status) ==
    /\ pc[c] = "prepare"
    /\ Existing(c) # NoRecord /\ Existing(c).digest = request[c]
    /\ Existing(c).status = status

\* Mutant: the record is found settled, and the tool runs again.
RunSettledAgain(c) ==
    /\ Recorded(c, "settled")
    /\ Goto(c, "ready") /\ Unlock(c)
    /\ UNCHANGED <<input, records, execution>>

AlreadySettled(c) ==
    /\ Recorded(c, "settled")
    /\ Goto(c, "replay") /\ Unlock(c)
    /\ UNCHANGED <<input, records, execution>>

AlreadyIndeterminate(c) ==
    /\ Recorded(c, "indeterminate")
    /\ Return(c, "indeterminate")
    /\ UNCHANGED <<input, records, execution>>

\* The intent of an earlier call that was never settled: first the key record ...
Interrupted(c) ==
    /\ Recorded(c, "prepared")
    /\ keyRec' = [keyRec EXCEPT ![KeyOf(c)].status = "indeterminate"]
    /\ Goto(c, "mark")
    /\ UNCHANGED <<input, locks, occRec, execution>>

\* ... then the record of its occurrence.
MarkOccurrence(c) ==
    /\ pc[c] = "mark"
    /\ occRec' = [occRec EXCEPT ![Existing(c).occurrence] = Existing(c)]
    /\ Return(c, "indeterminate")
    /\ UNCHANGED <<input, keyRec, execution>>

\* Mutant: an indeterminate record is overwritten by a new intent.
NewAfterIndeterminate(c) ==
    /\ pc[c] = "prepare"
    /\ Existing(c) = NoRecord \/ Existing(c).status = "indeterminate"
    /\ keyRec' = [keyRec EXCEPT ![KeyOf(c)] = Intent(c, "prepared")]
    /\ Goto(c, "intent")
    /\ UNCHANGED <<input, locks, occRec, execution>>

NewDispatch(c) ==
    /\ pc[c] = "prepare" /\ Existing(c) = NoRecord
    /\ keyRec' = [keyRec EXCEPT ![KeyOf(c)] = Intent(c, "prepared")]
    /\ Goto(c, "intent")
    /\ UNCHANGED <<input, locks, occRec, execution>>

WriteIntent(c) ==
    /\ pc[c] = "intent"
    /\ occRec' = [occRec EXCEPT ![c] = Intent(c, "prepared")]
    /\ Goto(c, "ready") /\ Unlock(c)
    /\ UNCHANGED <<input, keyRec, execution>>

\* One of the two records of a new dispatch cannot be written.
PrepareFails(c) ==
    /\ pc[c] = "intent" \/ (pc[c] = "prepare" /\ Existing(c) = NoRecord)
    /\ Return(c, "error")
    /\ UNCHANGED <<input, records, execution>>

\* SettledOutcomeFor reads the occurrence; a result that is not there is left empty.
Replay(c) ==
    LET settled == occRec[Existing(c).occurrence] IN
    /\ pc[c] = "replay"
    /\ Return(c, IF settled.status = "settled" THEN settled.result ELSE "empty")
    /\ UNCHANGED <<input, records, execution>>

-----------------------------------------------------------------------------
(* The tool, and SettleDispatch. *)

Execute(c) ==
    /\ pc[c] = "ready"
    /\ ran' = ran \cup {c}
    /\ Goto(c, "running")
    /\ UNCHANGED <<input, locks, records, result>>

ToolReturns(c, r) ==
    /\ pc[c] = "running"
    /\ result' = [result EXCEPT ![c] = r]
    /\ Goto(c, "awaitSettle")
    /\ UNCHANGED <<input, locks, records, ran>>

Settled(c) == [Intent(c, "settled") EXCEPT !.result = result[c]]

\* Mutant: the key record is written before the record of the occurrence.
SettleKeyFirst(c) ==
    /\ pc[c] = "settle"
    /\ keyRec' = [keyRec EXCEPT ![KeyOf(c)] = Settled(c)]
    /\ Goto(c, "settleKey")
    /\ UNCHANGED <<input, locks, occRec, execution>>

SettleOccurrence(c) ==
    /\ pc[c] = "settle"
    /\ occRec' = [occRec EXCEPT ![c] = Settled(c)]
    /\ Goto(c, "settleKey")
    /\ UNCHANGED <<input, locks, keyRec, execution>>

SettleKey(c) ==
    /\ pc[c] = "settleKey"
    /\ keyRec' = [keyRec EXCEPT ![KeyOf(c)] = Settled(c)]
    /\ Return(c, "completed")
    /\ UNCHANGED <<input, occRec, execution>>

\* Invoke ignores the error of SettleDispatch: a lock or a write that failed.
SettleFails(c) ==
    /\ pc[c] \in {"awaitSettle", "settle", "settleKey"}
    /\ Return(c, "completed")
    /\ UNCHANGED <<input, records, execution>>

Crash(c) ==
    /\ pc[c] \notin {"idle", "done", "dead"}
    /\ pc' = [pc EXCEPT ![c] = "dead"]
    /\ span' = [k \in AllKeys |-> IF span[k] = c THEN None ELSE span[k]]
    /\ lock' = [k \in AllKeys |-> IF lock[k] = c THEN None ELSE lock[k]]
    /\ UNCHANGED <<input, records, execution, outcome>>

-----------------------------------------------------------------------------

Init ==
    /\ given = [c \in Call |-> None] /\ request = [c \in Call |-> None]
    /\ pc = [c \in Call |-> "idle"]
    /\ span = [k \in AllKeys |-> None] /\ lock = [k \in AllKeys |-> None]
    /\ keyRec = [k \in AllKeys |-> NoRecord] /\ occRec = [c \in Call |-> NoRecord]
    /\ ran = {} /\ result = [c \in Call |-> None]
    /\ outcome = [c \in Call |-> None]

Prepare(c) ==
    \/ Conflict(c) \/ AlreadySettled(c) \/ AlreadyIndeterminate(c)
    \/ Interrupted(c) \/ MarkOccurrence(c)
    \/ NewDispatch(c) \/ WriteIntent(c) \/ Replay(c)

Settle(c) == SettleOccurrence(c) \/ SettleKey(c)

Progress(c) ==
    \/ LockKey(c) \/ acquireLock(c)
    \/ Prepare(c) \/ Execute(c) \/ (\E r \in Result : ToolReturns(c, r)) \/ Settle(c)

Next ==
    \E c \in Call :
        \/ \E k \in Key \cup {None}, r \in Request : Start(c, k, r)
        \/ Progress(c)
        \/ CancelWait(c) \/ PrepareFails(c) \/ SettleFails(c) \/ Crash(c)

Spec == Init /\ [][Next]_vars

\* The steps of a call are taken by its own thread, and a lock is asked for again every
\* ten milliseconds; a tool call returns, at the latest when its context ends.
FairSpec == Spec /\ \A c \in Call : WF_vars(Progress(c))

-----------------------------------------------------------------------------
(* Properties. *)

TypeOK ==
    /\ given \in [Call -> Key \cup {None}] /\ request \in [Call -> Request \cup {None}]
    /\ pc \in [Call -> Points]
    /\ span \in [AllKeys -> Call \cup {None}] /\ lock \in [AllKeys -> Call \cup {None}]
    /\ keyRec \in [AllKeys -> Record \cup {NoRecord}]
    /\ occRec \in [Call -> Record \cup {NoRecord}]
    /\ ran \subseteq Call /\ result \in [Call -> Result \cup {None}]
    /\ outcome \in [Call -> Outcome \cup {None}]

\* Of all the calls that share a key, supplied or derived, one at most starts its tool,
\* whatever crashes, write failures and retries there are.
AtMostOnce == \A c, d \in ran : KeyOf(c) = KeyOf(d) => c = d

\* A call that is answered from a record gets the result that the tool really gave to a
\* call with the same key and the same request, never an empty one.
ReplayFaithful ==
    \A c \in Call :
        /\ outcome[c] # "empty"
        /\ outcome[c] \in Result =>
              \E d \in ran : KeyOf(d) = KeyOf(c) /\ request[d] = request[c] /\ result[d] = outcome[c]

\* The strengthening that makes both inductive.  A call holds the lock of its key at
\* the points where it writes records; the key record names the call that may run its
\* tool; and a settled key record is never ahead of the record of its occurrence.
Holding == {"prepare", "mark", "intent", "settle", "settleKey"}
Owning == {"intent", "ready", "running", "awaitSettle", "settle", "settleKey"}
Unsettled == {"idle", "awaitSpan", "awaitPrepare", "prepare", "intent", "ready", "running"}

CallInv(c) ==
    /\ pc[c] # "idle" => request[c] \in Request
    /\ pc[c] # "done" => outcome[c] = None
    /\ pc[c] \in Holding => lock[KeyOf(c)] = c
    /\ pc[c] \in Owning \/ c \in ran => pc[c] # "idle" /\ Existing(c).occurrence = c
    /\ pc[c] \in {"running", "awaitSettle", "settle", "settleKey"} => c \in ran
    /\ pc[c] \in Unsettled => result[c] = None /\ occRec[c].status # "settled"
    /\ pc[c] \in {"awaitSettle", "settle", "settleKey"} => result[c] \in Result
    /\ pc[c] = "intent" => Existing(c).status = "prepared"
    /\ pc[c] = "mark" => Existing(c).status = "indeterminate"
    /\ pc[c] = "replay" => Existing(c).status = "settled" /\ Existing(c).digest = request[c]
    /\ pc[c] = "settleKey" => occRec[c].status = "settled"
    /\ occRec[c].status = "settled" =>
          c \in ran /\ result[c] \in Result /\ occRec[c].result = result[c]

KeyInv(k) ==
    /\ keyRec[k].status # "none" =>
          LET c == keyRec[k].occurrence IN
          c \in Call /\ pc[c] # "idle" /\ KeyOf(c) = k /\ request[c] = keyRec[k].digest
    /\ keyRec[k].status = "settled" => occRec[keyRec[k].occurrence].status = "settled"

DispatchIInv ==
    /\ TypeOK
    /\ \A c \in Call : CallInv(c)
    /\ \A k \in AllKeys : KeyInv(k)
    /\ ReplayFaithful

Over(c) == pc[c] \in {"dead", "done"}

\* The step declares the dispatch under a key interrupted.
DeclaresInterrupted(k) ==
    keyRec[k].status = "prepared" /\ keyRec'[k].status = "indeterminate"

\* Under a key that the caller supplied, Interrupted finds only the intents of calls
\* that are over: the span lock keeps it from a call that is still at work.
InterruptedOnly ==
    [][\A k \in Key : DeclaresInterrupted(k) => Over(keyRec[k].occurrence)]_vars

\* The same of every key, the ones that PrepareDispatch derives from a request included.
InterruptedAlways ==
    [][\A k \in AllKeys : DeclaresInterrupted(k) => Over(keyRec[k].occurrence)]_vars

\* What a supplied key was decided to be, settled or indeterminate, it remains.
DecisionStable ==
    [][\A k \in Key :
          keyRec[k].status \in {"settled", "indeterminate"} => keyRec'[k] = keyRec[k]]_vars

\* Every call ends: no call waits for ever for a lock that another one keeps.
CallsEnd == \A c \in Call : pc[c] # "idle" ~> Over(c)

=============================================================================
