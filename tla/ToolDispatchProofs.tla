------------------------- MODULE ToolDispatchProofs -------------------------
(***************************************************************************)
(* Proofs about ToolDispatch: for any number of calls, keys and requests a *)
(* tool runs once per key at most, and a replayed answer is a real one.    *)
(* One lemma per step keeps DispatchIInv: the initial state and the        *)
(* preparation first, then execution and settlement.                       *)
(***************************************************************************)
EXTENDS ToolDispatch, TLAPS

\* Before any call there is no record.
LEMMA DispatchInit == Init => DispatchIInv
<1> SUFFICES ASSUME Init PROVE DispatchIInv
    BY Zenon
<1>1. TypeOK
    BY Zenon DEF Init, TypeOK, Points
<1>2. \A c \in Call : CallInv(c)
    BY Zenon DEF Init, CallInv, NoRecord, Holding, Owning, Unsettled
<1>3. \A k \in AllKeys : KeyInv(k)
    BY Zenon DEF Init, KeyInv, NoRecord
<1>4. ReplayFaithful
    BY NoneIsNoKey, Zenon DEF Init, ReplayFaithful, Result, Outcome
<1> QED
    BY <1>1, <1>2, <1>3, <1>4, Zenon DEF DispatchIInv

\* The fields of an intent.
LEMMA IntentFields ==
    ASSUME NEW c \in Call, request[c] \in Request, NEW s \in Status
    PROVE  /\ Intent(c, s) \in Record /\ Intent(c, s).status = s
           /\ Intent(c, s).occurrence = c /\ Intent(c, s).digest = request[c]
    BY Zenon DEF Intent, Record

\* The fields of a settled record.
LEMMA SettledFields ==
    ASSUME NEW c \in Call, request[c] \in Request, result[c] \in Result
    PROVE  /\ Settled(c) \in Record /\ Settled(c).status = "settled"
           /\ Settled(c).occurrence = c /\ Settled(c).digest = request[c]
           /\ Settled(c).result = result[c]
    BY Zenon DEF Settled, Intent, Record, Status

\* Taking the span changes no record.
LEMMA LockKeyInv == ASSUME DispatchIInv, NEW c \in Call, LockKey(c) PROVE DispatchIInv'
<1> USE DEF LockKey, Goto, Return, Unlock, input, locks, records, execution
<1>0. TypeOK /\ (\A d \in Call : CallInv(d)) /\ (\A k \in AllKeys : KeyInv(k)) /\ ReplayFaithful
    BY Zenon DEF DispatchIInv
<1>1. TypeOK'
    BY <1>0, Zenon DEF TypeOK, Points, Outcome
<1>2. \A d \in Call : CallInv(d)'
    BY <1>0 DEF TypeOK, CallInv, KeyOf, Existing, Holding, Owning, Unsettled, AllKeys
<1>3. \A k \in AllKeys : KeyInv(k)'
    BY <1>0, Zenon DEF TypeOK, KeyInv, KeyOf
<1>4. ReplayFaithful'
    BY <1>0, NoneIsNoKey, Zenon DEF TypeOK, ReplayFaithful, KeyOf, Result
<1> QED
    BY <1>1, <1>2, <1>3, <1>4, Zenon DEF DispatchIInv

\* The lock of a key is taken by one call at a time.
LEMMA AcquireInv == ASSUME DispatchIInv, NEW c \in Call, acquireLock(c) PROVE DispatchIInv'
<1> USE DEF acquireLock, Goto, Return, Unlock, input, locks, records, execution
<1>0. TypeOK /\ (\A d \in Call : CallInv(d)) /\ (\A k \in AllKeys : KeyInv(k)) /\ ReplayFaithful
    BY Zenon DEF DispatchIInv
<1>k. KeyOf(c) \in AllKeys /\ lock[KeyOf(c)] = None
    BY <1>0 DEF TypeOK, CallInv, KeyOf, AllKeys
<1>1. TypeOK'
    BY <1>0, Zenon DEF TypeOK, Points
<1>2. \A d \in Call : CallInv(d)'
  <2> TAKE d \in Call
  <2>1. CASE d = c
    BY <1>0, <1>k, <2>1 DEF TypeOK, CallInv, KeyOf, Existing, Holding, Owning, Unsettled
  <2>2. CASE d # c
    <3>1. pc[d] \in Holding => KeyOf(d) # KeyOf(c)
      BY <1>0, <1>k, NoneIsNoKey DEF CallInv
    <3> QED
      BY <1>0, <1>k, <2>2, <3>1 DEF TypeOK, CallInv, KeyOf, Existing
  <2> QED
    BY <2>1, <2>2, Zenon
<1>3. \A k \in AllKeys : KeyInv(k)'
    BY <1>0 DEF TypeOK, KeyInv, KeyOf
<1>4. ReplayFaithful'
    BY <1>0, NoneIsNoKey DEF TypeOK, ReplayFaithful, KeyOf, Result
<1> QED
    BY <1>1, <1>2, <1>3, <1>4, Zenon DEF DispatchIInv

\* A call that gives up waiting has written nothing.
LEMMA CancelInv == ASSUME DispatchIInv, NEW c \in Call, CancelWait(c) PROVE DispatchIInv'
<1> USE DEF CancelWait, Goto, Return, Unlock, input, locks, records, execution
<1>0. TypeOK /\ (\A d \in Call : CallInv(d)) /\ (\A k \in AllKeys : KeyInv(k)) /\ ReplayFaithful
    BY Zenon DEF DispatchIInv
<1>1. TypeOK'
    BY <1>0, Zenon DEF TypeOK, Points, Outcome
<1>2. \A d \in Call : CallInv(d)'
    BY <1>0 DEF TypeOK, CallInv, KeyOf, Existing, Holding, Owning, Unsettled, AllKeys
<1>3. \A k \in AllKeys : KeyInv(k)'
    BY <1>0, Zenon DEF TypeOK, KeyInv, KeyOf
<1>4. ReplayFaithful'
    BY <1>0, NoneIsNoKey, Zenon DEF TypeOK, ReplayFaithful, KeyOf, Result
<1> QED
    BY <1>1, <1>2, <1>3, <1>4, Zenon DEF DispatchIInv

\* A conflicting call writes nothing.
LEMMA ConflictInv == ASSUME DispatchIInv, NEW c \in Call, Conflict(c) PROVE DispatchIInv'
<1> USE DEF Conflict, Goto, Return, Unlock, input, locks, records, execution
<1>0. TypeOK /\ (\A d \in Call : CallInv(d)) /\ (\A k \in AllKeys : KeyInv(k)) /\ ReplayFaithful
    BY Zenon DEF DispatchIInv
<1>1. TypeOK'
    BY <1>0, Zenon DEF TypeOK, Points, Outcome
<1>2. \A d \in Call : CallInv(d)'
    BY <1>0 DEF TypeOK, CallInv, KeyOf, Existing, Holding, Owning, Unsettled, AllKeys
<1>3. \A k \in AllKeys : KeyInv(k)'
    BY <1>0, Zenon DEF TypeOK, KeyInv, KeyOf
<1>4. ReplayFaithful'
    BY <1>0, NoneIsNoKey DEF TypeOK, ReplayFaithful, KeyOf, Result
<1> QED
    BY <1>1, <1>2, <1>3, <1>4, Zenon DEF DispatchIInv

\* A settled record sends the call to the replay.
LEMMA AlreadySettledInv == ASSUME DispatchIInv, NEW c \in Call, AlreadySettled(c) PROVE DispatchIInv'
<1> USE DEF AlreadySettled, Goto, Return, Unlock, input, locks, records, execution
<1>0. TypeOK /\ (\A d \in Call : CallInv(d)) /\ (\A k \in AllKeys : KeyInv(k)) /\ ReplayFaithful
    BY Zenon DEF DispatchIInv
<1>k. KeyOf(c) \in AllKeys /\ lock[KeyOf(c)] = c
      /\ Existing(c).status = "settled" /\ Existing(c).digest = request[c]
    BY <1>0 DEF TypeOK, CallInv, KeyOf, AllKeys, Recorded, Holding
<1>p. pc[c] = "prepare"
    BY Zenon DEF Recorded
<1>1. TypeOK'
    BY <1>0, Zenon DEF TypeOK, Points
<1>2. \A d \in Call : CallInv(d)'
  <2> TAKE d \in Call
  <2>1. CASE d = c
    BY <1>0, <1>k, <1>p, <2>1 DEF TypeOK, CallInv, KeyOf, Existing, Holding, Owning, Unsettled
  <2>2. CASE d # c
    <3>1. pc[d] \in Holding => KeyOf(d) # KeyOf(c)
      BY <1>0, <1>k, <2>2, Zenon DEF CallInv
    <3> QED
      BY <1>0, <1>k, <2>2, <3>1 DEF TypeOK, CallInv, KeyOf, Existing
  <2> QED
    BY <2>1, <2>2, Zenon
<1>3. \A k \in AllKeys : KeyInv(k)'
    BY <1>0, Zenon DEF TypeOK, KeyInv, KeyOf
<1>4. ReplayFaithful'
    BY <1>0, NoneIsNoKey, Zenon DEF TypeOK, ReplayFaithful, KeyOf, Result
<1> QED
    BY <1>1, <1>2, <1>3, <1>4, Zenon DEF DispatchIInv

\* An indeterminate record ends the call.
LEMMA AlreadyIndeterminateInv == ASSUME DispatchIInv, NEW c \in Call, AlreadyIndeterminate(c) PROVE DispatchIInv'
<1> USE DEF AlreadyIndeterminate, Goto, Return, Unlock, input, locks, records, execution
<1>0. TypeOK /\ (\A d \in Call : CallInv(d)) /\ (\A k \in AllKeys : KeyInv(k)) /\ ReplayFaithful
    BY Zenon DEF DispatchIInv
<1>p. pc[c] = "prepare"
    BY Zenon DEF Recorded
<1>1. TypeOK'
    BY <1>0, Zenon DEF TypeOK, Points, Outcome
<1>2. \A d \in Call : CallInv(d)'
    BY <1>0, <1>p DEF TypeOK, CallInv, KeyOf, Existing, Holding, Owning, Unsettled, AllKeys
<1>3. \A k \in AllKeys : KeyInv(k)'
    BY <1>0, Zenon DEF TypeOK, KeyInv, KeyOf
<1>4. ReplayFaithful'
    BY <1>0, NoneIsNoKey, Zenon DEF TypeOK, ReplayFaithful, KeyOf, Result
<1> QED
    BY <1>1, <1>2, <1>3, <1>4, Zenon DEF DispatchIInv

\* The key record of an interrupted dispatch keeps its occurrence.
LEMMA InterruptedInv == ASSUME DispatchIInv, NEW c \in Call, Interrupted(c) PROVE DispatchIInv'
<1> USE DEF Interrupted, Goto, Return, Unlock, input, locks, records, execution
<1>0. TypeOK /\ (\A d \in Call : CallInv(d)) /\ (\A k \in AllKeys : KeyInv(k)) /\ ReplayFaithful
    BY Zenon DEF DispatchIInv
<1> DEFINE marked == [keyRec[KeyOf(c)] EXCEPT !.status = "indeterminate"]
<1>k. KeyOf(c) \in AllKeys /\ lock[KeyOf(c)] = c /\ pc[c] = "prepare"
      /\ keyRec[KeyOf(c)].status = "prepared" /\ keyRec[KeyOf(c)] \in Record
    BY <1>0 DEF TypeOK, CallInv, KeyOf, AllKeys, Recorded, Holding, Existing
<1>m. /\ marked \in Record /\ marked.status = "indeterminate"
      /\ marked.occurrence = keyRec[KeyOf(c)].occurrence /\ marked.digest = keyRec[KeyOf(c)].digest
    BY <1>k, Zenon DEF Record, Status
<1>u. keyRec' = [keyRec EXCEPT ![KeyOf(c)] = marked]
    BY Zenon
<1>v. keyRec'[KeyOf(c)] = marked /\ \A k \in AllKeys : k # KeyOf(c) => keyRec'[k] = keyRec[k]
    BY <1>0, <1>k, <1>u, Zenon DEF TypeOK
<1> HIDE DEF marked
<1>1. TypeOK'
    BY <1>0, <1>k, <1>m, <1>u, Zenon DEF TypeOK, Points
<1>2. \A d \in Call : CallInv(d)'
  <2> TAKE d \in Call
  <2>0. pc[d] # "idle" => KeyOf(d) \in AllKeys
    BY <1>0 DEF TypeOK, CallInv, KeyOf, AllKeys
  <2>1. CASE d = c
    BY <1>0, <1>k, <1>m, <1>v, <2>1 DEF TypeOK, CallInv, KeyOf, Existing, Holding, Owning, Unsettled
  <2>2. CASE d # c
    <3>1. pc[d] \in Holding => KeyOf(d) # KeyOf(c)
      BY <1>0, <1>k, <2>2, Zenon DEF CallInv
    <3>2. pc[d] = "replay" => KeyOf(d) # KeyOf(c)
      BY <1>0, <1>k, Zenon DEF CallInv, Existing
    <3>3. pc'[d] = pc[d] /\ KeyOf(d)' = KeyOf(d)
      BY <1>0, <2>2, Zenon DEF TypeOK, KeyOf
    <3>4. pc[d] # "idle" => Existing(d)'.occurrence = Existing(d).occurrence
      BY <1>m, <1>v, <2>0, <3>3, Zenon DEF Existing
    <3>5. pc[d] \in Holding \cup {"replay"} => Existing(d)' = Existing(d)
      BY <1>v, <2>0, <3>1, <3>2, <3>3, Zenon DEF Existing, Holding
    <3> QED
      BY <1>0, <3>3, <3>4, <3>5 DEF CallInv, Holding, Owning, Unsettled
  <2> QED
    BY <2>1, <2>2, Zenon
<1>3. \A k \in AllKeys : KeyInv(k)'
  <2> TAKE k \in AllKeys
  <2>1. CASE k = KeyOf(c)
    BY <1>0, <1>k, <1>m, <1>v, <2>1 DEF TypeOK, KeyInv, KeyOf
  <2>2. CASE k # KeyOf(c)
    BY <1>0, <1>k, <1>v, <2>2, Zenon DEF TypeOK, KeyInv, KeyOf
  <2> QED
    BY <2>1, <2>2, Zenon
<1>4. ReplayFaithful'
    BY <1>0, NoneIsNoKey, Zenon DEF TypeOK, ReplayFaithful, KeyOf, Result
<1> QED
    BY <1>1, <1>2, <1>3, <1>4, Zenon DEF DispatchIInv

\* Only an occurrence whose key record is indeterminate is marked.
LEMMA MarkInv == ASSUME DispatchIInv, NEW c \in Call, MarkOccurrence(c) PROVE DispatchIInv'
<1> USE DEF MarkOccurrence, Goto, Return, Unlock, input, locks, records, execution
<1>0. TypeOK /\ (\A d \in Call : CallInv(d)) /\ (\A k \in AllKeys : KeyInv(k)) /\ ReplayFaithful
    BY Zenon DEF DispatchIInv
<1>k. KeyOf(c) \in AllKeys /\ lock[KeyOf(c)] = c /\ Existing(c).status = "indeterminate"
      /\ Existing(c) \in Record
    BY <1>0 DEF TypeOK, CallInv, KeyOf, AllKeys, Holding, Existing, NoRecord
<1>o. Existing(c).occurrence \in Call /\ KeyOf(Existing(c).occurrence) = KeyOf(c)
    BY <1>0, <1>k, Zenon DEF KeyInv, Existing
<1>v. /\ occRec'[Existing(c).occurrence].status = "indeterminate"
      /\ \A d \in Call : d # Existing(c).occurrence => occRec'[d] = occRec[d]
    BY <1>0, <1>k, <1>o, Zenon DEF TypeOK
<1>1. TypeOK'
    BY <1>0, <1>k, <1>o, Zenon DEF TypeOK, Points, Outcome
<1>2. \A d \in Call : CallInv(d)'
  <2> TAKE d \in Call
  <2>1. CASE d = c
    BY <1>0, <1>k, <1>v, <2>1 DEF TypeOK, CallInv, KeyOf, Existing, Holding, Owning, Unsettled
  <2>2. CASE d # c
    <3>1. pc[d] \in Holding => KeyOf(d) # KeyOf(c)
      BY <1>0, <1>k, <2>2, Zenon DEF CallInv
    <3>2. pc[d] = "settleKey" => d # Existing(c).occurrence
      BY <1>o, <3>1, Zenon DEF Holding
    <3>3. pc'[d] = pc[d] /\ KeyOf(d)' = KeyOf(d) /\ Existing(d)' = Existing(d)
          /\ outcome'[d] = outcome[d]
      BY <1>0, <2>2, Zenon DEF TypeOK, KeyOf, Existing
    <3>4. pc[d] \in Holding => lock'[KeyOf(d)'] = d
      BY <1>0, <2>2, <3>1, <3>3 DEF TypeOK, CallInv, KeyOf, AllKeys, Holding
    <3>5. occRec'[d].status = "settled" => occRec'[d] = occRec[d]
      BY <1>v, Zenon
    <3>6. pc[d] = "settleKey" => occRec'[d] = occRec[d]
      BY <1>v, <3>2, Zenon
    <3> QED
      BY <1>0, <3>3, <3>4, <3>5, <3>6 DEF CallInv, Holding, Owning, Unsettled
  <2> QED
    BY <2>1, <2>2, Zenon
<1>3. \A k \in AllKeys : KeyInv(k)'
  <2> TAKE k \in AllKeys
  <2>1. CASE k = KeyOf(c)
    BY <1>0, <1>k, <2>1, Zenon DEF TypeOK, KeyInv, KeyOf, Existing
  <2>2. CASE k # KeyOf(c)
    <3>1. keyRec[k].status # "none" => keyRec[k].occurrence # Existing(c).occurrence
      BY <1>0, <1>o, <2>2, Zenon DEF KeyInv
    <3> QED
      BY <1>0, <1>v, <3>1, Zenon DEF TypeOK, KeyInv, KeyOf
  <2> QED
    BY <2>1, <2>2, Zenon
<1>4. ReplayFaithful'
    BY <1>0, NoneIsNoKey DEF TypeOK, ReplayFaithful, KeyOf, Result
<1> QED
    BY <1>1, <1>2, <1>3, <1>4, Zenon DEF DispatchIInv

\* A new intent takes a key that had no record.
LEMMA NewInv == ASSUME DispatchIInv, NEW c \in Call, NewDispatch(c) PROVE DispatchIInv'
<1> USE DEF NewDispatch, Goto, Return, Unlock, input, locks, records, execution
<1>0. TypeOK /\ (\A d \in Call : CallInv(d)) /\ (\A k \in AllKeys : KeyInv(k)) /\ ReplayFaithful
    BY Zenon DEF DispatchIInv
<1>k. KeyOf(c) \in AllKeys /\ lock[KeyOf(c)] = c /\ request[c] \in Request
      /\ keyRec[KeyOf(c)].status = "none" /\ keyRec[KeyOf(c)].occurrence = None
    BY <1>0 DEF TypeOK, CallInv, KeyOf, AllKeys, Holding, Existing, NoRecord
<1>m. /\ Intent(c, "prepared") \in Record /\ Intent(c, "prepared").status = "prepared"
      /\ Intent(c, "prepared").occurrence = c /\ Intent(c, "prepared").digest = request[c]
    BY <1>k, IntentFields, Zenon DEF Status
<1>v. /\ keyRec'[KeyOf(c)] = Intent(c, "prepared")
      /\ \A k \in AllKeys : k # KeyOf(c) => keyRec'[k] = keyRec[k]
    BY <1>0, <1>k, Zenon DEF TypeOK
<1>1. TypeOK'
    BY <1>0, <1>k, <1>m, Zenon DEF TypeOK, Points
<1>2. \A d \in Call : CallInv(d)'
  <2> TAKE d \in Call
  <2>0. pc[d] # "idle" => KeyOf(d) \in AllKeys
    BY <1>0 DEF TypeOK, CallInv, KeyOf, AllKeys
  <2>1. CASE d = c
    BY <1>0, <1>k, <1>m, <1>v, <2>1, Zenon DEF TypeOK, CallInv, KeyOf, Existing, Holding, Owning, Unsettled
  <2>2. CASE d # c
    <3>1. pc[d] \in Holding => KeyOf(d) # KeyOf(c)
      BY <1>0, <1>k, <2>2 DEF CallInv
    <3>2. pc[d] = "replay" \/ pc[d] \in Owning \/ d \in ran => KeyOf(d) # KeyOf(c) /\ pc[d] # "idle"
      BY <1>0, <1>k, NoneIsNoKey DEF CallInv, Existing
    <3>3. pc'[d] = pc[d] /\ KeyOf(d)' = KeyOf(d)
      BY <1>0, <2>2, Zenon DEF TypeOK, KeyOf
    <3>4. pc[d] \in Holding \cup Owning \cup {"replay"} \/ d \in ran => Existing(d)' = Existing(d)
      BY <1>v, <2>0, <3>1, <3>2, <3>3, Zenon DEF Existing, Holding
    <3> QED
      BY <1>0, <3>3, <3>4 DEF CallInv, Holding, Owning, Unsettled
  <2> QED
    BY <2>1, <2>2, Zenon
<1>3. \A k \in AllKeys : KeyInv(k)'
  <2> TAKE k \in AllKeys
  <2>1. CASE k = KeyOf(c)
    BY <1>0, <1>k, <1>m, <1>v, <2>1 DEF TypeOK, KeyInv, KeyOf
  <2>2. CASE k # KeyOf(c)
    BY <1>0, <1>k, <1>v, <2>2, Zenon DEF TypeOK, KeyInv, KeyOf
  <2> QED
    BY <2>1, <2>2, Zenon
<1>4. ReplayFaithful'
    BY <1>0, NoneIsNoKey, Zenon DEF TypeOK, ReplayFaithful, KeyOf, Result
<1> QED
    BY <1>1, <1>2, <1>3, <1>4, Zenon DEF DispatchIInv

-----------------------------------------------------------------------------
\* The intent of the occurrence follows the one of the key.
LEMMA IntentInv == ASSUME DispatchIInv, NEW c \in Call, WriteIntent(c) PROVE DispatchIInv'
<1> USE DEF WriteIntent, Goto, Return, Unlock, input, locks, records, execution
<1>0. TypeOK /\ (\A d \in Call : CallInv(d)) /\ (\A k \in AllKeys : KeyInv(k)) /\ ReplayFaithful
    BY Zenon DEF DispatchIInv
<1>k. KeyOf(c) \in AllKeys /\ lock[KeyOf(c)] = c /\ request[c] \in Request
      /\ Existing(c).status = "prepared" /\ Existing(c).occurrence = c
    BY <1>0 DEF TypeOK, CallInv, KeyOf, AllKeys, Holding, Owning
<1>m. Intent(c, "prepared") \in Record /\ Intent(c, "prepared").status = "prepared"
    BY <1>k, IntentFields, Zenon DEF Status
<1>v. occRec'[c].status = "prepared" /\ \A d \in Call : d # c => occRec'[d] = occRec[d]
    BY <1>0, <1>m, Zenon DEF TypeOK
<1>1. TypeOK'
    BY <1>0, <1>k, <1>m, Zenon DEF TypeOK, Points
<1>2. \A d \in Call : CallInv(d)'
  <2> TAKE d \in Call
  <2>1. CASE d = c
    BY <1>0, <1>k, <1>v, <2>1, Zenon DEF TypeOK, CallInv, KeyOf, Existing, Holding, Owning, Unsettled
  <2>2. CASE d # c
    <3>1. pc[d] \in Holding => KeyOf(d) # KeyOf(c)
      BY <1>0, <1>k, <2>2, Zenon DEF CallInv
    <3> QED
      BY <1>0, <1>k, <1>v, <2>2, <3>1 DEF TypeOK, CallInv, KeyOf, Existing
  <2> QED
    BY <2>1, <2>2, Zenon
<1>3. \A k \in AllKeys : KeyInv(k)'
  <2> TAKE k \in AllKeys
  <2>1. keyRec[k].status = "settled" => keyRec[k].occurrence # c
    BY <1>0, <1>k, Zenon DEF KeyInv, Existing
  <2> QED
    BY <1>0, <1>v, <2>1, Zenon DEF TypeOK, KeyInv, KeyOf
<1>4. ReplayFaithful'
    BY <1>0, NoneIsNoKey, Zenon DEF TypeOK, ReplayFaithful, KeyOf, Result
<1> QED
    BY <1>1, <1>2, <1>3, <1>4, Zenon DEF DispatchIInv

\* A preparation that fails does not run the tool.
LEMMA PrepareFailsInv == ASSUME DispatchIInv, NEW c \in Call, PrepareFails(c) PROVE DispatchIInv'
<1> USE DEF PrepareFails, Goto, Return, Unlock, input, locks, records, execution
<1>0. TypeOK /\ (\A d \in Call : CallInv(d)) /\ (\A k \in AllKeys : KeyInv(k)) /\ ReplayFaithful
    BY Zenon DEF DispatchIInv
<1>1. TypeOK'
    BY <1>0, Zenon DEF TypeOK, Points, Outcome
<1>2. \A d \in Call : CallInv(d)'
    BY <1>0 DEF TypeOK, CallInv, KeyOf, Existing, Holding, Owning, Unsettled, AllKeys
<1>3. \A k \in AllKeys : KeyInv(k)'
    BY <1>0, Zenon DEF TypeOK, KeyInv, KeyOf
<1>4. ReplayFaithful'
    BY <1>0, NoneIsNoKey, Zenon DEF TypeOK, ReplayFaithful, KeyOf, Result
<1> QED
    BY <1>1, <1>2, <1>3, <1>4, Zenon DEF DispatchIInv

\* A replay reads a settled occurrence.
LEMMA ReplayInv == ASSUME DispatchIInv, NEW c \in Call, Replay(c) PROVE DispatchIInv'
<1> USE DEF Replay, Goto, Return, Unlock, input, locks, records, execution
<1>0. TypeOK /\ (\A d \in Call : CallInv(d)) /\ (\A k \in AllKeys : KeyInv(k)) /\ ReplayFaithful
    BY Zenon DEF DispatchIInv
<1> DEFINE o == Existing(c).occurrence
<1>k. /\ KeyOf(c) \in AllKeys /\ o \in Call /\ KeyOf(o) = KeyOf(c) /\ request[o] = request[c]
      /\ occRec[o].status = "settled"
    BY <1>0 DEF TypeOK, CallInv, KeyInv, KeyOf, AllKeys, Existing
<1>r. o \in ran /\ occRec[o].result = result[o] /\ result[o] \in Result
    BY <1>0, <1>k, Zenon DEF CallInv
<1>v. outcome' = [outcome EXCEPT ![c] = result[o]]
    BY <1>k, <1>r, Zenon
<1> HIDE DEF o
<1>1. TypeOK'
    BY <1>0, <1>r, <1>v, Zenon DEF TypeOK, Points, Outcome
<1>2. \A d \in Call : CallInv(d)'
    BY <1>0 DEF TypeOK, CallInv, KeyOf, Existing, Holding, Owning, Unsettled, AllKeys
<1>3. \A k \in AllKeys : KeyInv(k)'
    BY <1>0, Zenon DEF TypeOK, KeyInv, KeyOf
<1>4. ReplayFaithful'
  <2> USE DEF ReplayFaithful
  <2>1. \A d \in Call : KeyOf(d)' = KeyOf(d)
    BY Zenon DEF KeyOf
  <2>2. outcome'[c] = result[o] /\ \A d \in Call : d # c => outcome'[d] = outcome[d]
    BY <1>0, <1>v DEF TypeOK
  <2>3. "empty" \notin Result
    BY Zenon DEF Result
  <2> TAKE d \in Call
  <2>4. CASE d = c
    BY <1>k, <1>r, <2>1, <2>2, <2>3, <2>4
  <2>5. CASE d # c
    BY <1>0, <2>1, <2>2, <2>5 DEF TypeOK
  <2> QED
    BY <2>4, <2>5, Zenon
<1> QED
    BY <1>1, <1>2, <1>3, <1>4, Zenon DEF DispatchIInv

\* Only the owner of a key record runs its tool.
LEMMA ExecuteInv == ASSUME DispatchIInv, NEW c \in Call, Execute(c) PROVE DispatchIInv'
<1> USE DEF Execute, Goto, Return, Unlock, input, locks, records, execution
<1>0. TypeOK /\ (\A d \in Call : CallInv(d)) /\ (\A k \in AllKeys : KeyInv(k)) /\ ReplayFaithful
    BY Zenon DEF DispatchIInv
<1>1. TypeOK'
    BY <1>0, Zenon DEF TypeOK, Points, Outcome
<1>2. \A d \in Call : CallInv(d)'
    BY <1>0 DEF TypeOK, CallInv, KeyOf, Existing, Holding, Owning, Unsettled, AllKeys
<1>3. \A k \in AllKeys : KeyInv(k)'
    BY <1>0, Zenon DEF TypeOK, KeyInv, KeyOf
<1>4. ReplayFaithful'
    BY <1>0, NoneIsNoKey, Zenon DEF TypeOK, ReplayFaithful, KeyOf, Result
<1> QED
    BY <1>1, <1>2, <1>3, <1>4, Zenon DEF DispatchIInv

\* The occurrence is settled before its key.
LEMMA SettleOccurrenceInv == ASSUME DispatchIInv, NEW c \in Call, SettleOccurrence(c) PROVE DispatchIInv'
<1> USE DEF SettleOccurrence, Goto, Return, Unlock, input, locks, records, execution
<1>0. TypeOK /\ (\A d \in Call : CallInv(d)) /\ (\A k \in AllKeys : KeyInv(k)) /\ ReplayFaithful
    BY Zenon DEF DispatchIInv
<1>k. KeyOf(c) \in AllKeys /\ lock[KeyOf(c)] = c /\ request[c] \in Request
      /\ result[c] \in Result /\ c \in ran
    BY <1>0 DEF TypeOK, CallInv, KeyOf, AllKeys, Holding
<1>m. Settled(c) \in Record /\ Settled(c).status = "settled" /\ Settled(c).result = result[c]
    BY <1>k, SettledFields, Zenon
<1>v. occRec'[c] = Settled(c) /\ \A d \in Call : d # c => occRec'[d] = occRec[d]
    BY <1>0, Zenon DEF TypeOK
<1>1. TypeOK'
    BY <1>0, <1>k, <1>m, Zenon DEF TypeOK, Points
<1>2. \A d \in Call : CallInv(d)'
  <2> TAKE d \in Call
  <2>1. CASE d = c
    BY <1>0, <1>k, <1>m, <1>v, <2>1 DEF TypeOK, CallInv, KeyOf, Existing, Holding, Owning, Unsettled
  <2>2. CASE d # c
    BY <1>0, <1>k, <1>v, <2>2 DEF TypeOK, CallInv, KeyOf, Existing
  <2> QED
    BY <2>1, <2>2, Zenon
<1>3. \A k \in AllKeys : KeyInv(k)'
    BY <1>0, <1>m, <1>v, Zenon DEF TypeOK, KeyInv, KeyOf
<1>4. ReplayFaithful'
    BY <1>0, NoneIsNoKey, Zenon DEF TypeOK, ReplayFaithful, KeyOf, Result
<1> QED
    BY <1>1, <1>2, <1>3, <1>4, Zenon DEF DispatchIInv

\* The key record is settled after its occurrence.
LEMMA SettleKeyInv == ASSUME DispatchIInv, NEW c \in Call, SettleKey(c) PROVE DispatchIInv'
<1> USE DEF SettleKey, Goto, Return, Unlock, input, locks, records, execution
<1>0. TypeOK /\ (\A d \in Call : CallInv(d)) /\ (\A k \in AllKeys : KeyInv(k)) /\ ReplayFaithful
    BY Zenon DEF DispatchIInv
<1>k. KeyOf(c) \in AllKeys /\ lock[KeyOf(c)] = c /\ request[c] \in Request
      /\ result[c] \in Result /\ c \in ran /\ occRec[c].status = "settled"
      /\ Existing(c).occurrence = c /\ pc[c] = "settleKey"
    BY <1>0 DEF TypeOK, CallInv, KeyOf, AllKeys, Holding, Owning
<1>m. /\ Settled(c) \in Record /\ Settled(c).status = "settled" /\ Settled(c).occurrence = c
      /\ Settled(c).digest = request[c]
    BY <1>k, SettledFields, Zenon
<1>v. keyRec'[KeyOf(c)] = Settled(c) /\ \A k \in AllKeys : k # KeyOf(c) => keyRec'[k] = keyRec[k]
    BY <1>0, <1>k, Zenon DEF TypeOK
<1>1. TypeOK'
    BY <1>0, <1>k, <1>m, Zenon DEF TypeOK, Points, Outcome
<1>2. \A d \in Call : CallInv(d)'
  <2> TAKE d \in Call
  <2>0. pc[d] # "idle" => KeyOf(d) \in AllKeys
    BY <1>0 DEF TypeOK, CallInv, KeyOf, AllKeys
  <2>1. CASE d = c
    BY <1>0, <1>k, <1>m, <1>v, <2>1 DEF TypeOK, CallInv, KeyOf, Existing, Holding, Owning, Unsettled
  <2>2. CASE d # c
    <3>1. pc[d] \in Holding => KeyOf(d) # KeyOf(c)
      BY <1>0, <1>k, <2>2, Zenon DEF CallInv
    <3>2. pc'[d] = pc[d] /\ KeyOf(d)' = KeyOf(d) /\ outcome'[d] = outcome[d]
      BY <1>0, <2>2, Zenon DEF TypeOK, KeyOf
    <3>3. pc[d] # "idle" => Existing(d)'.occurrence = Existing(d).occurrence
      BY <1>k, <1>m, <1>v, <2>0, <3>2, Zenon DEF Existing
    <3>4. pc[d] \in Holding => Existing(d)' = Existing(d)
      BY <1>v, <2>0, <3>1, <3>2, Zenon DEF Existing, Holding
    <3>5. pc[d] = "replay" => Existing(d)'.status = "settled" /\ Existing(d)'.digest = request[d]
      <4>1. CASE KeyOf(d) = KeyOf(c) /\ pc[d] = "replay"
        BY <1>0, <1>k, <1>m, <1>v, <3>2, <4>1 DEF CallInv, KeyInv, Existing
      <4>2. CASE KeyOf(d) # KeyOf(c) /\ pc[d] = "replay"
        BY <1>0, <1>v, <2>0, <3>2, <4>2 DEF CallInv, Existing
      <4> QED
        BY <4>1, <4>2, Zenon
    <3>6. pc[d] \in Holding => lock'[KeyOf(d)'] = d
      BY <1>0, <2>0, <2>2, <3>1, <3>2 DEF CallInv, Holding
    <3> QED
      BY <1>0, <3>2, <3>3, <3>4, <3>5, <3>6 DEF CallInv, Holding, Owning, Unsettled
  <2> QED
    BY <2>1, <2>2, Zenon
<1>3. \A k \in AllKeys : KeyInv(k)'
  <2> TAKE k \in AllKeys
  <2>1. CASE k = KeyOf(c)
    BY <1>0, <1>k, <1>m, <1>v, <2>1 DEF TypeOK, KeyInv, KeyOf
  <2>2. CASE k # KeyOf(c)
    BY <1>0, <1>k, <1>v, <2>2, Zenon DEF TypeOK, KeyInv, KeyOf
  <2> QED
    BY <2>1, <2>2, Zenon
<1>4. ReplayFaithful'
    BY <1>0, NoneIsNoKey DEF TypeOK, ReplayFaithful, KeyOf, Result
<1> QED
    BY <1>1, <1>2, <1>3, <1>4, Zenon DEF DispatchIInv

\* A settlement that fails leaves the records as they are.
LEMMA SettleFailsInv == ASSUME DispatchIInv, NEW c \in Call, SettleFails(c) PROVE DispatchIInv'
<1> USE DEF SettleFails, Goto, Return, Unlock, input, locks, records, execution
<1>0. TypeOK /\ (\A d \in Call : CallInv(d)) /\ (\A k \in AllKeys : KeyInv(k)) /\ ReplayFaithful
    BY Zenon DEF DispatchIInv
<1>1. TypeOK'
    BY <1>0, Zenon DEF TypeOK, Points, Outcome
<1>2. \A d \in Call : CallInv(d)'
    BY <1>0 DEF TypeOK, CallInv, KeyOf, Existing, Holding, Owning, Unsettled, AllKeys
<1>3. \A k \in AllKeys : KeyInv(k)'
    BY <1>0, Zenon DEF TypeOK, KeyInv, KeyOf
<1>4. ReplayFaithful'
    BY <1>0, NoneIsNoKey, Zenon DEF TypeOK, ReplayFaithful, KeyOf, Result
<1> QED
    BY <1>1, <1>2, <1>3, <1>4, Zenon DEF DispatchIInv

\* A crash frees the locks of the call and changes no record.
LEMMA CrashInv == ASSUME DispatchIInv, NEW c \in Call, Crash(c) PROVE DispatchIInv'
<1> USE DEF Crash, Goto, Return, Unlock, input, locks, records, execution
<1>0. TypeOK /\ (\A d \in Call : CallInv(d)) /\ (\A k \in AllKeys : KeyInv(k)) /\ ReplayFaithful
    BY Zenon DEF DispatchIInv
<1>1. TypeOK'
    BY <1>0, Zenon DEF TypeOK, Points, Outcome
<1>2. \A d \in Call : CallInv(d)'
    BY <1>0 DEF TypeOK, CallInv, KeyOf, Existing, Holding, Owning, Unsettled, AllKeys
<1>3. \A k \in AllKeys : KeyInv(k)'
    BY <1>0, Zenon DEF TypeOK, KeyInv, KeyOf
<1>4. ReplayFaithful'
    BY <1>0, NoneIsNoKey, Zenon DEF TypeOK, ReplayFaithful, KeyOf, Result
<1> QED
    BY <1>1, <1>2, <1>3, <1>4, Zenon DEF DispatchIInv

\* A call that starts has no record and has not run.
LEMMA StartInv ==
    ASSUME DispatchIInv, NEW c \in Call, NEW k \in Key \cup {None}, NEW r \in Request, Start(c, k, r)
    PROVE  DispatchIInv'
<1>0. TypeOK /\ (\A d \in Call : CallInv(d)) /\ (\A q \in AllKeys : KeyInv(q)) /\ ReplayFaithful
    BY Zenon DEF DispatchIInv
<1>s. /\ pc[c] = "idle" /\ given' = [given EXCEPT ![c] = k] /\ request' = [request EXCEPT ![c] = r]
      /\ pc' = [pc EXCEPT ![c] = IF k # None THEN "awaitSpan" ELSE "awaitPrepare"]
    BY Zenon DEF Start, Goto
<1>u. /\ span' = span /\ lock' = lock /\ keyRec' = keyRec /\ occRec' = occRec
      /\ ran' = ran /\ result' = result /\ outcome' = outcome
    BY Zenon DEF Start, Goto, locks, records, execution
<1>k. /\ c \notin ran /\ result[c] = None /\ occRec[c].status # "settled" /\ outcome[c] = None
      /\ request'[c] = r /\ pc'[c] \in {"awaitSpan", "awaitPrepare"}
    BY <1>0, <1>s DEF TypeOK, CallInv, Unsettled
<1>o. \A d \in Call : d # c => pc'[d] = pc[d] /\ KeyOf(d)' = KeyOf(d) /\ request'[d] = request[d]
    BY <1>0, <1>s, Zenon DEF TypeOK, KeyOf
<1>1. TypeOK'
    BY <1>0, <1>s, <1>u, Zenon DEF TypeOK, Points
<1>2. \A d \in Call : CallInv(d)'
  <2>1. CallInv(c)'
    BY <1>k, <1>u, Zenon DEF CallInv, Holding, Owning
  <2>2. ASSUME NEW d \in Call, d # c PROVE CallInv(d)'
    <3>1. CallInv(d)
      BY <1>0, Zenon
    <3>2. pc'[d] = pc[d] /\ KeyOf(d)' = KeyOf(d) /\ request'[d] = request[d]
      BY <1>o, <2>2, Zenon
    <3> QED
      BY <1>u, <3>1, <3>2, Zenon DEF CallInv, Existing
  <2> QED
    BY <2>1, <2>2, Zenon
<1>3. \A q \in AllKeys : KeyInv(q)'
    BY <1>0, <1>s, <1>k, <1>o, <1>u DEF KeyInv
<1>4. ReplayFaithful'
  <2>1. outcome[c] \notin Result
    BY <1>k, NoneIsNoKey, Zenon DEF Result
  <2> QED
    BY <1>0, <1>k, <1>o, <1>u, <2>1 DEF TypeOK, ReplayFaithful
<1> QED
    BY <1>1, <1>2, <1>3, <1>4, Zenon DEF DispatchIInv

\* The result of a tool is set once, before anything is settled from it.
LEMMA ToolReturnsInv ==
    ASSUME DispatchIInv, NEW c \in Call, NEW r \in Result, ToolReturns(c, r)
    PROVE  DispatchIInv'
<1> USE DEF ToolReturns, Goto, input, locks, records
<1>0. TypeOK /\ (\A d \in Call : CallInv(d)) /\ (\A q \in AllKeys : KeyInv(q)) /\ ReplayFaithful
    BY Zenon DEF DispatchIInv
<1>k. pc[c] = "running" /\ result[c] = None /\ occRec[c].status # "settled"
    BY <1>0, Zenon DEF CallInv, Unsettled
<1>1. TypeOK'
    BY <1>0, Zenon DEF TypeOK, Points
<1>2. \A d \in Call : CallInv(d)'
    BY <1>0, <1>k DEF TypeOK, CallInv, KeyOf, Existing, Holding, Owning, Unsettled
<1>3. \A q \in AllKeys : KeyInv(q)'
    BY <1>0, Zenon DEF TypeOK, KeyInv, KeyOf
<1>4. ReplayFaithful'
  <2>1. \A d \in Call : d # c => result'[d] = result[d]
    BY <1>0, Zenon DEF TypeOK
  <2>2. None \notin Result
    BY NoneIsNoKey, Zenon DEF Result
  <2> QED
    BY <1>0, <1>k, <2>1, <2>2 DEF TypeOK, ReplayFaithful, KeyOf
<1> QED
    BY <1>1, <1>2, <1>3, <1>4, Zenon DEF DispatchIInv

\* Every step preserves the invariant.
LEMMA DispatchNext == DispatchIInv /\ [Next]_vars => DispatchIInv'
<1> SUFFICES ASSUME DispatchIInv, [Next]_vars PROVE DispatchIInv'
    BY Zenon
<1>1. CASE UNCHANGED vars
  <2> USE <1>1 DEF vars
  <2>1. TypeOK'
    BY Zenon DEF DispatchIInv, TypeOK
  <2>2. \A c \in Call : CallInv(c)'
    BY DEF DispatchIInv, CallInv, KeyOf, Existing
  <2>3. \A k \in AllKeys : KeyInv(k)'
    BY Zenon DEF DispatchIInv, KeyInv, KeyOf
  <2>4. ReplayFaithful'
    BY Zenon DEF DispatchIInv, ReplayFaithful, KeyOf
  <2> QED
    BY <2>1, <2>2, <2>3, <2>4, Zenon DEF DispatchIInv
<1>2. CASE Next
  <2> PICK c \in Call :
        \/ \E k \in Key \cup {None}, r \in Request : Start(c, k, r)
        \/ Progress(c)
        \/ CancelWait(c) \/ PrepareFails(c) \/ SettleFails(c) \/ Crash(c)
    BY <1>2, Zenon DEF Next
  <2>1. CASE \E k \in Key \cup {None}, r \in Request : Start(c, k, r)
    BY <2>1, StartInv, Zenon
  <2>2. CASE Prepare(c)
    BY <2>2, ConflictInv, AlreadySettledInv, AlreadyIndeterminateInv, InterruptedInv, MarkInv,
       NewInv, IntentInv, ReplayInv, Zenon DEF Prepare
  <2>3. CASE Settle(c)
    BY <2>3, SettleOccurrenceInv, SettleKeyInv, Zenon DEF Settle
  <2>4. CASE LockKey(c) \/ acquireLock(c) \/ Execute(c) \/ \E r \in Result : ToolReturns(c, r)
    BY <2>4, LockKeyInv, AcquireInv, ExecuteInv, ToolReturnsInv, Zenon
  <2>5. CASE CancelWait(c) \/ PrepareFails(c) \/ SettleFails(c) \/ Crash(c)
    BY <2>5, CancelInv, PrepareFailsInv, SettleFailsInv, CrashInv, Zenon
  <2> QED
    BY <2>1, <2>2, <2>3, <2>4, <2>5, Zenon DEF Progress
<1> QED
    BY <1>1, <1>2, Zenon

\* The invariant of Invoke, PrepareDispatch and SettleDispatch.
THEOREM DispatchInvariant == Spec => []DispatchIInv
    BY DispatchInit, DispatchNext, PTL DEF Spec

\* For any number of calls: one of the calls that share a key starts its tool, at most.
THEOREM ToolRunsAtMostOnce == Spec => []AtMostOnce
<1>1. DispatchIInv => AtMostOnce
    BY DEF DispatchIInv, TypeOK, CallInv, AtMostOnce, Existing
<1> QED
    BY <1>1, DispatchInvariant, PTL

\* For any number of calls: an answer from the record is what the tool gave for the same
\* key and the same request.
THEOREM ReplayAlwaysFaithful == Spec => []ReplayFaithful
<1>1. DispatchIInv => ReplayFaithful
    BY Zenon DEF DispatchIInv
<1> QED
    BY <1>1, DispatchInvariant, PTL
-----------------------------------------------------------------------------
(* The span lock of a supplied key. *)

\* A call that has not dispatched yet, and one that is between LockKey and its return.
Early == {"idle", "awaitSpan", "awaitPrepare", "prepare"}
Spanning(c) == given[c] # None /\ pc[c] \notin {"idle", "awaitSpan", "done", "dead"}

\* It holds the span of its key, whose record nobody else decides while it is at work,
SpanInv(c) ==
    Spanning(c) => span[given[c]] = c /\ (pc[c] \in Owning => Existing(c).status = "prepared")

\* and a record names a call that has dispatched.
NamedInv(k) == keyRec[k].status # "none" => pc[keyRec[k].occurrence] \notin Early

SpanIInv == DispatchIInv /\ (\A c \in Call : SpanInv(c)) /\ (\A k \in AllKeys : NamedInv(k))

\* A supplied key is no derived one.
LEMMA SuppliedKey ==
    ASSUME DispatchIInv, NEW c \in Call, pc[c] # "idle"
    PROVE  /\ given[c] # None => KeyOf(c) = given[c] /\ given[c] \in Key /\ KeyOf(c) \in AllKeys
           /\ KeyOf(c) \in Key => given[c] = KeyOf(c) /\ given[c] # None
<1>1. given[c] \in Key \cup {None} /\ request[c] \in Request
    BY Zenon DEF DispatchIInv, TypeOK, CallInv
<1>2. None \notin Key
    BY NoneIsNoKey, Zenon
<1> QED
    BY <1>1, <1>2, KeysAreNotRequests DEF KeyOf, AllKeys

\* Two calls do not have the span of one key.
LEMMA OneSpan ==
    ASSUME SpanIInv, NEW c \in Call, NEW d \in Call, Spanning(c), Spanning(d), KeyOf(c) = KeyOf(d)
    PROVE  c = d
<1>1. given[c] = given[d]
    BY Zenon DEF Spanning, KeyOf
<1>2. span[given[c]] = c /\ span[given[d]] = d
    BY Zenon DEF SpanIInv, SpanInv
<1> QED
    BY <1>1, <1>2, Zenon

\* A call goes on and changes neither a span nor the record of a key.
LEMMA MoveSpan ==
    ASSUME SpanIInv, DispatchIInv', NEW c \in Call, NEW to, pc' = [pc EXCEPT ![c] = to],
           UNCHANGED <<input, span, keyRec>>, pc[c] \notin {"idle", "awaitSpan", "done", "dead"},
           to \in Owning => pc[c] \in Owning, to \in Early => pc[c] \in Early
    PROVE  SpanIInv'
<1>0. pc \in [Call -> Points]
    BY Zenon DEF SpanIInv, DispatchIInv, TypeOK
<1>1. pc'[c] = to /\ \A d \in Call : d # c => pc'[d] = pc[d]
    BY <1>0, Zenon
<1>2. ASSUME NEW d \in Call PROVE SpanInv(d)'
  <2>1. SpanInv(d) /\ given'[d] = given[d] /\ (Existing(d)' = Existing(d)) /\ span' = span
    BY Zenon DEF SpanIInv, Existing, KeyOf, input
  <2>2. pc'[d] # pc[d] => pc[d] \notin {"idle", "awaitSpan", "done", "dead"} /\ (pc'[d] \in Owning => pc[d] \in Owning)
    BY <1>1, Zenon
  <2>3. Spanning(d)' => Spanning(d) /\ (pc'[d] \in Owning => pc[d] \in Owning)
    BY <2>1, <2>2, Zenon DEF Spanning
  <2> QED
    BY <2>1, <2>3, Zenon DEF SpanInv
<1>3. \A k \in AllKeys : NamedInv(k)'
    BY <1>1, Zenon DEF SpanIInv, NamedInv, DispatchIInv, KeyInv
<1> QED
    BY <1>2, <1>3, Zenon DEF SpanIInv

\* A call ends: it frees its span, and has at most decided its own record.
LEMMA EndSpan ==
    ASSUME SpanIInv, DispatchIInv', NEW c \in Call, NEW to \in {"done", "dead"}, pc[c] # "idle",
           pc' = [pc EXCEPT ![c] = to], UNCHANGED input,
           span' = [k \in AllKeys |-> IF span[k] = c THEN None ELSE span[k]],
           \/ UNCHANGED keyRec
           \/ /\ \A k \in AllKeys : k # KeyOf(c) => keyRec'[k] = keyRec[k]
              /\ keyRec'[KeyOf(c)].occurrence = c
              /\ pc[c] \notin {"awaitSpan", "done", "dead"}
    PROVE  SpanIInv'
<1>0. pc \in [Call -> Points] /\ DispatchIInv
    BY Zenon DEF SpanIInv, DispatchIInv, TypeOK
<1>1. pc'[c] = to /\ \A d \in Call : d # c => pc'[d] = pc[d]
    BY <1>0, Zenon
<1>2. ASSUME NEW d \in Call PROVE SpanInv(d)'
  <2>1. CASE d = c
    BY <1>1, <2>1, Zenon DEF SpanInv, Spanning
  <2>2. CASE d # c /\ Spanning(d)
    <3>1. KeyOf(d) = given[d] /\ given[d] \in Key /\ given[d] \in AllKeys
      BY <1>0, <2>2, SuppliedKey, Zenon DEF Spanning
    <3>2. span[given[d]] = d /\ (pc[d] \in Owning => Existing(d).status = "prepared")
      BY <2>2, Zenon DEF SpanIInv, SpanInv
    <3>3. span'[given[d]] = d
      BY <2>2, <3>1, <3>2, Zenon
    <3>4. keyRec'[KeyOf(d)] = keyRec[KeyOf(d)]
      <4>1. CASE KeyOf(c) = KeyOf(d) /\ pc[c] \notin {"awaitSpan", "done", "dead"}
        <5>1. given[c] # None
          BY <1>0, <3>1, <4>1, SuppliedKey, Zenon
        <5> QED
          BY <2>2, <4>1, <5>1, OneSpan, Zenon DEF Spanning
      <4> QED
        BY <3>1, <4>1, Zenon
    <3> QED
      BY <1>1, <2>2, <3>2, <3>3, <3>4, Zenon DEF SpanInv, Existing, KeyOf, input
  <2>3. CASE d # c /\ ~Spanning(d)
    BY <1>1, <2>3, Zenon DEF SpanInv, Spanning, input
  <2> QED
    BY <2>1, <2>2, <2>3, Zenon
<1>3. ASSUME NEW k \in AllKeys PROVE NamedInv(k)'
  <2>1. CASE keyRec'[k] = keyRec[k]
    <3>1. keyRec[k].status # "none" => keyRec[k].occurrence \in Call
      BY <1>0, Zenon DEF DispatchIInv, KeyInv
    <3> QED
      BY <1>1, <2>1, <3>1, Zenon DEF SpanIInv, NamedInv, Early
  <2>2. CASE keyRec'[k].occurrence = c
    BY <1>1, <2>2, Zenon DEF NamedInv, Early
  <2> QED
    BY <2>1, <2>2, Zenon
<1> QED
    BY <1>2, <1>3, Zenon DEF SpanIInv

\* A call gets the span of its key.
LEMMA LockSpan ==
    ASSUME SpanIInv, DispatchIInv', NEW c \in Call, LockKey(c)
    PROVE  SpanIInv'
<1>0. DispatchIInv /\ pc \in [Call -> Points] /\ span \in [AllKeys -> Call \cup {None}]
    BY Zenon DEF SpanIInv, DispatchIInv, TypeOK
<1>1. /\ pc[c] = "awaitSpan" /\ span[KeyOf(c)] = None /\ UNCHANGED <<input, keyRec>>
      /\ span' = [span EXCEPT ![KeyOf(c)] = c] /\ pc' = [pc EXCEPT ![c] = "awaitPrepare"]
    BY Zenon DEF LockKey, Goto, records
<1>2. pc'[c] = "awaitPrepare" /\ \A d \in Call : d # c => pc'[d] = pc[d]
    BY <1>0, <1>1, Zenon
<1>3. ASSUME NEW d \in Call PROVE SpanInv(d)'
  <2>1. CASE d = c /\ given[c] # None
    <3>1. span'[given[c]] = c
      BY <1>0, <1>1, <2>1, SuppliedKey, Zenon
    <3> QED
      BY <1>1, <1>2, <2>1, <3>1, Zenon DEF SpanInv, Owning, input
  <2>2. CASE given[d] = None
    BY <1>1, <2>2, Zenon DEF SpanInv, Spanning, input
  <2>3. CASE d # c /\ given[d] # None
    <3>1. SpanInv(d) /\ pc'[d] = pc[d] /\ given'[d] = given[d] /\ (KeyOf(d)' = KeyOf(d)) /\ keyRec' = keyRec
      BY <1>1, <1>2, <2>3, Zenon DEF SpanIInv, KeyOf, input
    <3>2. Spanning(d) => span'[given[d]] = span[given[d]]
      <4>1. Spanning(d) => span[given[d]] = d /\ d # None /\ given[d] \in AllKeys
        BY <1>0, <3>1, SuppliedKey, NoneIsNoKey, Zenon DEF SpanInv, Spanning
      <4> QED
        BY <1>0, <1>1, <4>1, Zenon
    <3> QED
      BY <3>1, <3>2, Zenon DEF SpanInv, Spanning, Existing
  <2> QED
    BY <2>1, <2>2, <2>3, Zenon
<1>4. \A k \in AllKeys : NamedInv(k)'
  <2>1. \A k \in AllKeys : keyRec[k].status # "none" => keyRec[k].occurrence \in Call /\ NamedInv(k)
    BY <1>0, Zenon DEF SpanIInv, DispatchIInv, KeyInv
  <2> QED
    BY <1>1, <1>2, <2>1, Zenon DEF NamedInv, Early
<1> QED
    BY <1>3, <1>4, Zenon DEF SpanIInv

\* A call that starts has no span, and no record names it.
LEMMA StartSpan ==
    ASSUME SpanIInv, DispatchIInv', NEW c \in Call, NEW k \in Key \cup {None}, NEW r \in Request, Start(c, k, r)
    PROVE  SpanIInv'
<1>0. /\ DispatchIInv /\ pc \in [Call -> Points]
      /\ given \in [Call -> Key \cup {None}] /\ request \in [Call -> Request \cup {None}]
    BY Zenon DEF SpanIInv, DispatchIInv, TypeOK
<1>1. /\ pc[c] = "idle" /\ given' = [given EXCEPT ![c] = k] /\ request' = [request EXCEPT ![c] = r]
      /\ pc' = [pc EXCEPT ![c] = IF k # None THEN "awaitSpan" ELSE "awaitPrepare"]
      /\ span' = span /\ keyRec' = keyRec
    BY Zenon DEF Start, Goto, locks, records
<1>2. \A d \in Call : d # c => pc'[d] = pc[d] /\ given'[d] = given[d] /\ KeyOf(d)' = KeyOf(d)
    BY <1>0, <1>1, Zenon DEF KeyOf
<1>3. given'[c] = k /\ (k # None => pc'[c] = "awaitSpan")
    BY <1>0, <1>1, Zenon
<1>4. \A d \in Call : SpanInv(d)'
    BY <1>1, <1>2, <1>3, Zenon DEF SpanIInv, SpanInv, Spanning, Existing
<1>5. \A q \in AllKeys : NamedInv(q)'
  <2>1. \A q \in AllKeys : keyRec[q].status # "none" =>
            keyRec[q].occurrence \in Call /\ keyRec[q].occurrence # c /\ NamedInv(q)
    BY <1>0, <1>1, Zenon DEF SpanIInv, DispatchIInv, KeyInv
  <2> QED
    BY <1>1, <1>2, <2>1, Zenon DEF NamedInv
<1> QED
    BY <1>4, <1>5, Zenon DEF SpanIInv

\* Under the lock of its key a call decides that the dispatch before it was interrupted,
\* or writes its own intent.  Nobody who has the span of that key is at work.
LEMMA DecideSpan ==
    ASSUME SpanIInv, DispatchIInv', NEW c \in Call, Interrupted(c) \/ NewDispatch(c)
    PROVE  SpanIInv'
<1>0. DispatchIInv /\ pc \in [Call -> Points] /\ KeyOf(c) \in AllKeys /\ keyRec \in [AllKeys -> Record \cup {NoRecord}]
    BY DEF SpanIInv, DispatchIInv, TypeOK, CallInv, KeyOf, AllKeys, Interrupted, Recorded, NewDispatch
<1>1. PICK to, v :
          /\ to \in {"mark", "intent"} /\ pc[c] = "prepare" /\ pc' = [pc EXCEPT ![c] = to] /\ UNCHANGED <<input, span>>
          /\ keyRec' = [keyRec EXCEPT ![KeyOf(c)] = v]
          /\ to = "intent" => v.status = "prepared" /\ v.occurrence = c
          /\ to = "mark" => v.occurrence = keyRec[KeyOf(c)].occurrence /\ keyRec[KeyOf(c)].status = "prepared"
  <2>1. CASE Interrupted(c)
    <3>1. keyRec[KeyOf(c)] \in Record
      BY <1>0, <2>1 DEF Interrupted, Recorded, Existing, NoRecord
    <3>2. PICK v : v = [keyRec[KeyOf(c)] EXCEPT !.status = "indeterminate"]
      BY Zenon
    <3>3. v.occurrence = keyRec[KeyOf(c)].occurrence
      BY <3>1, <3>2 DEF Record
    <3>4. /\ pc[c] = "prepare" /\ pc' = [pc EXCEPT ![c] = "mark"] /\ UNCHANGED <<input, span>>
          /\ keyRec' = [keyRec EXCEPT ![KeyOf(c)] = v] /\ keyRec[KeyOf(c)].status = "prepared"
      BY <2>1, <3>2, Zenon DEF Interrupted, Recorded, Goto, locks, Existing
    <3> QED
      BY <3>3, <3>4, Zenon
  <2>2. CASE NewDispatch(c)
    <3>1. PICK v : v = Intent(c, "prepared")
      BY Zenon
    <3>2. v.status = "prepared" /\ v.occurrence = c
      BY <3>1, Zenon DEF Intent
    <3>3. /\ pc[c] = "prepare" /\ pc' = [pc EXCEPT ![c] = "intent"] /\ UNCHANGED <<input, span>>
          /\ keyRec' = [keyRec EXCEPT ![KeyOf(c)] = v]
      BY <2>2, <3>1, Zenon DEF NewDispatch, Goto, locks
    <3>4. "intent" \in {"mark", "intent"} /\ "intent" # "mark"
      BY Zenon
    <3> QED
      BY <3>2, <3>3, <3>4, Zenon
  <2> QED
    BY <2>1, <2>2, Zenon
<1>2. pc'[c] = to /\ \A d \in Call : d # c => pc'[d] = pc[d]
    BY <1>0, <1>1, Zenon
<1>3. keyRec'[KeyOf(c)] = v /\ \A k \in AllKeys : k # KeyOf(c) => keyRec'[k] = keyRec[k]
    BY <1>0, <1>1, Zenon
<1>4. ASSUME NEW d \in Call PROVE SpanInv(d)'
  <2>0. SpanInv(d) /\ given'[d] = given[d] /\ KeyOf(d)' = KeyOf(d) /\ span' = span
    BY <1>1, Zenon DEF SpanIInv, KeyOf, input
  <2>1. CASE d = c
    BY <1>1, <1>2, <1>3, <2>0, <2>1, Zenon DEF SpanInv, Spanning, Existing, Owning
  <2>2. CASE d # c /\ Spanning(d)
    <3>1. KeyOf(d) # KeyOf(c) /\ KeyOf(d) \in AllKeys
      <4>1. KeyOf(d) \in Key /\ KeyOf(d) \in AllKeys
        BY <1>0, <2>2, SuppliedKey, Zenon DEF Spanning
      <4>2. CASE KeyOf(d) = KeyOf(c)
        <5>1. given[c] # None
          BY <1>0, <1>1, <4>1, <4>2, SuppliedKey, Zenon
        <5> QED
          BY <1>1, <2>2, <4>2, <5>1, OneSpan, Zenon DEF Spanning
      <4> QED
        BY <4>1, <4>2, Zenon
    <3> QED
      BY <1>2, <1>3, <2>0, <2>2, <3>1, Zenon DEF SpanInv, Spanning, Existing
  <2>3. CASE d # c /\ ~Spanning(d)
    BY <1>2, <2>0, <2>3, Zenon DEF SpanInv, Spanning
  <2> QED
    BY <2>1, <2>2, <2>3, Zenon
<1>5. ASSUME NEW k \in AllKeys PROVE NamedInv(k)'
  <2>1. CASE keyRec'[k].occurrence = c
    BY <1>1, <1>2, <2>1, Zenon DEF NamedInv, Early
  <2>2. CASE keyRec[k].status # "none" /\ keyRec'[k].occurrence = keyRec[k].occurrence
    <3>1. keyRec[k].occurrence \in Call /\ NamedInv(k)
      BY <1>0, <2>2, Zenon DEF SpanIInv, DispatchIInv, KeyInv
    <3> QED
      BY <1>1, <1>2, <2>2, <3>1, Zenon DEF NamedInv, Early
  <2>3. CASE k # KeyOf(c) /\ keyRec[k].status = "none"
    BY <1>3, <2>3, Zenon DEF NamedInv
  <2> QED
    BY <1>1, <1>3, <2>1, <2>2, <2>3
<1> QED
    BY <1>4, <1>5, Zenon DEF SpanIInv

LEMMA SpanInit == Init => SpanIInv
<1> SUFFICES ASSUME Init PROVE SpanIInv
    BY Zenon
<1>1. \A c \in Call : SpanInv(c)
    BY Zenon DEF Init, SpanInv, Spanning
<1>2. \A k \in AllKeys : NamedInv(k)
    BY DEF Init, NamedInv, NoRecord
<1> QED
    BY <1>1, <1>2, DispatchInit, Zenon DEF SpanIInv

LEMMA SpanNext == ASSUME SpanIInv, DispatchIInv', [Next]_vars PROVE SpanIInv'
<1>1. CASE UNCHANGED vars
    BY <1>1, Zenon DEF vars, SpanIInv, SpanInv, Spanning, Existing, KeyOf, NamedInv
<1>2. CASE Next
  <2> PICK c \in Call :
        \/ \E k \in Key \cup {None}, r \in Request : Start(c, k, r)
        \/ Progress(c)
        \/ CancelWait(c) \/ PrepareFails(c) \/ SettleFails(c) \/ Crash(c)
    BY <1>2, Zenon DEF Next
  <2>1. CASE \E k \in Key \cup {None}, r \in Request : Start(c, k, r)
    BY <2>1, StartSpan, Zenon
  <2>2. CASE LockKey(c) \/ Interrupted(c) \/ NewDispatch(c)
    BY <2>2, LockSpan, DecideSpan, Zenon
  <2>3. CASE acquireLock(c) \/ AlreadySettled(c) \/ WriteIntent(c) \/ Execute(c)
             \/ (\E r \in Result : ToolReturns(c, r)) \/ SettleOccurrence(c)
    <3>1. PICK to : /\ pc' = [pc EXCEPT ![c] = to] /\ UNCHANGED <<input, span, keyRec>>
                    /\ \/ pc[c] = "awaitPrepare" /\ to = "prepare"
                       \/ pc[c] = "prepare" /\ to = "replay"
                       \/ pc[c] \in Owning /\ to \in Owning
      BY <2>3, Zenon DEF acquireLock, AlreadySettled, Recorded, WriteIntent, Execute, ToolReturns, SettleOccurrence,
         Goto, Unlock, locks, records, Owning
    <3>2. pc[c] \notin {"idle", "awaitSpan", "done", "dead"}
      BY <3>1, Zenon DEF Owning
    <3>3. (to \in Owning => pc[c] \in Owning) /\ (to \in Early => pc[c] \in Early)
      BY <3>1, Zenon DEF Owning, Early
    <3> QED
      BY <3>1, <3>2, <3>3, MoveSpan, Zenon
  <2>4. CASE CancelWait(c) \/ Conflict(c) \/ AlreadyIndeterminate(c) \/ MarkOccurrence(c)
             \/ PrepareFails(c) \/ Replay(c) \/ SettleFails(c) \/ Crash(c)
    <3>1. PICK to \in {"done", "dead"} :
             /\ pc' = [pc EXCEPT ![c] = to] /\ UNCHANGED <<input, keyRec>>
             /\ span' = [k \in AllKeys |-> IF span[k] = c THEN None ELSE span[k]]
      BY <2>4, Zenon DEF CancelWait, Conflict, AlreadyIndeterminate, Recorded, MarkOccurrence, PrepareFails, Replay,
         SettleFails, Crash, Return, records
    <3>2. pc[c] # "idle"
      BY <2>4, Zenon DEF CancelWait, Conflict, AlreadyIndeterminate, Recorded, MarkOccurrence, PrepareFails, Replay,
         SettleFails, Crash
    <3> QED
      BY <3>1, <3>2, EndSpan, Zenon
  <2>5. CASE SettleKey(c)
    <3>1. /\ pc[c] = "settleKey" /\ pc' = [pc EXCEPT ![c] = "done"] /\ UNCHANGED input
          /\ span' = [k \in AllKeys |-> IF span[k] = c THEN None ELSE span[k]]
          /\ keyRec' = [keyRec EXCEPT ![KeyOf(c)] = Settled(c)]
      BY <2>5, ZenonT(30) DEF SettleKey, Return
    <3>2. KeyOf(c) \in AllKeys /\ keyRec \in [AllKeys -> Record \cup {NoRecord}] /\ request[c] \in Request
      BY <3>1 DEF SpanIInv, DispatchIInv, TypeOK, CallInv, KeyOf, AllKeys
    <3>3. Settled(c).occurrence = c
      BY DEF Settled, Intent
    <3>4. /\ \A k \in AllKeys : k # KeyOf(c) => keyRec'[k] = keyRec[k]
          /\ keyRec'[KeyOf(c)].occurrence = c
      BY <3>1, <3>2, <3>3, Zenon
    <3> QED
      BY <3>1, <3>4, EndSpan, Zenon
  <2> QED
    BY <2>1, <2>2, <2>3, <2>4, <2>5, Zenon DEF Progress, Prepare, Settle
<1> QED
    BY <1>1, <1>2, Zenon

\* A call holds the span lock of a supplied key from LockKey to its return, and no other
\* call decides the record of that key meanwhile.
THEOREM SpanInvariant == Spec => []SpanIInv
<1>1. SpanIInv /\ DispatchIInv' /\ [Next]_vars => SpanIInv'
    BY SpanNext, Zenon
<1> QED
    BY <1>1, SpanInit, DispatchInvariant, PTL DEF Spec

\* The steps that change the record of a key.
LEMMA KeyChanges ==
    ASSUME DispatchIInv, [Next]_vars, NEW k \in AllKeys, keyRec'[k] # keyRec[k]
    PROVE  \E c \in Call : /\ Interrupted(c) \/ NewDispatch(c) \/ SettleKey(c)
                           /\ KeyOf(c) = k /\ pc[c] # "idle"
<1>1. PICK c \in Call : Interrupted(c) \/ NewDispatch(c) \/ SettleKey(c)
    BY Zenon DEF Next, vars, Start, Progress, Prepare, Settle, LockKey, acquireLock, Execute, ToolReturns, CancelWait,
       PrepareFails, SettleFails, Crash, Conflict, AlreadySettled, AlreadyIndeterminate, MarkOccurrence, WriteIntent,
       Replay, SettleOccurrence, records
<1>2. keyRec \in [AllKeys -> Record \cup {NoRecord}]
    BY Zenon DEF DispatchIInv, TypeOK
<1>3. PICK v : keyRec' = [keyRec EXCEPT ![KeyOf(c)] = v]
    BY <1>1, Zenon DEF Interrupted, NewDispatch, SettleKey
<1>4. KeyOf(c) = k
    BY <1>2, <1>3, Zenon
<1>5. pc[c] # "idle"
    BY <1>1, Zenon DEF Interrupted, Recorded, NewDispatch, SettleKey
<1> QED
    BY <1>1, <1>4, <1>5, Zenon

\* For any number of calls: PrepareDispatch declares the dispatch of a supplied key
\* interrupted only when the call that wrote the intent is over, since it needs the span
\* lock that the call held to its end.
THEOREM InterruptedOnlyAlways == Spec => InterruptedOnly
<1>1. ASSUME SpanIInv, [Next]_vars, NEW k \in Key, DeclaresInterrupted(k) PROVE Over(keyRec[k].occurrence)
  <2>0. DispatchIInv /\ k \in AllKeys /\ keyRec[k].status = "prepared" /\ keyRec'[k].status = "indeterminate"
    BY <1>1, Zenon DEF SpanIInv, AllKeys, DeclaresInterrupted
  <2>1. PICK c \in Call : /\ Interrupted(c) \/ NewDispatch(c) \/ SettleKey(c)
                          /\ KeyOf(c) = k /\ pc[c] # "idle"
    BY <1>1, <2>0, KeyChanges, Zenon
  <2>2. Interrupted(c)
    <3>1. ~NewDispatch(c)
      BY <2>0, <2>1 DEF NewDispatch, Existing, NoRecord
    <3>2. ~SettleKey(c)
      <4>1. Settled(c).status = "settled"
        BY DEF Settled, Intent
      <4>2. keyRec \in [AllKeys -> Record \cup {NoRecord}]
        BY <2>0, Zenon DEF DispatchIInv, TypeOK
      <4>3. SettleKey(c) => keyRec'[k] = Settled(c)
        BY <2>0, <2>1, <4>2, Zenon DEF SettleKey
      <4> QED
        BY <2>0, <4>1, <4>3, Zenon
    <3> QED
      BY <2>1, <3>1, <3>2, Zenon
  <2>3. pc[c] = "prepare" /\ Spanning(c)
    BY <1>1, <2>0, <2>1, <2>2, SuppliedKey, Zenon DEF Interrupted, Recorded, Spanning
  <2>4. PICK d \in Call : d = keyRec[k].occurrence /\ pc[d] # "idle" /\ KeyOf(d) = k
    BY <2>0, Zenon DEF DispatchIInv, KeyInv
  <2>5. pc[d] \notin Early /\ given[d] # None
    BY <1>1, <2>0, <2>4, SuppliedKey, Zenon DEF SpanIInv, NamedInv
  <2>6. CASE ~Over(d)
    <3>1. Spanning(d) /\ c # d
      BY <2>3, <2>5, <2>6, Zenon DEF Over, Spanning, Early
    <3> QED
      BY <1>1, <2>1, <2>3, <2>4, <3>1, OneSpan, Zenon
  <2> QED
    BY <2>4, <2>6, Zenon
<1>2. SpanIInv /\ [Next]_vars => [\A k \in Key : DeclaresInterrupted(k) => Over(keyRec[k].occurrence)]_vars
    BY <1>1, Zenon
<1> QED
    BY <1>2, SpanInvariant, PTL DEF Spec, InterruptedOnly

\* For any number of calls: once the record of a supplied key is settled or indeterminate
\* it is never written again, not by SettleDispatch of a call that was declared
\* interrupted either.
THEOREM DecisionAlwaysStable == Spec => DecisionStable
<1>1. ASSUME SpanIInv, [Next]_vars, NEW k \in Key, keyRec[k].status \in {"settled", "indeterminate"}
      PROVE  keyRec'[k] = keyRec[k]
  <2>0. DispatchIInv /\ k \in AllKeys
    BY <1>1, Zenon DEF SpanIInv, AllKeys
  <2> SUFFICES ASSUME keyRec'[k] # keyRec[k] PROVE FALSE
    BY Zenon
  <2>1. PICK c \in Call : /\ Interrupted(c) \/ NewDispatch(c) \/ SettleKey(c)
                          /\ KeyOf(c) = k /\ pc[c] # "idle"
    BY <1>1, <2>0, KeyChanges, Zenon
  <2>2. given[c] # None
    BY <1>1, <2>0, <2>1, SuppliedKey, Zenon
  <2>3. SettleKey(c)
    BY <1>1, <2>1 DEF Interrupted, Recorded, NewDispatch, Existing, NoRecord
  <2>4. Existing(c).status = "prepared"
    BY <1>1, <2>2, <2>3, Zenon DEF SpanIInv, SpanInv, Spanning, SettleKey, Owning
  <2> QED
    BY <1>1, <2>1, <2>4, Zenon DEF Existing
<1>2. SpanIInv /\ [Next]_vars =>
          [\A k \in Key : keyRec[k].status \in {"settled", "indeterminate"} => keyRec'[k] = keyRec[k]]_vars
    BY <1>1, Zenon
<1> QED
    BY <1>2, SpanInvariant, PTL DEF Spec, DecisionStable
=============================================================================
