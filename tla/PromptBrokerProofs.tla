------------------------- MODULE PromptBrokerProofs -------------------------
(***************************************************************************)
(* Proofs about PromptBroker: for any number of attachments, turns, posts   *)
(* and answers, what a client was told and what a prompt returned is what   *)
(* the run's checkpoint says.                                               *)
(*                                                                          *)
(* The argument: a commit needs an open handle, only the handle with the    *)
(* lease is open, and the turn that an open handle has listed or is about   *)
(* to list is not answered.  Hence a commit never replaces an answer.       *)
(***************************************************************************)
EXTENDS PromptBroker, TLAPS

\* The prompt has not listed its turn yet.
Early == {"idle", "prepare", "insert"}

\* A post that found its queue knows what it answers.
Posted ==
    \A x \in Post : post[x].pc \in {"found", "deliver"} =>
        post[x].queue \in Handle /\ post[x].turn \in Turn /\ post[x].answer \in Answer

\* The open handle is the one that holds the lease.
Leased == \A h \in Handle : handle[h] = "open" <=> lease = h

\* Before its engine starts, an attachment asks nothing.
Fresh ==
    \A h \in Handle :
        /\ attach[h] \in {"idle", "checked", "reserved"} => handle[h] = "none"
        /\ handle[h] = "none" => \A t \in Turn : prompt[h][t] = "idle"

\* A listed turn belongs to a prompt that waits for it there.
Listed ==
    \A h \in Handle, q \in Handle, t \in Turn :
        pending[q][t] = h => prompt[h][t] = "wait" /\ at[h][t] = q

Unlisted(h, t) == prompt[h][t] \notin Early /\ \A q \in Handle : pending[q][t] # h

\* A turn whose channel was served or closed is not listed any more.
Told == \A h \in Handle, t \in Turn : channel[h][t] # "none" => Unlisted(h, t)

\* Nor is a turn whose answer is on the way, and that answer is the saved one.
Delivering ==
    \A x \in Post : post[x].pc = "deliver" =>
        /\ Unlisted(post[x].queue, post[x].turn)
        /\ saved[post[x].turn] = post[x].answer

\* What the open handle has listed, or is about to, is not answered.
Unanswered ==
    \A h \in Handle, t \in Turn :
        handle[h] = "open" /\ (prompt[h][t] = "insert" \/ \E q \in Handle : pending[q][t] = h) =>
            saved[t] \notin Answer

ChannelAgrees ==
    \A h \in Handle, t \in Turn : channel[h][t] \in Answer => saved[t] = channel[h][t]

BrokerIInv ==
    /\ TypeOK /\ Posted /\ Leased /\ Fresh /\ Listed /\ Told /\ Delivering /\ Unanswered
    /\ ChannelAgrees /\ AnswersAgree

----------------------------------------------------------------------------

LEMMA HandleFacts ==
    /\ Handle \subseteq Nat \ {0} /\ 0 \notin Handle /\ Handle = 0..MaxAttach \ {0}
    /\ 0 \in 0..MaxAttach /\ Handle \subseteq 0..MaxAttach
<1>1. MaxAttach \in Nat
    BY BrokerAssumption, Zenon
<1> QED
    BY <1>1 DEF Handle

\* One entry of a table is set.
LEMMA SetEntry ==
    ASSUME NEW A, NEW B, NEW C, NEW f \in [A -> [B -> C]], NEW a, NEW b, NEW c, NEW g,
           g = [f EXCEPT ![a][b] = c]
    PROVE  /\ c \in C => g \in [A -> [B -> C]]
           /\ \A x \in A, y \in B : g[x][y] = IF x = a /\ y = b THEN c ELSE f[x][y]
<1>1. g = [x \in A |-> IF x = a THEN [f[x] EXCEPT ![b] = c] ELSE f[x]]
    BY Zenon
<1>2. \A x \in A : [f[x] EXCEPT ![b] = c] = [y \in B |-> IF y = b THEN c ELSE f[x][y]]
    BY Zenon
<1>3. \A x \in A, y \in B : g[x][y] = IF x = a /\ y = b THEN c ELSE f[x][y]
    BY <1>1, <1>2
<1>4. ASSUME c \in C PROVE g \in [A -> [B -> C]]
  <2>1. \A x \in A : [f[x] EXCEPT ![b] = c] \in [B -> C]
    BY <1>2, <1>4, Zenon
  <2>2. PICK e : e = [x \in A |-> IF x = a THEN [f[x] EXCEPT ![b] = c] ELSE f[x]]
    BY Zenon
  <2>3. \A x \in A : (IF x = a THEN [f[x] EXCEPT ![b] = c] ELSE f[x]) \in [B -> C]
    BY <2>1, Zenon
  <2> QED
    BY <1>1, <2>3, Zenon
<1> QED
    BY <1>3, <1>4, Zenon

LEMMA InitInv == Init => BrokerIInv
<1> SUFFICES ASSUME Init PROVE BrokerIInv
    BY Zenon
<1>1. TypeOK
    BY BrokerAssumption DEF Init, TypeOK, Handle, NoPost, Asking
<1> QED
    BY <1>1, BrokerAssumption, HandleFacts, Zenon DEF Init, BrokerIInv, Posted, Leased, Fresh, Listed, Told, Delivering,
       Unanswered, ChannelAgrees, AnswersAgree, NoPost, Unlisted

\* A step of a request, the registry or a teardown that leaves the engine's handles, the
\* prompts and the answers alone.
LEMMA FrameInv ==
    ASSUME BrokerIInv, TypeOK',
           UNCHANGED <<pending, handle, lease, promptVars, postVars>>,
           \A h \in Handle : attach'[h] \in {"idle", "checked", "reserved"} =>
                                 attach[h] \in {"idle", "checked", "reserved"}
    PROVE  BrokerIInv'
<1> USE DEF promptVars, postVars
<1>1. Posted' /\ Leased' /\ Listed' /\ Told' /\ Delivering' /\ Unanswered' /\ ChannelAgrees' /\ AnswersAgree'
    BY DEF BrokerIInv, Posted, Leased, Listed, Told, Delivering, Unanswered, ChannelAgrees, AnswersAgree, Unlisted
<1>2. Fresh'
    BY Zenon DEF BrokerIInv, Fresh
<1> QED
    BY <1>1, <1>2, Zenon DEF BrokerIInv

\* Registering and entering the run.
LEMMA AttachingInv ==
    ASSUME BrokerIInv, NEW n \in Handle,
           CheckEntry(n) \/ registerExclusive(n) \/ ResumeFails(n) \/ AddEntry(n)
    PROVE  BrokerIInv'
<1> USE DEF queueVars, promptVars, postVars
<1>0. TypeOK /\ n \in 0..MaxAttach
    BY HandleFacts, Zenon DEF BrokerIInv
<1>1. CASE CheckEntry(n)
  <2>1. TypeOK'
    BY <1>0, <1>1, Zenon DEF CheckEntry, TypeOK
  <2> QED
    BY <1>0, <1>1, <2>1, FrameInv, Zenon DEF CheckEntry, TypeOK
<1>2. CASE registerExclusive(n)
  <2>1. TypeOK'
    BY <1>0, <1>2, Zenon DEF registerExclusive, TypeOK
  <2> QED
    BY <1>0, <1>2, <2>1, FrameInv, Zenon DEF registerExclusive, TypeOK
<1>3. CASE ResumeFails(n)
  <2>1. TypeOK'
    BY <1>0, <1>3, Zenon DEF ResumeFails, TypeOK
  <2> QED
    <3>1. UNCHANGED <<pending, handle, lease, promptVars, postVars>>
      BY <1>3, Zenon DEF ResumeFails
    <3>2. \A h \in Handle : attach'[h] \in {"idle", "checked", "reserved"} =>
                                attach[h] \in {"idle", "checked", "reserved"}
      BY <1>0, <1>3, Zenon DEF ResumeFails, TypeOK
    <3> QED
      BY <2>1, <3>1, <3>2, FrameInv, Zenon
<1>4. CASE AddEntry(n)
  <2>1. TypeOK'
    BY <1>0, <1>4, Zenon DEF AddEntry, TypeOK
  <2> QED
    <3>1. /\ UNCHANGED <<pending, handle, lease, promptVars, postVars>>
          /\ attach' = [attach EXCEPT ![n] = "attached"]
      BY <1>4, Zenon DEF AddEntry, queueVars
    <3>2. \A h \in Handle : attach'[h] \in {"idle", "checked", "reserved"} =>
                              attach[h] \in {"idle", "checked", "reserved"}
      BY <1>0, <3>1, Zenon DEF TypeOK
    <3> QED
      BY <2>1, <3>1, <3>2, FrameInv, Zenon
<1> QED
    BY <1>1, <1>2, <1>3, <1>4, Zenon

\* The pump, the registry and the first half of a teardown.
LEMMA TakingInv ==
    ASSUME BrokerIInv,
           \/ \E n \in Handle : PumpSees(n)
           \/ GC
           \/ \E x \in 0..MaxAttach : UnregisterTake(x) \/ UnregisterNothing(x)
    PROVE  BrokerIInv'
<1> USE DEF queueVars, promptVars, postVars, runVars
<1>0. TypeOK
    BY Zenon DEF BrokerIInv
<1>1. CASE \E n \in Handle : PumpSees(n)
  <2>1. TypeOK'
    BY <1>0, <1>1 DEF PumpSees, TypeOK, Over
  <2> QED
    BY <1>0, <1>1, <2>1, FrameInv, Zenon DEF PumpSees, TypeOK
<1>2. CASE GC
  <2>1. TypeOK'
    BY <1>0, <1>2, HandleFacts, Zenon DEF GC, TypeOK
  <2> QED
    BY <1>0, <1>2, <2>1, FrameInv, Zenon DEF GC, TypeOK
<1>3. ASSUME NEW x \in 0..MaxAttach, UnregisterTake(x) PROVE BrokerIInv'
  <2>1. TypeOK'
    BY <1>0, <1>3, BrokerAssumption, Zenon DEF UnregisterTake, TypeOK
  <2> QED
    BY <1>0, <1>3, <2>1, FrameInv, Zenon DEF UnregisterTake, TypeOK
<1>4. ASSUME NEW x \in 0..MaxAttach, UnregisterNothing(x) PROVE BrokerIInv'
  <2>1. TypeOK'
    BY <1>0, <1>4, Zenon DEF UnregisterNothing, Torn, TypeOK, Handle
  <2> QED
    BY <1>0, <1>4, <2>1, FrameInv DEF UnregisterNothing, Torn, TypeOK, Handle
<1> QED
    BY <1>1, <1>2, <1>3, <1>4, Zenon

\* The engine takes the lease: the handle is new and has asked nothing.
LEMMA ResumeInv == ASSUME BrokerIInv, NEW n \in Handle, Resume(n) PROVE BrokerIInv'
<1> USE DEF Resume, queueVars, promptVars, postVars
<1>0. TypeOK /\ Listed /\ Leased /\ Fresh /\ Unanswered /\ n \in 0..MaxAttach /\ n # 0
    BY HandleFacts, Zenon DEF BrokerIInv
<1>1. TypeOK'
    BY <1>0, Zenon DEF TypeOK
<1>2. handle' = [handle EXCEPT ![n] = "open"] /\ handle[n] = "none" /\ lease = 0 /\ lease' = n
    BY <1>0, Zenon DEF Fresh
<1>3. Leased'
    BY <1>0, <1>2, HandleFacts DEF TypeOK, Leased
<1>4. Fresh'
    BY <1>0, <1>2 DEF TypeOK, Fresh
<1>5. Unanswered'
    BY <1>0, <1>2 DEF TypeOK, Fresh, Listed, Unanswered
<1>6. Posted' /\ Listed' /\ Told' /\ Delivering' /\ ChannelAgrees' /\ AnswersAgree'
    BY DEF BrokerIInv, Posted, Listed, Told, Delivering, ChannelAgrees, AnswersAgree, Unlisted
<1> QED
    BY <1>1, <1>3, <1>4, <1>5, <1>6, Zenon DEF BrokerIInv

\* A handle that was open gives its lease back and is over.
LEMMA EndedInv ==
    ASSUME BrokerIInv, NEW n \in Handle, NEW status \in Over, TypeOK',
           handle' = [handle EXCEPT ![n] = IF @ = "open" THEN status ELSE @],
           lease' = IF lease = n THEN 0 ELSE lease,
           UNCHANGED <<pending, attach, promptVars, postVars>>
    PROVE  BrokerIInv'
<1> USE DEF promptVars, postVars
<1>0. TypeOK /\ Leased /\ Fresh /\ Unanswered
    BY Zenon DEF BrokerIInv
<1>1. Leased'
    BY <1>0, HandleFacts, Zenon DEF TypeOK, Leased, Over
<1>2. Fresh'
    BY <1>0 DEF TypeOK, Fresh, Over
<1>3. Unanswered'
    BY <1>0 DEF TypeOK, Unanswered, Over
<1>4. Posted' /\ Listed' /\ Told' /\ Delivering' /\ ChannelAgrees' /\ AnswersAgree'
    BY DEF BrokerIInv, Posted, Listed, Told, Delivering, ChannelAgrees, AnswersAgree, Unlisted
<1> QED
    BY <1>1, <1>2, <1>3, <1>4, Zenon DEF BrokerIInv

LEMMA HandleEndsInv ==
    ASSUME BrokerIInv, NEW n \in Handle, NEW status \in Over, HandleEnds(n, status)
    PROVE  BrokerIInv'
<1> USE DEF HandleEnds, queueVars
<1>0. TypeOK /\ Leased
    BY Zenon DEF BrokerIInv
<1>1. TypeOK'
    BY <1>0, HandleFacts, Zenon DEF TypeOK, promptVars, postVars
<1>2. handle' = [handle EXCEPT ![n] = IF @ = "open" THEN status ELSE @] /\ lease' = IF lease = n THEN 0 ELSE lease
    BY <1>0, Zenon DEF TypeOK, Leased
<1> QED
    BY <1>1, <1>2, EndedInv, Zenon

LEMMA CancelRunInv == ASSUME BrokerIInv, CancelRun PROVE BrokerIInv'
<1> USE DEF CancelRun, queueVars
<1>0. TypeOK /\ entry \in Handle
    BY HandleFacts, Zenon DEF BrokerIInv, TypeOK
<1>1. PICK status \in {"ended", "indeterminate"} :
          handle' = [handle EXCEPT ![entry] = IF @ = "open" THEN status ELSE @]
    BY Zenon
<1>2. TypeOK'
    BY <1>0, <1>1, HandleFacts, Zenon DEF TypeOK, promptVars, postVars, Over
<1> QED
    BY <1>0, <1>1, <1>2, EndedInv, Zenon DEF Over

\* The second half of a teardown: all turns of the queue are told and leave it.
LEMMA UnregisterCloseInv ==
    ASSUME BrokerIInv, NEW x \in 0..MaxAttach, UnregisterClose(x) PROVE BrokerIInv'
<1> DEFINE q == taken[x]
<1> USE DEF UnregisterClose, postVars
<1>0. TypeOK /\ Listed /\ Told /\ Fresh /\ q \in Handle
    BY HandleFacts, Zenon DEF BrokerIInv, TypeOK
<1>1. /\ channel' = [h \in Handle |-> [t \in Turn |-> IF pending[q][t] = h THEN "closed" ELSE channel[h][t]]]
      /\ pending' = [pending EXCEPT ![q] = [t \in Turn |-> 0]]
      /\ UNCHANGED <<handle, lease, prompt, at, saved, post, acked>>
    BY Zenon DEF Torn
<1> HIDE DEF q
<1>2. TypeOK'
  <2>1. channel' \in [Handle -> [Turn -> {"none", "closed"} \cup Answer]]
    BY <1>0, <1>1 DEF TypeOK
  <2>2. pending' \in [Handle -> [Turn -> 0..MaxAttach]]
    <3>1. [t \in Turn |-> 0] \in [Turn -> 0..MaxAttach]
      BY HandleFacts, Zenon
    <3> QED
      BY <1>0, <1>1, <3>1, Zenon DEF TypeOK
  <2>3. /\ attach' \in [Handle -> {"idle", "checked", "reserved", "failed", "resumed", "attached", "over"}]
        /\ pump' \in [Handle -> {"none", "run", "take", "done"}]
        /\ cancel' \in [pc : {"idle", "take"}, handle : 0..MaxAttach]
        /\ completed' \in [Handle -> BOOLEAN]
    BY <1>0, Zenon DEF TypeOK, Torn, Handle
  <2>4. closed' \in [Handle -> BOOLEAN] /\ taken' \in [0..MaxAttach -> 0..MaxAttach]
    BY <1>0, HandleFacts, Zenon DEF TypeOK
  <2> QED
    BY <1>0, <1>1, <2>1, <2>2, <2>3, <2>4 DEF TypeOK, Torn
<1>3. \A p \in Handle, t \in Turn : pending'[p][t] = IF p = q THEN 0 ELSE pending[p][t]
    BY <1>0, <1>1 DEF TypeOK
<1>4. \A h \in Handle, t \in Turn : channel'[h][t] = IF pending[q][t] = h THEN "closed" ELSE channel[h][t]
    BY <1>1
<1>5. Listed'
    BY <1>0, <1>1, <1>3, HandleFacts DEF Listed
<1>6. Told'
    BY <1>0, <1>1, <1>3, <1>4, HandleFacts DEF Told, Listed, Unlisted, Early
<1>7. Delivering' /\ Unanswered'
    BY <1>1, <1>3, HandleFacts DEF BrokerIInv, Delivering, Unanswered, Unlisted, Posted
<1>8. ChannelAgrees'
    BY <1>1, <1>4, BrokerAssumption DEF BrokerIInv, ChannelAgrees
<1>9. Posted' /\ Leased' /\ AnswersAgree'
    BY <1>1 DEF BrokerIInv, Posted, Leased, AnswersAgree
<1>10. Fresh'
    BY <1>0, <1>1 DEF Fresh, Torn, TypeOK, Handle
<1> QED
    BY <1>2, <1>5, <1>6, <1>7, <1>8, <1>9, <1>10, Zenon DEF BrokerIInv

\* A step of the prompt for turn t of handle h that lists nothing: its turn is not listed
\* afterwards, an answer it returns is the saved one, and no saved answer changes.
Moves(h, t, to) ==
    /\ handle[h] # "none" /\ prompt[h][t] \in Asking \cup {"idle"}
    /\ prompt' = [prompt EXCEPT ![h][t] = to]
    /\ to # "idle" /\ to # "wait" /\ (to \in Early => prompt[h][t] \in Early)
    /\ to = "insert" => saved'[t] \notin Answer
    /\ to \in Answer => saved[t] = to
    /\ \A g \in Handle, u \in Turn : g # h \/ u # t => at'[g][u] = at[g][u]
    /\ \A q \in Handle, u \in Turn : pending'[q][u] # 0 => pending'[q][u] = pending[q][u]
    /\ \A q \in Handle : pending'[q][t] # h
    /\ \A u \in Turn : saved[u] \in Answer => saved'[u] = saved[u]
    /\ \A u \in Turn : saved[u] \notin Answer => saved'[u] \notin Answer
    /\ UNCHANGED <<channel, handle, lease, attach, post, acked>>

LEMMA PromptInv ==
    ASSUME BrokerIInv, TypeOK', NEW h \in Handle, NEW t \in Turn, NEW to, Moves(h, t, to)
    PROVE  BrokerIInv'
<1> USE DEF Moves
<1>0. TypeOK /\ Posted /\ Leased /\ Fresh /\ Listed /\ Told /\ Delivering /\ Unanswered
      /\ ChannelAgrees /\ AnswersAgree
    BY Zenon DEF BrokerIInv
<1>1. \A g \in Handle, u \in Turn : prompt'[g][u] = IF g = h /\ u = t THEN to ELSE prompt[g][u]
  <2>1. prompt \in [Handle -> [Turn -> {"idle", "error", "cancelled"} \cup Asking \cup Answer]]
    BY <1>0, Zenon DEF TypeOK
  <2> QED
    BY <2>1, SetEntry
<1>2. Posted' /\ Leased'
    BY <1>0, Zenon DEF Posted, Leased
<1>3. Fresh'
    BY <1>0, <1>1 DEF Fresh
<1>4. Listed'
    BY <1>0, <1>1, HandleFacts DEF Listed
<1>5. \A g \in Handle, u \in Turn : Unlisted(g, u) => Unlisted(g, u)'
    BY <1>1, HandleFacts DEF Unlisted
<1>6. Told'
    BY <1>0, <1>5, Zenon DEF Told
<1>7. \A x \in Post : post[x].pc = "deliver" => post[x].answer \in Answer
    BY <1>0, Zenon DEF Posted
<1>8. Delivering'
    BY <1>0, <1>5, <1>7, Zenon DEF Delivering, Posted
<1>9. Unanswered'
    BY <1>0, <1>1, HandleFacts DEF Unanswered
<1>10. ChannelAgrees'
    BY <1>0, Zenon DEF ChannelAgrees
<1>11. AnswersAgree'
  <2>1. \A ta \in acked : ta[1] \in Turn /\ ta[2] \in Answer
    BY <1>0 DEF TypeOK
  <2>2. \A ta \in acked' : saved'[ta[1]] = ta[2]
    BY <1>0, <2>1, Zenon DEF AnswersAgree
  <2>3. \A g \in Handle, u \in Turn : prompt'[g][u] \in Answer => saved'[u] = prompt'[g][u]
    BY <1>0, <1>1 DEF AnswersAgree
  <2> QED
    BY <2>2, <2>3, Zenon DEF AnswersAgree
<1> QED
    BY <1>2, <1>3, <1>4, <1>6, <1>8, <1>9, <1>10, <1>11, Zenon DEF BrokerIInv

\* The facts about a prompt that is under way.
LEMMA AskingFacts ==
    ASSUME BrokerIInv, NEW h \in Handle, NEW t \in Turn, prompt[h][t] # "idle"
    PROVE  handle[h] # "none"
BY Zenon DEF BrokerIInv, Fresh

LEMMA EarlyFacts ==
    ASSUME BrokerIInv, NEW h \in Handle, NEW t \in Turn, prompt[h][t] # "wait"
    PROVE  \A q \in Handle : pending[q][t] # h
BY DEF BrokerIInv, Listed

LEMMA NotAnswers ==
    /\ "error" \notin Answer /\ "prepare" \notin Answer /\ "insert" \notin Answer
    /\ "cancelled" \notin Answer /\ "wait" \notin Answer /\ "idle" \notin Answer
    /\ "none" \notin Answer /\ "closed" \notin Answer /\ "pending" \notin Answer
BY BrokerAssumption, Zenon

LEMMA PromptCallInv == ASSUME BrokerIInv, NEW h \in Handle, NEW t \in Turn, Prompt(h, t) PROVE BrokerIInv'
<1> DEFINE to == IF cur = 0 THEN "error" ELSE "prepare"
<1> USE DEF Prompt, Prompts, queueVars, runVars, postVars
<1>0. TypeOK
    BY Zenon DEF BrokerIInv
<1>1. TypeOK'
    BY <1>0, Zenon DEF TypeOK, Asking
<1>2. \A q \in Handle : pending[q][t] # h
    BY EarlyFacts, Zenon
<1>3. prompt' = [prompt EXCEPT ![h][t] = to] /\ to \in {"error", "prepare"}
    BY Zenon
<1>4. \A g \in Handle, u \in Turn : g # h \/ u # t => at'[g][u] = at[g][u]
    BY <1>0, SetEntry DEF TypeOK
<1> HIDE DEF to
<1>5. Moves(h, t, to)
    BY <1>2, <1>3, <1>4, NotAnswers, Zenon DEF Moves, Early
<1> QED
    BY <1>1, <1>5, PromptInv, Zenon

LEMMA PrepareInv ==
    ASSUME BrokerIInv, NEW h \in Handle, NEW t \in Turn, PrepareInteraction(h, t) \/ PrepareFails(h, t)
    PROVE  BrokerIInv'
<1> USE DEF Prompts, queueVars, runVars, postVars
<1>0. TypeOK /\ prompt[h][t] = "prepare" /\ prompt[h][t] \in Early /\ prompt[h][t] \in Asking
    BY Zenon DEF BrokerIInv, PrepareInteraction, PrepareFails, Early, Asking
<1>1. handle[h] # "none" /\ \A q \in Handle : pending[q][t] # h
    BY <1>0, AskingFacts, EarlyFacts, Zenon
<1>2. CASE PrepareFails(h, t)
  <2>1. TypeOK'
    BY <1>0, <1>2, Zenon DEF PrepareFails, TypeOK
  <2>2. Moves(h, t, "error")
    BY <1>0, <1>1, <1>2, NotAnswers, Zenon DEF PrepareFails, Moves, Early
  <2> QED
    BY <1>0, <1>1, <1>2, <2>1, <2>2, PromptInv, Zenon
<1>3. CASE PrepareInteraction(h, t) /\ saved[t] \in Answer
  <2>1. prompt' = [prompt EXCEPT ![h][t] = saved[t]] /\ UNCHANGED saved
    BY <1>3, Zenon DEF PrepareInteraction
  <2>2. TypeOK'
    BY <1>0, <1>3, <2>1, Zenon DEF PrepareInteraction, TypeOK
  <2>3. Moves(h, t, saved[t])
    BY <1>0, <1>1, <1>3, <2>1, NotAnswers, Zenon DEF PrepareInteraction, Moves, Early
  <2> QED
    BY <2>2, <2>3, PromptInv, Zenon
<1>4. CASE PrepareInteraction(h, t) /\ saved[t] \notin Answer
  <2>1. prompt' = [prompt EXCEPT ![h][t] = "insert"] /\ saved' = [saved EXCEPT ![t] = "pending"]
    BY <1>4, Zenon DEF PrepareInteraction
  <2>2. TypeOK'
    BY <1>0, <1>4, <2>1, Zenon DEF PrepareInteraction, TypeOK, Asking
  <2>3. \A u \in Turn : saved'[u] = IF u = t THEN "pending" ELSE saved[u]
    BY <1>0, <2>1, Zenon DEF TypeOK
  <2>4. Moves(h, t, "insert")
    BY <1>0, <1>1, <1>4, <2>1, <2>3, NotAnswers, Zenon DEF PrepareInteraction, Moves, Early
  <2> QED
    BY <2>2, <2>4, PromptInv, Zenon
<1> QED
    BY <1>2, <1>3, <1>4, Zenon

\* The turn is listed, in the queue that the prompt found, unless that is closed.
LEMMA InsertInv == ASSUME BrokerIInv, NEW h \in Handle, NEW t \in Turn, Insert(h, t) PROVE BrokerIInv'
<1> USE DEF Insert, Prompts, runVars, postVars
<1>0. TypeOK /\ Posted /\ Leased /\ Fresh /\ Listed /\ Told /\ Delivering /\ Unanswered
      /\ ChannelAgrees /\ AnswersAgree
    BY Zenon DEF BrokerIInv
<1>a. prompt[h][t] \in Early /\ prompt[h][t] \in Asking /\ handle[h] # "none"
      /\ \A q \in Handle : pending[q][t] # h
    BY AskingFacts, EarlyFacts, Zenon DEF Early, Asking
<1>1. CASE closed[at[h][t]]
  <2>1. prompt' = [prompt EXCEPT ![h][t] = "cancelled"] /\ UNCHANGED pending
    BY <1>1, Zenon
  <2>2. TypeOK'
    BY <1>0, <2>1, Zenon DEF TypeOK
  <2>3. Moves(h, t, "cancelled")
    BY <1>0, <1>a, <2>1, NotAnswers, Zenon DEF Moves, Early
  <2> QED
    BY <2>2, <2>3, PromptInv, Zenon
<1>2. CASE ~closed[at[h][t]]
  <2>1. prompt' = [prompt EXCEPT ![h][t] = "wait"] /\ pending' = [pending EXCEPT ![at[h][t]][t] = h]
    BY <1>2, Zenon
  <2>2. TypeOK'
    BY <1>0, <2>1, HandleFacts, Zenon DEF TypeOK, Asking
  <2>3. \A g \in Handle, u \in Turn : prompt'[g][u] = IF g = h /\ u = t THEN "wait" ELSE prompt[g][u]
    BY <1>0, <2>1, Zenon DEF TypeOK
  <2>4. \A q \in Handle, u \in Turn :
            pending'[q][u] = IF q = at[h][t] /\ u = t THEN h ELSE pending[q][u]
    BY <1>0, <2>1 DEF TypeOK
  <2>5. Posted' /\ Leased' /\ ChannelAgrees'
    BY <1>0, Zenon DEF Posted, Leased, ChannelAgrees
  <2>6. Fresh'
    BY <1>0, <1>a, <2>3 DEF Fresh
  <2>7. Listed'
    BY <1>0, <1>a, <2>3, <2>4 DEF Listed, Early
  <2>8. \A g \in Handle, u \in Turn : Unlisted(g, u) => Unlisted(g, u)'
    BY <1>a, <2>3, <2>4 DEF Unlisted
  <2>9. Told'
    BY <1>0, <2>8, Zenon DEF Told
  <2>10. Delivering'
    BY <1>0, <2>8, Zenon DEF Delivering, Posted
  <2>11. Unanswered'
    BY <1>0, <2>3, <2>4, HandleFacts DEF Unanswered
  <2>12. AnswersAgree'
    BY <1>0, <2>3, NotAnswers DEF AnswersAgree
  <2> QED
    BY <2>2, <2>5, <2>6, <2>7, <2>9, <2>10, <2>11, <2>12, Zenon DEF BrokerIInv
<1> QED
    BY <1>1, <1>2, Zenon

\* The prompt reads its channel, whose turn is not listed any more.
LEMMA ReceiveInv == ASSUME BrokerIInv, NEW h \in Handle, NEW t \in Turn, Receive(h, t) PROVE BrokerIInv'
<1> DEFINE to == IF channel[h][t] = "closed" THEN "cancelled" ELSE channel[h][t]
<1> USE DEF Receive, Prompts, queueVars, runVars, postVars
<1>0. TypeOK /\ handle[h] # "none" /\ (\A q \in Handle : pending[q][t] # h) /\ prompt[h][t] \in Asking
    BY AskingFacts, Zenon DEF BrokerIInv, Told, Unlisted, Asking
<1>1. prompt' = [prompt EXCEPT ![h][t] = to]
    BY Zenon
<1>2. to = "cancelled" \/ (to \in Answer /\ saved[t] = to)
    BY <1>0 DEF BrokerIInv, TypeOK, ChannelAgrees
<1> HIDE DEF to
<1>3. TypeOK'
    BY <1>0, <1>1, <1>2 DEF TypeOK
<1>4. Moves(h, t, to)
    BY <1>0, <1>1, <1>2, NotAnswers, Zenon DEF Moves, Early
<1> QED
    BY <1>3, <1>4, PromptInv, Zenon

\* The prompt's context is done, and its turn leaves the queue.
LEMMA CtxDoneInv == ASSUME BrokerIInv, NEW h \in Handle, NEW t \in Turn, CtxDone(h, t) PROVE BrokerIInv'
<1> USE DEF CtxDone, Prompts, queueVars, runVars, postVars
<1>0. TypeOK /\ Listed /\ handle[h] # "none" /\ prompt[h][t] \in Asking
    BY AskingFacts, Zenon DEF BrokerIInv, Asking
<1>1. TypeOK'
    BY <1>0, HandleFacts, Zenon DEF TypeOK
<1>2. \A q \in Handle, u \in Turn :
          pending'[q][u] = IF q = at[h][t] /\ u = t THEN 0 ELSE pending[q][u]
    BY <1>0, SetEntry DEF TypeOK
<1>3. \A q \in Handle : pending'[q][t] # h
    BY <1>0, <1>2, HandleFacts DEF Listed
<1>4. Moves(h, t, "cancelled")
    BY <1>0, <1>2, <1>3, NotAnswers DEF Moves, Early
<1> QED
    BY <1>1, <1>4, PromptInv, Zenon

\* A post that only found its queue, or is done, is about to deliver nothing.
LEMMA PostInv ==
    ASSUME BrokerIInv, NEW x \in Post, NEW r,
           r \in [pc : {"found", "done"}, queue : 0..MaxAttach, turn : Turn \cup {None},
                  answer : Answer \cup {None}],
           r.pc = "found" => r.queue \in Handle /\ r.turn \in Turn /\ r.answer \in Answer,
           post' = [post EXCEPT ![x] = r],
           UNCHANGED <<saved, acked, queueVars, runVars, promptVars, taken>>
    PROVE  BrokerIInv'
<1> USE DEF queueVars, runVars, promptVars
<1>0. TypeOK /\ Posted /\ Delivering
    BY Zenon DEF BrokerIInv
<1>1. TypeOK'
    BY <1>0, Zenon DEF TypeOK
<1>2. \A y \in Post : post'[y] = IF y = x THEN r ELSE post[y]
    BY <1>0, Zenon DEF TypeOK
<1>3. Posted'
    BY <1>0, <1>2, Zenon DEF Posted
<1>4. Delivering'
    BY <1>0, <1>2 DEF Delivering, Unlisted
<1>5. Leased' /\ Fresh' /\ Listed' /\ Told' /\ Unanswered' /\ ChannelAgrees' /\ AnswersAgree'
    BY DEF BrokerIInv, Leased, Fresh, Listed, Told, Unlisted, Unanswered, ChannelAgrees, AnswersAgree
<1> QED
    BY <1>1, <1>3, <1>4, <1>5, Zenon DEF BrokerIInv

LEMMA AnswerFindsInv ==
    ASSUME BrokerIInv, NEW x \in Post, NEW t \in Turn, NEW a \in Answer, AnswerFinds(x, t, a)
    PROVE  BrokerIInv'
<1> DEFINE r == [pc |-> "found", queue |-> cur, turn |-> t, answer |-> a]
<1>1. cur \in Handle /\ cur \in 0..MaxAttach
    BY HandleFacts, Zenon DEF AnswerFinds, BrokerIInv, TypeOK
<1>2. /\ r \in [pc : {"found", "done"}, queue : 0..MaxAttach, turn : Turn \cup {None},
                answer : Answer \cup {None}]
      /\ r.queue \in Handle /\ r.turn \in Turn /\ r.answer \in Answer
    BY <1>1, Zenon
<1>3. post' = [post EXCEPT ![x] = r] /\ UNCHANGED <<saved, acked, queueVars, runVars, promptVars, taken>>
    BY Zenon DEF AnswerFinds
<1> HIDE DEF r
<1> QED
    BY <1>2, <1>3, PostInv, Zenon

LEMMA ReplyFields ==
    /\ Replied \in [pc : {"found", "done"}, queue : 0..MaxAttach, turn : Turn \cup {None},
                    answer : Answer \cup {None}]
    /\ Replied.pc = "done"
BY BrokerAssumption DEF Replied, NoPost

LEMMA AnswerRefusedInv == ASSUME BrokerIInv, NEW x \in Post, AnswerRefused(x) PROVE BrokerIInv'
BY ReplyFields, PostInv, Zenon DEF AnswerRefused

\* The commit of an answer: its handle is open, hence the turn was not answered.
LEMMA AnswerCommitsInv == ASSUME BrokerIInv, NEW x \in Post, AnswerCommits(x) PROVE BrokerIInv'
<1>0. TypeOK /\ Posted /\ Leased /\ Fresh /\ Listed /\ Told /\ Delivering /\ Unanswered
      /\ ChannelAgrees /\ AnswersAgree
    BY Zenon DEF BrokerIInv
<1>1. PICK q \in Handle, t \in Turn, a \in Answer : post[x].queue = q /\ post[x].turn = t /\ post[x].answer = a
    BY <1>0, Zenon DEF Posted, AnswerCommits
<1>2. PICK h \in Handle : pending[q][t] = h /\ handle[h] = "open"
    BY <1>0, <1>1, HandleFacts DEF TypeOK, AnswerCommits, Owner
<1>3. prompt[h][t] = "wait" /\ at[h][t] = q /\ saved[t] \notin Answer
    BY <1>0, <1>2 DEF Listed, Unanswered
<1>4. /\ saved' = [saved EXCEPT ![t] = a] /\ pending' = [pending EXCEPT ![q][t] = 0]
      /\ post' = [post EXCEPT ![x].pc = "deliver", ![x].queue = h]
    BY <1>1, <1>2, Zenon DEF AnswerCommits, Owner
<1>u. UNCHANGED <<acked, cur, closed, runVars, promptVars, taken>>
    BY Zenon DEF AnswerCommits
<1> USE <1>u DEF runVars, promptVars
<1>p. pending \in [Handle -> [Turn -> 0..MaxAttach]] /\ 0 \in 0..MaxAttach /\ h \in 0..MaxAttach
    BY <1>0, HandleFacts, Zenon DEF TypeOK
<1>q. post \in [Post -> [pc : {"idle", "found", "deliver", "done"}, queue : 0..MaxAttach,
                         turn : Turn \cup {None}, answer : Answer \cup {None}]]
    BY <1>0, Zenon DEF TypeOK
<1>5. TypeOK'
  <2>1. pending' \in [Handle -> [Turn -> 0..MaxAttach]]
    BY <1>4, <1>p, SetEntry, Zenon
  <2>2. post' \in [Post -> [pc : {"idle", "found", "deliver", "done"}, queue : 0..MaxAttach,
                         turn : Turn \cup {None}, answer : Answer \cup {None}]]
    <3>1. post' = [post EXCEPT ![x] = [post[x] EXCEPT !.pc = "deliver", !.queue = h]]
      BY <1>4, <1>q, Zenon
    <3>2. [post[x] EXCEPT !.pc = "deliver", !.queue = h] \in
              [pc : {"idle", "found", "deliver", "done"}, queue : 0..MaxAttach,
               turn : Turn \cup {None}, answer : Answer \cup {None}]
      BY <1>p, <1>q, Zenon
    <3> QED
      BY <1>q, <3>1, <3>2, Zenon
  <2>3. saved' \in [Turn -> {"none", "pending"} \cup Answer]
    BY <1>0, <1>4, Zenon DEF TypeOK
  <2> QED
    BY <1>0, <2>1, <2>2, <2>3, Zenon DEF TypeOK
<1>6. \A u \in Turn : saved'[u] = IF u = t THEN a ELSE saved[u]
    BY <1>0, <1>4, Zenon DEF TypeOK
<1>7. \A p \in Handle, u \in Turn : pending'[p][u] = IF p = q /\ u = t THEN 0 ELSE pending[p][u]
    BY <1>4, <1>p, SetEntry
<1>8. /\ post'[x].pc = "deliver" /\ post'[x].queue = h /\ post'[x].turn = t /\ post'[x].answer = a
      /\ \A y \in Post : y # x => post'[y] = post[y]
    BY <1>1, <1>4, <1>q, Zenon
<1>9. Posted'
    BY <1>0, <1>1, <1>2, <1>8, Zenon DEF Posted
<1>10. Leased' /\ Fresh'
    BY <1>0, Zenon DEF Leased, Fresh
<1>11. Listed'
    BY <1>0, <1>7, HandleFacts DEF Listed
<1>12. \A g \in Handle, u \in Turn : Unlisted(g, u) => Unlisted(g, u)'
    BY <1>7, HandleFacts DEF Unlisted
<1>13. Told'
    BY <1>0, <1>12, Zenon DEF Told
<1>14. Unlisted(h, t)'
    BY <1>0, <1>1, <1>2, <1>3, <1>7, HandleFacts DEF Unlisted, Early, Listed
<1>15. Delivering'
  <2> SUFFICES ASSUME NEW y \in Post, post'[y].pc = "deliver"
               PROVE  Unlisted(post[y].queue, post[y].turn)' /\ saved'[post'[y].turn] = post'[y].answer
    BY Zenon DEF Delivering
  <2>1. CASE y = x
    BY <1>1, <1>6, <1>8, <1>14, <2>1, Zenon
  <2>2. CASE y # x
    BY <1>0, <1>3, <1>6, <1>8, <1>12, <2>2 DEF Delivering, Posted
  <2> QED
    BY <2>1, <2>2, Zenon
<1>16. Unanswered'
  <2> SUFFICES ASSUME NEW g \in Handle, NEW u \in Turn, handle[g] = "open",
                      prompt[g][u] = "insert" \/ \E p \in Handle : pending'[p][u] = g
               PROVE  saved'[u] \notin Answer
    BY Zenon DEF Unanswered
  <2>1. g = h
    BY <1>0, <1>2, Zenon DEF Leased
  <2>2. u # t
    BY <1>14, <2>1, Zenon DEF Unlisted, Early
  <2>3. prompt[g][u] = "insert" \/ \E p \in Handle : pending[p][u] = g
    BY <1>7, <2>2, Zenon
  <2> QED
    BY <1>0, <1>6, <2>2, <2>3, Zenon DEF Unanswered
<1>17. ChannelAgrees'
    BY <1>0, <1>3, <1>6, Zenon DEF ChannelAgrees
<1>18. AnswersAgree'
  <2>1. \A ta \in acked : ta[1] \in Turn /\ ta[2] \in Answer
    BY <1>0, Zenon DEF TypeOK
  <2>2. \A ta \in acked' : saved'[ta[1]] = ta[2]
    BY <1>0, <1>3, <1>6, <2>1, Zenon DEF AnswersAgree
  <2>3. \A g \in Handle, u \in Turn : prompt'[g][u] \in Answer => saved'[u] = prompt'[g][u]
    BY <1>0, <1>3, <1>6 DEF AnswersAgree
  <2> QED
    BY <2>2, <2>3, Zenon DEF AnswersAgree
<1> QED
    BY <1>5, <1>9, <1>10, <1>11, <1>13, <1>15, <1>16, <1>17, <1>18, Zenon DEF BrokerIInv

\* The saved answer reaches the prompt's channel and the client.
LEMMA AnswerDeliversInv == ASSUME BrokerIInv, NEW x \in Post, AnswerDelivers(x) PROVE BrokerIInv'
<1> USE DEF AnswerDelivers, queueVars, runVars
<1>0. TypeOK /\ Posted /\ Leased /\ Fresh /\ Listed /\ Told /\ Delivering /\ Unanswered
      /\ ChannelAgrees /\ AnswersAgree
    BY Zenon DEF BrokerIInv
<1>a. PICK h \in Handle, t \in Turn, a \in Answer : post[x].queue = h /\ post[x].turn = t /\ post[x].answer = a
    BY <1>0, Zenon DEF Posted
<1>1. Unlisted(h, t) /\ saved[t] = a
    BY <1>0, <1>a, Zenon DEF Delivering
<1>2. /\ channel' = [channel EXCEPT ![h][t] = IF @ = "none" THEN a ELSE @]
      /\ acked' = acked \cup {<<t, a>>} /\ post' = [post EXCEPT ![x] = Replied]
    BY <1>a, Zenon
<1>3. TypeOK'
  <2>1. channel' \in [Handle -> [Turn -> {"none", "closed"} \cup Answer]]
    <3> DEFINE C == {"none", "closed"} \cup Answer
    <3>1. channel \in [Handle -> [Turn -> C]] /\ a \in C
      BY <1>0, Zenon DEF TypeOK
    <3> HIDE DEF C
    <3>2. channel' = [channel EXCEPT ![h][t] = IF channel[h][t] = "none" THEN a ELSE channel[h][t]]
      BY <1>2, <3>1, Zenon
    <3>3. PICK c \in C : c = IF channel[h][t] = "none" THEN a ELSE channel[h][t]
      BY <3>1, Zenon
    <3>4. channel' = [channel EXCEPT ![h][t] = c]
      BY <3>2, <3>3, Zenon
    <3>5. channel' \in [Handle -> [Turn -> C]]
      BY ONLY <3>1, <3>4, SetEntry, c \in C, Zenon
    <3> QED
      BY <3>1, <3>4, <3>5, Zenon DEF C
  <2>2. acked' \subseteq Turn \X Answer
    BY <1>0, <1>1, <1>2 DEF TypeOK
  <2>3. post' \in [Post -> [pc : {"idle", "found", "deliver", "done"}, queue : 0..MaxAttach,
                         turn : Turn \cup {None}, answer : Answer \cup {None}]]
    BY <1>0, <1>2, ReplyFields DEF TypeOK
  <2> QED
    BY <1>0, <2>1, <2>2, <2>3, Zenon DEF TypeOK
<1>4. \A g \in Handle, u \in Turn : channel'[g][u] =
          IF g = h /\ u = t THEN (IF channel[g][u] = "none" THEN a ELSE channel[g][u]) ELSE channel[g][u]
    BY <1>0, <1>1, <1>2 DEF TypeOK
<1>5. \A y \in Post : post'[y] = IF y = x THEN Replied ELSE post[y]
    BY <1>0, <1>2, Zenon DEF TypeOK
<1>6. Posted'
    BY <1>0, <1>5, ReplyFields, Zenon DEF Posted
<1>7. Delivering'
    BY <1>0, <1>5, ReplyFields DEF Delivering, Unlisted
<1>8. Told'
    BY <1>0, <1>1, <1>4 DEF Told, Unlisted
<1>9. ChannelAgrees'
    BY <1>0, <1>1, <1>4 DEF ChannelAgrees
<1>10. AnswersAgree'
    BY <1>0, <1>1, <1>2 DEF AnswersAgree
<1>11. Leased' /\ Fresh' /\ Listed' /\ Unanswered'
    BY <1>0 DEF Leased, Fresh, Listed, Unanswered
<1> QED
    BY <1>3, <1>6, <1>7, <1>8, <1>9, <1>10, <1>11, Zenon DEF BrokerIInv

LEMMA NextInv == BrokerIInv /\ [Next]_vars => BrokerIInv'
<1> SUFFICES ASSUME BrokerIInv, [Next]_vars PROVE BrokerIInv'
    BY Zenon
<1>1. CASE UNCHANGED vars
  <2>1. TypeOK'
    BY <1>1, Zenon DEF BrokerIInv, TypeOK, vars
  <2> QED
    BY <1>1, <2>1, FrameInv, Zenon DEF vars, promptVars, postVars
<1>2. CASE Next
    BY <1>2, AttachingInv, ResumeInv, TakingInv, HandleEndsInv, CancelRunInv, UnregisterCloseInv,
       PromptCallInv, PrepareInv, InsertInv, ReceiveInv, CtxDoneInv, AnswerFindsInv, AnswerRefusedInv,
       AnswerCommitsInv, AnswerDeliversInv, Zenon
    DEF Next, Attaching, Teardown, Prompting, Answering
<1> QED
    BY <1>1, <1>2, Zenon

\* In every state the queues, the turns listed in them, the posted answers and the run's
\* checkpoint agree: a turn is delivered by the request that committed its answer, and
\* only once (prepareInteraction, AnswerCommand, pumpEvents, Unregister).
THEOREM BrokerInductive == Spec => []BrokerIInv
BY InitInv, NextInv, PTL DEF Spec

\* Whatever attaches, ends, is cancelled or torn down, and in whatever order answers
\* are posted: an answer that a client was told is accepted and an answer that a prompt
\* returned is the one in the run's checkpoint (AnswerCommand commits before it delivers).
THEOREM AnswersAgreeAlways == Spec => []AnswersAgree
<1>1. BrokerIInv => AnswersAgree
    BY Zenon DEF BrokerIInv
<1> QED
    BY <1>1, BrokerInductive, PTL

----------------------------------------------------------------------------
(* A prompt that waits can be reached.                                      *)

Unregistered == {"idle", "checked"}

\* The queue of an attachment stays registered until a teardown takes it, which then
\* closes it.
Registered ==
    \A n \in Handle : attach[n] \notin Unregistered =>
        cur = n \/ closed[n] \/ \E x \in 0..MaxAttach : taken[x] = n

\* A prompt looks for its queue once.
Placed ==
    \A h \in Handle, t \in Turn :
        /\ prompt[h][t] = "idle" => at[h][t] = 0
        /\ prompt[h][t] \in Asking => at[h][t] # 0
        /\ at[h][t] = h => attach[h] \notin Unregistered

Reached(h, t) ==
    \/ channel[h][t] # "none"
    \/ \E x \in Post : post[x].pc = "deliver" /\ post[x].queue = h /\ post[x].turn = t
    \/ pending[h][t] = h /\ (cur = h \/ \E x \in 0..MaxAttach : taken[x] = h)

Waits == OwnQueues => \A h \in Handle, t \in Turn : prompt[h][t] = "wait" => Reached(h, t)

WaitIInv == BrokerIInv /\ Registered /\ Placed /\ Waits

LEMMA WaitReachable == WaitIInv => WaitingReachable
<1> SUFFICES ASSUME WaitIInv, OwnQueues, NEW h \in Handle, NEW t \in Turn, prompt[h][t] = "wait"
             PROVE  \/ channel[h][t] # "none"
                    \/ \E x \in Post : post[x].pc = "deliver" /\ post[x].queue = h /\ post[x].turn = t
                    \/ /\ pending[at[h][t]][t] = h
                       /\ at[h][t] = cur \/ \E x \in 0..MaxAttach : taken[x] = at[h][t]
    BY Zenon DEF WaitingReachable
<1>1. at[h][t] = h
    BY Zenon DEF WaitIInv, Placed, OwnQueues, Asking
<1>2. Reached(h, t)
    BY Zenon DEF WaitIInv, Waits
<1> QED
    BY <1>1, <1>2, Zenon DEF Reached

\* A step that moves no queue, prompt or answer.
LEMMA WaitFrame ==
    ASSUME WaitIInv, BrokerIInv', UNCHANGED <<queueVars, promptVars, postVars, taken>>,
           \A n \in Handle : attach'[n] \in Unregistered <=> attach[n] \in Unregistered
    PROVE  WaitIInv'
<1> USE DEF queueVars, promptVars, postVars
<1>1. Registered' /\ Placed'
    BY Zenon DEF WaitIInv, Registered, Placed
<1>2. Waits'
    BY DEF WaitIInv, Waits, Reached, OwnQueues
<1> QED
    BY <1>1, <1>2, Zenon DEF WaitIInv

LEMMA WaitRunSteps ==
    ASSUME WaitIInv, BrokerIInv',
           \/ \E n \in Handle : CheckEntry(n) \/ Resume(n) \/ ResumeFails(n) \/ AddEntry(n) \/ PumpSees(n)
           \/ \E n \in Handle, status \in Over : HandleEnds(n, status)
           \/ CancelRun \/ GC
           \/ \E x \in 0..MaxAttach : UnregisterNothing(x)
    PROVE  WaitIInv'
<1>1. UNCHANGED <<queueVars, promptVars, postVars, taken>>
    BY Zenon DEF CheckEntry, Resume, ResumeFails, AddEntry, PumpSees, HandleEnds, CancelRun, GC, UnregisterNothing
<1>2. attach \in [Handle -> {"idle", "checked", "reserved", "failed", "resumed", "attached", "over"}]
    BY Zenon DEF WaitIInv, BrokerIInv, TypeOK
<1>3. \A n \in Handle : attach'[n] \in Unregistered <=> attach[n] \in Unregistered
  <2>1. CASE \E n \in Handle : CheckEntry(n) \/ Resume(n) \/ ResumeFails(n) \/ AddEntry(n)
    BY <1>2, <2>1, Zenon DEF CheckEntry, Resume, ResumeFails, AddEntry, Unregistered
  <2>2. CASE \E x \in 0..MaxAttach : UnregisterNothing(x)
    BY <1>2, <2>2, Zenon DEF UnregisterNothing, Torn, Unregistered, Handle
  <2>3. CASE UNCHANGED attach
    BY <2>3, Zenon
  <2> QED
    BY <2>1, <2>2, <2>3, Zenon DEF PumpSees, HandleEnds, CancelRun, GC
<1> QED
    BY <1>1, <1>3, WaitFrame, Zenon

\* A queue is registered where there was none.
LEMMA WaitRegister ==
    ASSUME WaitIInv, BrokerIInv', NEW n \in Handle, registerExclusive(n) PROVE WaitIInv'
<1> USE DEF registerExclusive, promptVars, postVars
<1>1. TypeOK /\ attach[n] \in Unregistered
    BY Zenon DEF WaitIInv, BrokerIInv, Unregistered
<1>2. CASE cur # 0
  <2>1. attach' = [attach EXCEPT ![n] = "idle"] /\ UNCHANGED cur
    BY <1>2, Zenon
  <2>2. \A m \in Handle : attach'[m] \in Unregistered <=> attach[m] \in Unregistered
    BY <1>1, <2>1, Zenon DEF TypeOK, Unregistered
  <2> QED
    BY <2>1, <2>2, WaitFrame, Zenon DEF queueVars
<1>3. CASE cur = 0
  <2>1. attach' = [attach EXCEPT ![n] = "reserved"] /\ cur' = n
    BY <1>3, Zenon
  <2>2. \A m \in Handle : attach'[m] = IF m = n THEN "reserved" ELSE attach[m]
    BY <1>1, <2>1, Zenon DEF TypeOK
  <2>3. Registered'
    BY <1>3, <2>1, <2>2, HandleFacts, Zenon DEF WaitIInv, Registered
  <2>4. Placed'
    BY <2>2, Zenon DEF WaitIInv, Placed, Unregistered
  <2>5. Waits'
    BY <1>3, HandleFacts DEF WaitIInv, Waits, Reached, OwnQueues
  <2> QED
    BY <2>3, <2>4, <2>5, Zenon DEF WaitIInv
<1> QED
    BY <1>2, <1>3, Zenon

\* A queue that is taken out of the map will be closed.
LEMMA WaitTake ==
    ASSUME WaitIInv, BrokerIInv', NEW x \in 0..MaxAttach, UnregisterTake(x) PROVE WaitIInv'
<1> USE DEF UnregisterTake, runVars, promptVars, postVars
<1>1. \A y \in 0..MaxAttach : taken'[y] = IF y = x THEN cur ELSE taken[y]
    BY Zenon DEF WaitIInv, BrokerIInv, TypeOK
<1>2. \A n \in Handle : cur = n \/ (\E y \in 0..MaxAttach : taken[y] = n) =>
          \E y \in 0..MaxAttach : taken'[y] = n
    BY <1>1, HandleFacts, Zenon
<1>3. Registered' /\ Placed'
    BY <1>2, Zenon DEF WaitIInv, Registered, Placed
<1>4. Waits'
    BY <1>2 DEF WaitIInv, Waits, Reached, OwnQueues
<1> QED
    BY <1>3, <1>4, Zenon DEF WaitIInv

\* When it is closed, the prompts whose turns are in it are told.
LEMMA WaitClose ==
    ASSUME WaitIInv, BrokerIInv', NEW x \in 0..MaxAttach, UnregisterClose(x) PROVE WaitIInv'
<1>0. TypeOK
    BY Zenon DEF WaitIInv, BrokerIInv
<1>q. PICK q \in Handle : taken[x] = q
    BY <1>0, HandleFacts, Zenon DEF TypeOK, UnregisterClose
<1>1. /\ closed' = [closed EXCEPT ![q] = TRUE] /\ taken' = [taken EXCEPT ![x] = 0]
      /\ channel' = [h \in Handle |-> [t \in Turn |-> IF pending[q][t] = h THEN "closed" ELSE channel[h][t]]]
      /\ pending' = [pending EXCEPT ![q] = [t \in Turn |-> 0]]
      /\ UNCHANGED <<cur, prompt, at, saved, post, acked>> /\ Torn(x)
    BY <1>q, Zenon DEF UnregisterClose, postVars
<1>2. \A p \in Handle, t \in Turn : pending'[p][t] = IF p = q THEN 0 ELSE pending[p][t]
    BY <1>0, <1>1, Zenon DEF TypeOK
<1>3. \A h \in Handle, t \in Turn : channel'[h][t] = IF pending[q][t] = h THEN "closed" ELSE channel[h][t]
    BY <1>1, Zenon
<1>4. /\ \A n \in Handle : closed'[n] = (n = q \/ closed[n])
      /\ \A y \in 0..MaxAttach : taken'[y] = IF y = x THEN 0 ELSE taken[y]
    BY <1>0, <1>1, Zenon DEF TypeOK
<1>5. \A n \in Handle : attach'[n] \in Unregistered <=> attach[n] \in Unregistered
    BY <1>0, <1>1, Zenon DEF TypeOK, Torn, Unregistered, Handle
<1>6. \A n \in Handle : n # q /\ (\E y \in 0..MaxAttach : taken[y] = n) => \E y \in 0..MaxAttach : taken'[y] = n
    BY <1>q, <1>4, Zenon
<1>7. Registered'
    BY <1>1, <1>4, <1>5, <1>6, Zenon DEF WaitIInv, Registered
<1>8. Placed'
    BY <1>1, <1>5, Zenon DEF WaitIInv, Placed
<1>9. Waits'
  <2> SUFFICES ASSUME OwnQueues', NEW h \in Handle, NEW t \in Turn, prompt[h][t] = "wait"
               PROVE  Reached(h, t)'
    BY <1>1, Zenon DEF Waits
  <2>1. Reached(h, t)
    BY <1>1, Zenon DEF WaitIInv, Waits, OwnQueues
  <2>2. CASE pending[h][t] = h /\ h = q
    BY <1>3, <2>2, Zenon DEF Reached
  <2>3. CASE pending[h][t] = h /\ h # q
    <3>1. pending'[h][t] = h /\ (channel'[h][t] = "closed" \/ channel'[h][t] = channel[h][t])
      BY <1>2, <1>3, <2>3, Zenon
    <3>2. (\E y \in 0..MaxAttach : taken[y] = h) => \E y \in 0..MaxAttach : taken'[y] = h
      BY <1>6, <2>3, Zenon
    <3>3. "closed" # "none"
      OBVIOUS
    <3> QED
      BY <1>1, <2>1, <3>1, <3>2, <3>3, Zenon DEF Reached
  <2>4. CASE pending[h][t] # h
    BY <1>1, <1>3, <2>1, <2>4, Zenon DEF Reached
  <2> QED
    BY <2>2, <2>3, <2>4, Zenon
<1> QED
    BY <1>7, <1>8, <1>9, Zenon DEF WaitIInv

\* The prompt for turn t of handle h goes from one point to another, and does not wait.
LEMMA WaitPrompt ==
    ASSUME WaitIInv, BrokerIInv', NEW h \in Handle, NEW t \in Turn,
           Prompt(h, t) \/ PrepareInteraction(h, t) \/ PrepareFails(h, t) \/ Receive(h, t)
    PROVE  WaitIInv'
<1> USE DEF Prompts
<1>0. TypeOK /\ Placed
    BY Zenon DEF WaitIInv, BrokerIInv
<1>1. UNCHANGED <<channel, queueVars, runVars, post, acked, taken>>
    BY Zenon DEF Prompt, PrepareInteraction, PrepareFails, Receive, postVars
<1>2. PICK to : prompt' = [prompt EXCEPT ![h][t] = to] /\ to # "wait" /\ to # "idle"
                /\ (to \in Asking /\ Prompt(h, t) => cur # 0)
  <2>1. CASE Prompt(h, t)
    <3>1. (IF cur = 0 THEN "error" ELSE "prepare") \notin {"wait", "idle"}
      BY Zenon
    <3> QED
      BY <2>1, <3>1, Zenon DEF Prompt, Asking
  <2>2. CASE PrepareInteraction(h, t)
    BY <2>2, NotAnswers, Zenon DEF Prompt, PrepareInteraction
  <2>3. CASE PrepareFails(h, t)
    BY <2>3, Zenon DEF Prompt, PrepareFails
  <2>4. CASE Receive(h, t)
    <3>1. channel[h][t] \in {"closed"} \cup Answer
      BY <1>0, <2>4 DEF Receive, TypeOK
    <3>2. (IF channel[h][t] = "closed" THEN "cancelled" ELSE channel[h][t]) \notin {"wait", "idle"}
      BY <3>1, NotAnswers, Zenon
    <3> QED
      BY <2>4, <3>2, Zenon DEF Prompt, Receive
  <2> QED
    BY <2>1, <2>2, <2>3, <2>4, Zenon
<1>3. \A g \in Handle, u \in Turn : prompt'[g][u] = IF g = h /\ u = t THEN to ELSE prompt[g][u]
  <2>1. prompt \in [Handle -> [Turn -> {"idle", "error", "cancelled"} \cup Asking \cup Answer]]
    BY <1>0, Zenon DEF TypeOK
  <2> QED
    BY <1>2, <2>1, SetEntry
<1>4. \A g \in Handle, u \in Turn : at'[g][u] =
          IF Prompt(h, t) /\ g = h /\ u = t THEN cur ELSE at[g][u]
  <2>1. at \in [Handle -> [Turn -> 0..MaxAttach]]
    BY <1>0, Zenon DEF TypeOK
  <2> QED
    BY <2>1, SetEntry DEF Prompt, PrepareInteraction, PrepareFails, Receive
<1>5. OwnQueues' => OwnQueues
  <2>1. Prompt(h, t) => at[h][t] = 0
    BY <1>0, Zenon DEF Placed, Prompt
  <2> QED
    BY <1>4, <2>1, Zenon DEF OwnQueues
<1>6. Registered'
  <2>1. UNCHANGED <<cur, closed, attach, taken>> /\ Registered
    BY <1>1, Zenon DEF WaitIInv, queueVars, runVars
  <2> QED
    BY <2>1, Zenon DEF Registered
<1>7. Placed'
  <2> SUFFICES ASSUME NEW g \in Handle, NEW u \in Turn
               PROVE  /\ prompt'[g][u] = "idle" => at'[g][u] = 0
                      /\ prompt'[g][u] \in Asking => at'[g][u] # 0
                      /\ at'[g][u] = g => attach'[g] \notin Unregistered
    BY Zenon DEF Placed
  <2>0. attach' = attach
    BY <1>1, Zenon DEF runVars
  <2>1. CASE g # h \/ u # t
    <3>1. prompt'[g][u] = prompt[g][u] /\ at'[g][u] = at[g][u]
      BY <1>3, <1>4, <2>1, Zenon
    <3> QED
      BY <1>0, <2>0, <3>1, Zenon DEF Placed
  <2>2. CASE Prompt(h, t) /\ g = h /\ u = t
    <3>1. prompt'[g][u] = to /\ at'[g][u] = cur /\ attach'[g] = "attached"
      BY <1>1, <1>3, <1>4, <2>2 DEF Prompt, runVars
    <3> QED
      BY <1>2, <2>2, <3>1, Zenon DEF Unregistered
  <2>3. CASE ~Prompt(h, t) /\ g = h /\ u = t
    <3>1. prompt[h][t] \in {"prepare", "wait"}
      BY <2>3, Zenon DEF PrepareInteraction, PrepareFails, Receive
    <3>2. prompt'[g][u] = to /\ at'[g][u] = at[g][u]
      BY <1>3, <1>4, <2>3, Zenon
    <3> QED
      BY <1>0, <1>2, <2>0, <2>3, <3>1, <3>2, Zenon DEF Placed, Asking
  <2> QED
    BY <2>1, <2>2, <2>3, Zenon
<1>8. Waits'
    BY <1>1, <1>2, <1>3, <1>5 DEF WaitIInv, Waits, Reached, queueVars
<1> QED
    BY <1>6, <1>7, <1>8, Zenon DEF WaitIInv

\* The turn is listed in the attachment's own queue, which is not closed.
LEMMA WaitInsert ==
    ASSUME WaitIInv, BrokerIInv', NEW h \in Handle, NEW t \in Turn, Insert(h, t) PROVE WaitIInv'
<1>0. TypeOK /\ Placed /\ Registered
    BY Zenon DEF WaitIInv, BrokerIInv
<1>1. prompt[h][t] = "insert" /\ UNCHANGED <<at, channel, cur, closed, runVars, postVars, taken>>
    BY Zenon DEF Insert
<1>2. PICK to : /\ prompt' = [prompt EXCEPT ![h][t] = to] /\ to \in {"wait", "cancelled"}
                /\ to = "wait" => ~closed[at[h][t]] /\ pending' = [pending EXCEPT ![at[h][t]][t] = h]
                /\ to # "wait" => UNCHANGED pending
    BY Zenon DEF Insert, Prompts
<1>3. \A g \in Handle, u \in Turn : prompt'[g][u] = IF g = h /\ u = t THEN to ELSE prompt[g][u]
  <2>1. prompt \in [Handle -> [Turn -> {"idle", "error", "cancelled"} \cup Asking \cup Answer]]
    BY <1>0, Zenon DEF TypeOK
  <2> QED
    BY <1>2, <2>1, SetEntry
<1>4. \A q \in Handle, u \in Turn : pending'[q][u] =
          IF to = "wait" /\ q = at[h][t] /\ u = t THEN h ELSE pending[q][u]
  <2>1. pending \in [Handle -> [Turn -> 0..MaxAttach]]
    BY <1>0, Zenon DEF TypeOK
  <2>2. CASE to = "wait"
    <3>1. pending' = [pending EXCEPT ![at[h][t]][t] = h]
      BY <1>2, <2>2, Zenon
    <3>2. \A q \in Handle, u \in Turn : pending'[q][u] =
              IF q = at[h][t] /\ u = t THEN h ELSE pending[q][u]
      BY <2>1, <3>1, SetEntry
    <3> QED
      BY <2>2, <3>2, Zenon
  <2>3. CASE to # "wait"
    BY <1>2, <2>3, Zenon
  <2> QED
    BY <2>2, <2>3, Zenon
<1>5. Registered'
    BY <1>0, <1>1, Zenon DEF Registered, runVars
<1>6. Placed'
    BY <1>0, <1>1, <1>2, <1>3 DEF Placed, runVars, Asking
<1>7. Waits'
  <2> SUFFICES ASSUME OwnQueues, NEW g \in Handle, NEW u \in Turn, prompt'[g][u] = "wait"
               PROVE  Reached(g, u)'
    <3>1. OwnQueues' => OwnQueues
      BY <1>1, Zenon DEF OwnQueues
    <3> QED
      BY <3>1, Zenon DEF Waits
  <2>1. at[h][t] = h
    <3>1. at[h][t] # 0
      BY <1>0, <1>1, Zenon DEF Placed, Asking
    <3> QED
      BY <3>1, Zenon DEF OwnQueues
  <2>2. CASE g = h /\ u = t
    <3>1. to = "wait" /\ ~closed[h] /\ pending'[h][t] = h
      BY <1>2, <1>3, <1>4, <2>1, <2>2
    <3>2. cur = h \/ \E x \in 0..MaxAttach : taken[x] = h
      BY <1>0, <2>1, <3>1, Zenon DEF Placed, Registered
    <3> QED
      BY <1>1, <2>2, <3>1, <3>2, Zenon DEF Reached
  <2>3. CASE g # h \/ u # t
    <3>1. Reached(g, u)
      BY <1>3, <2>3, Zenon DEF WaitIInv, Waits
    <3>2. pending'[g][u] = pending[g][u]
      BY <1>4, <2>1, <2>3
    <3> QED
      BY <1>1, <3>1, <3>2, Zenon DEF Reached, postVars
  <2> QED
    BY <2>2, <2>3, Zenon
<1> QED
    BY <1>5, <1>6, <1>7, Zenon DEF WaitIInv

\* The prompt stops waiting, and the turn it takes away is its own.
LEMMA WaitCtxDone ==
    ASSUME WaitIInv, BrokerIInv', NEW h \in Handle, NEW t \in Turn, CtxDone(h, t) PROVE WaitIInv'
<1>0. TypeOK /\ Placed /\ Registered
    BY Zenon DEF WaitIInv, BrokerIInv
<1>1. /\ prompt[h][t] = "wait" /\ UNCHANGED <<at, channel, cur, closed, runVars, postVars, taken>>
      /\ prompt' = [prompt EXCEPT ![h][t] = "cancelled"]
      /\ pending' = [pending EXCEPT ![at[h][t]][t] = 0]
    BY Zenon DEF CtxDone, Prompts
<1>3. \A g \in Handle, u \in Turn : prompt'[g][u] = IF g = h /\ u = t THEN "cancelled" ELSE prompt[g][u]
  <2>1. prompt \in [Handle -> [Turn -> {"idle", "error", "cancelled"} \cup Asking \cup Answer]]
    BY <1>0, Zenon DEF TypeOK
  <2> QED
    BY <1>1, <2>1, SetEntry
<1>4. \A q \in Handle, u \in Turn : pending'[q][u] = IF q = at[h][t] /\ u = t THEN 0 ELSE pending[q][u]
  <2>1. pending \in [Handle -> [Turn -> 0..MaxAttach]]
    BY <1>0, Zenon DEF TypeOK
  <2> QED
    BY <1>1, <2>1, SetEntry
<1>5. Registered'
    BY <1>0, <1>1, Zenon DEF Registered, runVars
<1>6. Placed'
    BY <1>0, <1>1, <1>3 DEF Placed, runVars, Asking
<1>7. Waits'
  <2> SUFFICES ASSUME OwnQueues, NEW g \in Handle, NEW u \in Turn, prompt'[g][u] = "wait"
               PROVE  Reached(g, u)'
    BY <1>1, Zenon DEF Waits, OwnQueues
  <2>1. at[h][t] = h /\ (g # h \/ u # t) /\ prompt[g][u] = "wait"
    BY <1>0, <1>1, <1>3 DEF Placed, OwnQueues, Asking
  <2>2. Reached(g, u)
    BY <2>1, Zenon DEF WaitIInv, Waits
  <2>3. pending'[g][u] = pending[g][u]
    BY <1>4, <2>1, Zenon
  <2> QED
    BY <1>1, <2>2, <2>3, Zenon DEF Reached, postVars
<1> QED
    BY <1>5, <1>6, <1>7, Zenon DEF WaitIInv

\* A post that delivers nothing.
LEMMA WaitPost ==
    ASSUME WaitIInv, BrokerIInv', NEW x \in Post,
           (\E t \in Turn, a \in Answer : AnswerFinds(x, t, a)) \/ AnswerRefused(x)
    PROVE  WaitIInv'
<1>0. TypeOK
    BY Zenon DEF WaitIInv, BrokerIInv
<1>1. UNCHANGED <<queueVars, runVars, promptVars, taken>> /\ post[x].pc # "deliver"
    BY Zenon DEF AnswerFinds, AnswerRefused
<1>2. \A y \in Post : post[y].pc = "deliver" => post'[y] = post[y]
  <2>1. PICK v : post' = [post EXCEPT ![x] = v]
    <3>1. CASE AnswerRefused(x)
      BY <3>1, Zenon DEF AnswerRefused
    <3>2. CASE \E t \in Turn, a \in Answer : AnswerFinds(x, t, a)
      <4>1. PICK t \in Turn, a \in Answer : AnswerFinds(x, t, a)
        BY <3>2, Zenon
      <4>2. PICK v : v = [pc |-> "found", queue |-> cur, turn |-> t, answer |-> a]
        BY Zenon
      <4> QED
        BY <4>1, <4>2, Zenon DEF AnswerFinds
    <3> QED
      BY <3>1, <3>2, Zenon
  <2> QED
    BY <1>0, <1>1, <2>1, Zenon DEF TypeOK
<1> USE <1>1 DEF queueVars, runVars, promptVars
<1>3. Registered'
    BY Zenon DEF WaitIInv, Registered
<1>4. Placed'
    BY Zenon DEF WaitIInv, Placed
<1>5. Waits'
  <2> SUFFICES ASSUME OwnQueues, NEW h \in Handle, NEW t \in Turn, prompt[h][t] = "wait"
               PROVE  Reached(h, t)'
    BY Zenon DEF Waits, OwnQueues
  <2>1. Reached(h, t)
    BY Zenon DEF WaitIInv, Waits
  <2> QED
    BY <1>2, <2>1, Zenon DEF Reached
<1> QED
    BY <1>3, <1>4, <1>5, Zenon DEF WaitIInv

\* The turn of a committed answer leaves the queue, and its answer is on the way.
LEMMA WaitCommits ==
    ASSUME WaitIInv, BrokerIInv', NEW x \in Post, AnswerCommits(x) PROVE WaitIInv'
<1>0. TypeOK /\ Posted
    BY Zenon DEF WaitIInv, BrokerIInv
<1>1. PICK q \in Handle, t \in Turn : post[x].queue = q /\ post[x].turn = t
    BY <1>0, Zenon DEF Posted, AnswerCommits
<1>2. PICK h \in Handle : pending[q][t] = h
    BY <1>0, <1>1, HandleFacts DEF TypeOK, AnswerCommits, Owner
<1>3. /\ UNCHANGED <<cur, closed, runVars, promptVars, taken>> /\ pending' = [pending EXCEPT ![q][t] = 0]
      /\ post' = [post EXCEPT ![x].pc = "deliver", ![x].queue = h] /\ post[x].pc = "found"
    BY <1>1, <1>2, Zenon DEF AnswerCommits, Owner
<1>4. \A p \in Handle, u \in Turn : pending'[p][u] = IF p = q /\ u = t THEN 0 ELSE pending[p][u]
  <2>1. pending \in [Handle -> [Turn -> 0..MaxAttach]]
    BY <1>0, Zenon DEF TypeOK
  <2> QED
    BY <1>3, <2>1, SetEntry
<1>5. /\ post'[x].pc = "deliver" /\ post'[x].queue = h /\ post'[x].turn = t
      /\ \A y \in Post : y # x => post'[y] = post[y]
    BY <1>0, <1>1, <1>3, Zenon DEF TypeOK
<1> USE <1>3 DEF runVars, promptVars
<1>6. Registered' /\ Placed'
    BY Zenon DEF WaitIInv, Registered, Placed
<1>7. Waits'
  <2> SUFFICES ASSUME OwnQueues, NEW g \in Handle, NEW u \in Turn, prompt[g][u] = "wait"
               PROVE  Reached(g, u)'
    BY Zenon DEF Waits, OwnQueues
  <2>1. Reached(g, u)
    BY Zenon DEF WaitIInv, Waits
  <2>2. CASE channel[g][u] # "none"
    BY <2>2, Zenon DEF Reached
  <2>3. CASE \E y \in Post : post[y].pc = "deliver" /\ post[y].queue = g /\ post[y].turn = u
    BY <1>3, <1>5, <2>3, Zenon DEF Reached
  <2>4. CASE pending[g][u] = g /\ (cur = g \/ \E y \in 0..MaxAttach : taken[y] = g)
    <3>1. CASE g = q /\ u = t
      BY <1>2, <1>5, <2>4, <3>1, Zenon DEF Reached
    <3>2. CASE g # q \/ u # t
      BY <1>4, <2>4, <3>2, Zenon DEF Reached
    <3> QED
      BY <3>1, <3>2, Zenon
  <2> QED
    BY <2>1, <2>2, <2>3, <2>4, Zenon DEF Reached
<1> QED
    BY <1>6, <1>7, Zenon DEF WaitIInv

\* The answer arrives in the prompt's channel.
LEMMA WaitDelivers ==
    ASSUME WaitIInv, BrokerIInv', NEW x \in Post, AnswerDelivers(x) PROVE WaitIInv'
<1>0. TypeOK /\ Posted
    BY Zenon DEF WaitIInv, BrokerIInv
<1>1. PICK h \in Handle, t \in Turn, a \in Answer : post[x].queue = h /\ post[x].turn = t /\ post[x].answer = a
    BY <1>0, Zenon DEF Posted, AnswerDelivers
<1>2. /\ UNCHANGED <<prompt, at, queueVars, runVars, taken>> /\ post' = [post EXCEPT ![x] = Replied]
      /\ channel' = [channel EXCEPT ![h][t] = IF @ = "none" THEN a ELSE @]
    BY <1>1, Zenon DEF AnswerDelivers
<1>3. /\ \A g \in Handle, u \in Turn : channel[g][u] # "none" => channel'[g][u] # "none"
      /\ channel'[h][t] # "none"
    BY <1>0, <1>2, NotAnswers, Zenon DEF TypeOK
<1>4. \A y \in Post : y # x => post'[y] = post[y]
    BY <1>0, <1>2, Zenon DEF TypeOK
<1> USE <1>2 DEF queueVars, runVars
<1>5. Registered' /\ Placed'
    BY Zenon DEF WaitIInv, Registered, Placed
<1>6. Waits'
  <2> SUFFICES ASSUME OwnQueues, NEW g \in Handle, NEW u \in Turn, prompt[g][u] = "wait"
               PROVE  Reached(g, u)'
    BY Zenon DEF Waits, OwnQueues
  <2>1. Reached(g, u)
    BY Zenon DEF WaitIInv, Waits
  <2>2. CASE \E y \in Post : post[y].pc = "deliver" /\ post[y].queue = g /\ post[y].turn = u
    BY <1>1, <1>3, <1>4, <2>2, Zenon DEF Reached
  <2> QED
    BY <1>3, <2>1, <2>2, Zenon DEF Reached
<1> QED
    BY <1>5, <1>6, Zenon DEF WaitIInv

LEMMA WaitNext == WaitIInv /\ [Next]_vars => WaitIInv'
<1> SUFFICES ASSUME WaitIInv, [Next]_vars PROVE WaitIInv'
    BY Zenon
<1>0. BrokerIInv'
    BY NextInv, Zenon DEF WaitIInv
<1>1. CASE UNCHANGED vars
    BY <1>0, <1>1, WaitFrame, Zenon DEF vars, queueVars, promptVars, postVars
<1>2. CASE Next
    BY <1>0, <1>2, WaitRunSteps, WaitRegister, WaitTake, WaitClose, WaitPrompt, WaitInsert, WaitCtxDone,
       WaitPost, WaitCommits, WaitDelivers, Zenon
    DEF Next, Attaching, Teardown, Prompting, Answering
<1> QED
    BY <1>1, <1>2, Zenon

LEMMA WaitInit == Init => WaitIInv
<1> SUFFICES ASSUME Init PROVE WaitIInv
    BY Zenon
<1>1. Registered
    BY Zenon DEF Init, Registered, Unregistered
<1>2. Placed /\ Waits
    BY HandleFacts, Zenon DEF Init, Placed, Waits, Asking
<1> QED
    BY <1>1, <1>2, InitInv, Zenon DEF WaitIInv

\* While no prompt asked in the queue of another attachment, no prompt is left waiting
\* for a turn that nobody can answer or cancel: Unregister closes what it took out of
\* the map, and AnswerCommand delivers what it removed from the queue.
THEOREM WaitingReachableAlways == Spec => []WaitingReachable
<1>1. Spec => []WaitIInv
    BY WaitInit, WaitNext, PTL DEF Spec
<1> QED
    BY <1>1, WaitReachable, PTL
=============================================================================
