------------------------- MODULE SessionStdioProofs -------------------------
(***************************************************************************)
(* Theorems about SessionStdio, for any set of commands and any bounds: the *)
(* client never finds the stream broken, a process that reports success    *)
(* leaves no run running, and the run that is driven has a queue.          *)
(*                                                                         *)
(* The invariant has three parts.  Stream: the frames on their way continue *)
(* where the client is and end where the attachment has got to, so a replay *)
(* under replayMu continues them whoever starts it.  Receipts: a run that   *)
(* runs was resumed after the last receipt that ended an attachment, so a   *)
(* repeated detach ends the process only if nothing runs.  QueueInv: which  *)
(* queues a stopped runtime leaves to its drive to remove.                 *)
(***************************************************************************)
EXTENDS SessionStdio, TLAPS

\* Nil is no command, and "none" says that an id was not used yet.
StdioConstants == Nil \notin CommandID /\ \A c \in CommandID : "none" \notin Types[c]

SessionStatus == {"none", "running", "paused", "handoff", "indeterminate", "cancelled", "closed", "done"}
CmdType == Terminal \cup {"none"} \cup UNION {Types[c] : c \in CommandID}
CmdRec == [id : CommandID \cup {Nil}, type : CmdType, epoch : Nat, expect : Nat]
JrRec == [seq : Nat, run : Nat, st : SessionStatus, rec : [CommandID -> Nat]]
SrvPlace == {"off", "read", "op", "settle", "reply", "finish", "gone"}
SrvRec == [pc : SrvPlace, last : Nat, epoch : Nat, held : BOOLEAN, cmd : CmdRec, err : BOOLEAN,
           final : BOOLEAN, code : {"none", "success", "runtime"}]
RtRec == [handle : BOOLEAN, run : Nat, started : BOOLEAN, driving : BOOLEAN, stopped : BOOLEAN,
          configure : BOOLEAN, done : {"none", "error"}]
DrvPlace == {"off", "next", "sync", "bind", "replay", "lost", "end", "fail", "ended", "failed", "quiet"}
DrvRec == [pc : DrvPlace, run : Nat, eof : BOOLEAN]
ItemRec == [type : {"group", "hello", "error"}, seq : Nat, epoch : Nat, whole : BOOLEAN]
ClientRec == [st : {"new", "open", "off"}, accepted : Nat, epoch : Nat,
              fault : {"none", "ended", "refused", "broken", "closed"}]

\* Types of the state.
TypeOK ==
    /\ jr \in JrRec /\ srv \in SrvRec /\ rt \in RtRec /\ drv \in DrvRec /\ fol \in {"off", "on"}
    /\ broker \in SUBSET Nat /\ out \in Seq(ItemRec) /\ in \in Seq(CmdRec)
    /\ client \in ClientRec /\ sent \in [CommandID -> CmdType]

----------------------------------------------------------------------------
(* Records. *)

\* A process that gives up a command goes on to finishSessionAttachment.
LEMMA FailsFacts ==
    ASSUME NEW s \in SrvRec
    PROVE  /\ Fails(s) \in SrvRec /\ Fails(s).pc = "finish" /\ Fails(s).last = s.last
           /\ Fails(s).cmd = NoCommand /\ Fails(s).held = s.held
<1>1. "finish" \in SrvPlace
    BY Zenon DEF SrvPlace
<1>2. NoCommand \in CmdRec
  <2>1. "none" \in CmdType /\ 0 \in Nat
    BY SMT DEF CmdType
  <2> QED
    BY <2>1, Zenon DEF NoCommand, CmdRec, Nil
<1> QED
    BY <1>1, <1>2, Zenon DEF Fails, SrvRec

\* A process that exits gives up its lease and keeps where it had got to.
LEMMA ExitsFacts ==
    ASSUME NEW s \in SrvRec, NEW k \in {"success", "runtime"}
    PROVE  /\ Exits(s, k) \in SrvRec /\ Exits(s, k).pc = "gone" /\ Exits(s, k).code = k
           /\ Exits(s, k).last = s.last /\ Exits(s, k).cmd = s.cmd
<1>1. "gone" \in SrvPlace /\ k \in {"none", "success", "runtime"}
    BY Zenon DEF SrvPlace
<1> QED
    BY <1>1, Zenon DEF Exits, SrvRec

\* j is the journal with n events more.
Commits(j, n, run, st) ==
    j \in JrRec /\ j.seq = jr.seq + n /\ j.run = run /\ j.st = st /\ j.rec = jr.rec

\* What a commit of the coordinator changes in the journal.
LEMMA CommittedFacts ==
    ASSUME jr \in JrRec, NEW n \in Nat, NEW run \in Nat, NEW st \in SessionStatus,
           NEW j, j = Committed(n, run, st)
    PROVE  Commits(j, n, run, st)
<1>1. jr.seq \in Nat /\ jr.rec \in [CommandID -> Nat]
    BY Zenon DEF JrRec
<1>2. jr.seq + n \in Nat
    BY <1>1, SMT
<1> QED
    BY <1>2, Zenon DEF Committed, Commits, JrRec

\* r is the journal j with a receipt.
Receipted(r, j, id) ==
    /\ r \in JrRec /\ r.seq = j.seq /\ r.run = j.run /\ r.st = j.st
    /\ \A c \in CommandID : r.rec[c] = IF c = id THEN j.seq ELSE j.rec[c]

\* A receipt names the sequence at which its command was committed.
LEMMA ReceiptFacts ==
    ASSUME NEW j \in JrRec, NEW id, NEW r, r = Receipt(j, id) PROVE Receipted(r, j, id)
<1>1. j.seq \in Nat /\ j.rec \in [CommandID -> Nat]
    BY Zenon DEF JrRec
<1>2. PICK g : g = [c \in DOMAIN j.rec |-> IF c = id THEN j.seq ELSE j.rec[c]]
    BY Zenon
<1>3. DOMAIN j.rec = CommandID
    BY <1>1, Zenon
<1>4. g \in [CommandID -> Nat] /\ \A c \in CommandID : g[c] = IF c = id THEN j.seq ELSE j.rec[c]
  <2>1. g = [c \in CommandID |-> IF c = id THEN j.seq ELSE j.rec[c]]
    BY <1>2, <1>3, Zenon
  <2> QED
    BY <1>1, <2>1, Zenon
<1>5. r = [j EXCEPT !.rec = g]
    BY <1>2, Zenon DEF Receipt
<1> QED
    BY <1>4, <1>5, Zenon DEF JrRec, Receipted

----------------------------------------------------------------------------
(* The pipe to the client. *)

\* A group of frames announces one event more.
Advance(f) == IF f.type = "group" THEN 1 ELSE 0

\* Every frame on the way continues where the one before it left off, the first one where
\* the client is.
Steady(s, a) ==
    \A i \in 1..Len(s) : s[i].seq = (IF i = 1 THEN a ELSE s[i - 1].seq) + Advance(s[i])
Below(s, m) == \A i \in 1..Len(s) : s[i].seq <= m
End(s, a) == IF s = <<>> THEN a ELSE s[Len(s)].seq

\* A frame.
LEMMA ItemFacts ==
    ASSUME NEW t \in {"group", "hello", "error"}, NEW n \in Nat, NEW e \in Nat
    PROVE  /\ Item(t, n, e) \in ItemRec /\ Item(t, n, e).seq = n /\ Item(t, n, e).type = t
           /\ Item(t, n, e).whole
    BY Zenon DEF Item, ItemRec

\* g announces the k events after lo.
Consecutive(g, lo, k) ==
    /\ k \in Nat /\ g \in Seq(ItemRec) /\ Len(g) = k
    /\ \A i \in 1..k : g[i].seq = lo + i /\ g[i].type = "group"

\* A replay from lo to hi is one whole group for each event in between.
LEMMA GroupsFacts ==
    ASSUME NEW lo \in Nat, NEW hi \in Nat, lo <= hi, NEW e \in Nat, NEW k, k = hi - lo,
           NEW g, g = Groups(lo, hi, e)
    PROVE  Consecutive(g, lo, k)
<1>1. k \in Nat /\ \A i \in 1..k : lo + i \in Nat
    BY SMT
<1>2. ASSUME NEW i \in 1..k
      PROVE  /\ Item("group", lo + i, e) \in ItemRec /\ Item("group", lo + i, e).seq = lo + i
             /\ Item("group", lo + i, e).type = "group"
  <2>1. PICK n \in Nat : n = lo + i
    BY <1>1, Zenon
  <2>2. "group" \in {"group", "hello", "error"}
    BY Zenon
  <2> QED
    BY <2>1, <2>2, ItemFacts, SMT
<1>3. g = [i \in 1..k |-> Item("group", lo + i, e)]
    BY Zenon DEF Groups
<1>4. g \in [1..k -> ItemRec] /\ \A i \in 1..k : g[i] = Item("group", lo + i, e)
    BY <1>2, <1>3, Zenon
<1>5. g \in Seq(ItemRec) /\ Len(g) = k
    BY <1>1, <1>4, SMT
<1>6. \A i \in 1..k : g[i].seq = lo + i /\ g[i].type = "group"
    BY <1>2, <1>4, Zenon
<1> QED
    BY <1>1, <1>5, <1>6, Zenon DEF Consecutive

\* t is s followed by g.
Joins(t, s, g) ==
    /\ t \in Seq(ItemRec) /\ Len(s) \in Nat /\ Len(t) = Len(s) + Len(g)
    /\ \A i \in 1..Len(s) : t[i] = s[i]
    /\ \A i \in 1..Len(g) : t[Len(s) + i] = g[i]

\* Frames written behind others.
LEMMA JoinFacts ==
    ASSUME NEW s \in Seq(ItemRec), NEW g \in Seq(ItemRec), NEW t, t = s \o g PROVE Joins(t, s, g)
    BY SMT DEF Joins

\* Frames may be written or not.
LEMMA JoinSeq ==
    ASSUME NEW s \in Seq(ItemRec), NEW g \in Seq(ItemRec), NEW t, t = s \/ t = s \o g
    PROVE  t \in Seq(ItemRec)
<1>1. CASE t = s
    BY <1>1, Zenon
<1>2. CASE t = s \o g
    BY <1>2, JoinFacts, Zenon DEF Joins
<1> QED
    BY <1>1, <1>2, Zenon

\* A single frame.
LEMMA SingleSeq == ASSUME NEW f \in ItemRec PROVE <<f>> \in Seq(ItemRec)
    BY SMT

\* What is on its way to a client at a, of a journal at m.
Flow(s, a, m) == s \in Seq(ItemRec) /\ a \in Nat /\ m \in Nat /\ Steady(s, a) /\ Below(s, m)

\* The stream ends within the journal.
LEMMA EndFacts ==
    ASSUME NEW s, NEW a, NEW m, Flow(s, a, m), a <= m PROVE End(s, a) \in Nat /\ End(s, a) <= m
<1>1. CASE s = <<>>
    BY <1>1, Zenon DEF End, Flow
<1>2. CASE s # <<>>
  <2>1. Len(s) \in 1..Len(s) /\ s[Len(s)] \in ItemRec
    BY <1>2, SMT DEF Flow
  <2> QED
    BY <1>2, <2>1, Zenon DEF End, Flow, Below, ItemRec
<1> QED
    BY <1>1, <1>2, Zenon

\* What a replay and a frame of its own leave in the pipe.
WithGroups(s, lo, m, e) == s \o Groups(lo, m, e)
WithSingle(s, type, n, e) == s \o Single(type, n, e)

\* A replay to m continues the stream up to m.
LEMMA ReplayFlow ==
    ASSUME NEW s, NEW a, NEW m, Flow(s, a, m), a <= m, NEW e \in Nat, NEW lo, lo = End(s, a),
           NEW t, t = WithGroups(s, lo, m, e)
    PROVE  Flow(t, a, m) /\ End(t, a) = m
<1>0. s \in Seq(ItemRec) /\ a \in Nat /\ m \in Nat /\ Steady(s, a) /\ Below(s, m)
    BY Zenon DEF Flow
<1>1. lo \in Nat /\ lo = End(s, a)
    BY EndFacts, Zenon
<1>2. PICK g : g = Groups(lo, m, e)
    BY Zenon
<1>3. lo <= m
    BY EndFacts, Zenon
<1>4. /\ m - lo \in Nat /\ g \in Seq(ItemRec) /\ Len(g) = m - lo
      /\ \A i \in 1..(m - lo) : g[i].seq = lo + i /\ g[i].type = "group"
  <2>1. Consecutive(g, lo, m - lo)
    BY <1>0, <1>1, <1>2, <1>3, GroupsFacts, Zenon
  <2> QED
    BY <2>1, Zenon DEF Consecutive
<1>5. t = s \o g
    BY <1>2, Zenon DEF WithGroups
<1>6. /\ t \in Seq(ItemRec) /\ Len(t) = Len(s) + (m - lo) /\ Len(s) \in Nat
      /\ \A i \in 1..Len(s) : t[i] = s[i]
      /\ \A i \in 1..(m - lo) : t[Len(s) + i] = g[i]
  <2>1. Joins(t, s, g)
    BY <1>0, <1>4, <1>5, JoinFacts, Zenon
  <2> QED
    BY <1>4, <2>1, Zenon DEF Joins
<1>7. \A i \in 1..(m - lo) : t[Len(s) + i].seq = lo + i /\ Advance(t[Len(s) + i]) = 1
    BY <1>4, <1>6, Zenon DEF Advance
<1>8. s # <<>> => Len(s) # 0 /\ t[Len(s)].seq = lo
  <2>1. s # <<>> => Len(s) # 0 /\ Len(s) \in 1..Len(s)
    BY <1>0, SMT
  <2> QED
    BY <1>1, <1>6, <2>1, Zenon DEF End
<1>9. s = <<>> => Len(s) = 0 /\ lo = a
    BY <1>1, SMT DEF End
<1>10. ASSUME NEW i \in 1..Len(t)
       PROVE  t[i].seq = (IF i = 1 THEN a ELSE t[i - 1].seq) + Advance(t[i]) /\ t[i].seq <= m
  <2>1. CASE i \in 1..Len(s)
    <3>1. t[i] = s[i] /\ (i # 1 => t[i - 1] = s[i - 1])
      <4>1. i # 1 => i - 1 \in 1..Len(s)
        BY <2>1, <1>6, SMT
      <4> QED
        BY <2>1, <4>1, <1>6, Zenon
    <3> QED
      BY <1>0, <2>1, <3>1, Zenon DEF Steady, Below
  <2>2. CASE i \notin 1..Len(s)
    <3>1. PICK k \in 1..(m - lo) : i = Len(s) + k
      <4>1. i - Len(s) \in 1..(m - lo) /\ i = Len(s) + (i - Len(s))
        BY <1>0, <1>1, <1>3, <1>6, <2>2, SMT
      <4> QED
        BY <4>1, Zenon
    <3>2. t[i].seq = lo + k /\ Advance(t[i]) = 1
      BY <1>7, <3>1, Zenon
    <3>3. (IF i = 1 THEN a ELSE t[i - 1].seq) = lo + k - 1
      <4>1. CASE k = 1
        <5>1. i - 1 = Len(s) /\ lo + k - 1 = lo /\ (i = 1 <=> Len(s) = 0)
          BY <3>1, <4>1, <1>0, <1>1, <1>6, SMT
        <5>2. s = <<>> <=> Len(s) = 0
          BY <1>8, <1>9, Zenon
        <5> QED
          BY <5>1, <5>2, <1>8, <1>9, Zenon
      <4>2. CASE k # 1
        <5>1. k - 1 \in 1..(m - lo) /\ i - 1 = Len(s) + (k - 1) /\ i # 1 /\ lo + (k - 1) = lo + k - 1
          BY <3>1, <4>2, <1>0, <1>1, <1>3, <1>6, SMT
        <5>2. t[i - 1].seq = lo + (k - 1)
          BY <5>1, <1>7, Zenon
        <5> QED
          BY <5>1, <5>2, Zenon
      <4> QED
        BY <4>1, <4>2, Zenon
    <3>4. lo + k <= m /\ lo + k = lo + k - 1 + 1
      BY <1>0, <1>1, <1>3, <3>1, SMT
    <3> QED
      BY <3>2, <3>3, <3>4, Zenon
  <2> QED
    BY <2>1, <2>2, Zenon
<1>11. End(t, a) = m
  <2>1. CASE m = lo
    <3>1. t = s
      BY <1>0, <1>1, <1>4, <1>5, <2>1, SMT
    <3> QED
      BY <1>1, <2>1, <3>1, Zenon
  <2>2. CASE m # lo
    <3>1. m - lo \in 1..(m - lo) /\ Len(t) = Len(s) + (m - lo) /\ t # <<>> /\ lo + (m - lo) = m
      BY <1>0, <1>1, <1>3, <1>6, <2>2, SMT
    <3>2. t[Len(t)].seq = lo + (m - lo)
      BY <1>7, <3>1, Zenon
    <3> QED
      BY <3>1, <3>2, Zenon DEF End
  <2> QED
    BY <2>1, <2>2, Zenon
<1>12. Steady(t, a) /\ Below(t, m)
    BY <1>10, Zenon DEF Steady, Below
<1> QED
    BY <1>0, <1>6, <1>11, <1>12, Zenon DEF Flow

\* A frame that announces no event leaves the stream where it is.
LEMMA SingleFlow ==
    ASSUME NEW s, NEW a, NEW m, Flow(s, a, m), a <= m, NEW type \in {"hello", "error"}, NEW e \in Nat,
           NEW lo, lo = End(s, a), NEW t, t = WithSingle(s, type, lo, e)
    PROVE  Flow(t, a, m) /\ End(t, a) = lo
<1>1. lo \in Nat /\ lo <= m
    BY EndFacts, Zenon
<1>2. PICK f : f = Item(type, lo, e)
    BY Zenon
<1>3. f \in ItemRec /\ f.seq = lo /\ f.type = type /\ Advance(f) = 0
  <2>1. type \in {"group", "hello", "error"} /\ type # "group"
    BY Zenon
  <2>2. f \in ItemRec /\ f.seq = lo /\ f.type = type
    BY <1>1, <1>2, <2>1, ItemFacts, SMT
  <2> QED
    BY <2>1, <2>2, Zenon DEF Advance
<1>4. t = s \o <<f>>
    BY <1>2, Zenon DEF Single, WithSingle
<1>5. /\ t \in Seq(ItemRec) /\ Len(s) \in Nat /\ Len(t) = Len(s) + 1 /\ t # <<>>
      /\ \A i \in 1..Len(s) : t[i] = s[i]
      /\ t[Len(s) + 1] = f
  <2>1. s \in Seq(ItemRec)
    BY Zenon DEF Flow
  <2> QED
    BY <1>3, <1>4, <2>1, SMT
<1>6. ASSUME NEW i \in 1..Len(t)
      PROVE  t[i].seq = (IF i = 1 THEN a ELSE t[i - 1].seq) + Advance(t[i]) /\ t[i].seq <= m
  <2>1. CASE i \in 1..Len(s)
    <3>1. t[i] = s[i] /\ (i # 1 => t[i - 1] = s[i - 1])
      <4>1. i # 1 => i - 1 \in 1..Len(s)
        BY <2>1, <1>5, SMT
      <4> QED
        BY <2>1, <4>1, <1>5, Zenon
    <3> QED
      BY <2>1, <3>1, Zenon DEF Steady, Below, Flow
  <2>2. CASE i = Len(s) + 1
    <3>1. i - 1 = Len(s) /\ (i = 1 <=> Len(s) = 0) /\ lo + 0 = lo
      BY <1>1, <1>5, <2>2, SMT
    <3>2. (IF i = 1 THEN a ELSE t[i - 1].seq) = lo
      <4>1. s \in Seq(ItemRec)
        BY Zenon DEF Flow
      <4>2. s = <<>> <=> Len(s) = 0
        BY <4>1, SMT
      <4>3. Len(s) # 0 => t[Len(s)] = s[Len(s)]
        <5>1. Len(s) # 0 => Len(s) \in 1..Len(s)
          BY <1>5, SMT
        <5> QED
          BY <5>1, <1>5, Zenon
      <4> QED
        BY <3>1, <4>2, <4>3, Zenon DEF End
    <3>3. t[i] = f
      BY <1>5, <2>2, Zenon
    <3> QED
      BY <1>1, <1>3, <3>1, <3>2, <3>3, Zenon
  <2>3. i \in 1..Len(s) \/ i = Len(s) + 1
    BY <1>5, SMT
  <2> QED
    BY <2>1, <2>2, <2>3, Zenon
<1>7. End(t, a) = lo
    BY <1>3, <1>5, Zenon DEF End
<1> QED
    BY <1>5, <1>6, <1>7, Zenon DEF Flow, Steady, Below

\* The client reads a frame.
LEMMA ReadFlow ==
    ASSUME NEW s, NEW a, NEW m, Flow(s, a, m), s # <<>>
    PROVE  /\ Head(s) \in ItemRec /\ Head(s).seq = a + Advance(Head(s)) /\ Head(s).seq <= m
           /\ Flow(Tail(s), Head(s).seq, m) /\ End(Tail(s), Head(s).seq) = End(s, a)
<1>0. s \in Seq(ItemRec)
    BY Zenon DEF Flow
<1>1. PICK t, h : t = Tail(s) /\ h = Head(s)
    BY Zenon
<1>2. /\ h = s[1] /\ h \in ItemRec /\ 1 \in 1..Len(s) /\ Len(s) \in Nat
      /\ t \in Seq(ItemRec) /\ Len(t) = Len(s) - 1 /\ \A i \in 1..Len(t) : t[i] = s[i + 1]
    BY <1>0, <1>1, SMT
<1>3. h.seq \in Nat /\ h.seq = a + Advance(h) /\ h.seq <= m
    BY <1>2, Zenon DEF Flow, Steady, Below, ItemRec
<1>4. ASSUME NEW i \in 1..Len(t)
      PROVE  t[i].seq = (IF i = 1 THEN h.seq ELSE t[i - 1].seq) + Advance(t[i]) /\ t[i].seq <= m
  <2>1. i + 1 \in 1..Len(s) /\ i + 1 # 1 /\ (i + 1) - 1 = i /\ (i # 1 => i - 1 \in 1..Len(t) /\ (i - 1) + 1 = i)
    BY <1>2, SMT
  <2>2. s[i + 1].seq = s[i].seq + Advance(s[i + 1]) /\ s[i + 1].seq <= m
    BY <2>1, Zenon DEF Flow, Steady, Below
  <2>3. t[i] = s[i + 1] /\ (i # 1 => t[i - 1] = s[i])
    BY <1>2, <2>1, Zenon
  <2> QED
    BY <1>2, <2>2, <2>3, Zenon
<1>5. End(t, h.seq) = End(s, a)
  <2>1. CASE t = <<>>
    <3>1. Len(s) = 1
      BY <1>2, <2>1, SMT
    <3> QED
      BY <1>2, <2>1, <3>1, Zenon DEF End
  <2>2. CASE t # <<>>
    <3>1. Len(t) \in 1..Len(t) /\ Len(t) + 1 = Len(s)
      BY <1>2, <2>2, SMT
    <3>2. t[Len(t)] = s[Len(s)]
      BY <1>2, <3>1, Zenon
    <3> QED
      BY <2>2, <3>2, Zenon DEF End
  <2> QED
    BY <2>1, <2>2, Zenon
<1>6. Flow(t, h.seq, m)
    BY <1>2, <1>3, <1>4, Zenon DEF Flow, Steady, Below
<1> QED
    BY <1>1, <1>2, <1>3, <1>5, <1>6, Zenon

\* A process that dies leaves a part of its frames behind, the last one perhaps cut off.
LEMMA CutFlow ==
    ASSUME NEW s, NEW a, NEW m, Flow(s, a, m), NEW n \in 1..Len(s), NEW w \in BOOLEAN, NEW t,
           t = Append(SubSeq(s, 1, n - 1), [s[n] EXCEPT !.whole = w])
    PROVE  Flow(t, a, m)
<1>0. s \in Seq(ItemRec)
    BY Zenon DEF Flow
<1>1. PICK f : f = [s[n] EXCEPT !.whole = w]
    BY Zenon
<1>2. f \in ItemRec /\ f.seq = s[n].seq /\ f.type = s[n].type
  <2>1. s[n] \in ItemRec
    BY <1>0, SMT
  <2> QED
    BY <1>1, <2>1, Zenon DEF ItemRec
<1>3. /\ t \in Seq(ItemRec) /\ Len(t) = n /\ \A i \in 1..(n - 1) : t[i] = s[i]
      /\ t[n] = f
  <2>1. PICK u : u = SubSeq(s, 1, n - 1)
    BY Zenon
  <2>2. u \in Seq(ItemRec) /\ Len(u) = n - 1 /\ \A i \in 1..(n - 1) : u[i] = s[i]
    BY <1>0, <2>1, SMT
  <2>3. t = Append(u, f)
    BY <1>1, <2>1, Zenon
  <2> QED
    BY <1>2, <2>2, <2>3, SMT
<1>4. ASSUME NEW i \in 1..Len(t)
      PROVE  t[i].seq = (IF i = 1 THEN a ELSE t[i - 1].seq) + Advance(t[i]) /\ t[i].seq <= m
  <2>1. i \in 1..Len(s) /\ (i # 1 => i - 1 \in 1..(n - 1)) /\ (i # n => i \in 1..(n - 1))
    BY <1>0, <1>3, SMT
  <2>2. t[i].seq = s[i].seq /\ t[i].type = s[i].type /\ (i # 1 => t[i - 1] = s[i - 1])
    BY <1>2, <1>3, <2>1, Zenon
  <2>3. s[i].seq = (IF i = 1 THEN a ELSE s[i - 1].seq) + Advance(s[i]) /\ s[i].seq <= m
    BY <2>1, Zenon DEF Flow, Steady, Below
  <2>4. Advance(t[i]) = Advance(s[i])
    BY <2>2, Zenon DEF Advance
  <2> QED
    BY <2>2, <2>3, <2>4, Zenon
<1> QED
    BY <1>3, <1>4, Zenon DEF Flow, Steady, Below

\* A journal that grows disturbs nothing that is on its way.
LEMMA GrowFlow ==
    ASSUME NEW s, NEW a, NEW m, Flow(s, a, m), NEW k \in Nat, m <= k PROVE Flow(s, a, k)
<1>1. ASSUME NEW i \in 1..Len(s) PROVE s[i].seq <= k
  <2>1. s[i] \in ItemRec
    BY SMT DEF Flow
  <2>2. s[i].seq \in Nat /\ s[i].seq <= m /\ m \in Nat
    BY <2>1, Zenon DEF Flow, Below, ItemRec
  <2> QED
    BY <2>2, SMT
<1> QED
    BY <1>1, Zenon DEF Flow, Below

\* An empty pipe.
LEMMA NoFlow ==
    ASSUME NEW a \in Nat, NEW m \in Nat PROVE Flow(<<>>, a, m) /\ End(<<>>, a) = a
<1>1. <<>> \in Seq(ItemRec) /\ 1..Len(<<>>) = {}
    BY SMT
<1> QED
    BY <1>1, Zenon DEF Flow, Steady, Below, End

----------------------------------------------------------------------------
(* The inductive invariant. *)

\* Reading continues where the client is, and what is on its way ends where the attachment
\* has got to.
Stream ==
    /\ client.accepted <= jr.seq
    /\ Alive => srv.last <= jr.seq
    /\ client.st = "new" => srv.pc = "off"
    /\ Reading => Flow(out, client.accepted, jr.seq)
    /\ Reading /\ Alive => srv.last = End(out, client.accepted)
    /\ client.fault # "broken"

\* A run that runs was resumed after every command that ended an attachment.
Receipts ==
    /\ \A c \in CommandID : jr.rec[c] <= jr.seq /\ (jr.rec[c] > 0 => sent[c] # "none")
    /\ jr.st = "running" =>
         jr.run # Nil /\ \A c \in CommandID : sent[c] \in Terminal /\ jr.rec[c] > 0 => Superseded(c)

\* A command the client has sent, under an id it keeps for it.
Known(cmd) == cmd.id \in CommandID /\ cmd.type = sent[cmd.id] /\ cmd.type # "none"
Inbox == \A i \in 1..Len(in) : Known(in[i])
AtHand ==
    /\ Known(srv.cmd) \/ (srv.cmd.id = Nil /\ srv.cmd.type \in {"none", Detach})
    /\ srv.final => \/ srv.pc \in {"finish", "gone"}
                    \/ srv.pc \in {"op", "settle", "reply"} /\ srv.cmd.type = Detach

\* Nothing runs once a terminal command has been committed, or success reported.
Settled ==
    /\ srv.pc = "reply" /\ srv.cmd.type \in Terminal => jr.st # "running"
    /\ srv.pc = "gone" /\ srv.code = "success" => jr.st # "running"

\* The process is not on its way to its end.
Serving == srv.pc = "read" \/ (srv.pc \in {"op", "reply"} /\ srv.cmd.type \notin Terminal)

\* Which queues there are: that of the run the runtime names, and that of the run it is
\* about to name; what a stopped runtime has left over is what its drive still removes.
Queues ==
    /\ rt.started /\ ~ rt.stopped => rt.run \in broker
    /\ broker \subseteq {rt.run} \cup (IF drv.pc = "bind" THEN {drv.run} ELSE {})
    /\ drv.pc = "bind" => drv.run # rt.run /\ (~ rt.stopped => drv.run \in broker)
    /\ drv.pc \in {"ended", "failed", "quiet"} => drv.run = rt.run /\ rt.stopped
    /\ ~ rt.started => broker = {}
    /\ ~ rt.started \/ ~ rt.driving => drv.pc = "off"

Leftover ==
    Serving /\ rt.stopped =>
        broker \subseteq IF drv.pc = "bind" THEN {drv.run}
                         ELSE IF drv.pc \in {"ended", "failed"} THEN {rt.run} ELSE {}

\* While it may resume, the runtime names the active run.
Names ==
    /\ Serving /\ rt.stopped /\ srv.held => drv.pc \in {"off", "ended", "failed"}
    /\ rt.started /\ (~ rt.stopped \/ (Serving /\ srv.held)) =>
         /\ drv.pc \notin {"sync", "bind"} => jr.run \in {Nil, rt.run}
         /\ drv.pc = "bind" => jr.run \in {Nil, drv.run}

\* detach and cancel have said that the runtime stops.
Stopping == srv.pc = "settle" => rt.stopped /\ srv.cmd.type \in Terminal

QueueInv == Alive => Queues /\ Leftover /\ Names /\ Stopping

StdioIInv ==
    /\ StdioConstants /\ TypeOK /\ Stream /\ Receipts /\ Inbox /\ AtHand /\ Settled /\ QueueInv

----------------------------------------------------------------------------
(* What a step leaves alone. *)

\* A step that writes nothing to the client, while the journal may grow.
LEMMA StreamKept ==
    ASSUME TypeOK, TypeOK', Stream, client' = client, out' = out, srv'.last = srv.last,
           jr.seq <= jr'.seq, Alive' => Alive, srv.pc = "off" => srv'.pc = "off"
    PROVE  Stream'
<1>1. /\ jr.seq \in Nat /\ jr'.seq \in Nat /\ client.accepted \in Nat /\ srv.last \in Nat
    BY Zenon DEF TypeOK, JrRec, SrvRec, ClientRec
<1>2. client'.accepted <= jr'.seq /\ (Alive' => srv'.last <= jr'.seq)
  <2>1. client.accepted <= jr.seq /\ (Alive => srv.last <= jr.seq)
    BY Zenon DEF Stream
  <2>2. \A n \in Nat : n <= jr.seq => n <= jr'.seq
    BY <1>1, SMT
  <2> QED
    BY <1>1, <2>1, <2>2, Zenon
<1>3. Reading' => Flow(out', client'.accepted, jr'.seq)
  <2>1. Reading => Flow(out, client.accepted, jr.seq)
    BY Zenon DEF Stream
  <2> QED
    BY <1>1, <2>1, GrowFlow, Zenon DEF Reading
<1>4. /\ client'.st = "new" => srv'.pc = "off"
      /\ Reading' /\ Alive' => srv'.last = End(out', client'.accepted)
      /\ client'.fault # "broken"
    BY Zenon DEF Stream, Reading
<1> QED
    BY <1>2, <1>3, <1>4, Zenon DEF Stream

\* Attachment.Replay.
LEMMA StreamReplayed ==
    ASSUME TypeOK, TypeOK', Stream, Alive, client' = client, jr' = jr, out' = Replayed(jr),
           Reading => srv'.last = jr.seq \/ ~ Alive', ~ Reading => srv'.last = srv.last
    PROVE  Stream'
<1>1. /\ jr.seq \in Nat /\ client.accepted \in Nat /\ srv.last \in Nat /\ srv.epoch \in Nat
    BY Zenon DEF TypeOK, JrRec, SrvRec, ClientRec
<1>2. client.st # "new" /\ client.accepted <= jr.seq /\ srv.last <= jr.seq /\ client.fault # "broken"
    BY Zenon DEF Stream, Alive
<1>3. CASE Reading
  <2>1. Flow(out, client.accepted, jr.seq) /\ srv.last = End(out, client.accepted)
    BY <1>3, Zenon DEF Stream
  <2>2. out' = WithGroups(out, srv.last, jr.seq, srv.epoch)
    BY <1>3, Zenon DEF Replayed, WithGroups
  <2>3. Flow(out', client.accepted, jr.seq) /\ End(out', client.accepted) = jr.seq
    BY <1>1, <1>2, <2>1, <2>2, ReplayFlow, SMT
  <2>4. srv'.last = jr.seq \/ ~ Alive'
    BY <1>3, Zenon
  <2>5. jr.seq <= jr.seq
    BY <1>1, SMT
  <2> QED
    BY <1>2, <2>3, <2>4, <2>5, Zenon DEF Stream, Reading
<1>4. CASE ~ Reading
    BY <1>2, <1>4, Zenon DEF Stream, Reading
<1> QED
    BY <1>3, <1>4, Zenon

\* SendProtocolError: the frame carries the position the attachment has reached.
LEMMA StreamRefused ==
    ASSUME TypeOK, TypeOK', Stream, Alive, client' = client, Refusal
    PROVE  Stream'
<1>1. /\ jr.seq \in Nat /\ client.accepted \in Nat /\ srv.last \in Nat /\ srv.epoch \in Nat
    BY Zenon DEF TypeOK, JrRec, SrvRec, ClientRec
<1>2. client.st # "new" /\ client.accepted <= jr.seq /\ srv.last <= jr.seq /\ client.fault # "broken"
    BY Zenon DEF Stream, Alive
<1>3. jr' = jr /\ srv'.last = srv.last
  <2>1. jr' = jr /\ srv' = Fails(srv) /\ srv \in SrvRec
    BY Zenon DEF Refusal, TypeOK
  <2> QED
    BY <2>1, FailsFacts, Zenon
<1>4. CASE Reading
  <2>1. Flow(out, client.accepted, jr.seq) /\ srv.last = End(out, client.accepted)
    BY <1>4, Zenon DEF Stream
  <2>2. out' = WithSingle(out, "error", srv.last, srv.epoch) /\ "error" \in {"hello", "error"}
    BY <1>4, Zenon DEF Refusal, WithSingle
  <2>3. Flow(out', client.accepted, jr.seq) /\ End(out', client.accepted) = srv.last
    BY <1>1, <1>2, <2>1, <2>2, SingleFlow, SMT
  <2> QED
    BY <1>2, <1>3, <2>3, Zenon DEF Stream, Reading
<1>5. CASE ~ Reading
    BY <1>2, <1>3, <1>5, Zenon DEF Stream, Reading
<1> QED
    BY <1>4, <1>5, Zenon

\* A journal that gets no receipt, in which no run begins to run.
LEMMA ReceiptsKept ==
    ASSUME TypeOK, TypeOK', Receipts, sent' = sent, jr'.rec = jr.rec, jr.seq <= jr'.seq,
           jr'.st = "running" => jr.st = "running" /\ jr'.run # Nil
    PROVE  Receipts'
<1>1. jr.seq \in Nat /\ jr'.seq \in Nat /\ \A c \in CommandID : jr.rec[c] \in Nat
    BY Zenon DEF TypeOK, JrRec
<1>2. \A c \in CommandID : jr.rec[c] <= jr'.seq
  <2>1. \A c \in CommandID : jr.rec[c] <= jr.seq
    BY Zenon DEF Receipts
  <2>2. \A n \in Nat : n <= jr.seq => n <= jr'.seq
    BY <1>1, SMT
  <2> QED
    BY <1>1, <2>1, <2>2, Zenon
<1>3. \A c \in CommandID : Superseded(c) => Superseded(c)'
    BY Zenon DEF Superseded
<1> QED
    BY <1>2, <1>3, Zenon DEF Receipts

\* A step that leaves the runtime, its drive and the queues alone.
LEMMA QueuesKept ==
    ASSUME QueueInv, rt' = rt, drv' = drv, broker' = broker, Alive' => Alive, Serving' => Serving,
           srv'.held => srv.held, jr'.run \in {Nil, jr.run}, srv'.pc # "settle" \/ Stopping'
    PROVE  QueueInv'
<1> SUFFICES ASSUME Alive' PROVE (Queues /\ Leftover /\ Names /\ Stopping)'
    BY Zenon DEF QueueInv
<1>1. Queues /\ Leftover /\ Names /\ Stopping
    BY Zenon DEF QueueInv
<1>2. Queues'
    BY <1>1, Zenon DEF Queues
<1>3. Leftover'
    BY <1>1, Zenon DEF Leftover
<1>4. Names'
    BY <1>1, Zenon DEF Names
<1>5. Stopping'
    BY <1>1, Zenon DEF Stopping
<1> QED
    BY <1>2, <1>3, <1>4, <1>5, Zenon

\* A step of the process that writes nothing to the client and reads nothing from it.
LEMMA QuietStep ==
    ASSUME StdioIInv, TypeOK', client' = client, out' = out, in' = in, sent' = sent,
           srv'.last = srv.last, Alive, jr.seq <= jr'.seq, Receipts', AtHand', Settled', QueueInv'
    PROVE  StdioIInv'
<1>1. TypeOK /\ Stream /\ Inbox /\ StdioConstants
    BY Zenon DEF StdioIInv
<1>2. Stream'
  <2>1. srv.pc # "off"
    BY Zenon DEF Alive
  <2> QED
    BY <1>1, <2>1, StreamKept, Zenon
<1>3. Inbox'
    BY <1>1, Zenon DEF Inbox, Known
<1> QED
    BY <1>1, <1>2, <1>3, Zenon DEF StdioIInv, StdioConstants

\* One in which only the command loop moves.
LEMMA ServeStep ==
    ASSUME StdioIInv, srv' \in SrvRec, srv'.last = srv.last, Alive, AtHand', Settled',
           Serving' => Serving, srv'.held => srv.held, srv'.pc # "settle" \/ Stopping',
           UNCHANGED <<jr, rt, drv, fol, broker, out, in, client, sent>>
    PROVE  StdioIInv'
<1>1. /\ jr' = jr /\ rt' = rt /\ drv' = drv /\ fol' = fol /\ broker' = broker /\ out' = out /\ in' = in
      /\ client' = client /\ sent' = sent
    BY Zenon
<1>2. TypeOK /\ Receipts /\ QueueInv
    BY Zenon DEF StdioIInv
<1>3. TypeOK'
    BY <1>1, <1>2, Zenon DEF TypeOK
<1>4. jr.seq <= jr'.seq
  <2>1. jr.seq \in Nat
    BY <1>2, Zenon DEF TypeOK, JrRec
  <2> QED
    BY <1>1, <2>1, SMT
<1>5. Receipts'
    BY <1>1, <1>2, <1>3, <1>4, ReceiptsKept, Zenon DEF Receipts
<1>6. QueueInv'
    BY <1>1, <1>2, QueuesKept, Zenon
<1> QED
    BY <1>1, <1>3, <1>4, <1>5, <1>6, QuietStep, Zenon

\* One in which only the runtime and its drive move.
LEMMA DriveStep ==
    ASSUME StdioIInv, Alive, rt' \in RtRec, drv' \in DrvRec, fol' \in {"off", "on"}, broker' \in SUBSET Nat,
           QueueInv', UNCHANGED <<jr, srv, out, in, client, sent>>
    PROVE  StdioIInv'
<1>1. jr' = jr /\ srv' = srv /\ out' = out /\ in' = in /\ client' = client /\ sent' = sent
    BY Zenon
<1>2. TypeOK /\ Receipts /\ AtHand /\ Settled
    BY Zenon DEF StdioIInv
<1>3. TypeOK'
    BY <1>1, <1>2, Zenon DEF TypeOK
<1>4. jr.seq <= jr'.seq
  <2>1. jr.seq \in Nat
    BY <1>2, Zenon DEF TypeOK, JrRec
  <2> QED
    BY <1>1, <2>1, SMT
<1>5. Receipts'
    BY <1>1, <1>2, <1>3, <1>4, ReceiptsKept, Zenon DEF Receipts
<1>6. AtHand' /\ Settled'
    BY <1>1, <1>2, Zenon DEF AtHand, Known, Settled
<1> QED
    BY <1>1, <1>3, <1>4, <1>5, <1>6, QuietStep, Zenon

\* No command at hand.
LEMMA NoCommandFacts == NoCommand \in CmdRec /\ NoCommand.id = Nil /\ NoCommand.type = "none"
<1>1. "none" \in CmdType /\ 0 \in Nat
    BY SMT DEF CmdType
<1> QED
    BY <1>1, Zenon DEF NoCommand, CmdRec, Nil

----------------------------------------------------------------------------
(* The command loop. *)

\* The input is at its end.
LEMMA ServeEndsInv ==
    ASSUME StdioIInv, ServeEnds, sent' = sent PROVE StdioIInv'
<1>1. srv \in SrvRec /\ srv.pc = "read"
    BY Zenon DEF StdioIInv, TypeOK, ServeEnds
<1>2. srv' = [srv EXCEPT !.pc = "finish", !.cmd = NoCommand] /\ "finish" \in SrvPlace
    BY Zenon DEF ServeEnds, SrvPlace
<1>3. /\ srv' \in SrvRec /\ srv'.pc = "finish" /\ srv'.cmd = NoCommand /\ srv'.last = srv.last
      /\ srv'.held = srv.held
    BY <1>1, <1>2, NoCommandFacts, Zenon DEF SrvRec
<1>4. Alive /\ AtHand' /\ Settled' /\ ~ Serving'
    BY <1>1, <1>3, NoCommandFacts, Zenon DEF Alive, AtHand, Settled, Serving
<1> QED
    BY <1>3, <1>4, ServeStep, Zenon DEF ServeEnds

\* finishSessionAttachment: the journal has no active run, or the last detach begins.
LEMMA finishSessionAttachmentInv ==
    ASSUME StdioIInv, finishSessionAttachment, sent' = sent PROVE StdioIInv'
<1>1. srv \in SrvRec /\ srv.pc = "finish" /\ jr \in JrRec /\ Receipts /\ AtHand
    BY Zenon DEF StdioIInv, TypeOK, finishSessionAttachment
<1>2. CASE jr.run = Nil
  <2>1. PICK k \in {"success", "runtime"} : srv' = Exits(srv, k)
    BY <1>2, Zenon DEF finishSessionAttachment
  <2>2. srv' \in SrvRec /\ srv'.pc = "gone" /\ srv'.last = srv.last /\ srv'.cmd = srv.cmd
    BY <1>1, <2>1, ExitsFacts, Zenon
  <2>3. ~ srv'.held
    BY <1>1, <2>1, Zenon DEF Exits, SrvRec
  <2>4. jr.st # "running" /\ jr' = jr
    BY <1>1, <1>2, Zenon DEF Receipts, finishSessionAttachment
  <2>5. Alive /\ AtHand' /\ Settled' /\ ~ Serving'
    BY <1>1, <2>2, <2>4, Zenon DEF Alive, AtHand, Settled, Serving, Known
  <2> QED
    BY <2>2, <2>3, <2>5, ServeStep, Zenon DEF finishSessionAttachment
<1>3. CASE jr.run # Nil
  <2>1. PICK cmd : cmd = [id |-> Nil, type |-> Detach, epoch |-> srv.epoch, expect |-> jr.seq]
    BY Zenon
  <2>2. cmd \in CmdRec /\ cmd.id = Nil /\ cmd.type = Detach
    <3>1. Detach \in CmdType /\ srv.epoch \in Nat /\ jr.seq \in Nat
      BY <1>1, Zenon DEF CmdType, Terminal, SrvRec, JrRec
    <3> QED
      BY <2>1, <3>1, Zenon DEF CmdRec
  <2>3. srv' = [srv EXCEPT !.pc = "op", !.final = TRUE, !.cmd = cmd] /\ "op" \in SrvPlace
    BY <1>3, <2>1, Zenon DEF finishSessionAttachment, SrvPlace
  <2>4. /\ srv' \in SrvRec /\ srv'.pc = "op" /\ srv'.cmd = cmd /\ srv'.last = srv.last
        /\ srv'.held = srv.held
    BY <1>1, <2>2, <2>3, Zenon DEF SrvRec
  <2>5. Alive /\ AtHand' /\ Settled' /\ ~ Serving'
    BY <1>1, <2>2, <2>4, Zenon DEF Alive, AtHand, Settled, Serving, Terminal
  <2> QED
    BY <2>4, <2>5, ServeStep, Zenon DEF finishSessionAttachment
<1> QED
    BY <1>2, <1>3, Zenon

\* The process gives up: it reports an error.
LEMMA ServeGivesUpInv ==
    ASSUME StdioIInv, ServeGivesUp, sent' = sent PROVE StdioIInv'
<1>1. srv \in SrvRec /\ srv.pc \in {"read", "finish"} /\ srv' = Exits(srv, "runtime") /\ AtHand
    BY Zenon DEF StdioIInv, TypeOK, ServeGivesUp
<1>2. /\ srv' \in SrvRec /\ srv'.pc = "gone" /\ srv'.last = srv.last /\ srv'.cmd = srv.cmd
      /\ srv'.code = "runtime" /\ ~ srv'.held
  <2>1. "runtime" \in {"success", "runtime"}
    BY Zenon
  <2>2. ~ srv'.held
    BY <1>1, Zenon DEF Exits, SrvRec
  <2> QED
    BY <1>1, <2>1, <2>2, ExitsFacts, Zenon
<1>3. Alive /\ AtHand' /\ Settled' /\ ~ Serving'
    BY <1>1, <1>2, Zenon DEF Alive, AtHand, Settled, Serving, Known
<1> QED
    BY <1>2, <1>3, ServeStep, Zenon DEF ServeGivesUp

\* A step that leaves the journal alone.
LEMMA JournalStays ==
    ASSUME StdioIInv, TypeOK', jr' = jr, sent' = sent, Stream', Inbox', AtHand', Settled', QueueInv'
    PROVE  StdioIInv'
<1>1. TypeOK /\ Receipts /\ StdioConstants
    BY Zenon DEF StdioIInv
<1>2. jr.seq <= jr'.seq
  <2>1. jr.seq \in Nat
    BY <1>1, Zenon DEF TypeOK, JrRec
  <2> QED
    BY <2>1, SMT
<1>3. Receipts'
    BY <1>1, <1>2, ReceiptsKept, Zenon DEF Receipts
<1> QED
    BY <1>1, <1>3, Zenon DEF StdioIInv, StdioConstants

\* A command is refused: the client is told, and the process ends.
LEMMA RefusingStep ==
    ASSUME StdioIInv, Alive, Refusal, client' = client, sent' = sent, in' \in Seq(CmdRec), Inbox',
           broker' \subseteq broker, rt.started /\ ~ rt.stopped => broker' = broker
    PROVE  StdioIInv'
<1>1. TypeOK /\ Stream /\ QueueInv
    BY Zenon DEF StdioIInv
<1>2. jr' = jr /\ rt' = rt /\ drv' = drv /\ fol' = fol /\ srv' = Fails(srv)
    BY Zenon DEF Refusal
<1>3. srv' \in SrvRec /\ srv'.pc = "finish" /\ srv'.cmd = NoCommand /\ srv \in SrvRec
    BY <1>1, <1>2, FailsFacts, Zenon DEF TypeOK
<1>4. out' \in Seq(ItemRec)
  <2>1. out \in Seq(ItemRec) /\ srv.last \in Nat /\ srv.epoch \in Nat
    BY <1>1, Zenon DEF TypeOK, SrvRec
  <2>2. Item("error", srv.last, srv.epoch) \in ItemRec
    BY <2>1, Zenon DEF Item, ItemRec
  <2>3. PICK g : g = Single("error", srv.last, srv.epoch)
    BY Zenon
  <2>4. g \in Seq(ItemRec)
    BY <2>2, <2>3, SingleSeq, Zenon DEF Single
  <2>5. out' = out \/ out' = out \o g
    BY <2>3, Zenon DEF Refusal
  <2> QED
    BY <2>1, <2>4, <2>5, JoinSeq, Zenon
<1>5. TypeOK'
    BY <1>1, <1>2, <1>3, <1>4, Zenon DEF TypeOK
<1>6. Stream'
    BY <1>1, <1>5, StreamRefused, Zenon
<1>7. AtHand' /\ Settled' /\ ~ Serving'
    BY <1>3, NoCommandFacts, Zenon DEF AtHand, Settled, Serving
<1>8. QueueInv'
  <2>1. Queues /\ Leftover /\ Names
    BY <1>1, Zenon DEF QueueInv
  <2>2. Queues'
    BY <1>2, <2>1, Zenon DEF Queues
  <2>3. Leftover' /\ Names'
    <3>1. ~ rt.stopped => (Names => Names')
      BY <1>2, <1>7, Zenon DEF Names
    <3>2. rt.stopped => Names'
      BY <1>2, <1>7, Zenon DEF Names
    <3> QED
      BY <1>7, <2>1, <3>1, <3>2, Zenon DEF Leftover
  <2>4. Stopping'
    BY <1>3, Zenon DEF Stopping
  <2> QED
    BY <2>2, <2>3, <2>4, Zenon DEF QueueInv
<1> QED
    BY <1>2, <1>5, <1>6, <1>7, <1>8, JournalStays, Zenon

\* The next command is taken from the pipe.
LEMMA InboxRead ==
    ASSUME TypeOK, Inbox, in # <<>>, in' = Tail(in), sent' = sent
    PROVE  Head(in) \in CmdRec /\ Known(Head(in)) /\ in' \in Seq(CmdRec) /\ Inbox'
<1>1. in \in Seq(CmdRec)
    BY Zenon DEF TypeOK
<1>2. /\ Head(in) = in[1] /\ 1 \in 1..Len(in) /\ Head(in) \in CmdRec /\ in' \in Seq(CmdRec)
      /\ \A i \in 1..Len(in') : i + 1 \in 1..Len(in) /\ in'[i] = in[i + 1]
    BY <1>1, SMT
<1> QED
    BY <1>2, Zenon DEF Inbox, Known

\* A replay, then the command loop goes on or the process ends.
LEMMA ReplayingStep ==
    ASSUME StdioIInv, Alive, srv' \in SrvRec, drv' \in DrvRec, in' \in Seq(CmdRec), Inbox',
           out' = Replayed(jr), UNCHANGED <<jr, rt, fol, broker, client, sent>>,
           Reading => srv'.last = jr.seq \/ ~ Alive', ~ Reading => srv'.last = srv.last,
           AtHand', Settled', QueueInv'
    PROVE  StdioIInv'
<1>1. TypeOK /\ Stream
    BY Zenon DEF StdioIInv
<1>2. jr' = jr /\ rt' = rt /\ fol' = fol /\ broker' = broker /\ client' = client /\ sent' = sent
    BY Zenon
<1>3. out' \in Seq(ItemRec)
  <2>1. /\ out \in Seq(ItemRec) /\ srv.last \in Nat /\ jr.seq \in Nat /\ srv.epoch \in Nat
        /\ srv.last <= jr.seq
    BY <1>1, Zenon DEF TypeOK, SrvRec, JrRec, Stream
  <2>2. PICK g : g = Groups(srv.last, jr.seq, srv.epoch)
    BY Zenon
  <2>3. Consecutive(g, srv.last, jr.seq - srv.last)
    BY <2>1, <2>2, GroupsFacts, Zenon
  <2>4. g \in Seq(ItemRec)
    BY <2>3, Zenon DEF Consecutive
  <2>5. out' = out \/ out' = out \o g
    BY <2>2, Zenon DEF Replayed
  <2> QED
    BY <2>1, <2>4, <2>5, JoinSeq, Zenon
<1>4. TypeOK'
    BY <1>1, <1>2, <1>3, Zenon DEF TypeOK
<1>5. Stream'
    BY <1>1, <1>2, <1>4, StreamReplayed, Zenon
<1> QED
    BY <1>2, <1>4, <1>5, JournalStays, Zenon

\* A command begins.
AtOp(s, cmd) == [s EXCEPT !.pc = "op", !.cmd = cmd]

\* What it changes in the process.
LEMMA OpFacts ==
    ASSUME NEW s \in SrvRec, NEW cmd \in CmdRec
    PROVE  /\ AtOp(s, cmd) \in SrvRec /\ AtOp(s, cmd).pc = "op" /\ AtOp(s, cmd).cmd = cmd
           /\ AtOp(s, cmd).last = s.last /\ AtOp(s, cmd).held = s.held
           /\ AtOp(s, cmd).final = s.final
<1>1. "op" \in SrvPlace
    BY Zenon DEF SrvPlace
<1> QED
    BY <1>1, Zenon DEF SrvRec, AtOp

\* Serve goes on to execute a command it has read.
LEMMA OpBegins ==
    ASSUME StdioIInv, srv.pc = "read", NEW cmd \in CmdRec, Known(cmd), in' \in Seq(CmdRec), Inbox',
           srv' = AtOp(srv, cmd), UNCHANGED <<jr, rt, drv, fol, broker, out, client, sent>>
    PROVE  StdioIInv'
<1>1. TypeOK /\ Stream /\ QueueInv /\ AtHand
    BY Zenon DEF StdioIInv
<1>2. /\ jr' = jr /\ rt' = rt /\ drv' = drv /\ fol' = fol /\ broker' = broker /\ out' = out
      /\ client' = client /\ sent' = sent
    BY Zenon
<1>3. /\ srv' \in SrvRec /\ srv'.pc = "op" /\ srv'.cmd = cmd /\ srv'.last = srv.last
      /\ srv'.held = srv.held /\ srv'.final = srv.final
  <2>1. srv \in SrvRec
    BY <1>1, Zenon DEF TypeOK
  <2> QED
    BY <2>1, OpFacts, Zenon
<1>4. TypeOK'
    BY <1>1, <1>2, <1>3, Zenon DEF TypeOK
<1>5. Alive /\ AtHand' /\ Settled' /\ Serving
    BY <1>1, <1>2, <1>3, Zenon DEF Alive, AtHand, Settled, Known, Serving
<1>6. jr.seq <= jr'.seq /\ jr'.run \in {Nil, jr.run}
  <2>1. jr.seq \in Nat
    BY <1>1, Zenon DEF TypeOK, JrRec
  <2> QED
    BY <1>2, <2>1, SMT
<1>7. Stream'
    BY <1>1, <1>2, <1>3, <1>4, <1>5, <1>6, StreamKept, Zenon
<1>8. QueueInv'
    BY <1>1, <1>2, <1>3, <1>5, <1>6, QueuesKept, Zenon
<1> QED
    BY <1>2, <1>4, <1>5, <1>7, <1>8, JournalStays, Zenon

\* Serve reads a command: it is refused, found in the journal, or begun.
LEMMA ServeReadsInv ==
    ASSUME StdioIInv, ServeReads, sent' = sent PROVE StdioIInv'
<1>0. TypeOK /\ Inbox /\ Receipts /\ srv \in SrvRec /\ jr \in JrRec
    BY Zenon DEF StdioIInv, TypeOK
<1>1. srv.pc = "read" /\ in # <<>> /\ in' = Tail(in) /\ client' = client
    BY Zenon DEF ServeReads
<1>2. PICK cmd : cmd = Head(in)
    BY Zenon
<1>3. cmd \in CmdRec /\ Known(cmd) /\ in' \in Seq(CmdRec) /\ Inbox'
    BY <1>0, <1>1, <1>2, InboxRead, Zenon
<1>4. Alive
    BY <1>1, Zenon DEF Alive
<1>5. CASE ServeRefuses
    BY <1>1, <1>3, <1>4, <1>5, RefusingStep, Zenon DEF ServeRefuses
<1>6. CASE ServeRepeats(cmd)
  <2>1. CASE srv' = [srv EXCEPT !.pc = "op", !.cmd = cmd] /\ out' = out
    BY <1>1, <1>3, <1>6, <2>1, OpBegins, Zenon DEF ServeRepeats, AtOp
  <2>2. CASE ~ (srv' = [srv EXCEPT !.pc = "op", !.cmd = cmd] /\ out' = out)
    <3>1. PICK s : s = [srv EXCEPT !.last = jr.seq]
      BY Zenon
    <3>2. /\ out' = Replayed(jr) /\ UNCHANGED <<jr, rt, drv, fol, broker>> /\ jr.rec[cmd.id] > 0
          /\ \/ ~ Reading /\ srv' = Fails(srv)
             \/ /\ Reading /\ cmd.type \in Terminal /\ ~ Superseded(cmd.id)
                /\ srv' = Exits(s, "success")
             \/ Reading /\ srv' = s
      BY <1>6, <2>2, <3>1, Zenon DEF ServeRepeats, EndsDetached
    <3>3. s \in SrvRec /\ s.last = jr.seq /\ s.pc = "read" /\ s.cmd = srv.cmd /\ s.held = srv.held /\ s.final = srv.final
      <4>1. jr.seq \in Nat
        BY <1>0, Zenon DEF JrRec
      <4> QED
        BY <1>0, <1>1, <3>1, <4>1, Zenon DEF SrvRec
    <3>4. AtHand /\ QueueInv /\ drv \in DrvRec
      BY Zenon DEF StdioIInv, TypeOK
    <3>5. CASE ~ Reading /\ srv' = Fails(srv)
      <4>1. srv' \in SrvRec /\ srv'.pc = "finish" /\ srv'.last = srv.last /\ srv'.cmd = NoCommand /\ srv'.held = srv.held
        BY <1>0, <3>5, FailsFacts, Zenon
      <4>2. AtHand' /\ Settled' /\ ~ Serving'
        BY <4>1, NoCommandFacts, Zenon DEF AtHand, Settled, Serving
      <4>3. QueueInv'
        BY <1>4, <3>2, <3>4, <4>1, <4>2, QueuesKept, Zenon
      <4> QED
        BY <1>1, <1>3, <1>4, <3>2, <3>4, <3>5, <4>1, <4>2, <4>3, ReplayingStep, Zenon
    <3>6. CASE /\ Reading /\ cmd.type \in Terminal /\ ~ Superseded(cmd.id)
               /\ srv' = Exits(s, "success")
      <4>1. srv' \in SrvRec /\ srv'.pc = "gone" /\ srv'.last = jr.seq /\ srv'.cmd = srv.cmd
        <5>1. "success" \in {"success", "runtime"}
          BY Zenon
        <5> QED
          BY <3>3, <3>6, <5>1, ExitsFacts, Zenon
      <4>2. jr.st # "running" /\ jr' = jr
        BY <1>0, <1>3, <3>2, <3>6, Zenon DEF Receipts, Known
      <4>3. AtHand' /\ Settled' /\ ~ Alive'
        BY <3>4, <4>1, <4>2, Zenon DEF AtHand, Known, Settled, Alive
      <4>4. QueueInv'
        BY <4>3, Zenon DEF QueueInv
      <4> QED
        BY <1>1, <1>3, <1>4, <3>2, <3>4, <3>6, <4>1, <4>3, <4>4, ReplayingStep, Zenon
    <3>7. CASE Reading /\ srv' = s
      <4>1. AtHand' /\ Settled' /\ Serving
        BY <1>1, <3>3, <3>4, <3>7, Zenon DEF AtHand, Known, Settled, Serving
      <4>2. QueueInv'
        BY <1>4, <3>2, <3>3, <3>4, <3>7, <4>1, QueuesKept, Zenon
      <4> QED
        BY <1>1, <1>3, <1>4, <3>2, <3>3, <3>4, <3>7, <4>1, <4>2, ReplayingStep, Zenon
    <3> QED
      BY <3>2, <3>5, <3>6, <3>7, Zenon
  <2> QED
    BY <2>1, <2>2, Zenon
<1>7. CASE srv' = [srv EXCEPT !.pc = "op", !.cmd = cmd] /\ UNCHANGED <<jr, rt, drv, fol, broker, out>>
    BY <1>1, <1>3, <1>7, OpBegins, Zenon DEF AtOp
<1> QED
    BY <1>2, <1>5, <1>6, <1>7, Zenon DEF ServeReads

----------------------------------------------------------------------------
(* Commands that are committed. *)

\* What a command appends to the journal: events, and its receipt as the newest.
Recorded(n, run, st) == Receipt(Committed(n, run, st), srv.cmd.id)

\* j is the journal with n events more and the receipt of the command at hand.
Records(j, n, run, st) ==
    /\ j \in JrRec /\ j.seq = jr.seq + n /\ j.run = run /\ j.st = st
    /\ \A c \in CommandID : j.rec[c] = IF c = srv.cmd.id THEN jr.seq + n ELSE jr.rec[c]

\* The journal after a command.
LEMMA RecordedFacts ==
    ASSUME jr \in JrRec, NEW n \in Nat, NEW run \in Nat, NEW st \in SessionStatus,
           NEW r, r = Recorded(n, run, st)
    PROVE  Records(r, n, run, st)
<1>1. PICK j : j = Committed(n, run, st)
    BY Zenon
<1>2. j \in JrRec /\ j.seq = jr.seq + n /\ j.run = run /\ j.st = st /\ j.rec = jr.rec
  <2>1. Commits(j, n, run, st)
    BY <1>1, CommittedFacts, Zenon
  <2> QED
    BY <2>1, Zenon DEF Commits
<1>3. PICK id : id = srv.cmd.id
    BY Zenon
<1>4. r = Receipt(j, id)
    BY <1>1, <1>3, Zenon DEF Recorded
<1>5. Receipted(r, j, id)
    BY <1>2, <1>4, ReceiptFacts, Zenon
<1> QED
    BY <1>2, <1>3, <1>5, Zenon DEF Receipted, Records

\* The receipt of a command that runs a run supersedes every other one.
LEMMA RecordedReceipts ==
    ASSUME StdioConstants, TypeOK, TypeOK', Receipts, AtHand, sent' = sent,
           NEW n \in Nat \ {0}, NEW run \in Nat, NEW st \in SessionStatus, jr' = Recorded(n, run, st),
           st = "running" => run # Nil /\ srv.cmd.type \notin Terminal \cup {"none"}
    PROVE  Receipts'
<1>0. n \in Nat /\ jr \in JrRec
    BY Zenon DEF TypeOK
<1>1. /\ jr'.seq = jr.seq + n /\ jr'.run = run /\ jr'.st = st
      /\ \A c \in CommandID : jr'.rec[c] = IF c = srv.cmd.id THEN jr.seq + n ELSE jr.rec[c]
  <2>1. Records(jr', n, run, st)
    BY <1>0, RecordedFacts, Zenon
  <2> QED
    BY <2>1, Zenon DEF Records
<1>2. jr.seq \in Nat /\ \A c \in CommandID : jr.rec[c] \in Nat /\ jr.rec[c] <= jr.seq
    BY Zenon DEF TypeOK, JrRec, Receipts
<1>3. ASSUME NEW c \in CommandID PROVE jr'.rec[c] <= jr'.seq /\ (jr'.rec[c] > 0 => sent'[c] # "none")
  <2>1. CASE c = srv.cmd.id
    <3>1. jr'.rec[c] = jr.seq + n /\ jr.seq + n <= jr.seq + n
      <4>1. jr.seq + n <= jr.seq + n
        BY <1>2, SMT
      <4> QED
        BY <1>1, <2>1, <4>1, Zenon
    <3>2. sent[c] # "none"
      BY <2>1, Zenon DEF AtHand, Known, StdioConstants
    <3> QED
      BY <1>1, <3>1, <3>2, Zenon
  <2>2. CASE c # srv.cmd.id
    <3>1. jr'.rec[c] = jr.rec[c] /\ (jr.rec[c] > 0 => sent[c] # "none")
      BY <1>1, <2>2, Zenon DEF Receipts
    <3>2. jr.rec[c] <= jr.seq + n
      BY <1>2, SMT
    <3> QED
      BY <1>1, <3>1, <3>2, Zenon
  <2> QED
    BY <2>1, <2>2, Zenon
<1>4. CASE st = "running"
  <2>1. Known(srv.cmd) /\ srv.cmd.id \in CommandID /\ sent[srv.cmd.id] \notin Terminal
    BY <1>4, Zenon DEF AtHand, Known, Terminal
  <2>2. ASSUME NEW c \in CommandID, sent'[c] \in Terminal PROVE Superseded(c)'
    <3>1. c # srv.cmd.id
      BY <2>1, <2>2, Zenon
    <3>2. jr'.rec[c] = jr.rec[c] /\ jr'.rec[srv.cmd.id] = jr.seq + n
      BY <1>1, <2>1, <3>1, Zenon
    <3>3. jr.seq + n > jr.rec[c]
      BY <1>2, SMT
    <3> QED
      BY <2>1, <3>2, <3>3, Zenon DEF Superseded
  <2> QED
    BY <1>1, <1>3, <1>4, <2>2, Zenon DEF Receipts
<1>5. CASE st # "running"
    BY <1>1, <1>3, <1>5, Zenon DEF Receipts
<1> QED
    BY <1>4, <1>5, Zenon

\* A step that commits a command and leaves the stream to the reply.
LEMMA RecordingStep ==
    ASSUME StdioIInv, Alive, NEW n \in Nat \ {0}, NEW run \in Nat, NEW st \in SessionStatus,
           jr' = Recorded(n, run, st),
           st = "running" => run # Nil /\ srv.cmd.type \notin Terminal \cup {"none"},
           srv' \in SrvRec, srv'.last = srv.last, rt' \in RtRec, drv' \in DrvRec, fol' \in {"off", "on"},
           broker' \in SUBSET Nat, UNCHANGED <<out, in, client, sent>>, AtHand', Settled', QueueInv'
    PROVE  StdioIInv'
<1>1. StdioConstants /\ TypeOK /\ Receipts /\ AtHand /\ jr \in JrRec /\ n \in Nat
    BY Zenon DEF StdioIInv, TypeOK
<1>2. out' = out /\ in' = in /\ client' = client /\ sent' = sent
    BY Zenon
<1>3. jr' \in JrRec /\ jr'.seq = jr.seq + n
  <2>1. Records(jr', n, run, st)
    BY <1>1, RecordedFacts, Zenon
  <2> QED
    BY <2>1, Zenon DEF Records
<1>4. TypeOK'
    BY <1>1, <1>2, <1>3, Zenon DEF TypeOK
<1>5. jr.seq <= jr'.seq
  <2>1. jr.seq \in Nat
    BY <1>1, Zenon DEF JrRec
  <2>2. jr.seq <= jr.seq + n
    BY <2>1, SMT
  <2> QED
    BY <1>3, <2>2, Zenon
<1>6. Receipts'
    BY <1>1, <1>2, <1>4, RecordedReceipts, Zenon
<1> QED
    BY <1>2, <1>4, <1>5, <1>6, QuietStep, Zenon

\* The command loop at another place.
AtPlace(s, pc) == [s EXCEPT !.pc = pc]

\* The command loop moves on.
LEMMA PlaceFacts ==
    ASSUME NEW s \in SrvRec, NEW pc \in {"settle", "reply"}
    PROVE  /\ AtPlace(s, pc) \in SrvRec /\ AtPlace(s, pc).pc = pc /\ AtPlace(s, pc).cmd = s.cmd
           /\ AtPlace(s, pc).last = s.last /\ AtPlace(s, pc).held = s.held
           /\ AtPlace(s, pc).final = s.final
<1>1. pc \in SrvPlace
    BY Zenon DEF SrvPlace
<1> QED
    BY <1>1, Zenon DEF SrvRec, AtPlace

\* A command that is not the last one is done.
LEMMA ReplyFacts ==
    ASSUME StdioIInv, srv.pc = "op", srv.cmd.type \notin Terminal, srv' = AtPlace(srv, "reply"), sent' = sent
    PROVE  /\ srv' \in SrvRec /\ srv'.last = srv.last /\ srv'.pc = "reply" /\ srv'.held = srv.held
           /\ AtHand' /\ Settled' /\ Serving /\ Serving' /\ Alive /\ Stopping'
<1>1. srv \in SrvRec /\ AtHand /\ "reply" \in {"settle", "reply"}
    BY Zenon DEF StdioIInv, TypeOK
<1>2. /\ srv' \in SrvRec /\ srv'.pc = "reply" /\ srv'.cmd = srv.cmd /\ srv'.last = srv.last
      /\ srv'.held = srv.held /\ srv'.final = srv.final
    BY <1>1, PlaceFacts, Zenon
<1> QED
    BY <1>1, <1>2, Zenon DEF AtHand, Known, Settled, Serving, Alive, Stopping

\* answer and configure: committed once; a configuration starts the drive.
LEMMA OpCommitsInv ==
    ASSUME StdioIInv, OpCommits, sent' = sent PROVE StdioIInv'
<1>0. /\ srv.pc = "op" /\ srv.cmd.type \in {"answer", "configure"} /\ in' = in /\ client' = client
      /\ srv.cmd.type \notin Terminal \cup {"none"} /\ Alive
    BY Zenon DEF OpCommits, Terminal, Detach, Alive
<1>1. TypeOK /\ QueueInv /\ Inbox /\ Receipts /\ in \in Seq(CmdRec)
    BY Zenon DEF StdioIInv, TypeOK
<1>2. CASE ServeRefuses
  <2>1. in' \in Seq(CmdRec) /\ Inbox' /\ Refusal /\ broker' = broker
    BY <1>0, <1>1, <1>2, Zenon DEF Inbox, Known, ServeRefuses
  <2> QED
    BY <1>0, <2>1, RefusingStep, Zenon
<1>3. CASE ~ ServeRefuses
  <2>1. PICK starts \in BOOLEAN :
          /\ starts = (srv.cmd.type = "configure" /\ ~ rt.driving /\ ~ rt.stopped)
    BY Zenon
  <2>2. /\ \/ jr' = Recorded(1, jr.run, jr.st) /\ jr.st = "running"
           \/ jr' = jr
        /\ starts => rt.started /\ ~ rt.driving /\ ~ rt.stopped
        /\ rt' = [rt EXCEPT !.driving = rt.driving \/ starts]
        /\ drv' = IF starts THEN [drv EXCEPT !.pc = "next"] ELSE drv
        /\ srv' = AtPlace(srv, "reply") /\ fol' = fol /\ broker' = broker /\ out' = out
    BY <1>3, <2>1, Zenon DEF OpCommits, Recorded, AtPlace
  <2>3. /\ srv' \in SrvRec /\ srv'.last = srv.last /\ srv'.held = srv.held
        /\ AtHand' /\ Settled' /\ Serving /\ Serving' /\ Stopping'
    BY <1>0, <2>2, ReplyFacts, Zenon
  <2>4. rt \in RtRec /\ drv \in DrvRec /\ fol \in {"off", "on"} /\ broker \in SUBSET Nat /\ jr \in JrRec
    BY <1>1, Zenon DEF TypeOK
  <2>5. /\ rt' \in RtRec /\ rt'.run = rt.run /\ rt'.started = rt.started /\ rt'.stopped = rt.stopped
        /\ rt'.driving = (rt.driving \/ starts)
    BY <2>2, <2>4, Zenon DEF RtRec
  <2>6. /\ drv' \in DrvRec /\ drv'.run = drv.run /\ drv'.pc = IF starts THEN "next" ELSE drv.pc
    BY <2>2, <2>4, Zenon DEF DrvRec, DrvPlace
  <2>7. jr'.run = jr.run
    <3>1. 1 \in Nat /\ jr.run \in Nat /\ jr.st \in SessionStatus
      BY <2>4, Zenon DEF JrRec
    <3>2. jr' = Recorded(1, jr.run, jr.st) => Records(jr', 1, jr.run, jr.st)
      BY <2>4, <3>1, RecordedFacts, Zenon
    <3> QED
      BY <2>2, <3>2, Zenon DEF Records
  <2>8. QueueInv'
    <3>1. Queues /\ Leftover /\ Names
      BY <1>0, <1>1, Zenon DEF QueueInv
    <3>2. starts => drv.pc = "off"
      BY <2>2, <3>1, Zenon DEF Queues
    <3>3. CASE starts
      <4>1. /\ rt'.started /\ ~ rt'.stopped /\ rt'.driving /\ drv'.pc = "next" /\ broker' = broker
            /\ broker \subseteq {rt.run} /\ rt.run \in broker /\ jr.run \in {Nil, rt.run}
        BY <2>2, <2>5, <2>6, <3>1, <3>2, <3>3, Zenon DEF Queues, Names
      <4>2. Queues' /\ Leftover' /\ Names'
        BY <2>5, <2>7, <4>1, Zenon DEF Queues, Leftover, Names
      <4> QED
        BY <2>3, <4>2, Zenon DEF QueueInv
    <3>4. CASE ~ starts
      <4>1. drv'.pc = drv.pc /\ (rt'.driving <=> rt.driving) /\ broker' = broker
        BY <2>2, <2>5, <2>6, <3>4, Zenon
      <4>2. Queues'
        BY <2>5, <2>6, <3>1, <4>1, Zenon DEF Queues
      <4>3. Leftover' /\ Names'
        BY <2>3, <2>5, <2>6, <2>7, <3>1, <4>1, Zenon DEF Leftover, Names
      <4> QED
        BY <2>3, <4>2, <4>3, Zenon DEF QueueInv
    <3> QED
      BY <3>3, <3>4, Zenon
  <2>9. CASE jr' = jr
    <3>1. TypeOK'
      BY <1>0, <1>1, <2>2, <2>3, <2>5, <2>6, <2>9, Zenon DEF TypeOK
    <3>2. jr.seq <= jr'.seq
      <4>1. jr.seq \in Nat
        BY <2>4, Zenon DEF JrRec
      <4> QED
        BY <2>9, <4>1, SMT
    <3>3. Receipts'
      BY <1>1, <2>9, <3>1, <3>2, ReceiptsKept, Zenon DEF Receipts
    <3> QED
      BY <1>0, <2>2, <2>3, <2>8, <3>1, <3>2, <3>3, QuietStep, Zenon
  <2>10. CASE jr' = Recorded(1, jr.run, jr.st) /\ jr.st = "running"
    <3>1. 1 \in Nat \ {0}
      BY SMT
    <3>2. jr.run \in Nat /\ jr.st \in SessionStatus /\ jr.run # Nil
      BY <1>1, <2>4, <2>10, Zenon DEF JrRec, Receipts
    <3> QED
      BY <1>0, <2>2, <2>3, <2>4, <2>5, <2>6, <2>8, <2>10, <3>1, <3>2, RecordingStep, Zenon
  <2> QED
    BY <2>2, <2>9, <2>10, Zenon
<1> QED
    BY <1>2, <1>3, Zenon

\* A resumed run has its queue, and no other run has one.
LEMMA ResumedQueues ==
    ASSUME TypeOK, QueueInv, Alive, Serving, srv.held, ~ rt.started \/ rt.stopped, jr.run # Nil,
           NEW run, broker' = (broker \ {jr.run}) \cup {run}, rt'.run = run, rt'.started,
           rt'.driving, ~ rt'.stopped, drv'.pc = "next", jr'.run = run, Stopping'
    PROVE  QueueInv'
<1>1. Queues /\ Names
    BY Zenon DEF QueueInv
<1>2. broker \subseteq {jr.run}
  <2>1. CASE ~ rt.started
    BY <1>1, <2>1, Zenon DEF Queues
  <2>2. CASE rt.started /\ rt.stopped
    <3>1. drv.pc \in {"off", "ended", "failed"} /\ drv.pc \notin {"sync", "bind"}
      BY <1>1, <2>2, Zenon DEF Names
    <3>2. jr.run = rt.run
      BY <1>1, <2>2, <3>1, Zenon DEF Names
    <3> QED
      BY <1>1, <3>1, <3>2, Zenon DEF Queues
  <2> QED
    BY <2>1, <2>2, Zenon
<1>3. broker' = {run}
    BY <1>2, Zenon
<1>4. Queues'
    BY <1>3, Zenon DEF Queues
<1>5. Leftover' /\ Names'
    BY Zenon DEF Leftover, Names
<1> QED
    BY <1>4, <1>5, Zenon DEF QueueInv

\* resume: the run is driven already, or runs again, or the coordinator refuses.
LEMMA OpResumesInv ==
    ASSUME StdioIInv, OpResumes, sent' = sent PROVE StdioIInv'
<1>0. /\ srv.pc = "op" /\ srv.cmd.type = "resume" /\ in' = in /\ client' = client
      /\ srv.cmd.type \notin Terminal \cup {"none"} /\ srv.cmd.type \notin Terminal /\ Alive
    BY Zenon DEF OpResumes, Terminal, Detach, Alive
<1>1. TypeOK /\ QueueInv /\ Inbox /\ in \in Seq(CmdRec)
    BY Zenon DEF StdioIInv, TypeOK
<1>2. in' \in Seq(CmdRec) /\ Inbox'
    BY <1>0, <1>1, Zenon DEF Inbox, Known
<1>3. CASE Refusal
  <2>1. broker' \subseteq broker /\ (rt.started /\ ~ rt.stopped => broker' = broker)
    <3>1. Fails(srv).pc = "finish" /\ srv' = Fails(srv)
      <4>1. srv \in SrvRec
        BY <1>1, Zenon DEF TypeOK
      <4> QED
        BY <1>3, <4>1, FailsFacts, Zenon DEF Refusal
    <3>2. srv' # [srv EXCEPT !.pc = "reply"]
      <4>1. srv \in SrvRec
        BY <1>1, Zenon DEF TypeOK
      <4> QED
        BY <3>1, <4>1, Zenon DEF SrvRec
    <3> QED
      BY <3>2, Zenon DEF OpResumes, ServeRefuses
  <2> QED
    BY <1>0, <1>2, <1>3, <2>1, RefusingStep, Zenon
<1>4. CASE ~ Refusal
  <2>1. srv' = AtPlace(srv, "reply") /\ out' = out
    BY <1>4, Zenon DEF OpResumes, ServeRefuses, AtPlace
  <2>2. /\ srv' \in SrvRec /\ srv'.last = srv.last /\ srv'.pc = "reply" /\ srv'.held = srv.held
        /\ AtHand' /\ Settled' /\ Serving /\ Serving' /\ Stopping'
    BY <1>0, <2>1, ReplyFacts, Zenon
  <2>3. CASE rt.started /\ ~ rt.stopped
    <3>1. UNCHANGED <<jr, rt, drv, fol, broker, out>>
      BY <1>4, <2>3, Zenon DEF OpResumes, ServeRefuses
    <3> QED
      BY <1>0, <2>2, <3>1, ServeStep, Zenon
  <2>4. CASE ~ rt.started \/ rt.stopped
    <3>1. PICK n \in {1, 2}, run \in {jr.run, jr.run + 1} :
            /\ jr' = Recorded(n, run, "running") /\ srv.held /\ jr.run # Nil
            /\ broker' = (broker \ {jr.run}) \cup {jr'.run}
            /\ rt' = [rt EXCEPT !.handle = TRUE, !.run = jr'.run, !.started = TRUE, !.driving = TRUE,
                                !.stopped = FALSE,
                                !.done = IF drv.pc = "failed" THEN "error" ELSE rt.done]
            /\ drv' = [pc |-> "next", run |-> Nil, eof |-> FALSE] /\ fol' = "on"
      BY <1>4, <2>4, Zenon DEF OpResumes, CoordinatorResumes, Recorded
    <3>2. n \in Nat \ {0} /\ n \in Nat /\ run \in Nat /\ run # Nil /\ "running" \in SessionStatus
      <4>1. jr.run \in Nat
        BY <1>1, Zenon DEF TypeOK, JrRec
      <4>2. n \in Nat \ {0} /\ n \in Nat /\ run \in Nat /\ run # 0
        BY <3>1, <4>1, SMT DEF Nil
      <4> QED
        BY <4>2, Zenon DEF SessionStatus, Nil
    <3>3. jr'.run = run
      <4>1. jr \in JrRec
        BY <1>1, Zenon DEF TypeOK
      <4>2. Records(jr', n, run, "running")
        BY <3>1, <3>2, <4>1, RecordedFacts, Zenon
      <4> QED
        BY <4>2, Zenon DEF Records
    <3>4. rt' \in RtRec /\ rt'.run = run /\ rt'.started /\ rt'.driving /\ ~ rt'.stopped
      <4>1. rt \in RtRec
        BY <1>1, Zenon DEF TypeOK
      <4>2. rt.done \in {"none", "error"}
        BY <4>1, Zenon DEF RtRec
      <4>3. PICK done \in {"none", "error"} : done = IF drv.pc = "failed" THEN "error" ELSE rt.done
        BY <4>2, Zenon
      <4>4. rt' = [rt EXCEPT !.handle = TRUE, !.run = run, !.started = TRUE, !.driving = TRUE,
                             !.stopped = FALSE, !.done = done]
        BY <3>1, <3>3, <4>3, Zenon
      <4> QED
        BY <3>2, <4>1, <4>4, Zenon DEF RtRec
    <3>5. drv' \in DrvRec /\ drv'.pc = "next"
      <4>1. Nil \in Nat /\ "next" \in DrvPlace
        BY SMT DEF Nil, DrvPlace
      <4> QED
        BY <3>1, <4>1, Zenon DEF DrvRec
    <3>6. broker' = (broker \ {jr.run}) \cup {run} /\ broker' \in SUBSET Nat /\ fol' \in {"off", "on"}
      BY <1>1, <3>1, <3>2, <3>3, Zenon DEF TypeOK
    <3>7. QueueInv'
      BY <1>0, <1>1, <2>2, <2>4, <3>1, <3>3, <3>4, <3>5, <3>6, ResumedQueues, Zenon
    <3> QED
      BY <1>0, <2>1, <2>2, <3>1, <3>2, <3>4, <3>5, <3>6, <3>7, RecordingStep, Zenon
  <2> QED
    BY <2>3, <2>4, Zenon
<1> QED
    BY <1>3, <1>4, Zenon

\* detach, cancelSession: the runtime stops.
LEMMA OpStopsInv ==
    ASSUME StdioIInv, OpStops, sent' = sent PROVE StdioIInv'
<1>0. srv.pc = "op" /\ srv.cmd.type \in {Detach, "cancel"} /\ in' = in /\ client' = client /\ Alive
    BY Zenon DEF OpStops, Alive
<1>1. TypeOK /\ QueueInv /\ Inbox /\ Receipts /\ AtHand /\ in \in Seq(CmdRec)
    BY Zenon DEF StdioIInv, TypeOK
<1>2. CASE ServeRefuses
  <2>1. in' \in Seq(CmdRec) /\ Inbox' /\ Refusal /\ broker' = broker
    BY <1>0, <1>1, <1>2, Zenon DEF Inbox, Known, ServeRefuses
  <2> QED
    BY <1>0, <2>1, RefusingStep, Zenon
<1>3. CASE ~ ServeRefuses
  <2>1. /\ rt' = [rt EXCEPT !.stopped = TRUE] /\ srv' = AtPlace(srv, "settle")
        /\ jr' = jr /\ drv' = drv /\ fol' = fol /\ broker' = broker /\ out' = out
    BY <1>3, Zenon DEF OpStops, AtPlace
  <2>2. /\ srv' \in SrvRec /\ srv'.pc = "settle" /\ srv'.cmd = srv.cmd /\ srv'.last = srv.last
        /\ srv'.final = srv.final
    <3>1. srv \in SrvRec /\ "settle" \in {"settle", "reply"}
      BY <1>1, Zenon DEF TypeOK
    <3> QED
      BY <2>1, <3>1, PlaceFacts, Zenon
  <2>3. /\ rt' \in RtRec /\ rt'.run = rt.run /\ rt'.started = rt.started /\ rt'.stopped
        /\ rt'.driving = rt.driving
    <3>1. rt \in RtRec
      BY <1>1, Zenon DEF TypeOK
    <3> QED
      BY <2>1, <3>1, Zenon DEF RtRec
  <2>4. TypeOK'
    BY <1>0, <1>1, <2>1, <2>2, <2>3, Zenon DEF TypeOK
  <2>5. AtHand' /\ Settled' /\ ~ Serving' /\ Stopping'
    BY <1>0, <1>1, <2>2, <2>3, Zenon DEF AtHand, Known, Settled, Serving, Stopping, Terminal
  <2>6. QueueInv'
    <3>1. Queues
      BY <1>0, <1>1, Zenon DEF QueueInv
    <3>2. Queues'
      BY <2>1, <2>3, <3>1, Zenon DEF Queues
    <3>3. Leftover' /\ Names'
      BY <2>3, <2>5, Zenon DEF Leftover, Names
    <3> QED
      BY <2>5, <3>2, <3>3, Zenon DEF QueueInv
  <2>7. jr.seq <= jr'.seq
    <3>1. jr.seq \in Nat
      BY <1>1, Zenon DEF TypeOK, JrRec
    <3> QED
      BY <2>1, <3>1, SMT
  <2>8. Receipts'
    BY <1>1, <2>1, <2>4, <2>7, ReceiptsKept, Zenon DEF Receipts
  <2> QED
    BY <1>0, <2>1, <2>2, <2>4, <2>5, <2>6, <2>7, <2>8, QuietStep, Zenon
<1> QED
    BY <1>2, <1>3, Zenon

\* A runtime that has stopped, in a process on its way to its end, needs no queue.
LEMMA StoppedQueues ==
    ASSUME QueueInv, Alive, rt.stopped, rt' = rt, drv' = drv, broker' \subseteq broker, ~ Serving', Stopping'
    PROVE  QueueInv'
<1>1. Queues
    BY Zenon DEF QueueInv
<1>2. Queues'
    BY <1>1, Zenon DEF Queues
<1>3. Leftover' /\ Names'
    BY Zenon DEF Leftover, Names
<1> QED
    BY <1>2, <1>3, Zenon DEF QueueInv

\* What a detach or a cancel commits leaves no run running.
LEMMA SettlesFacts ==
    ASSUME TypeOK, Receipts, NEW j,
           CoordinatorDetaches(srv.cmd.id, j) \/ CoordinatorCancels(srv.cmd.id, j)
    PROVE  \E n \in {1, 2}, run \in {Nil, jr.run}, st \in SessionStatus \ {"running"} :
              j = Recorded(n, run, st)
<1>0. jr.st \in SessionStatus
    BY Zenon DEF TypeOK, JrRec
<1>1. {"paused", "indeterminate", "cancelled", "handoff"} \subseteq SessionStatus \ {"running"}
    BY Zenon DEF SessionStatus
<1>2. CASE CoordinatorDetaches(srv.cmd.id, j)
  <2>1. CASE j \in {Recorded(2, jr.run, "paused"), Recorded(2, jr.run, "indeterminate")}
    BY <1>1, <2>1, Zenon
  <2>2. CASE jr.st # "running" /\ j \in {Recorded(1, jr.run, jr.st), Recorded(1, Nil, jr.st)}
    BY <1>0, <2>2, Zenon
  <2>3. jr.run = Nil => jr.st # "running"
    BY Zenon DEF Receipts
  <2> QED
    BY <1>2, <2>1, <2>2, <2>3, Zenon DEF CoordinatorDetaches, Recorded
<1>3. CASE CoordinatorCancels(srv.cmd.id, j)
  <2>1. j \in {Recorded(1, Nil, "cancelled"), Recorded(1, jr.run, "indeterminate")}
    BY <1>3, Zenon DEF CoordinatorCancels, Recorded
  <2> QED
    BY <1>1, <2>1, Zenon
<1> QED
    BY <1>2, <1>3, Zenon

\* The coordinator detaches or cancels, or it fails to.
LEMMA OpSettlesInv ==
    ASSUME StdioIInv, OpSettles, sent' = sent PROVE StdioIInv'
<1>0. /\ srv.pc = "settle" /\ in' = in /\ client' = client /\ out' = out /\ rt' = rt /\ drv' = drv /\ Alive
    BY Zenon DEF OpSettles, Alive
<1>1. TypeOK /\ QueueInv /\ Receipts /\ AtHand /\ srv \in SrvRec /\ jr \in JrRec
    BY Zenon DEF StdioIInv, TypeOK
<1>2. rt.stopped /\ srv.cmd.type \in Terminal
    BY <1>0, <1>1, Zenon DEF QueueInv, Stopping
<1> DEFINE settles(j) == IF srv.cmd.type = Detach THEN CoordinatorDetaches(srv.cmd.id, j)
                        ELSE CoordinatorCancels(srv.cmd.id, j)
           all == {Receipt(Committed(n, run, st), srv.cmd.id) : n \in 1..2, run \in {Nil, jr.run},
                     st \in {"paused", "handoff", "indeterminate", "cancelled", jr.st}}
           outcomes == {j \in all : settles(j)}
<1>a. IF outcomes = {}
      THEN /\ broker' = IF srv.cmd.type = Detach THEN broker \ {rt.run} ELSE broker
           /\ fol' = IF srv.cmd.type = Detach THEN "off" ELSE fol
           /\ srv' = Fails(srv) /\ jr' = jr
      ELSE /\ jr' \in outcomes
           /\ broker' = broker \ {rt.run} /\ fol' = "off"
           /\ srv' = [srv EXCEPT !.pc = "reply"]
    BY DEF OpSettles
<1> HIDE DEF all, settles
<1>b. \A j \in outcomes : settles(j)
    BY Zenon
<1> HIDE DEF outcomes
<1>3. broker' \subseteq broker /\ fol' \in {"off", "on"}
  <2>1. fol \in {"off", "on"}
    BY <1>1, Zenon DEF TypeOK
  <2>2. broker' \in {broker, broker \ {rt.run}} /\ fol' \in {"off", fol}
    BY <1>a, Zenon
  <2> QED
    BY <2>1, <2>2, Zenon
<1>4. CASE srv' = Fails(srv) /\ jr' = jr
  <2>1. srv' \in SrvRec /\ srv'.pc = "finish" /\ srv'.cmd = NoCommand /\ srv'.last = srv.last
    BY <1>1, <1>4, FailsFacts, Zenon
  <2>2. AtHand' /\ Settled' /\ ~ Serving' /\ Stopping'
    BY <2>1, NoCommandFacts, Zenon DEF AtHand, Settled, Serving, Stopping
  <2>3. TypeOK'
    BY <1>0, <1>1, <1>3, <1>4, <2>1, Zenon DEF TypeOK
  <2>4. QueueInv'
    BY <1>0, <1>1, <1>2, <1>3, <2>2, StoppedQueues, Zenon
  <2>5. jr.seq <= jr'.seq
    <3>1. jr.seq \in Nat
      BY <1>1, Zenon DEF JrRec
    <3> QED
      BY <1>4, <3>1, SMT
  <2>6. Receipts'
    BY <1>1, <1>4, <2>3, <2>5, ReceiptsKept, Zenon DEF Receipts
  <2> QED
    BY <1>0, <2>1, <2>2, <2>3, <2>4, <2>5, <2>6, QuietStep, Zenon
<1>5. CASE ~ (srv' = Fails(srv) /\ jr' = jr)
  <2>1. /\ CoordinatorDetaches(srv.cmd.id, jr') \/ CoordinatorCancels(srv.cmd.id, jr')
        /\ srv' = AtPlace(srv, "reply")
    BY <1>5, <1>a, <1>b, Zenon DEF AtPlace, settles
  <2>2. PICK n \in {1, 2}, run \in {Nil, jr.run}, st \in SessionStatus \ {"running"} :
          jr' = Recorded(n, run, st)
    BY <1>1, <2>1, SettlesFacts, Zenon
  <2>3. n \in Nat \ {0} /\ n \in Nat /\ run \in Nat /\ st \in SessionStatus /\ st # "running"
    <3>1. jr.run \in Nat /\ st \in SessionStatus /\ st # "running"
      BY <1>1, Zenon DEF JrRec
    <3>2. n \in Nat \ {0} /\ n \in Nat /\ Nil \in Nat
      BY SMT DEF Nil
    <3> QED
      BY <3>1, <3>2, Zenon
  <2>4. jr'.st = st
    <3>1. Records(jr', n, run, st)
      BY <1>1, <2>2, <2>3, RecordedFacts, Zenon
    <3> QED
      BY <3>1, Zenon DEF Records
  <2>5. /\ srv' \in SrvRec /\ srv'.pc = "reply" /\ srv'.cmd = srv.cmd /\ srv'.last = srv.last
        /\ srv'.final = srv.final
    <3>1. "reply" \in {"settle", "reply"}
      BY Zenon
    <3> QED
      BY <1>1, <2>1, <3>1, PlaceFacts, Zenon
  <2>6. AtHand' /\ Settled' /\ ~ Serving' /\ Stopping'
    BY <1>0, <1>1, <1>2, <2>3, <2>4, <2>5, Zenon DEF AtHand, Known, Settled, Serving, Stopping
  <2>7. QueueInv'
    BY <1>0, <1>1, <1>2, <1>3, <2>6, StoppedQueues, Zenon
  <2>8. rt' \in RtRec /\ drv' \in DrvRec /\ broker' \in SUBSET Nat
    BY <1>0, <1>1, <1>3, Zenon DEF TypeOK
  <2> QED
    BY <1>0, <1>3, <2>2, <2>3, <2>5, <2>6, <2>7, <2>8, RecordingStep, Zenon
<1> QED
    BY <1>4, <1>5, Zenon

\* close: no run runs, or the command fails.
LEMMA OpClosesInv ==
    ASSUME StdioIInv, OpCloses, sent' = sent PROVE StdioIInv'
<1>0. /\ srv.pc = "op" /\ srv.cmd.type = "close" /\ srv.cmd.type \in Terminal /\ Alive
      /\ UNCHANGED <<rt, drv, fol, broker, out, in, client>>
    BY Zenon DEF OpCloses, Alive, Terminal
<1>1. TypeOK /\ QueueInv /\ Receipts /\ AtHand /\ srv \in SrvRec /\ jr \in JrRec
    BY Zenon DEF StdioIInv, TypeOK
<1>2. CASE srv' = Fails(srv) /\ jr' = jr
  <2>1. /\ srv' \in SrvRec /\ srv'.pc = "finish" /\ srv'.cmd = NoCommand /\ srv'.last = srv.last
        /\ srv'.held = srv.held
    BY <1>1, <1>2, FailsFacts, Zenon
  <2>2. AtHand' /\ Settled' /\ ~ Serving' /\ srv'.pc # "settle"
    BY <2>1, NoCommandFacts, Zenon DEF AtHand, Settled, Serving
  <2> QED
    BY <1>0, <1>2, <2>1, <2>2, ServeStep, Zenon
<1>3. CASE ~ (srv' = Fails(srv) /\ jr' = jr)
  <2>1. jr' = Recorded(1, Nil, "closed") /\ srv' = AtPlace(srv, "reply")
    BY <1>3, Zenon DEF OpCloses, AtPlace, Recorded
  <2>2. 1 \in Nat \ {0} /\ 1 \in Nat /\ Nil \in Nat /\ "closed" \in SessionStatus /\ "closed" # "running"
    BY SMT DEF Nil, SessionStatus
  <2>3. jr'.st = "closed" /\ jr'.run = Nil
    <3>1. Records(jr', 1, Nil, "closed")
      BY <1>1, <2>1, <2>2, RecordedFacts, Zenon
    <3> QED
      BY <3>1, Zenon DEF Records
  <2>4. /\ srv' \in SrvRec /\ srv'.pc = "reply" /\ srv'.cmd = srv.cmd /\ srv'.last = srv.last
        /\ srv'.final = srv.final /\ srv'.held = srv.held
    <3>1. "reply" \in {"settle", "reply"}
      BY Zenon
    <3> QED
      BY <1>1, <2>1, <3>1, PlaceFacts, Zenon
  <2>5. AtHand' /\ Settled' /\ ~ Serving'
    BY <1>0, <1>1, <2>3, <2>4, Zenon DEF AtHand, Known, Settled, Serving
  <2>6. QueueInv'
    BY <1>0, <1>1, <2>3, <2>4, <2>5, QueuesKept, Zenon
  <2>7. rt' \in RtRec /\ drv' \in DrvRec /\ broker' \in SUBSET Nat /\ fol' \in {"off", "on"}
    BY <1>0, <1>1, Zenon DEF TypeOK
  <2> QED
    BY <1>0, <2>1, <2>2, <2>4, <2>5, <2>6, <2>7, RecordingStep, Zenon
<1> QED
    BY <1>2, <1>3, Zenon

\* A command is answered: the journal is replayed, and a terminal command ends the process.
LEMMA ServeRepliesInv ==
    ASSUME StdioIInv, ServeReplies, sent' = sent PROVE StdioIInv'
<1>0. /\ srv.pc = "reply" /\ out' = Replayed(jr) /\ Alive
      /\ UNCHANGED <<jr, rt, drv, fol, broker, in, client>>
    BY Zenon DEF ServeReplies, Alive
<1>1. /\ TypeOK /\ QueueInv /\ Inbox /\ AtHand /\ Settled /\ srv \in SrvRec /\ jr \in JrRec /\ drv \in DrvRec
    BY Zenon DEF StdioIInv, TypeOK
<1>2. in' \in Seq(CmdRec) /\ Inbox'
    BY <1>0, <1>1, Zenon DEF Inbox, Known, TypeOK
<1>3. PICK s : s = [srv EXCEPT !.last = jr.seq, !.cmd = NoCommand, !.pc = "read"]
    BY Zenon
<1>4. PICK z : z = [srv EXCEPT !.held = srv.held /\ ~ (srv.cmd.type \in Terminal)]
    BY Zenon
<1>5. /\ s \in SrvRec /\ s.last = jr.seq /\ s.cmd = NoCommand /\ s.pc = "read" /\ s.held = srv.held
      /\ s.final = srv.final
  <2>1. jr.seq \in Nat /\ "read" \in SrvPlace
    BY <1>1, Zenon DEF JrRec, SrvPlace
  <2> QED
    BY <1>1, <1>3, <2>1, NoCommandFacts, Zenon DEF SrvRec
<1>6. z \in SrvRec /\ z.last = srv.last /\ (z.held => srv.held)
    BY <1>1, <1>4, Zenon DEF SrvRec
<1>7. \/ srv.final /\ srv' = Exits(srv, "runtime")
      \/ srv.final /\ srv' = Exits(srv, "success")
      \/ ~ Reading /\ srv' = Fails(z)
      \/ Reading /\ srv.cmd.type \in Terminal /\ srv' = Exits(s, "success")
      \/ ~ srv.final /\ Reading /\ srv.cmd.type \notin Terminal /\ srv' = s
    BY <1>3, <1>4, Zenon DEF ServeReplies, EndsDetached
<1>8. CASE ~ Reading /\ srv' = Fails(z)
  <2>1. /\ srv' \in SrvRec /\ srv'.pc = "finish" /\ srv'.cmd = NoCommand /\ srv'.last = srv.last
        /\ (srv'.held => srv.held)
    BY <1>6, <1>8, FailsFacts, Zenon
  <2>2. AtHand' /\ Settled' /\ ~ Serving' /\ srv'.pc # "settle"
    BY <2>1, NoCommandFacts, Zenon DEF AtHand, Settled, Serving
  <2>3. QueueInv'
    BY <1>0, <1>1, <2>1, <2>2, QueuesKept, Zenon
  <2> QED
    BY <1>0, <1>1, <1>2, <1>8, <2>1, <2>2, <2>3, ReplayingStep, Zenon
<1>9. ASSUME NEW old \in SrvRec, NEW k \in {"success", "runtime"}, srv' = Exits(old, k),
             old.cmd \in {NoCommand, srv.cmd}, srv.cmd.type \in Terminal,
             ~ Reading => old.last = srv.last
      PROVE  StdioIInv'
  <2>1. srv' \in SrvRec /\ srv'.pc = "gone" /\ srv'.last = old.last /\ srv'.cmd = old.cmd
    BY <1>9, ExitsFacts, Zenon
  <2>2. jr'.st # "running"
    BY <1>0, <1>1, <1>9, Zenon DEF Settled
  <2>3. AtHand' /\ Settled' /\ ~ Alive' /\ QueueInv'
    BY <1>1, <1>9, <2>1, <2>2, NoCommandFacts, Zenon DEF AtHand, Known, Settled, Alive, QueueInv
  <2> QED
    BY <1>0, <1>1, <1>2, <1>9, <2>1, <2>3, ReplayingStep, Zenon
<1>10. srv.final => srv.cmd.type \in Terminal
    BY <1>0, <1>1, Zenon DEF AtHand, Terminal
<1>11. CASE ~ srv.final /\ Reading /\ srv.cmd.type \notin Terminal /\ srv' = s
  <2>1. AtHand' /\ Settled' /\ Serving /\ srv'.pc # "settle"
    BY <1>0, <1>5, <1>11, NoCommandFacts, Zenon DEF AtHand, Settled, Serving
  <2>2. QueueInv'
    BY <1>0, <1>1, <1>5, <1>11, <2>1, QueuesKept, Zenon
  <2> QED
    BY <1>0, <1>1, <1>2, <1>5, <1>11, <2>1, <2>2, ReplayingStep, Zenon
<1>12. "success" \in {"success", "runtime"} /\ "runtime" \in {"success", "runtime"}
    BY Zenon
<1> QED
    BY <1>1, <1>5, <1>7, <1>8, <1>9, <1>10, <1>11, <1>12, Zenon

----------------------------------------------------------------------------
(* The goroutines of the runtime. *)

\* The journal grows without a receipt, and no run begins to run.
LEMMA CommittingStep ==
    ASSUME StdioIInv, Alive, NEW n \in Nat, NEW run \in Nat, NEW st \in SessionStatus,
           jr' = Committed(n, run, st), st = "running" => run # Nil, jr.st = "running",
           srv' \in SrvRec, srv'.last = srv.last, srv'.pc = srv.pc, srv'.cmd = srv.cmd,
           srv'.final = srv.final, srv'.code = srv.code,
           rt' \in RtRec, drv' \in DrvRec, fol' \in {"off", "on"}, broker' \in SUBSET Nat,
           UNCHANGED <<out, in, client, sent>>, jr'.run = run => QueueInv'
    PROVE  StdioIInv'
<1>1. TypeOK /\ Receipts /\ AtHand /\ Settled /\ jr \in JrRec
    BY Zenon DEF StdioIInv, TypeOK
<1>2. out' = out /\ in' = in /\ client' = client /\ sent' = sent
    BY Zenon
<1>3. jr' \in JrRec /\ jr'.seq = jr.seq + n /\ jr'.rec = jr.rec /\ jr'.run = run /\ jr'.st = st
  <2>1. Commits(jr', n, run, st)
    BY <1>1, CommittedFacts, Zenon
  <2> QED
    BY <2>1, Zenon DEF Commits
<1>4. TypeOK'
    BY <1>1, <1>2, <1>3, Zenon DEF TypeOK
<1>5. jr.seq <= jr'.seq
  <2>1. jr.seq \in Nat
    BY <1>1, Zenon DEF JrRec
  <2>2. jr.seq <= jr.seq + n
    BY <2>1, SMT
  <2> QED
    BY <1>3, <2>2, Zenon
<1>6. Receipts'
    BY <1>1, <1>2, <1>3, <1>4, <1>5, ReceiptsKept, Zenon
<1>7. AtHand' /\ Settled'
    BY <1>1, <1>2, <1>3, Zenon DEF AtHand, Known, Settled
<1> QED
    BY <1>2, <1>3, <1>4, <1>5, <1>6, <1>7, QuietStep, Zenon

\* Where the drive is on its own: it names no queue of its own.
Alone == {"next", "replay", "lost", "end", "fail"}

\* Such a drive moves on.
LEMMA AloneQueues ==
    ASSUME QueueInv, Alive, drv.pc \in Alone, drv'.pc \in Alone \cup {"sync"}, rt' = rt, broker' = broker,
           srv'.pc = srv.pc, srv'.cmd = srv.cmd, srv'.held = srv.held,
           drv'.pc # "sync" => jr'.run \in {Nil, jr.run}
    PROVE  QueueInv'
<1>1. Queues /\ Leftover /\ Names /\ Stopping
    BY Zenon DEF QueueInv
<1>2. /\ drv.pc \notin {"off", "bind", "sync", "ended", "failed", "quiet"}
      /\ drv'.pc \notin {"off", "bind", "ended", "failed", "quiet"}
    BY Zenon DEF Alone
<1>3. Serving' <=> Serving
    BY Zenon DEF Serving
<1>4. Queues'
    BY <1>1, <1>2, Zenon DEF Queues
<1>5. Leftover'
    BY <1>1, <1>2, <1>3, Zenon DEF Leftover
<1>6. Names' /\ Stopping'
    BY <1>1, <1>2, <1>3, Zenon DEF Names, Stopping
<1> QED
    BY <1>4, <1>5, <1>6, Zenon DEF QueueInv

\* Handle.Next: a step, a handoff, or the end of the run.
LEMMA DriveNextInv ==
    ASSUME StdioIInv, DriveNext, sent' = sent PROVE StdioIInv'
<1>0. /\ Alive /\ drv.pc = "next"
      /\ srv' = srv /\ rt' = rt /\ fol' = fol /\ broker' = broker /\ out' = out /\ in' = in /\ client' = client
    BY Zenon DEF DriveNext
<1>1. /\ TypeOK /\ QueueInv /\ Receipts /\ jr \in JrRec /\ drv \in DrvRec /\ srv \in SrvRec /\ rt \in RtRec
      /\ fol \in {"off", "on"} /\ broker \in SUBSET Nat
    BY Zenon DEF StdioIInv, TypeOK
<1>2. PICK p \in {"sync", "fail"} :
        drv' = [drv EXCEPT !.pc = p] \/ drv' = [drv EXCEPT !.pc = p, !.eof = TRUE]
    BY Zenon DEF DriveNext
<1>3. drv' \in DrvRec /\ drv'.pc = p
  <2>1. p \in DrvPlace
    BY Zenon DEF DrvPlace
  <2> QED
    BY <1>1, <1>2, <2>1, Zenon DEF DrvRec
<1>4. drv.pc \in Alone /\ drv'.pc \in Alone \cup {"sync"}
    BY <1>0, <1>3, Zenon DEF Alone
<1>5. CASE jr' = jr
  <2>1. QueueInv'
    BY <1>0, <1>1, <1>4, <1>5, AloneQueues, Zenon
  <2> QED
    BY <1>0, <1>1, <1>3, <1>5, <2>1, DriveStep, Zenon
<1>6. CASE jr' # jr
  <2>1. PICK n \in {1, 2}, run \in {Nil, jr.run, jr.run + 1},
             st \in {"running", "handoff", "done", "indeterminate"} :
          /\ jr' = Committed(n, run, st) /\ jr.st = "running"
          /\ st = "running" => run # Nil
          /\ p # "sync" => run = jr.run
    <3>1. \/ jr' = Committed(1, jr.run, "running") /\ drv' = [drv EXCEPT !.pc = "sync"]
          \/ jr' = Committed(2, jr.run + 1, "running") /\ drv' = [drv EXCEPT !.pc = "sync"]
          \/ jr' = Committed(1, jr.run, "handoff")
          \/ jr' = Committed(1, Nil, "done") /\ drv' = [drv EXCEPT !.pc = "sync", !.eof = TRUE]
          \/ jr' = Committed(1, jr.run, "indeterminate")
      BY <1>6, Zenon DEF DriveNext
    <3>2. jr.st = "running"
      BY <1>6, Zenon DEF DriveNext
    <3>3. jr.run # Nil /\ jr.run + 1 # Nil
      <4>1. jr.run \in Nat
        BY <1>1, Zenon DEF JrRec
      <4>2. jr.run + 1 # Nil
        BY <4>1, SMT DEF Nil
      <4> QED
        BY <1>1, <3>2, <4>2, Zenon DEF Receipts
    <3>4. drv' = [drv EXCEPT !.pc = "sync"] \/ drv' = [drv EXCEPT !.pc = "sync", !.eof = TRUE] => drv'.pc = "sync"
      BY <1>1, Zenon DEF DrvRec
    <3> QED
      BY <1>3, <3>1, <3>2, <3>3, <3>4, Zenon
  <2>2. n \in Nat /\ run \in Nat /\ st \in SessionStatus
    <3>1. jr.run \in Nat
      BY <1>1, Zenon DEF JrRec
    <3>2. n \in Nat /\ run \in Nat
      BY <3>1, SMT DEF Nil
    <3> QED
      BY <3>2, Zenon DEF SessionStatus
  <2>3. jr'.run = run => QueueInv'
    <3>1. ASSUME jr'.run = run PROVE drv'.pc # "sync" => jr'.run \in {Nil, jr.run}
      BY <1>3, <2>1, <3>1, Zenon
    <3> QED
      BY <1>0, <1>1, <1>4, <3>1, AloneQueues, Zenon
  <2> QED
    BY <1>0, <1>1, <1>3, <2>1, <2>2, <2>3, CommittingStep, Zenon
<1> QED
    BY <1>5, <1>6, Zenon

\* synchronizeActiveRun: the new run has its queue before the runtime names it.
LEMMA DriveRegistersInv ==
    ASSUME StdioIInv, DriveRegisters, sent' = sent PROVE StdioIInv'
<1>0. /\ Alive /\ drv.pc = "sync"
      /\ jr' = jr /\ srv' = srv /\ rt' = rt /\ fol' = fol /\ out' = out /\ in' = in /\ client' = client
    BY Zenon DEF DriveRegisters
<1>1. /\ TypeOK /\ QueueInv /\ jr \in JrRec /\ drv \in DrvRec /\ rt \in RtRec /\ fol \in {"off", "on"}
      /\ broker \in SUBSET Nat
    BY Zenon DEF StdioIInv, TypeOK
<1>2. Queues /\ Leftover /\ Names /\ Stopping
    BY <1>0, <1>1, Zenon DEF QueueInv
<1>3. Serving' <=> Serving
    BY <1>0, Zenon DEF Serving
<1>4. CASE jr.run = Nil \/ rt.stopped \/ jr.run = rt.run
  <2>1. drv' = [drv EXCEPT !.pc = "replay"] /\ broker' = broker
    BY <1>4, Zenon DEF DriveRegisters
  <2>2. drv' \in DrvRec /\ drv'.pc = "replay"
    BY <1>1, <2>1, Zenon DEF DrvRec, DrvPlace
  <2>3. Queues'
    BY <1>0, <1>2, <2>1, <2>2, Zenon DEF Queues
  <2>4. Leftover' /\ Stopping'
    BY <1>0, <1>2, <1>3, <2>1, <2>2, Zenon DEF Leftover, Stopping
  <2>5. Names'
    <3>1. ~ (Serving /\ rt.stopped /\ srv.held)
      BY <1>0, <1>2, Zenon DEF Names
    <3> QED
      BY <1>0, <1>3, <1>4, <2>2, <3>1, Zenon DEF Names
  <2>6. QueueInv'
    BY <2>3, <2>4, <2>5, Zenon DEF QueueInv
  <2> QED
    BY <1>0, <1>1, <2>1, <2>2, <2>6, DriveStep, Zenon
<1>5. CASE ~ (jr.run = Nil \/ rt.stopped \/ jr.run = rt.run)
  <2>1. drv' = [drv EXCEPT !.pc = "bind", !.run = jr.run] /\ broker' = broker \cup {jr.run}
    BY <1>5, Zenon DEF DriveRegisters
  <2>2. drv' \in DrvRec /\ drv'.pc = "bind" /\ drv'.run = jr.run /\ jr.run \in Nat
    <3>1. jr.run \in Nat
      BY <1>1, Zenon DEF JrRec
    <3> QED
      BY <1>1, <2>1, <3>1, Zenon DEF DrvRec, DrvPlace
  <2>3. Queues'
    <3>1. broker \subseteq {rt.run} /\ rt.started /\ rt.driving /\ rt.run \in broker
      BY <1>0, <1>2, <1>5, Zenon DEF Queues
    <3>2. broker' \subseteq {rt.run} \cup {drv'.run} /\ drv'.run \in broker' /\ rt.run \in broker'
      <4>1. broker' = broker \cup {jr.run} /\ drv'.run = jr.run
        BY <2>1, <2>2, Zenon
      <4> QED
        BY <3>1, <4>1, Zenon
    <3> QED
      BY <1>0, <1>5, <2>2, <3>1, <3>2, Zenon DEF Queues
  <2>4. Leftover' /\ Names' /\ Stopping'
    BY <1>0, <1>2, <1>5, <2>2, Zenon DEF Leftover, Names, Stopping
  <2>5. QueueInv'
    BY <2>3, <2>4, Zenon DEF QueueInv
  <2>6. broker' \in SUBSET Nat
    BY <1>1, <2>1, <2>2, Zenon
  <2> QED
    BY <1>0, <1>1, <2>2, <2>5, <2>6, DriveStep, Zenon
<1> QED
    BY <1>4, <1>5, Zenon

\* The runtime names the new run, unless it was stopped meanwhile.
LEMMA DriveBindsInv ==
    ASSUME StdioIInv, DriveBinds, sent' = sent PROVE StdioIInv'
<1>0. /\ Alive /\ drv.pc = "bind"
      /\ jr' = jr /\ srv' = srv /\ fol' = fol /\ out' = out /\ in' = in /\ client' = client
    BY Zenon DEF DriveBinds
<1>1. /\ TypeOK /\ QueueInv /\ jr \in JrRec /\ drv \in DrvRec /\ rt \in RtRec /\ fol \in {"off", "on"}
      /\ broker \in SUBSET Nat
    BY Zenon DEF StdioIInv, TypeOK
<1>2. Queues /\ Leftover /\ Names /\ Stopping
    BY <1>0, <1>1, Zenon DEF QueueInv
<1>3. Serving' <=> Serving
    BY <1>0, Zenon DEF Serving
<1>4. CASE rt.stopped
  <2>1. drv' = [drv EXCEPT !.pc = "fail"] /\ broker' = broker \ {drv.run} /\ rt' = rt
    BY <1>4, Zenon DEF DriveBinds
  <2>2. drv' \in DrvRec /\ drv'.pc = "fail"
    BY <1>1, <2>1, Zenon DEF DrvRec, DrvPlace
  <2>3. Queues'
    BY <1>0, <1>2, <1>4, <2>1, <2>2, Zenon DEF Queues
  <2>4. Leftover' /\ Stopping'
    BY <1>0, <1>2, <1>3, <2>1, <2>2, Zenon DEF Leftover, Stopping
  <2>5. Names'
    <3>1. ~ (Serving /\ rt.stopped /\ srv.held)
      BY <1>0, <1>2, Zenon DEF Names
    <3> QED
      BY <1>0, <1>3, <1>4, <2>1, <3>1, Zenon DEF Names
  <2>6. QueueInv'
    BY <2>3, <2>4, <2>5, Zenon DEF QueueInv
  <2>7. broker' \in SUBSET Nat
    BY <1>1, <2>1, Zenon
  <2> QED
    BY <1>0, <1>1, <2>1, <2>2, <2>6, <2>7, DriveStep, Zenon
<1>5. CASE ~ rt.stopped
  <2>1. /\ rt' = [rt EXCEPT !.run = drv.run] /\ broker' = broker \ {rt.run}
        /\ drv' = [drv EXCEPT !.pc = "replay"]
    BY <1>5, Zenon DEF DriveBinds
  <2>2. drv' \in DrvRec /\ drv'.pc = "replay" /\ drv.run \in Nat
    BY <1>1, <2>1, Zenon DEF DrvRec, DrvPlace
  <2>3. /\ rt' \in RtRec /\ rt'.run = drv.run /\ rt'.started = rt.started /\ rt'.driving = rt.driving
        /\ rt'.stopped = rt.stopped
    BY <1>1, <2>1, <2>2, Zenon DEF RtRec
  <2>4. Queues'
    BY <1>0, <1>2, <1>5, <2>1, <2>2, <2>3, Zenon DEF Queues
  <2>5. Leftover' /\ Stopping'
    BY <1>0, <1>2, <1>5, <2>3, Zenon DEF Leftover, Stopping
  <2>6. Names'
    BY <1>0, <1>2, <1>5, <2>2, <2>3, Zenon DEF Names
  <2>7. QueueInv'
    BY <2>4, <2>5, <2>6, Zenon DEF QueueInv
  <2>8. broker' \in SUBSET Nat
    BY <1>1, <2>1, Zenon
  <2> QED
    BY <1>0, <1>1, <2>2, <2>3, <2>7, <2>8, DriveStep, Zenon
<1> QED
    BY <1>4, <1>5, Zenon

\* The drive replays what it has committed.
LEMMA DriveReplaysInv ==
    ASSUME StdioIInv, DriveReplays, sent' = sent PROVE StdioIInv'
<1>0. /\ Alive /\ drv.pc = "replay" /\ out' = Replayed(jr) /\ UNCHANGED <<jr, rt, fol, broker, in, client>>
    BY Zenon DEF DriveReplays
<1>1. /\ TypeOK /\ QueueInv /\ Inbox /\ AtHand /\ Settled /\ jr \in JrRec /\ drv \in DrvRec /\ srv \in SrvRec
      /\ in \in Seq(CmdRec)
    BY Zenon DEF StdioIInv, TypeOK
<1>2. PICK p \in {"lost", "end", "next"} : drv' = [drv EXCEPT !.pc = p]
    BY Zenon DEF DriveReplays
<1>3. drv' \in DrvRec /\ drv'.pc = p
    BY <1>1, <1>2, Zenon DEF DrvRec, DrvPlace
<1>4. drv.pc \in Alone /\ drv'.pc \in Alone \cup {"sync"}
    BY <1>0, <1>3, Zenon DEF Alone
<1>5. /\ srv' \in SrvRec /\ srv'.pc = srv.pc /\ srv'.cmd = srv.cmd /\ srv'.held = srv.held
      /\ srv'.final = srv.final /\ srv'.code = srv.code
      /\ Reading => srv'.last = jr.seq
      /\ ~ Reading => srv'.last = srv.last
  <2>1. jr.seq \in Nat
    BY <1>1, Zenon DEF JrRec
  <2>2. /\ Reading => srv' = [srv EXCEPT !.last = jr.seq]
        /\ ~ Reading => srv' = srv
    BY Zenon DEF DriveReplays
  <2> QED
    BY <1>1, <2>1, <2>2, Zenon DEF SrvRec
<1>6. AtHand' /\ Settled' /\ in' \in Seq(CmdRec) /\ Inbox'
    BY <1>0, <1>1, <1>5, Zenon DEF AtHand, Known, Settled, Inbox
<1>7. QueueInv'
    BY <1>0, <1>1, <1>4, <1>5, AloneQueues, Zenon
<1> QED
    BY <1>0, <1>3, <1>5, <1>6, <1>7, ReplayingStep, Zenon

\* The end of drive: it remembers the run whose queue it has to remove.
LEMMA DriveStopsInv ==
    ASSUME StdioIInv, DriveStops, sent' = sent PROVE StdioIInv'
<1>0. /\ Alive /\ drv.pc \in {"end", "fail"}
      /\ jr' = jr /\ srv' = srv /\ fol' = fol /\ broker' = broker /\ out' = out /\ in' = in /\ client' = client
    BY Zenon DEF DriveStops
<1>1. /\ TypeOK /\ QueueInv /\ drv \in DrvRec /\ rt \in RtRec /\ fol \in {"off", "on"} /\ broker \in SUBSET Nat
    BY Zenon DEF StdioIInv, TypeOK
<1>2. Queues /\ Leftover /\ Names /\ Stopping
    BY <1>0, <1>1, Zenon DEF QueueInv
<1>3. Serving' <=> Serving
    BY <1>0, Zenon DEF Serving
<1>4. PICK p \in {"quiet", "ended", "failed"} :
        drv' = [drv EXCEPT !.pc = p, !.run = rt.run] /\ (rt.stopped <=> p = "quiet")
  <2>1. rt.stopped \in BOOLEAN
    BY <1>1, Zenon DEF RtRec
  <2> QED
    BY <1>0, <2>1, Zenon DEF DriveStops
<1>5. drv' \in DrvRec /\ drv'.pc = p /\ drv'.run = rt.run
  <2>1. rt.run \in Nat
    BY <1>1, Zenon DEF RtRec
  <2> QED
    BY <1>1, <1>4, <2>1, Zenon DEF DrvRec, DrvPlace
<1>6. rt' \in RtRec /\ rt'.run = rt.run /\ rt'.started = rt.started /\ rt'.driving = rt.driving /\ rt'.stopped
  <2>1. rt' = [rt EXCEPT !.stopped = TRUE]
    BY Zenon DEF DriveStops
  <2> QED
    BY <1>1, <2>1, Zenon DEF RtRec
<1>7. /\ broker \subseteq {rt.run} /\ rt.started /\ rt.driving
      /\ Serving /\ rt.stopped => broker \subseteq {} /\ ~ srv.held
      /\ rt.started /\ ~ rt.stopped => jr.run \in {Nil, rt.run}
    BY <1>0, <1>2, Zenon DEF Queues, Leftover, Names
<1>8. Queues'
    BY <1>0, <1>5, <1>6, <1>7, Zenon DEF Queues
<1>9. Leftover' /\ Stopping'
  <2>1. CASE rt.stopped
    BY <1>0, <1>2, <1>3, <1>4, <1>5, <1>6, <1>7, <2>1, Zenon DEF Leftover, Stopping
  <2>2. CASE ~ rt.stopped
    BY <1>0, <1>2, <1>3, <1>4, <1>5, <1>6, <1>7, <2>2, Zenon DEF Leftover, Stopping
  <2> QED
    BY <2>1, <2>2, Zenon
<1>10. Names'
  <2>1. CASE rt.stopped
    BY <1>0, <1>3, <1>6, <1>7, <2>1, Zenon DEF Names
  <2>2. CASE ~ rt.stopped
    BY <1>0, <1>4, <1>5, <1>6, <1>7, <2>2, Zenon DEF Names
  <2> QED
    BY <2>1, <2>2, Zenon
<1>11. QueueInv'
    BY <1>8, <1>9, <1>10, Zenon DEF QueueInv
<1> QED
    BY <1>0, <1>1, <1>5, <1>6, <1>11, DriveStep, Zenon

\* The queue is removed, and a failed drive reports.
LEMMA DriveUnregistersInv ==
    ASSUME StdioIInv, DriveUnregisters, sent' = sent PROVE StdioIInv'
<1>0. /\ Alive /\ drv.pc \in {"ended", "failed", "quiet"} /\ broker' = broker \ {drv.run}
      /\ jr' = jr /\ srv' = srv /\ out' = out /\ in' = in /\ client' = client
    BY Zenon DEF DriveUnregisters
<1>1. /\ TypeOK /\ QueueInv /\ drv \in DrvRec /\ rt \in RtRec /\ fol \in {"off", "on"} /\ broker \in SUBSET Nat
    BY Zenon DEF StdioIInv, TypeOK
<1>2. Queues /\ Leftover /\ Names /\ Stopping
    BY <1>0, <1>1, Zenon DEF QueueInv
<1>3. Serving' <=> Serving
    BY <1>0, Zenon DEF Serving
<1>4. drv' \in DrvRec /\ drv'.pc = "off"
  <2>1. drv' = [drv EXCEPT !.pc = "off"]
    BY Zenon DEF DriveUnregisters
  <2> QED
    BY <1>1, <2>1, Zenon DEF DrvRec, DrvPlace
<1>5. /\ rt' \in RtRec /\ rt'.run = rt.run /\ rt'.started = rt.started /\ rt'.driving = rt.driving
      /\ rt'.stopped = rt.stopped
  <2>1. PICK done \in {"error", rt.done} : rt' = [rt EXCEPT !.done = done]
    BY Zenon DEF DriveUnregisters
  <2>2. done \in {"none", "error"}
    BY <1>1, Zenon DEF RtRec
  <2> QED
    BY <1>1, <2>1, <2>2, Zenon DEF RtRec
<1>6. broker' = {} /\ rt.stopped
    BY <1>0, <1>2, Zenon DEF Queues
<1>7. Queues' /\ Leftover'
    BY <1>4, <1>5, <1>6, Zenon DEF Queues, Leftover
<1>8. Names' /\ Stopping'
    BY <1>0, <1>2, <1>3, <1>4, <1>5, <1>6, Zenon DEF Names, Stopping
<1>9. QueueInv'
    BY <1>7, <1>8, Zenon DEF QueueInv
<1>10. fol' \in {"off", "on"} /\ broker' \in SUBSET Nat
    BY <1>1, <1>6, Zenon DEF DriveUnregisters
<1> QED
    BY <1>0, <1>4, <1>5, <1>9, <1>10, DriveStep, Zenon

\* failTransport.
LEMMA FailTransportInv ==
    ASSUME StdioIInv, Alive, FailTransport, sent' = sent PROVE StdioIInv'
<1>0. fol' = "off" /\ out' = out /\ in' = in /\ client' = client
    BY Zenon DEF FailTransport
<1>1. /\ TypeOK /\ QueueInv /\ Receipts /\ AtHand /\ Settled /\ jr \in JrRec /\ srv \in SrvRec /\ drv \in DrvRec
      /\ rt \in RtRec /\ broker \in SUBSET Nat
    BY Zenon DEF StdioIInv, TypeOK
<1>2. Queues /\ Leftover /\ Names /\ Stopping
    BY <1>1, Zenon DEF QueueInv
<1>3. /\ drv' \in DrvRec /\ drv'.run = drv.run
      /\ drv'.pc = drv.pc \/ (drv.pc = "lost" /\ drv'.pc = "off")
  <2>1. drv' = drv \/ (drv.pc = "lost" /\ drv' = [drv EXCEPT !.pc = "off"])
    BY Zenon DEF FailTransport
  <2> QED
    BY <1>1, <2>1, Zenon DEF DrvRec, DrvPlace
<1>4. CASE rt.stopped
  <2>1. jr' = jr /\ srv' = srv /\ rt' = rt /\ broker' = broker
    BY <1>4, Zenon DEF FailTransport
  <2>2. Serving' <=> Serving
    BY <2>1, Zenon DEF Serving
  <2>3. QueueInv'
    <3>1. CASE drv'.pc = drv.pc
      <4>1. Queues'
        BY <1>2, <1>3, <2>1, <3>1, Zenon DEF Queues
      <4>2. Leftover' /\ Names' /\ Stopping'
        BY <1>2, <1>3, <2>1, <2>2, <3>1, Zenon DEF Leftover, Names, Stopping
      <4> QED
        BY <4>1, <4>2, Zenon DEF QueueInv
    <3>2. CASE drv.pc = "lost" /\ drv'.pc = "off"
      <4>1. Queues'
        BY <1>2, <1>3, <2>1, <3>2, Zenon DEF Queues
      <4>2. Leftover' /\ Names' /\ Stopping'
        BY <1>2, <1>3, <2>1, <2>2, <3>2, Zenon DEF Leftover, Names, Stopping
      <4> QED
        BY <4>1, <4>2, Zenon DEF QueueInv
    <3> QED
      BY <1>3, <3>1, <3>2, Zenon
  <2> QED
    BY <1>0, <1>1, <1>3, <2>1, <2>3, DriveStep, Zenon
<1>5. CASE ~ rt.stopped
  <2>1. /\ rt' = [rt EXCEPT !.stopped = TRUE, !.done = "error"] /\ broker' = broker \ {rt.run}
        /\ srv' = [srv EXCEPT !.held = FALSE]
        /\ jr' = jr \/ (jr.st = "running" /\ jr' = Committed(2, jr.run, "paused"))
    BY <1>5, Zenon DEF FailTransport
  <2>2. rt' \in RtRec /\ rt'.run = rt.run /\ rt'.started = rt.started /\ rt'.driving = rt.driving /\ rt'.stopped
    BY <1>1, <2>1, Zenon DEF RtRec
  <2>3. /\ srv' \in SrvRec /\ srv'.last = srv.last /\ srv'.pc = srv.pc /\ srv'.cmd = srv.cmd
        /\ srv'.final = srv.final /\ srv'.code = srv.code /\ ~ srv'.held
    BY <1>1, <2>1, Zenon DEF SrvRec
  <2>4. broker' \subseteq (IF drv.pc = "bind" THEN {drv.run} ELSE {}) /\ broker' \in SUBSET Nat
    BY <1>1, <1>2, <2>1, Zenon DEF Queues
  <2>5. drv'.pc = "bind" <=> drv.pc = "bind"
    BY <1>3, Zenon
  <2>6. Queues'
    <3>1. /\ broker' \subseteq (IF drv'.pc = "bind" THEN {drv'.run} ELSE {})
          /\ drv'.pc = "bind" => drv'.run # rt'.run
          /\ drv'.pc \in {"ended", "failed", "quiet"} => drv'.run = rt'.run
          /\ ~ rt'.started \/ ~ rt'.driving => drv'.pc = "off"
      BY <1>2, <1>3, <2>2, <2>4, <2>5, Zenon DEF Queues
    <3>2. ~ rt'.started => broker' = {}
      BY <1>2, <2>1, <2>2, Zenon DEF Queues
    <3> QED
      BY <2>2, <3>1, <3>2, Zenon DEF Queues
  <2>7. Leftover' /\ Names'
    BY <1>3, <2>2, <2>3, <2>4, <2>5, Zenon DEF Leftover, Names
  <2>8. Stopping'
    BY <1>2, <2>2, <2>3, Zenon DEF Stopping
  <2>9. QueueInv'
    BY <2>6, <2>7, <2>8, Zenon DEF QueueInv
  <2>10. CASE jr' = jr
    <3>1. TypeOK'
      BY <1>0, <1>1, <1>3, <2>2, <2>3, <2>4, <2>10, Zenon DEF TypeOK
    <3>2. AtHand' /\ Settled'
      BY <1>1, <2>3, <2>10, Zenon DEF AtHand, Known, Settled
    <3>3. jr.seq <= jr'.seq
      <4>1. jr.seq \in Nat
        BY <1>1, Zenon DEF JrRec
      <4> QED
        BY <2>10, <4>1, SMT
    <3>4. Receipts'
      BY <1>1, <2>10, <3>1, <3>3, ReceiptsKept, Zenon DEF Receipts
    <3> QED
      BY <1>0, <2>3, <2>9, <3>1, <3>2, <3>3, <3>4, QuietStep, Zenon
  <2>11. CASE jr.st = "running" /\ jr' = Committed(2, jr.run, "paused")
    <3>1. 2 \in Nat /\ "paused" \in SessionStatus /\ "paused" # "running"
      BY SMT DEF SessionStatus
    <3>2. jr.run \in Nat
      BY <1>1, Zenon DEF JrRec
    <3> QED
      BY <1>0, <1>3, <2>2, <2>3, <2>4, <2>9, <2>11, <3>1, <3>2, CommittingStep, Zenon
  <2> QED
    BY <2>1, <2>10, <2>11, Zenon
<1> QED
    BY <1>4, <1>5, Zenon

\* followJournal replays what others have committed, or finds its client gone.
LEMMA FollowInv ==
    ASSUME StdioIInv, Follow, sent' = sent PROVE StdioIInv'
<1>0. Alive
    BY Zenon DEF Follow
<1>1. CASE ~ Reading
    BY <1>0, <1>1, FailTransportInv, Zenon DEF Follow
<1>2. CASE Reading
  <2>1. /\ out' = Replayed(jr) /\ srv' = [srv EXCEPT !.last = jr.seq]
        /\ UNCHANGED <<jr, rt, drv, fol, broker, in, client>>
    BY <1>2, Zenon DEF Follow
  <2>2. /\ QueueInv /\ Inbox /\ AtHand /\ Settled /\ jr \in JrRec /\ drv \in DrvRec /\ srv \in SrvRec
        /\ in \in Seq(CmdRec)
    BY Zenon DEF StdioIInv, TypeOK
  <2>3. /\ srv' \in SrvRec /\ srv'.pc = srv.pc /\ srv'.cmd = srv.cmd /\ srv'.held = srv.held
        /\ srv'.final = srv.final /\ srv'.code = srv.code /\ srv'.last = jr.seq
    <3>1. jr.seq \in Nat
      BY <2>2, Zenon DEF JrRec
    <3> QED
      BY <2>1, <2>2, <3>1, Zenon DEF SrvRec
  <2>4. AtHand' /\ Settled' /\ in' \in Seq(CmdRec) /\ Inbox'
    BY <2>1, <2>2, <2>3, Zenon DEF AtHand, Known, Settled, Inbox
  <2>5. (Serving' => Serving) /\ Stopping'
    BY <1>0, <2>1, <2>2, <2>3, Zenon DEF Serving, Stopping, QueueInv
  <2>6. QueueInv'
    BY <1>0, <2>1, <2>2, <2>3, <2>5, QueuesKept, Zenon
  <2> QED
    BY <1>0, <1>2, <2>1, <2>2, <2>3, <2>4, <2>6, ReplayingStep, Zenon
<1> QED
    BY <1>1, <1>2, Zenon

----------------------------------------------------------------------------
(* The process begins and ends. *)

\* A new attachment has nothing on its way, then what it replays and says.
LEMMA FirstGroups ==
    ASSUME NEW a \in Nat, NEW m \in Nat, a <= m, NEW e \in Nat, NEW t, t = Groups(a, m, e)
    PROVE  Flow(t, a, m) /\ End(t, a) = m
<1>1. Flow(<<>>, a, m) /\ End(<<>>, a) = a
    BY NoFlow, Zenon
<1>2. Consecutive(t, a, m - a)
    BY GroupsFacts, Zenon
<1>3. t = WithGroups(<<>>, a, m, e)
  <2>1. t \in Seq(ItemRec)
    BY <1>2, Zenon DEF Consecutive
  <2>2. t = <<>> \o t
    BY <2>1, SMT
  <2> QED
    BY <2>2, Zenon DEF WithGroups
<1>4. a = End(<<>>, a)
    BY <1>1, Zenon
<1> QED
    BY <1>1, <1>3, <1>4, ReplayFlow, SMT

\* The greeting of a client that has missed nothing.
LEMMA FirstSingle ==
    ASSUME NEW a \in Nat, NEW e \in Nat, NEW t, t = Single("hello", a, e)
    PROVE  Flow(t, a, a) /\ End(t, a) = a
<1>1. Flow(<<>>, a, a) /\ End(<<>>, a) = a
    BY NoFlow, Zenon
<1>2. PICK f : f = Item("hello", a, e)
    BY Zenon
<1>3. f \in ItemRec
    BY <1>2, Zenon DEF Item, ItemRec
<1>4. t = WithSingle(<<>>, "hello", a, e)
  <2>1. t = <<f>>
    BY <1>2, Zenon DEF Single
  <2>2. t = <<>> \o t
    BY <1>3, <2>1, SMT
  <2> QED
    BY <2>2, Zenon DEF WithSingle
<1>5. a = End(<<>>, a) /\ a <= a /\ "hello" \in {"hello", "error"}
  <2>1. a <= a
    BY SMT
  <2> QED
    BY <1>1, <2>1, Zenon
<1> QED
    BY <1>1, <1>4, <1>5, SingleFlow, SMT

\* A process has just begun to read commands.
Begun(s, last, epoch) ==
    /\ s \in SrvRec /\ s.pc = "read" /\ s.last = last /\ s.epoch = epoch /\ s.held /\ s.cmd = NoCommand
    /\ ~ s.final

\* No process.
LEMMA OffFacts == Off \in SrvRec /\ Off.pc = "off" /\ Off.cmd = NoCommand /\ ~ Off.final
<1>1. 0 \in Nat /\ "off" \in SrvPlace
    BY SMT DEF SrvPlace
<1> QED
    BY <1>1, NoCommandFacts, Zenon DEF Off, SrvRec

\* Where a new process begins.
LEMMA BegunFacts ==
    ASSUME NEW last \in Nat, NEW epoch \in Nat,
           NEW s, s = [Off EXCEPT !.pc = "read", !.last = last, !.epoch = epoch, !.held = TRUE]
    PROVE  Begun(s, last, epoch)
<1>1. "read" \in SrvPlace
    BY Zenon DEF SrvPlace
<1>2. PICK o : o = Off
    BY Zenon
<1>3. o \in SrvRec /\ o.cmd = NoCommand /\ ~ o.final
    BY <1>2, OffFacts, Zenon
<1>4. s = [o EXCEPT !.pc = "read", !.last = last, !.epoch = epoch, !.held = TRUE]
    BY <1>2, Zenon
<1> QED
    BY <1>1, <1>3, <1>4, Zenon DEF Begun, SrvRec

\* What a new attachment has in common with one that starts the session.
LEMMA BeginningStep ==
    ASSUME StdioIInv, jr' \in JrRec, NEW e \in Nat, Begun(srv', jr'.seq, e), rt' \in RtRec,
           drv' \in DrvRec, fol' \in {"off", "on"}, broker' \in SUBSET Nat, out' \in Seq(ItemRec),
           client' = [client EXCEPT !.st = "open"], in' = in, sent' = sent, jr.seq <= jr'.seq,
           Flow(out', client.accepted, jr'.seq) /\ End(out', client.accepted) = jr'.seq,
           Receipts', QueueInv'
    PROVE  StdioIInv'
<1>1. TypeOK /\ Stream /\ Inbox /\ StdioConstants /\ jr \in JrRec /\ client \in ClientRec
    BY Zenon DEF StdioIInv, TypeOK
<1>2. /\ client' \in ClientRec /\ client'.st = "open" /\ client'.accepted = client.accepted
      /\ client'.fault = client.fault
    BY <1>1, Zenon DEF ClientRec
<1>3. /\ srv' \in SrvRec /\ srv'.pc = "read" /\ srv'.last = jr'.seq /\ srv'.cmd = NoCommand /\ ~ srv'.final
    BY Zenon DEF Begun
<1>4. TypeOK'
    BY <1>1, <1>2, <1>3, Zenon DEF TypeOK
<1>5. Stream'
  <2>1. client.accepted <= jr'.seq /\ jr'.seq <= jr'.seq
    <3>1. client.accepted \in Nat /\ jr.seq \in Nat /\ jr'.seq \in Nat /\ client.accepted <= jr.seq
      BY <1>1, Zenon DEF JrRec, ClientRec, Stream
    <3> QED
      BY <3>1, SMT
  <2>2. client.fault # "broken"
    BY <1>1, Zenon DEF Stream
  <2> QED
    BY <1>2, <1>3, <2>1, <2>2, Zenon DEF Stream, Reading
<1>6. Inbox' /\ AtHand' /\ Settled'
    BY <1>1, <1>3, NoCommandFacts, Zenon DEF Inbox, Known, AtHand, Settled
<1> QED
    BY <1>1, <1>4, <1>5, <1>6, Zenon DEF StdioIInv, StdioConstants

\* No runtime, and no drive.
LEMMA IdleFacts ==
    /\ Idle \in RtRec /\ ~ Idle.started /\ ~ Idle.stopped /\ Idle.run = Nil
    /\ [pc |-> "off", run |-> Nil, eof |-> FALSE] \in DrvRec
<1>1. Nil \in Nat
    BY SMT DEF Nil
<1> QED
    BY <1>1, Zenon DEF Idle, RtRec, DrvRec, DrvPlace

\* The session starts, and its client is the first one.
LEMMA StartSessionInv ==
    ASSUME StdioIInv, NEW configure \in BOOLEAN, StartSession(configure), sent' = sent PROVE StdioIInv'
<1>0. /\ jr.seq = 0 /\ fol' = "on" /\ broker' = {1} /\ in' = in /\ client' = [client EXCEPT !.st = "open"]
      /\ out' = Groups(0, 1, 1) \o Single("hello", 1, 1)
      /\ jr' = [jr EXCEPT !.seq = 1, !.run = 1, !.st = "running"]
      /\ srv' = [Off EXCEPT !.pc = "read", !.last = 1, !.epoch = 1, !.held = TRUE]
    BY Zenon DEF StartSession
<1>1. TypeOK /\ Receipts /\ Stream /\ jr \in JrRec /\ client \in ClientRec
    BY Zenon DEF StdioIInv, TypeOK
<1>2. 0 \in Nat /\ 1 \in Nat /\ 0 <= 1 /\ 1 <= 1 /\ 1 # Nil
    BY SMT DEF Nil
<1>3. jr' \in JrRec /\ jr'.seq = 1 /\ jr'.run = 1 /\ jr'.st = "running" /\ jr'.rec = jr.rec
  <2>1. "running" \in SessionStatus
    BY Zenon DEF SessionStatus
  <2> QED
    BY <1>0, <1>1, <1>2, <2>1, Zenon DEF JrRec
<1>4. Begun(srv', jr'.seq, 1)
    BY <1>0, <1>2, <1>3, BegunFacts, Zenon
<1>5. client.accepted = 0
  <2>1. client.accepted \in Nat /\ client.accepted <= 0
    BY <1>0, <1>1, Zenon DEF ClientRec, Stream
  <2> QED
    BY <2>1, SMT
<1>6. PICK t : t = Groups(0, 1, 1)
    BY Zenon
<1>7. Flow(t, 0, 1) /\ End(t, 0) = 1
    BY <1>2, <1>6, FirstGroups, Zenon
<1>8. Flow(out', 0, 1) /\ End(out', 0) = 1
  <2>1. out' = WithSingle(t, "hello", 1, 1) /\ 1 = End(t, 0) /\ "hello" \in {"hello", "error"}
    BY <1>0, <1>6, <1>7, Zenon DEF WithSingle
  <2> QED
    BY <1>2, <1>7, <2>1, SingleFlow, SMT
<1>9. Receipts'
  <2>1. \A c \in CommandID : jr.rec[c] \in Nat /\ jr.rec[c] <= 0
    BY <1>0, <1>1, Zenon DEF JrRec, Receipts
  <2>2. \A c \in CommandID : jr.rec[c] = 0 /\ ~ (jr.rec[c] > 0) /\ jr.rec[c] <= 1
    BY <2>1, SMT
  <2> QED
    BY <1>2, <1>3, <2>2, Zenon DEF Receipts
<1>10. rt' \in RtRec /\ rt'.run = 1 /\ rt'.started /\ ~ rt'.stopped /\ (rt'.driving <=> ~ configure)
  <2>1. rt' = [Idle EXCEPT !.handle = TRUE, !.run = 1, !.started = TRUE, !.driving = ~ configure,
                           !.configure = configure]
    BY Zenon DEF StartSession
  <2>2. PICK i \in RtRec : i = Idle /\ ~ i.stopped
    BY IdleFacts, Zenon
  <2>3. rt' = [i EXCEPT !.handle = TRUE, !.run = 1, !.started = TRUE, !.driving = ~ configure,
                        !.configure = configure]
    BY <2>1, <2>2, Zenon
  <2> QED
    BY <1>2, <2>2, <2>3, Zenon DEF RtRec
<1>11. drv' \in DrvRec /\ drv'.pc = IF configure THEN "off" ELSE "next"
  <2>1. drv' = [pc |-> IF configure THEN "off" ELSE "next", run |-> Nil, eof |-> FALSE]
    BY Zenon DEF StartSession
  <2>2. Nil \in Nat
    BY SMT DEF Nil
  <2> QED
    BY <2>1, <2>2, Zenon DEF DrvRec, DrvPlace
<1>12. QueueInv'
  <2>1. srv'.pc = "read" /\ drv'.pc \in {"off", "next"}
    BY <1>4, <1>11, Zenon DEF Begun
  <2>2. Queues'
    BY <1>0, <1>10, <1>11, <2>1, Zenon DEF Queues
  <2>3. Leftover' /\ Names' /\ Stopping'
    BY <1>3, <1>10, <2>1, Zenon DEF Leftover, Names, Stopping
  <2> QED
    BY <2>2, <2>3, Zenon DEF QueueInv
<1>13. broker' \in SUBSET Nat /\ fol' \in {"off", "on"} /\ out' \in Seq(ItemRec) /\ jr.seq <= jr'.seq
    BY <1>0, <1>2, <1>3, <1>8, Zenon DEF Flow
<1> QED
    BY <1>0, <1>2, <1>3, <1>4, <1>5, <1>8, <1>9, <1>10, <1>11, <1>12, <1>13, BeginningStep, Zenon

\* A later process finds no run running, and tells its client what it has missed.
LEMMA AttachReconciledInv ==
    ASSUME StdioIInv, AttachReconciled, sent' = sent PROVE StdioIInv'
<1>1. TypeOK /\ Receipts /\ Stream /\ jr \in JrRec /\ client \in ClientRec /\ srv \in SrvRec
    BY Zenon DEF StdioIInv, TypeOK
<1>2. jr.seq \in Nat /\ jr.seq + 2 \in Nat /\ srv.epoch + 1 \in Nat /\ srv.epoch + 2 \in Nat
      /\ jr.seq <= jr.seq /\ jr.seq <= jr.seq + 2 /\ client.accepted \in Nat
      /\ client.accepted <= jr.seq /\ client.accepted <= jr.seq + 2
  <2>1. jr.seq \in Nat /\ srv.epoch \in Nat /\ client.accepted \in Nat /\ client.accepted <= jr.seq
    BY <1>1, Zenon DEF JrRec, SrvRec, ClientRec, Stream
  <2> QED
    BY <2>1, SMT
<1>3. PICK st \in SessionStatus, n \in Nat, e \in Nat :
        /\ st # "running" /\ jr.seq <= n /\ client.accepted <= n
        /\ jr' = [jr EXCEPT !.st = st, !.seq = n]
        /\ srv' = [Off EXCEPT !.pc = "read", !.last = jr'.seq, !.epoch = e, !.held = TRUE]
        /\ out' = IF client.accepted = jr'.seq THEN Single("hello", jr'.seq, e)
                  ELSE Groups(client.accepted, jr'.seq, e)
  <2>1. CASE jr.st = "running"
    <3>1. PICK st \in {"paused", "indeterminate"} :
            /\ jr' = [jr EXCEPT !.st = st, !.seq = jr.seq + 2]
            /\ srv' = [Off EXCEPT !.pc = "read", !.last = jr'.seq, !.epoch = srv.epoch + 2, !.held = TRUE]
            /\ out' = IF client.accepted = jr'.seq THEN Single("hello", jr'.seq, srv.epoch + 2)
                      ELSE Groups(client.accepted, jr'.seq, srv.epoch + 2)
      BY <2>1, Zenon DEF AttachReconciled
    <3>2. st \in SessionStatus /\ st # "running"
      BY Zenon DEF SessionStatus
    <3> QED
      BY <1>2, <3>1, <3>2, Zenon
  <2>2. CASE jr.st # "running"
    <3>1. /\ jr' = [jr EXCEPT !.st = jr.st, !.seq = jr.seq]
          /\ srv' = [Off EXCEPT !.pc = "read", !.last = jr'.seq, !.epoch = srv.epoch + 1, !.held = TRUE]
          /\ out' = IF client.accepted = jr'.seq THEN Single("hello", jr'.seq, srv.epoch + 1)
                    ELSE Groups(client.accepted, jr'.seq, srv.epoch + 1)
      BY <2>2, Zenon DEF AttachReconciled
    <3>2. jr.st \in SessionStatus
      BY <1>1, Zenon DEF JrRec
    <3> QED
      BY <1>2, <2>2, <3>1, <3>2, Zenon
  <2> QED
    BY <2>1, <2>2, Zenon
<1>4. jr' \in JrRec /\ jr'.seq = n /\ jr'.st = st /\ jr'.rec = jr.rec /\ jr'.run = jr.run
  <2>1. jr' = [jr EXCEPT !.st = st, !.seq = n]
    BY <1>3, Zenon
  <2> QED
    BY <1>1, <2>1, Zenon DEF JrRec
<1>5. Begun(srv', n, e)
  <2>1. srv' = [Off EXCEPT !.pc = "read", !.last = n, !.epoch = e, !.held = TRUE]
    BY <1>3, <1>4, Zenon
  <2> QED
    BY <2>1, BegunFacts, Zenon
<1>6. Flow(out', client.accepted, n) /\ End(out', client.accepted) = n
  <2>1. CASE client.accepted = n
    <3>1. out' = Single("hello", n, e)
      BY <1>3, <1>4, <2>1, Zenon
    <3>2. Flow(out', n, n) /\ End(out', n) = n
      BY <3>1, FirstSingle, Zenon
    <3> QED
      BY <2>1, <3>2, Zenon
  <2>2. CASE client.accepted # n
    <3>1. out' = Groups(client.accepted, n, e) /\ client.accepted <= n
      BY <1>3, <1>4, <2>2, Zenon
    <3> QED
      BY <1>2, <3>1, FirstGroups, Zenon
  <2> QED
    BY <2>1, <2>2, Zenon
<1>7. /\ rt' = Idle /\ drv' = [pc |-> "off", run |-> Nil, eof |-> FALSE] /\ fol' = "off" /\ broker' = {}
      /\ client' = [client EXCEPT !.st = "open"] /\ in' = in
    BY Zenon DEF AttachReconciled
<1>8. rt' \in RtRec /\ ~ rt'.started /\ ~ rt'.stopped /\ drv' \in DrvRec /\ drv'.pc = "off"
    BY <1>7, IdleFacts, Zenon
<1>9. QueueInv'
  <2>1. srv'.pc = "read"
    BY <1>5, Zenon DEF Begun
  <2>2. Queues' /\ Leftover' /\ Names' /\ Stopping'
    BY <1>7, <1>8, <2>1, Zenon DEF Queues, Leftover, Names, Stopping
  <2> QED
    BY <2>2, Zenon DEF QueueInv
<1>10. Receipts'
  <2>1. \A c \in CommandID : jr.rec[c] \in Nat /\ jr.rec[c] <= jr.seq
    BY <1>1, Zenon DEF JrRec, Receipts
  <2>2. \A k \in Nat : k <= jr.seq => k <= n
    BY <1>2, <1>3, SMT
  <2> QED
    BY <1>1, <1>3, <1>4, <2>1, <2>2, Zenon DEF Receipts
<1>11. broker' \in SUBSET Nat /\ fol' \in {"off", "on"} /\ out' \in Seq(ItemRec) /\ jr.seq <= jr'.seq
    BY <1>3, <1>4, <1>6, <1>7, Zenon DEF Flow
<1> QED
    BY <1>4, <1>5, <1>6, <1>7, <1>8, <1>9, <1>10, <1>11, BeginningStep, Zenon

\* What a process that dies leaves in the pipe is a sequence of frames.
LEMMA CutSeq ==
    ASSUME NEW s \in Seq(ItemRec), NEW n \in 1..Len(s), NEW w \in BOOLEAN, NEW t,
           t = Append(SubSeq(s, 1, n - 1), [s[n] EXCEPT !.whole = w])
    PROVE  t \in Seq(ItemRec)
<1>1. PICK f : f = [s[n] EXCEPT !.whole = w]
    BY Zenon
<1>2. f \in ItemRec
  <2>1. s[n] \in ItemRec
    BY SMT
  <2> QED
    BY <1>1, <2>1, Zenon DEF ItemRec
<1>3. PICK u : u = SubSeq(s, 1, n - 1)
    BY Zenon
<1>4. u \in Seq(ItemRec)
    BY <1>3, SMT
<1>5. t = Append(u, f)
    BY <1>1, <1>3, Zenon
<1> QED
    BY <1>2, <1>4, <1>5, SMT

\* The process dies, or is gone.
LEMMA ProcessEndsInv ==
    ASSUME StdioIInv, ProcessEnds, sent' = sent PROVE StdioIInv'
<1>0. /\ srv.pc # "off" /\ srv' = [Off EXCEPT !.epoch = srv.epoch] /\ rt' = Idle
      /\ drv' = [pc |-> "off", run |-> Nil, eof |-> FALSE] /\ fol' = "off" /\ broker' = {}
      /\ in' = <<>> /\ jr' = jr /\ client' = client
    BY Zenon DEF ProcessEnds
<1>1. /\ TypeOK /\ Stream /\ srv \in SrvRec /\ out \in Seq(ItemRec) /\ client \in ClientRec /\ jr \in JrRec
    BY Zenon DEF StdioIInv, TypeOK
<1>2. srv' \in SrvRec /\ srv'.pc = "off" /\ srv'.cmd = NoCommand /\ ~ srv'.final
  <2>1. srv.epoch \in Nat
    BY <1>1, Zenon DEF SrvRec
  <2>2. PICK o \in SrvRec : o = Off /\ o.pc = "off" /\ o.cmd = NoCommand /\ ~ o.final
    BY OffFacts, Zenon
  <2>3. srv' = [o EXCEPT !.epoch = srv.epoch]
    BY <1>0, <2>2, Zenon
  <2> QED
    BY <2>1, <2>2, <2>3, Zenon DEF SrvRec
<1>3. out' \in Seq(ItemRec) /\ (Reading => Flow(out', client.accepted, jr.seq))
  <2>1. Reading => Flow(out, client.accepted, jr.seq)
    BY <1>1, Zenon DEF Stream
  <2>2. CASE out' = out
    BY <1>1, <2>1, <2>2, Zenon
  <2>3. CASE out' # out
    <3>1. PICK n \in 1..Len(out), whole \in BOOLEAN :
            out' = Append(SubSeq(out, 1, n - 1), [out[n] EXCEPT !.whole = whole])
      BY <2>3, Zenon DEF ProcessEnds
    <3>2. out' \in Seq(ItemRec)
      BY <1>1, <3>1, CutSeq, Zenon
    <3> QED
      BY <2>1, <3>1, <3>2, CutFlow, Zenon
  <2> QED
    BY <2>2, <2>3, Zenon
<1>4. TypeOK'
  <2>1. in' \in Seq(CmdRec)
    BY <1>0, SMT
  <2>2. rt' \in RtRec /\ drv' \in DrvRec
    BY <1>0, IdleFacts, Zenon
  <2> QED
    BY <1>0, <1>1, <1>2, <1>3, <2>1, <2>2, Zenon DEF TypeOK
<1>5. ~ Alive'
    BY <1>2, Zenon DEF Alive
<1>6. Stream'
    BY <1>0, <1>1, <1>2, <1>3, <1>5, Zenon DEF Stream, Reading
<1>7. Inbox'
  <2>1. 1..Len(in') = {}
    BY <1>0, SMT
  <2> QED
    BY <2>1, Zenon DEF Inbox
<1>8. AtHand' /\ Settled' /\ QueueInv'
    BY <1>2, <1>5, NoCommandFacts, Zenon DEF AtHand, Settled, QueueInv
<1> QED
    BY <1>0, <1>4, <1>6, <1>7, <1>8, JournalStays, Zenon

----------------------------------------------------------------------------
(* The client. *)

\* A step of the client alone.
LEMMA ClientStep ==
    ASSUME StdioIInv, client' \in ClientRec, out' \in Seq(ItemRec), Stream',
           UNCHANGED <<jr, srv, rt, drv, fol, broker, in, sent>>
    PROVE  StdioIInv'
<1>1. /\ jr' = jr /\ srv' = srv /\ rt' = rt /\ drv' = drv /\ fol' = fol /\ broker' = broker /\ in' = in
      /\ sent' = sent
    BY Zenon
<1>2. TypeOK /\ Inbox /\ AtHand /\ Settled /\ QueueInv
    BY Zenon DEF StdioIInv
<1>3. TypeOK'
    BY <1>1, <1>2, Zenon DEF TypeOK
<1>4. Inbox' /\ AtHand' /\ Settled'
    BY <1>1, <1>2, Zenon DEF Inbox, Known, AtHand, Settled
<1>5. QueueInv'
    BY <1>1, <1>2, Zenon DEF QueueInv, Alive, Queues, Leftover, Names, Stopping, Serving
<1> QED
    BY <1>1, <1>3, <1>4, <1>5, JournalStays, Zenon

\* A client that fails keeps what it has accepted.
LEMMA ClientFailsStep ==
    ASSUME StdioIInv, NEW why \in {"ended", "refused", "closed"}, ClientFails(why),
           out' \in Seq(ItemRec), UNCHANGED <<jr, srv, rt, drv, fol, broker, in, sent>>
    PROVE  StdioIInv'
<1>1. client \in ClientRec /\ Stream
    BY Zenon DEF StdioIInv, TypeOK
<1>2. /\ client' \in ClientRec /\ client'.st = "off" /\ client'.fault = why
      /\ client'.accepted = client.accepted
  <2>1. 0 \in Nat /\ client' = [client EXCEPT !.st = "off", !.fault = why, !.epoch = 0]
    BY SMT DEF ClientFails
  <2> QED
    BY <1>1, <2>1, Zenon DEF ClientRec
<1>3. Stream'
    BY <1>1, <1>2, Zenon DEF Stream, Reading, Alive
<1> QED
    BY <1>2, <1>3, ClientStep, Zenon

\* acceptFrame: the frame is the next one, so no group is missing and none comes twice.
LEMMA ClientReadsInv ==
    ASSUME StdioIInv, ClientReads, sent' = sent PROVE StdioIInv'
<1>0. /\ Reading /\ out # <<>> /\ out' = Tail(out)
      /\ jr' = jr /\ srv' = srv /\ rt' = rt /\ drv' = drv /\ fol' = fol /\ broker' = broker /\ in' = in
    BY Zenon DEF ClientReads
<1>1. client \in ClientRec /\ client.accepted \in Nat /\ Stream
    BY Zenon DEF StdioIInv, TypeOK, ClientRec
<1>2. PICK f : f = Head(out)
    BY Zenon
<1>3. /\ f \in ItemRec /\ f.seq = client.accepted + Advance(f) /\ f.seq <= jr.seq
      /\ Flow(out', f.seq, jr.seq) /\ End(out', f.seq) = End(out, client.accepted)
  <2>1. Flow(out, client.accepted, jr.seq)
    BY <1>0, <1>1, Zenon DEF Stream
  <2> QED
    BY <1>0, <1>2, <2>1, ReadFlow, Zenon
<1>4. out' \in Seq(ItemRec) /\ f.seq \in Nat /\ f.epoch \in Nat
    BY <1>3, Zenon DEF Flow, ItemRec
<1>5. /\ f.type = "hello" => f.seq = client.accepted
      /\ f.type = "group" => f.seq = client.accepted + 1
  <2>1. client.accepted + 0 = client.accepted
    BY <1>1, SMT
  <2> QED
    BY <1>3, <2>1, Zenon DEF Advance
<1>6. \/ ClientFails("ended")
      \/ ClientFails("refused")
      \/ client' = [client EXCEPT !.epoch = f.epoch] /\ f.seq = client.accepted
      \/ client' = [client EXCEPT !.accepted = f.seq, !.epoch = f.epoch]
    BY <1>2, <1>5, Zenon DEF ClientReads
<1>7. CASE ClientFails("ended") \/ ClientFails("refused")
  <2>1. "ended" \in {"ended", "refused", "closed"} /\ "refused" \in {"ended", "refused", "closed"}
    BY Zenon
  <2> QED
    BY <1>0, <1>4, <1>7, <2>1, ClientFailsStep, Zenon
<1>8. CASE \/ client' = [client EXCEPT !.epoch = f.epoch] /\ f.seq = client.accepted
           \/ client' = [client EXCEPT !.accepted = f.seq, !.epoch = f.epoch]
  <2>1. /\ client' \in ClientRec /\ client'.st = client.st /\ client'.accepted = f.seq
        /\ client'.fault = client.fault
    BY <1>1, <1>4, <1>8, Zenon DEF ClientRec
  <2>2. Stream'
    BY <1>0, <1>1, <1>3, <2>1, Zenon DEF Stream, Reading, Alive
  <2> QED
    BY <1>0, <1>4, <2>1, <2>2, ClientStep, Zenon
<1> QED
    BY <1>6, <1>7, <1>8, Zenon

\* The stream ends, or the client is disposed of.
LEMMA ClientEndsInv ==
    ASSUME StdioIInv, ClientSeesEnd \/ ClientCloses, sent' = sent PROVE StdioIInv'
<1>1. out \in Seq(ItemRec)
    BY Zenon DEF StdioIInv, TypeOK
<1>2. PICK why \in {"ended", "refused", "closed"} : ClientFails(why)
    BY Zenon DEF ClientSeesEnd, ClientCloses
<1>3. out' = out /\ UNCHANGED <<jr, srv, rt, drv, fol, broker, in>>
    BY Zenon DEF ClientSeesEnd, ClientCloses
<1> QED
    BY <1>1, <1>2, <1>3, ClientFailsStep, Zenon

\* A new client begins where the cache of the old one ends, or at the beginning.
LEMMA ReopenInv ==
    ASSUME StdioIInv, Reopen, sent' = sent PROVE StdioIInv'
<1>0. srv.pc = "off" /\ out' = <<>> /\ UNCHANGED <<jr, srv, rt, drv, fol, broker, in>>
    BY Zenon DEF Reopen
<1>1. client \in ClientRec /\ jr \in JrRec /\ Stream
    BY Zenon DEF StdioIInv, TypeOK
<1>2. PICK after \in {0, client.accepted} :
        client' = [st |-> "new", accepted |-> after, epoch |-> 0, fault |-> "none"]
    BY Zenon DEF Reopen
<1>3. 0 \in Nat /\ after \in Nat /\ after <= jr.seq
  <2>1. client.accepted \in Nat /\ jr.seq \in Nat /\ client.accepted <= jr.seq
    BY <1>1, Zenon DEF ClientRec, JrRec, Stream
  <2> QED
    BY <2>1, SMT
<1>4. client' \in ClientRec /\ client'.st = "new" /\ client'.accepted = after /\ client'.fault = "none"
    BY <1>2, <1>3, Zenon DEF ClientRec
<1>5. Stream'
    BY <1>0, <1>3, <1>4, Zenon DEF Stream, Reading, Alive
<1>6. out' \in Seq(ItemRec)
    BY <1>0, SMT
<1> QED
    BY <1>0, <1>4, <1>5, <1>6, ClientStep, Zenon

\* A command goes out under a new id, or repeats what its id was used for.
LEMMA ClientSendsInv ==
    ASSUME StdioIInv, NEW id \in CommandID, ClientSends(id) PROVE StdioIInv'
<1>0. /\ jr' = jr /\ srv' = srv /\ rt' = rt /\ drv' = drv /\ fol' = fol /\ broker' = broker /\ out' = out
      /\ client' = client
    BY Zenon DEF ClientSends
<1>1. /\ StdioConstants /\ TypeOK /\ Stream /\ Receipts /\ Inbox /\ AtHand /\ Settled /\ QueueInv
      /\ client \in ClientRec /\ sent \in [CommandID -> CmdType] /\ in \in Seq(CmdRec)
    BY Zenon DEF StdioIInv, TypeOK
<1>2. PICK type \in (IF sent[id] = "none" THEN Types[id] ELSE {sent[id]}) :
        /\ sent' = [sent EXCEPT ![id] = type]
        /\ in' = Append(in, [id |-> id, type |-> type, epoch |-> client.epoch,
                             expect |-> client.accepted])
    BY Zenon DEF ClientSends
<1>3. type \in CmdType /\ type # "none"
  <2>1. CASE sent[id] = "none"
    BY <1>1, <1>2, <2>1, Zenon DEF StdioConstants, CmdType
  <2>2. CASE sent[id] # "none"
    BY <1>1, <1>2, <2>2, Zenon
  <2> QED
    BY <2>1, <2>2, Zenon
<1>4. /\ sent' \in [CommandID -> CmdType] /\ sent'[id] = type
      /\ \A c \in CommandID : sent[c] # "none" => sent'[c] = sent[c]
    BY <1>1, <1>2, <1>3, Zenon
<1>5. PICK cmd : cmd = [id |-> id, type |-> type, epoch |-> client.epoch, expect |-> client.accepted]
    BY Zenon
<1>6. cmd \in CmdRec /\ cmd.id = id /\ cmd.type = type
  <2>1. client.epoch \in Nat /\ client.accepted \in Nat
    BY <1>1, Zenon DEF ClientRec
  <2> QED
    BY <1>3, <1>5, <2>1, Zenon DEF CmdRec
<1>7. /\ in' \in Seq(CmdRec) /\ Len(in') = Len(in) + 1 /\ Len(in) \in Nat
      /\ \A i \in 1..Len(in) : in'[i] = in[i]
      /\ in'[Len(in) + 1] = cmd
  <2>1. in' = Append(in, cmd)
    BY <1>2, <1>5, Zenon
  <2> QED
    BY <1>1, <1>6, <2>1, SMT
<1>8. Inbox'
  <2>1. \A i \in 1..Len(in') : i \in 1..Len(in) \/ i = Len(in) + 1
    BY <1>7, SMT
  <2>2. ASSUME NEW i \in 1..Len(in') PROVE Known(in[i])'
    <3>1. CASE i \in 1..Len(in)
      <4>1. PICK x : x = in[i]
        BY Zenon
      <4>2. in'[i] = x /\ x.id \in CommandID /\ x.type = sent[x.id] /\ x.type # "none"
        BY <1>1, <1>7, <3>1, <4>1, Zenon DEF Inbox, Known
      <4> QED
        BY <1>4, <4>2, Zenon DEF Known
    <3>2. CASE i = Len(in) + 1
      BY <1>3, <1>4, <1>6, <1>7, <3>2, Zenon DEF Known
    <3> QED
      BY <2>1, <3>1, <3>2, Zenon
  <2> QED
    BY <2>2, Zenon DEF Inbox, Known
<1>9. TypeOK'
    BY <1>0, <1>1, <1>4, <1>7, Zenon DEF TypeOK
<1>10. Stream'
    BY <1>0, <1>1, Zenon DEF Stream, Reading, Alive
<1>11. AtHand' /\ Settled'
    BY <1>0, <1>1, <1>4, Zenon DEF AtHand, Known, Settled
<1>12. QueueInv'
    BY <1>0, <1>1, Zenon DEF QueueInv, Alive, Queues, Leftover, Names, Stopping, Serving
<1>13. Receipts'
  <2>1. \A c \in CommandID : jr.rec[c] > 0 => sent[c] # "none" /\ sent'[c] = sent[c]
    BY <1>1, <1>4, Zenon DEF Receipts
  <2>2. \A c \in CommandID : Superseded(c) => Superseded(c)'
    BY <1>0, Zenon DEF Superseded
  <2> QED
    BY <1>0, <1>1, <2>1, <2>2, Zenon DEF Receipts
<1> QED
    BY <1>1, <1>8, <1>9, <1>10, <1>11, <1>12, <1>13, Zenon DEF StdioIInv, StdioConstants

----------------------------------------------------------------------------
(* The theorems. *)

\* The initial states satisfy the invariant.
LEMMA StdioInit == ASSUME StdioConstants, Init PROVE StdioIInv
<1>0. /\ jr = [seq |-> 0, run |-> Nil, st |-> "none", rec |-> [c \in CommandID |-> 0]]
      /\ srv = Off /\ rt = Idle /\ drv = [pc |-> "off", run |-> Nil, eof |-> FALSE] /\ fol = "off"
      /\ broker = {} /\ out = <<>> /\ in = <<>> /\ sent = [c \in CommandID |-> "none"]
      /\ client = [st |-> "new", accepted |-> 0, epoch |-> 0, fault |-> "none"]
    BY Zenon DEF Init
<1>1. 0 \in Nat /\ Nil \in Nat /\ 0 <= 0 /\ ~ (0 > 0) /\ out \in Seq(ItemRec) /\ in \in Seq(CmdRec) /\ 1..Len(in) = {}
    BY <1>0, SMT DEF Nil
<1>2. srv \in SrvRec /\ srv.pc = "off" /\ srv.cmd = NoCommand /\ ~ srv.final /\ ~ Alive
    BY <1>0, OffFacts, Zenon DEF Alive
<1>3. jr \in JrRec /\ jr.seq = 0 /\ jr.st = "none" /\ \A c \in CommandID : jr.rec[c] = 0
    BY <1>0, <1>1, Zenon DEF JrRec, SessionStatus
<1>4. client \in ClientRec /\ client.st = "new" /\ client.accepted = 0 /\ client.fault = "none"
    BY <1>0, <1>1, Zenon DEF ClientRec
<1>5. sent \in [CommandID -> CmdType]
    BY <1>0, Zenon DEF CmdType
<1>6. TypeOK
    BY <1>0, <1>1, <1>2, <1>3, <1>4, <1>5, IdleFacts, Zenon DEF TypeOK
<1>7. Stream
    BY <1>1, <1>2, <1>3, <1>4, Zenon DEF Stream, Reading
<1>8. Receipts
    BY <1>1, <1>3, Zenon DEF Receipts
<1>9. Inbox /\ AtHand /\ Settled /\ QueueInv
    BY <1>1, <1>2, NoCommandFacts, Zenon DEF Inbox, AtHand, Settled, QueueInv
<1> QED
    BY <1>6, <1>7, <1>8, <1>9, Zenon DEF StdioIInv

\* Every step preserves the invariant.
LEMMA StdioNext == ASSUME StdioIInv, [Next]_vars PROVE StdioIInv'
<1>1. CASE UNCHANGED vars
  <2>1. UNCHANGED <<jr, srv, rt, drv, fol, broker, in, sent>> /\ out' = out /\ client' = client
    BY <1>1, Zenon DEF vars
  <2>2. client \in ClientRec /\ out \in Seq(ItemRec) /\ Stream
    BY Zenon DEF StdioIInv, TypeOK
  <2>3. Stream'
    BY <2>1, <2>2, Zenon DEF Stream, Reading, Alive
  <2> QED
    BY <2>1, <2>2, <2>3, ClientStep, Zenon
<1>2. ASSUME NEW id \in CommandID, ClientSends(id) PROVE StdioIInv'
    BY <1>2, ClientSendsInv, Zenon
<1>3. CASE ServerNext /\ sent' = sent
  <2>1. ASSUME NEW configure \in BOOLEAN, StartSession(configure) PROVE StdioIInv'
    BY <1>3, <2>1, StartSessionInv, Zenon
  <2>2. CASE AttachReconciled
    BY <1>3, <2>2, AttachReconciledInv, Zenon
  <2>3. CASE ServeReads \/ ServeEnds \/ ServeReplies \/ finishSessionAttachment \/ ServeGivesUp
    BY <1>3, <2>3, ServeReadsInv, ServeEndsInv, ServeRepliesInv, finishSessionAttachmentInv,
       ServeGivesUpInv, Zenon
  <2>4. CASE OpCommits \/ OpResumes \/ OpStops \/ OpSettles \/ OpCloses
    BY <1>3, <2>4, OpCommitsInv, OpResumesInv, OpStopsInv, OpSettlesInv, OpClosesInv, Zenon
  <2>5. CASE DriveNext \/ DriveRegisters \/ DriveBinds \/ DriveReplays \/ DriveStops \/ DriveUnregisters
    BY <1>3, <2>5, DriveNextInv, DriveRegistersInv, DriveBindsInv, DriveReplaysInv, DriveStopsInv,
       DriveUnregistersInv, Zenon
  <2>6. CASE DriveLosesTransport
    BY <1>3, <2>6, FailTransportInv, Zenon DEF DriveLosesTransport
  <2>7. CASE Follow \/ ProcessEnds
    BY <1>3, <2>7, FollowInv, ProcessEndsInv, Zenon
  <2> QED
    BY <1>3, <2>1, <2>2, <2>3, <2>4, <2>5, <2>6, <2>7, Zenon DEF ServerNext
<1>4. CASE ClientNext /\ sent' = sent
    BY <1>4, ClientReadsInv, ClientEndsInv, ReopenInv, Zenon DEF ClientNext
<1> QED
    BY <1>1, <1>2, <1>3, <1>4, Zenon DEF Next

\* The inductive invariant of an attachment: what is on its way to the client continues where
\* the client is and ends where the attachment has got to (replayMu); a run that runs was
\* resumed after every receipt that ended an attachment; the queues are those of the run the
\* runtime names and of the one its drive is about to name.
THEOREM StdioInductive == StdioConstants /\ Spec => []StdioIInv
<1>1. StdioConstants /\ Init => StdioIInv
    BY StdioInit
<1>2. StdioIInv /\ [Next]_vars => StdioIInv'
    BY StdioNext
<1> QED
    BY <1>1, <1>2, PTL DEF Spec

\* The client never finds a gap, a repetition or a foreign position in the stream, however
\* drive, followJournal and the command loop interleave, and whenever process and client die.
THEOREM StreamUnbrokenAlways == StdioConstants /\ Spec => []StreamUnbroken
<1>1. StdioIInv => StreamUnbroken
    BY Zenon DEF StdioIInv, Stream, StreamUnbroken
<1> QED
    BY <1>1, StdioInductive, PTL

\* A process that reports success has left no run behind that the journal calls running.
THEOREM OrderlyExitAlways == StdioConstants /\ Spec => []OrderlyExit
<1>1. StdioIInv => OrderlyExit
    BY Zenon DEF StdioIInv, Settled, OrderlyExit
<1> QED
    BY <1>1, StdioInductive, PTL

\* The run that is driven always has a queue, and a runtime that has stopped with its drive,
\* in a process that goes on reading commands, has none left.
THEOREM QueueFollowsRunAlways == StdioConstants /\ Spec => []QueueFollowsRun
<1>1. StdioIInv => QueueFollowsRun
  <2> SUFFICES ASSUME StdioIInv, Alive
               PROVE  /\ rt.started /\ ~rt.stopped => rt.run \in broker
                      /\ rt.stopped /\ drv.pc = "off" /\ srv.pc = "read" /\ rt.started => broker = {}
    BY Zenon DEF QueueFollowsRun
  <2>1. Queues /\ Leftover
    BY Zenon DEF StdioIInv, QueueInv
  <2> QED
    BY <2>1, Zenon DEF Queues, Leftover, Serving
<1> QED
    BY <1>1, StdioInductive, PTL
=============================================================================
