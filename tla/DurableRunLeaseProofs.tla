------------------------ MODULE DurableRunLeaseProofs -----------------------
(***************************************************************************)
(* The checkpoints of a run are fenced by its writer lease: every step of  *)
(* DurableRun preserves the invariant of the lease, whatever fails, crashes *)
(* or returns late. First, what all the proofs about DurableRun share: the *)
(* two inductive invariants, the operators on the record of a run, and what *)
(* a commit leaves in each of its three outcomes.                          *)
(***************************************************************************)
EXTENDS DurableRun, TLAPS

-----------------------------------------------------------------------------
(* The invariant of the lease.                                             *)

Event == [seq : Nat, epoch : Nat, try : Nat]
Turn == {None, "pending"} \cup Answers
Results == [Steps -> Result \cup {None}]
Before == [dispatch : Dispatch, turn : Turn]
Position == 0..Len(Kind) + 1

RunType ==
    [epoch : Nat, seq : Nat, committed : Nat, checkpoint : Nat, pending : Seq(Event), try : Nat,
     sent : Nat, traceErr : BOOLEAN, halted : BOOLEAN, status : Status, step : Position,
     dispatch : Dispatch, turn : Turn, back : Before, results : Results]

SnapshotType ==
    [epoch : Nat, committed : Nat, pending : Seq(Event), status : Status, next : 1..Len(Kind) + 1,
     dispatch : Dispatch, turn : Turn, results : Results]

LateType == [epoch : Nat \ {0}, step : Steps, started : BOOLEAN]

\* The lines of a trace, and of what is left when its last ones are cut off: one
\* of them has the highest number.
Top(l, k, m) == (m = 0 \/ \E i \in 1..k : l[i].seq = m) /\ \A i \in 1..k : l[i].seq <= m

Lines == {l \in Seq(Event) : \A k \in 0..Len(l) : \E m \in Nat : Top(l, k, m)}

\* A program ends in the one operation that is not a write to the trace: its goal.
Middle == {"emit!", "emit?", "project", "recover"}

End(a) == a[Len(a)]

Program ==
    {a \in Seq(Op) : /\ a # <<>> /\ End(a) \notin Middle
                     /\ \A i \in 1..Len(a) - 1 : a[i] \in Middle /\ (i > 1 => a[i] \in {"emit!", "emit?"})}

\* A run that has seen the newest checkpoint; another can not write the next one.
Current(r) == r.checkpoint = Len(checkpoints)

TypeInv ==
    /\ lock \in Procs \cup {None}
    /\ epochFile \in Nat
    /\ checkpoints \in Seq(SnapshotType)
    /\ trace \in Lines
    /\ lease \in [Procs -> Nat]
    /\ agenda \in [Procs -> Program \cup {<<>>}]
    /\ run \in [Procs -> RunType]
    /\ late \in [Procs -> SUBSET LateType]
    /\ faults \in Nat
    /\ effects \in [Steps -> Nat]
    /\ acked \in [Steps -> Answers \cup {None}]
    /\ \A n \in DOMAIN checkpoints : checkpoints[n].dispatch = "prepared" => checkpoints[n].next \in Steps

\* The run r is one of the leaseholder: it has the current epoch and an open dispatch
\* is that of its step.
Owned(r) ==
    /\ r.epoch = epochFile
    /\ r.checkpoint <= Len(checkpoints)
    /\ r.sent = 0 \/ r.sent < Len(r.pending)
    /\ r.dispatch = "prepared" \/ r.back.dispatch = "prepared" => r.step \in Steps

\* What it commits next is numbered after what the newest checkpoint committed.
Ahead(r) == Current(r) /\ checkpoints # <<>> => r.seq >= Newest.committed

\* Where it is in the plan when it works towards g.
Placed(r, g) ==
    /\ g \in {"tool", "ask", "exec", "running", "asking", "accepted", "answered"} => r.step \in Steps
    /\ g \in {"ready", "scan"} => r.step <= Len(Kind)
    /\ g \in {"ready", "ask", "asking", "accepted", "answered"} => r.dispatch # "prepared"
    /\ g = "accepted" => r.back.dispatch # "prepared"
    /\ g \in {"accepted", "answered"} => r.turn \in Answers

Serves(r, g) ==
    /\ Owned(r)
    /\ Placed(r, g)
    /\ g \notin {"scan", "release"} => Ahead(r)
    /\ g = "scan" => Current(r) /\ checkpoints # <<>> /\ r.committed >= Newest.committed

\* Only a resumption that has not looked at the trace yet, or was refused, can be behind.
Resuming == {<<"recover", "scan">>, <<"scan">>, <<"release">>}

Drives(r, a) == Serves(r, End(a)) /\ (a \notin Resuming => Ahead(r))
Holds(p) == agenda[p] # <<>> /\ epochFile > 0 /\ lease[p] = epochFile /\ Drives(run[p], agenda[p])
Idle(p) == agenda[p] = <<>> /\ lease[p] = 0 /\ run[p] = NoRun
LeaseInv == \A p \in Procs : (lock = p => Holds(p)) /\ (lock # p => Idle(p))
BaseInv == TypeInv /\ LeaseInv

-----------------------------------------------------------------------------
(* The invariant of the record.                                            *)

Open(r) == [dispatch |-> r.dispatch, turn |-> r.turn]

\* Only the first step asks.  (A question in a later step meets the defect that
\* the run durable_run_detach shows.)
QuestionsFirst == \A s \in Steps : Kind[s] = "ask" => s = 1

\* The effect of the step was started, or a cancelled call may still start it.
Used(s) == effects[s] > 0 \/ \E p \in Procs : \E call \in late[p] : ~call.started /\ call.step = s

\* The newest checkpoint tells that the step was, or may have been, started.
Marked(s) ==
    checkpoints # <<>> /\ (Newest.results[s] # None \/ (Newest.dispatch = "prepared" /\ Newest.next = s))

\* Nothing is settled beyond the current step, an open dispatch is that of an
\* unsettled tool step, an open turn that of the first step.
Sound(step, dispatch, turn, results) ==
    /\ \A s \in Steps : s > step => results[s] = None
    /\ dispatch = "prepared" => step \in Steps /\ Kind[step] = "tool" /\ results[step] = None /\ turn = None
    /\ turn # None => step \in {0, 1} /\ 1 \in Steps /\ Kind[1] = "ask" /\ results[1] = None

\* The same of a checkpoint.
SnapshotSound(c) ==
    /\ \A s \in Steps : s >= c.next => c.results[s] = None
    /\ c.dispatch = "prepared" => c.next \in Steps /\ Kind[c.next] = "tool" /\ c.turn = None
    /\ c.turn # None => c.next = 1 /\ 1 \in Steps /\ Kind[1] = "ask"

\* Nothing is forgotten that was started or acknowledged,
Keeps(step, dispatch, turn, results) ==
    /\ \A s \in Steps : Used(s) => results[s] # None \/ (dispatch = "prepared" /\ step = s)
    /\ \A s \in Steps : acked[s] # None => results[s] = acked[s] \/ (turn = acked[s] /\ results[s] = None)

\* and nothing that the newest checkpoint settled.
Holding(results) ==
    checkpoints # <<>> => \A s \in Steps : Newest.results[s] # None => results[s] = Newest.results[s]

\* Where a run that works towards g is in its plan,
Fit(r, g) ==
    /\ g = "ready" => /\ r.dispatch # "prepared" /\ (r.turn # None => r.step = 0)
                      /\ r.back.dispatch # "prepared" /\ (r.back.turn # None => r.step = 0)
    /\ g = "scan" => (r.turn # None => r.step = 0) /\ r.back = Open(r)
    /\ g = "tool" => /\ r.dispatch = "none" /\ r.turn = None
                     /\ Kind[r.step] = "tool" /\ r.results[r.step] = None /\ ~Used(r.step)
    /\ g = "exec" => r.dispatch = "prepared" /\ ~Used(r.step)
    /\ g = "running" => r.dispatch = "prepared"
    /\ g \in {"ask", "asking", "accepted", "answered"} =>
         r.step = 1 /\ Kind[1] = "ask" /\ r.results[1] = None /\ r.dispatch # "prepared"
    /\ g \in {"asking", "accepted"} => acked[1] = None
    /\ g \in {"accepted", "answered"} => r.turn \in Answers

\* and what the newest checkpoint tells of it.
Recorded(r, g) ==
    /\ g \in {"ready", "tool", "ask", "accepted"} => Current(r)
    /\ g = "exec" => checkpoints # <<>> /\ Newest.dispatch = "prepared" /\ Newest.next = r.step
    /\ g = "accepted" =>
         checkpoints # <<>> /\ Newest.turn = r.turn /\ Newest.next = 1 /\ Newest.results[1] = None

\* The run r with the program a before it.  A failed projection puts back what
\* was open before the commit.
SoundRun(r) == Sound(r.step, r.dispatch, r.turn, r.results)

SoundBack(r) == Sound(r.step, r.back.dispatch, r.back.turn, r.results)
KeepsRun(r) == Keeps(r.step, r.dispatch, r.turn, r.results)
KeepsBack(r) == Keeps(r.step, r.back.dispatch, r.back.turn, r.results)

Memory(r, a) ==
    /\ SoundRun(r) /\ SoundBack(r)
    /\ Current(r) => KeepsRun(r) /\ Holding(r.results)
    /\ Current(r) /\ Head(a) \in {"project", "recover"} => KeepsBack(r)
    /\ Fit(r, End(a)) /\ Recorded(r, End(a))

\* The newest checkpoint tells of every effect and of every acknowledged answer.
RecordInv ==
    /\ \A n \in DOMAIN checkpoints : SnapshotSound(checkpoints[n])
    /\ \A s \in Steps : Used(s) => Marked(s)
    /\ AckedAnswerKept
    /\ \A s \in Steps : acked[s] # None => Kind[s] = "ask"

\* An effect was started or can still be started, not both and not twice.
OnceInv ==
    /\ EffectOnce
    /\ \A p \in Procs : \A call \in late[p] : ~call.started => effects[call.step] = 0
    /\ \A p, q \in Procs : \A a \in late[p], b \in late[q] :
         ~a.started /\ ~b.started /\ a.step = b.step => p = q /\ a = b

RunIInv ==
    /\ BaseInv
    /\ checkpoints # <<>> \/ lock # None => plan
    /\ RecordInv
    /\ OnceInv
    /\ \A p \in Procs : lock = p => Memory(run[p], agenda[p])

-----------------------------------------------------------------------------
(* Numbers and sequences.                                                  *)

\* The highest of a set of numbers, when there is one.
LEMMA HighestOf ==
    ASSUME NEW S \in SUBSET Nat, NEW m \in S, \A x \in S : x <= m
    PROVE  Highest(S) \in S /\ \A x \in S : x <= Highest(S)
BY Zenon DEF Highest

LEMMA HighestOfTwo ==
    ASSUME NEW a \in Nat, NEW b \in Nat
    PROVE  Highest({a, b}) \in Nat /\ Highest({a, b}) >= a /\ Highest({a, b}) >= b
<1>1. PICK m \in {a, b} : \A x \in {a, b} : x <= m
    OBVIOUS
<1>2. {a, b} \in SUBSET Nat
    BY Zenon
<1>3. Highest({a, b}) \in {a, b} /\ \A x \in {a, b} : x <= Highest({a, b})
    BY <1>1, <1>2, HighestOf, Zenon
<1> QED
    BY <1>3, Zenon

\* What follows the first operation of a program that writes to the trace is a
\* program with the same goal; any other operation is the goal itself.
LEMMA ProgramRest ==
    ASSUME NEW a \in Program
    PROVE  /\ a # <<>> /\ a \in Seq(Op) /\ Head(a) \in Op /\ End(a) \in Op
           /\ Head(a) \in Middle =>
                Tail(a) \in Program /\ End(Tail(a)) = End(a) /\ Head(Tail(a)) \notin {"project", "recover"}
           /\ Head(a) \notin Middle => Head(a) = End(a) /\ a = <<End(a)>>
<1>1. /\ a \in Seq(Op) /\ a # <<>> /\ End(a) \notin Middle
      /\ \A i \in 1..Len(a) - 1 : a[i] \in Middle /\ (i > 1 => a[i] \in {"emit!", "emit?"})
    BY Zenon DEF Program
<1>2. Len(a) \in Nat \ {0} /\ Head(a) = a[1] /\ \A i \in 1..Len(a) : a[i] \in Op
    BY <1>1
<1>3. ASSUME Head(a) \in Middle
      PROVE  Tail(a) \in Program /\ End(Tail(a)) = End(a) /\ Head(Tail(a)) \notin {"project", "recover"}
    <2>1. Len(a) > 1
        BY <1>1, <1>2, <1>3 DEF End
    <2>2. Tail(a) \in Seq(Op) /\ Len(Tail(a)) = Len(a) - 1 /\ \A i \in 1..Len(Tail(a)) : Tail(a)[i] = a[i + 1]
        BY <1>1
    <2>3. Tail(a) # <<>> /\ End(Tail(a)) = End(a)
        <3>1. Len(Tail(a)) \in 1..Len(Tail(a)) /\ Len(Tail(a)) + 1 = Len(a)
            BY <1>2, <2>1, <2>2
        <3>2. Tail(a)[Len(Tail(a))] = a[Len(a)]
            BY <2>2, <3>1, Zenon
        <3>3. Tail(a) # <<>>
            BY <2>2, <3>1
        <3> QED
            BY <3>2, <3>3, Zenon DEF End
    <2>4. \A i \in 1..Len(Tail(a)) - 1 : Tail(a)[i] \in Middle /\ Tail(a)[i] \in {"emit!", "emit?"}
        BY <1>1, <1>2, <2>2
    <2>5. Head(Tail(a)) = a[2] /\ 2 \in 1..Len(a)
        BY <1>2, <2>1, <2>2, <2>3
    <2>6. Head(Tail(a)) \notin {"project", "recover"}
        BY <1>1, <1>2, <2>5 DEF End, Middle
    <2> QED
        BY <1>1, <2>2, <2>3, <2>4, <2>6, Zenon DEF Program
<1>4. ASSUME Head(a) \notin Middle PROVE Head(a) = End(a) /\ a = <<End(a)>>
    <2>1. ASSUME Len(a) # 1 PROVE FALSE
        <3>1. \A k \in Nat : k # 0 /\ k # 1 => 1 \in 1..k - 1
            OBVIOUS
        <3>2. 1 \in 1..Len(a) - 1
            BY <1>2, <2>1, <3>1, Zenon
        <3> QED
            BY <1>1, <1>2, <1>4, <3>2, Zenon
    <2>2. Len(a) = 1
        BY <2>1, Zenon
    <2>3. Head(a) = End(a)
        BY <1>2, <2>2, Zenon DEF End
    <2>4. <<End(a)>> \in Seq(Op) /\ Len(<<End(a)>>) = 1 /\ <<End(a)>>[1] = a[1]
        BY <1>2, <2>2 DEF End
    <2> QED
        BY <1>1, <2>2, <2>3, <2>4
<1> QED
    BY <1>1, <1>2, <1>3, <1>4 DEF End

\* The programs that the handlers set.
LEMMA OneOp ==
    ASSUME NEW g \in Op \ Middle
    PROVE  <<g>> \in Program /\ End(<<g>>) = g /\ Head(<<g>>) = g
BY DEF Program, End

LEMMA TwoOps ==
    ASSUME NEW m \in Middle, NEW g \in Op \ Middle
    PROVE  <<m, g>> \in Program /\ End(<<m, g>>) = g /\ Head(<<m, g>>) = m
BY DEF Program, End, Middle, Op

LEMMA ThreeOps ==
    ASSUME NEW m \in Middle, NEW n \in {"emit!", "emit?"}, NEW g \in Op \ Middle
    PROVE  <<m, n, g>> \in Program /\ End(<<m, n, g>>) = g /\ Head(<<m, n, g>>) = m
BY DEF Program, End, Middle, Op

LEMMA FourOps ==
    ASSUME NEW m \in Middle, NEW n \in {"emit!", "emit?"}, NEW o \in {"emit!", "emit?"}, NEW g \in Op \ Middle
    PROVE  <<m, n, o, g>> \in Program /\ End(<<m, n, o, g>>) = g /\ Head(<<m, n, o, g>>) = m
BY DEF Program, End, Middle, Op

-----------------------------------------------------------------------------
(* The record of a run.                                                    *)

\* The fields that tell where the run is in its log, and where it is in its plan.
SameLog(a, b) ==
    /\ a.epoch = b.epoch /\ a.checkpoint = b.checkpoint /\ a.seq = b.seq
    /\ a.pending = b.pending /\ a.sent = b.sent

SameWork(a, b) == a.step = b.step /\ a.results = b.results /\ a.status = b.status

\* A run in which one field is set is a run.
LEMMA SetField ==
    ASSUME NEW r \in RunType
    PROVE  /\ \A v \in Nat : [r EXCEPT !.epoch = v] \in RunType
           /\ \A v \in Nat : [r EXCEPT !.seq = v] \in RunType
           /\ \A v \in Nat : [r EXCEPT !.committed = v] \in RunType
           /\ \A v \in Nat : [r EXCEPT !.checkpoint = v] \in RunType
           /\ \A v \in Nat : [r EXCEPT !.try = v] \in RunType
           /\ \A v \in Nat : [r EXCEPT !.sent = v] \in RunType
           /\ \A v \in BOOLEAN : [r EXCEPT !.traceErr = v] \in RunType
           /\ \A v \in BOOLEAN : [r EXCEPT !.halted = v] \in RunType
           /\ \A v \in Status : [r EXCEPT !.status = v] \in RunType
           /\ \A v \in Position : [r EXCEPT !.step = v] \in RunType
           /\ \A v \in Dispatch : [r EXCEPT !.dispatch = v] \in RunType
           /\ \A v \in Turn : [r EXCEPT !.turn = v] \in RunType
           /\ \A v \in Before : [r EXCEPT !.back = v] \in RunType
           /\ \A v \in Results : [r EXCEPT !.results = v] \in RunType
<1>1. \A v \in Nat : [r EXCEPT !.epoch = v] \in RunType
    BY Zenon DEF RunType
<1>2. \A v \in Nat : [r EXCEPT !.seq = v] \in RunType
    BY Zenon DEF RunType
<1>3. \A v \in Nat : [r EXCEPT !.committed = v] \in RunType
    BY Zenon DEF RunType
<1>4. \A v \in Nat : [r EXCEPT !.checkpoint = v] \in RunType
    BY Zenon DEF RunType
<1>6. \A v \in Nat : [r EXCEPT !.try = v] \in RunType
    BY Zenon DEF RunType
<1>7. \A v \in Nat : [r EXCEPT !.sent = v] \in RunType
    BY Zenon DEF RunType
<1>8. \A v \in BOOLEAN : [r EXCEPT !.traceErr = v] \in RunType
    BY Zenon DEF RunType
<1>9. \A v \in BOOLEAN : [r EXCEPT !.halted = v] \in RunType
    BY Zenon DEF RunType
<1>10. \A v \in Status : [r EXCEPT !.status = v] \in RunType
    BY Zenon DEF RunType
<1>11. \A v \in Position : [r EXCEPT !.step = v] \in RunType
    BY Zenon DEF RunType
<1>12. \A v \in Dispatch : [r EXCEPT !.dispatch = v] \in RunType
    BY Zenon DEF RunType
<1>13. \A v \in Turn : [r EXCEPT !.turn = v] \in RunType
    BY Zenon DEF RunType
<1>14. \A v \in Before : [r EXCEPT !.back = v] \in RunType
    BY Zenon DEF RunType
<1>15. \A v \in Results : [r EXCEPT !.results = v] \in RunType
    BY Zenon DEF RunType
<1> QED
    BY <1>1, <1>2, <1>3, <1>4, <1>6, <1>7, <1>8, <1>9, <1>10, <1>11, <1>12, <1>13, <1>14, <1>15, Zenon

LEMMA SetPending ==
    ASSUME NEW r \in RunType, NEW v \in Seq(Event)
    PROVE  [r EXCEPT !.pending = v] \in RunType
BY Zenon DEF RunType

LEMMA NewRunType ==
    ASSUME NEW e \in Nat
    PROVE  /\ NewRun(e) \in RunType
           /\ NewRun(e).epoch = e /\ NewRun(e).checkpoint = 0 /\ NewRun(e).seq = 0 /\ NewRun(e).step = 0
           /\ NewRun(e).pending = <<>> /\ NewRun(e).dispatch = "none" /\ NewRun(e).turn = None
           /\ NewRun(e).back = [dispatch |-> "none", turn |-> None]
           /\ \A s \in Steps : NewRun(e).results[s] = None
<1>1. Len(Kind) \in Nat
    BY PlanAssumption
<1>2. [s \in Steps |-> None] \in Results
    BY Zenon DEF Results
<1>3. <<>> \in Seq(Event)
    OBVIOUS
<1>4. [dispatch |-> "none", turn |-> None] \in Before /\ 0 \in Position
    BY <1>1 DEF Before, Position, Dispatch, Turn
<1> QED
    BY <1>1, <1>2, <1>3, <1>4, Zenon DEF NewRun, RunType, Status, Dispatch, Turn

LEMMA KeptRun ==
    ASSUME NEW r \in RunType
    PROVE  /\ Kept(r) \in RunType /\ SameLog(Kept(r), r) /\ SameWork(Kept(r), r)
           /\ Kept(r).back = Open(r) /\ Kept(r).dispatch = r.dispatch /\ Kept(r).turn = r.turn
<1>1. r.dispatch \in Dispatch /\ r.turn \in Turn
    BY Zenon DEF RunType
<1>2. [dispatch |-> r.dispatch, turn |-> r.turn] \in Before
    BY <1>1, Zenon DEF Before
<1>3. Kept(r) \in RunType
    BY <1>2, Zenon DEF RunType, Kept
<1> QED
    BY <1>3, Zenon DEF RunType, Kept, SameWork, SameLog, Open

LEMMA PutBackRun ==
    ASSUME NEW r \in RunType
    PROVE  /\ PutBack(r) \in RunType /\ SameWork(PutBack(r), r)
           /\ PutBack(r).dispatch = r.back.dispatch /\ PutBack(r).turn = r.back.turn /\ PutBack(r).back = r.back
           /\ PutBack(r).epoch = r.epoch /\ PutBack(r).checkpoint = r.checkpoint /\ PutBack(r).seq = r.seq
           /\ PutBack(r).pending = r.pending /\ PutBack(r).sent = 0
<1>1. r.back.dispatch \in Dispatch /\ r.back.turn \in Turn
    BY Zenon DEF RunType, Before
<1> DEFINE d == [r EXCEPT !.dispatch = r.back.dispatch]
           t == [d EXCEPT !.turn = r.back.turn]
<1>2. PutBack(r) \in RunType
  <2>1. d \in RunType
    BY <1>1, SetField, Zenon
  <2> HIDE DEF d
  <2>2. t \in RunType
    BY <1>1, <2>1, SetField, Zenon
  <2> USE DEF d
  <2>3. PutBack(r) = [t EXCEPT !.sent = 0]
    BY Zenon DEF PutBack
  <2> HIDE DEF t
  <2> QED
    BY <2>2, <2>3, SetField
<1> HIDE DEF d, t
<1> QED
    BY <1>2, Zenon DEF RunType, PutBack, SameWork

LEMMA TryRun ==
    ASSUME NEW r \in RunType, NEW t \in Nat, NEW v, v = [r EXCEPT !.try = t]
    PROVE  /\ v \in RunType /\ SameLog(v, r) /\ SameWork(v, r)
           /\ v.dispatch = r.dispatch /\ v.turn = r.turn /\ v.back = r.back
<1>1. v \in RunType
    BY Zenon DEF RunType
<1> QED
    BY <1>1, Zenon DEF RunType, SameWork, SameLog

LEMMA StagedRun ==
    ASSUME NEW r \in RunType, NEW n \in Nat \ {0}
    PROVE  /\ Staged(r, n) \in RunType
           /\ Staged(r, n).dispatch = r.dispatch /\ Staged(r, n).turn = r.turn /\ Staged(r, n).back = r.back
           /\ SameWork(Staged(r, n), r)
           /\ Staged(r, n).epoch = r.epoch /\ Staged(r, n).checkpoint = r.checkpoint
           /\ Staged(r, n).seq = r.seq + n /\ Staged(r, n).committed = r.seq + n
           /\ Staged(r, n).sent = r.sent /\ Len(Staged(r, n).pending) = Len(r.pending) + n
           /\ Staged(r, n).pending \in Seq(Event)
<1> DEFINE new == [i \in 1..n |-> NewEvent(r.seq + i, r.epoch, r.try)]
<1>1. r.seq \in Nat /\ r.epoch \in Nat /\ r.try \in Nat /\ r.pending \in Seq(Event)
    BY Zenon DEF RunType
<1>2. \A i \in 1..n : NewEvent(r.seq + i, r.epoch, r.try) \in Event
    BY <1>1 DEF NewEvent, Event
<1>3. new \in Seq(Event) /\ Len(new) = n
    BY <1>2
<1>4. r.pending \o new \in Seq(Event) /\ Len(r.pending \o new) = Len(r.pending) + n
    BY <1>1, <1>3
<1> HIDE DEF new
<1>5. Staged(r, n) = [r EXCEPT !.pending = r.pending \o new, !.seq = r.seq + n, !.committed = r.seq + n]
    BY Zenon DEF Staged, new, RunType
<1> DEFINE d == [r EXCEPT !.pending = r.pending \o new]
           t == [d EXCEPT !.seq = r.seq + n]
<1>6. Staged(r, n) \in RunType
  <2>1. d \in RunType
    <3>1. PICK v \in Seq(Event) : v = r.pending \o new
      BY <1>4, Zenon
    <3>2. [r EXCEPT !.pending = v] \in RunType
      BY SetPending, Zenon
    <3> QED
      BY <3>1, <3>2, Zenon
  <2> HIDE DEF d
  <2>a. PICK m \in Nat : m = r.seq + n
    BY <1>1
  <2>2. t \in RunType
    BY <2>1, <2>a, SetField, Zenon
  <2> HIDE DEF t
  <2>3. [t EXCEPT !.committed = r.seq + n] \in RunType
    BY <2>2, <2>a, SetField, Zenon
  <2> QED
    BY <1>5, <2>3, Zenon DEF d, t
<1> HIDE DEF d, t
<1>7. SameWork(Staged(r, n), r)
    BY <1>5, Zenon DEF RunType, SameWork
<1>8. /\ Staged(r, n).dispatch = r.dispatch /\ Staged(r, n).turn = r.turn /\ Staged(r, n).back = r.back
      /\ Staged(r, n).epoch = r.epoch /\ Staged(r, n).checkpoint = r.checkpoint /\ Staged(r, n).sent = r.sent
    BY <1>5, Zenon DEF RunType
<1>9. /\ Staged(r, n).seq = r.seq + n /\ Staged(r, n).committed = r.seq + n
      /\ Staged(r, n).pending = r.pending \o new
    BY <1>5, Zenon DEF RunType
<1> QED
    BY <1>4, <1>6, <1>7, <1>8, <1>9, Zenon

\* The run x is r with the step, dispatch, turn, results given, and b to put back.
View(x, r, step, dispatch, turn, b, results) ==
    /\ x \in RunType /\ SameLog(x, r)
    /\ x.step = step /\ x.dispatch = dispatch /\ x.turn = turn /\ x.back = b /\ x.results = results

LEMMA KeptView ==
    ASSUME NEW r \in RunType
    PROVE  View(Kept(r), r, r.step, r.dispatch, r.turn, Open(r), r.results)
BY KeptRun, Zenon DEF View, SameWork

\* One or two fields are set.
LEMMA SetStatus ==
    ASSUME NEW r \in RunType, NEW v \in Status
    PROVE  View([r EXCEPT !.status = v], r, r.step, r.dispatch, r.turn, r.back, r.results)
<1>1. [r EXCEPT !.status = v] \in RunType
    BY SetField, Zenon
<1> QED
    BY <1>1, Zenon DEF View, SameLog, RunType

LEMMA SetDispatch ==
    ASSUME NEW r \in RunType, NEW v \in Dispatch
    PROVE  View([r EXCEPT !.dispatch = v], r, r.step, v, r.turn, r.back, r.results)
<1>1. [r EXCEPT !.dispatch = v] \in RunType
    BY SetField, Zenon
<1> QED
    BY <1>1, Zenon DEF View, SameLog, RunType

LEMMA SetTurn ==
    ASSUME NEW r \in RunType, NEW v \in Turn
    PROVE  View([r EXCEPT !.turn = v], r, r.step, r.dispatch, v, r.back, r.results)
<1>1. [r EXCEPT !.turn = v] \in RunType
    BY SetField, Zenon
<1> QED
    BY <1>1, Zenon DEF View, SameLog, RunType

LEMMA SetStep ==
    ASSUME NEW r \in RunType, NEW v \in Position
    PROVE  View([r EXCEPT !.step = v], r, v, r.dispatch, r.turn, r.back, r.results)
<1>1. [r EXCEPT !.step = v] \in RunType
    BY SetField, Zenon
<1> QED
    BY <1>1, Zenon DEF View, SameLog, RunType

LEMMA SetFlags ==
    ASSUME NEW r \in RunType, NEW v \in BOOLEAN
    PROVE  /\ View([r EXCEPT !.halted = v], r, r.step, r.dispatch, r.turn, r.back, r.results)
           /\ View([r EXCEPT !.traceErr = v], r, r.step, r.dispatch, r.turn, r.back, r.results)
<1>1. [r EXCEPT !.halted = v] \in RunType /\ [r EXCEPT !.traceErr = v] \in RunType
    BY SetField, Zenon
<1> QED
    BY <1>1, Zenon DEF View, SameLog, RunType

LEMMA WithResultView ==
    ASSUME NEW r \in RunType, NEW v \in Result
    PROVE  View(WithResult(r, v), r, r.step, r.dispatch, r.turn, Open(r), [r.results EXCEPT ![r.step] = v])
<1>1. r.results \in Results
    BY Zenon DEF RunType
<1>2. PICK w : w = [r.results EXCEPT ![r.step] = v]
    BY Zenon
<1>3. w \in Results
    BY <1>1, <1>2, Zenon DEF Results
<1>4. PICK d : d = [r EXCEPT !.results = w]
    BY Zenon
<1>5. d \in RunType
    BY <1>3, <1>4, SetField, Zenon
<1>6. SameLog(d, r) /\ d.step = r.step /\ d.dispatch = r.dispatch /\ d.turn = r.turn /\ d.results = w
    BY <1>4, Zenon DEF RunType, SameLog
<1>7. WithResult(r, v) = Kept(d)
    BY <1>2, <1>4, Zenon DEF WithResult, RunType
<1> QED
    BY <1>2, <1>5, <1>6, <1>7, KeptView DEF View, SameLog, Open

-----------------------------------------------------------------------------
(* The runs that handlers commit.                                          *)

Finished(r) == Kept([r EXCEPT !.step = Len(Kind) + 1, !.status = "completed"])
Prepared(r) == [Kept(r) EXCEPT !.dispatch = "prepared"]
Succeeded(r) == WithResult([r EXCEPT !.dispatch = "settled"], "done")
Failed(r) == WithResult([[r EXCEPT !.dispatch = "settled"] EXCEPT !.status = "failed"], "failed")
Asked(r) == [Kept(r) EXCEPT !.turn = "pending", !.status = "waiting"]
Accepted(r, answer) == [Kept(r) EXCEPT !.turn = answer]
Answered(r) == WithResult([r EXCEPT !.turn = None, !.status = "running"], r.turn)
Halted(r) == [Kept(Indeterminate(r)) EXCEPT !.status = "indeterminate", !.halted = TRUE]
Paused(r) == Kept([r EXCEPT !.status = "paused"])

LEMMA FinishedView ==
    ASSUME NEW r \in RunType
    PROVE  View(Finished(r), r, Len(Kind) + 1, r.dispatch, r.turn, Open(r), r.results)
<1>1. Len(Kind) + 1 \in Position /\ "completed" \in Status
    BY PlanAssumption DEF Position, Status, Terminal
<1>2. PICK d : d = [r EXCEPT !.step = Len(Kind) + 1]
    BY Zenon
<1>3. View(d, r, Len(Kind) + 1, r.dispatch, r.turn, r.back, r.results)
    BY <1>1, <1>2, SetStep, Zenon
<1>4. PICK e : e = [d EXCEPT !.status = "completed"]
    BY Zenon
<1>5. View(e, d, d.step, d.dispatch, d.turn, d.back, d.results)
    BY <1>1, <1>3, <1>4, SetStatus, Zenon DEF View
<1>6. Finished(r) = Kept(e)
    BY <1>2, <1>4, Zenon DEF Finished
<1> QED
    BY <1>3, <1>5, <1>6, KeptView DEF View, SameLog, Open

LEMMA PreparedView ==
    ASSUME NEW r \in RunType
    PROVE  View(Prepared(r), r, r.step, "prepared", r.turn, Open(r), r.results)
<1>1. PICK k : k = Kept(r)
    BY Zenon
<1>2. View([k EXCEPT !.dispatch = "prepared"], k, k.step, "prepared", k.turn, k.back, k.results)
  <2>1. k \in RunType /\ "prepared" \in Dispatch
    BY <1>1, KeptView, Zenon DEF View, Dispatch
  <2> QED
    BY <2>1, SetDispatch, Zenon
<1>3. Prepared(r) = [k EXCEPT !.dispatch = "prepared"]
    BY <1>1, Zenon DEF Prepared
<1> QED
    BY <1>1, <1>2, <1>3, KeptView, Zenon DEF View, SameLog

LEMMA SucceededView ==
    ASSUME NEW r \in RunType
    PROVE  View(Succeeded(r), r, r.step, "settled", r.turn, [dispatch |-> "settled", turn |-> r.turn],
                [r.results EXCEPT ![r.step] = "done"])
<1>1. PICK d : d = [r EXCEPT !.dispatch = "settled"]
    BY Zenon
<1>2. View(d, r, r.step, "settled", r.turn, r.back, r.results)
    BY <1>1, SetDispatch, Zenon DEF Dispatch
<1>3. View(WithResult(d, "done"), d, d.step, d.dispatch, d.turn, Open(d), [d.results EXCEPT ![d.step] = "done"])
    BY <1>2, WithResultView, Zenon DEF View, Result
<1> QED
    BY <1>1, <1>2, <1>3, Zenon DEF View, SameLog, Succeeded, Open

LEMMA FailedView ==
    ASSUME NEW r \in RunType
    PROVE  View(Failed(r), r, r.step, "settled", r.turn, [dispatch |-> "settled", turn |-> r.turn],
                [r.results EXCEPT ![r.step] = "failed"])
<1>1. PICK c : c = [r EXCEPT !.dispatch = "settled"]
    BY Zenon
<1>2. View(c, r, r.step, "settled", r.turn, r.back, r.results)
    BY <1>1, SetDispatch, Zenon DEF Dispatch
<1>3. PICK d : d = [c EXCEPT !.status = "failed"]
    BY Zenon
<1>4. View(d, c, c.step, c.dispatch, c.turn, c.back, c.results)
    BY <1>2, <1>3, SetStatus, Zenon DEF View, Status, Terminal
<1>5. View(WithResult(d, "failed"), d, d.step, d.dispatch, d.turn, Open(d), [d.results EXCEPT ![d.step] = "failed"])
    BY <1>4, WithResultView, Zenon DEF View, Result
<1> QED
    BY <1>1, <1>2, <1>3, <1>4, <1>5 DEF View, SameLog, Failed, Open

LEMMA AskedView ==
    ASSUME NEW r \in RunType
    PROVE  View(Asked(r), r, r.step, r.dispatch, "pending", Open(r), r.results)
<1>1. PICK k : k = Kept(r)
    BY Zenon
<1>2. PICK d : d = [k EXCEPT !.turn = "pending"]
    BY Zenon
<1>3. View(d, k, k.step, k.dispatch, "pending", k.back, k.results)
    BY <1>1, <1>2, KeptView, SetTurn DEF View, Turn
<1>4. View([d EXCEPT !.status = "waiting"], d, d.step, d.dispatch, d.turn, d.back, d.results)
    BY <1>3, SetStatus, Zenon DEF View, Status
<1>5. Asked(r) = [d EXCEPT !.status = "waiting"]
    BY <1>1, <1>2, Zenon DEF Asked
<1> QED
    BY <1>1, <1>3, <1>4, <1>5, KeptView DEF View, SameLog

LEMMA AcceptedView ==
    ASSUME NEW r \in RunType, NEW answer \in Answers
    PROVE  View(Accepted(r, answer), r, r.step, r.dispatch, answer, Open(r), r.results)
<1>1. PICK k : k = Kept(r)
    BY Zenon
<1>2. View([k EXCEPT !.turn = answer], k, k.step, k.dispatch, answer, k.back, k.results)
    BY <1>1, KeptView, SetTurn DEF View, Turn
<1> QED
    BY <1>1, <1>2, KeptView, Zenon DEF View, SameLog, Accepted

LEMMA AnsweredView ==
    ASSUME NEW r \in RunType, r.turn \in Answers
    PROVE  View(Answered(r), r, r.step, r.dispatch, None, [dispatch |-> r.dispatch, turn |-> None],
                [r.results EXCEPT ![r.step] = r.turn])
<1>1. PICK c : c = [r EXCEPT !.turn = None]
    BY Zenon
<1>2. View(c, r, r.step, r.dispatch, None, r.back, r.results)
    BY <1>1, SetTurn, Zenon DEF Turn
<1>3. PICK d : d = [c EXCEPT !.status = "running"]
    BY Zenon
<1>4. View(d, c, c.step, c.dispatch, c.turn, c.back, c.results)
    BY <1>2, <1>3, SetStatus, Zenon DEF View, Status
<1>5. PICK v \in Result : v = r.turn
    BY Zenon DEF Result
<1>6. View(WithResult(d, v), d, d.step, d.dispatch, d.turn, Open(d), [d.results EXCEPT ![d.step] = v])
    BY <1>4, WithResultView, Zenon DEF View
<1>7. Answered(r) = WithResult(d, v)
    BY <1>1, <1>3, <1>5, Zenon DEF Answered
<1> QED
    BY <1>2, <1>4, <1>5, <1>6, <1>7 DEF View, SameLog, Open

LEMMA IndeterminateView ==
    ASSUME NEW r \in RunType
    PROVE  /\ r.dispatch = "prepared" =>
                View(Indeterminate(r), r, r.step, "indeterminate", r.turn,
                     [dispatch |-> "indeterminate", turn |-> r.turn],
                     [r.results EXCEPT ![r.step] = "indeterminate"])
           /\ r.dispatch # "prepared" => Indeterminate(r) = r
<1>1. ASSUME r.dispatch = "prepared"
      PROVE  View(Indeterminate(r), r, r.step, "indeterminate", r.turn,
                  [dispatch |-> "indeterminate", turn |-> r.turn],
                  [r.results EXCEPT ![r.step] = "indeterminate"])
  <2>1. PICK c : c = [r EXCEPT !.dispatch = "indeterminate"]
    BY Zenon
  <2>2. View(c, r, r.step, "indeterminate", r.turn, r.back, r.results)
    BY <2>1, SetDispatch, Zenon DEF Dispatch
  <2>3. PICK d : d = [c EXCEPT !.status = "indeterminate"]
    BY Zenon
  <2>4. View(d, c, c.step, c.dispatch, c.turn, c.back, c.results)
    BY <2>2, <2>3, SetStatus, Zenon DEF View, Status
  <2>5. View(WithResult(d, "indeterminate"), d, d.step, d.dispatch, d.turn, Open(d),
             [d.results EXCEPT ![d.step] = "indeterminate"])
    BY <2>4, WithResultView, Zenon DEF View, Result
  <2>6. Indeterminate(r) = WithResult(d, "indeterminate")
    BY <1>1, <2>1, <2>3, Zenon DEF Indeterminate
  <2> QED
    BY <2>2, <2>4, <2>5, <2>6 DEF View, SameLog, Open
<1> QED
    BY <1>1, Zenon DEF Indeterminate

\* A run without an open dispatch, or with the open one marked.
LEMMA IndeterminateRun ==
    ASSUME NEW r \in RunType
    PROVE  View(Indeterminate(r), r, r.step, Indeterminate(r).dispatch, r.turn,
                Indeterminate(r).back, Indeterminate(r).results)
BY IndeterminateView, Zenon DEF View, SameLog

LEMMA HaltedView ==
    ASSUME NEW r \in RunType, NEW i, i = Indeterminate(r)
    PROVE  View(Halted(r), r, r.step, i.dispatch, r.turn, [dispatch |-> i.dispatch, turn |-> r.turn], i.results)
<1>1. View(i, r, r.step, i.dispatch, r.turn, i.back, i.results)
    BY IndeterminateRun, Zenon
<1>2. PICK k : k = Kept(i)
    BY Zenon
<1>3. View(k, i, i.step, i.dispatch, i.turn, Open(i), i.results)
    BY <1>1, <1>2, KeptView, Zenon DEF View
<1>4. PICK d : d = [k EXCEPT !.status = "indeterminate"]
    BY Zenon
<1>5. View(d, k, k.step, k.dispatch, k.turn, k.back, k.results)
    BY <1>3, <1>4, SetStatus, Zenon DEF View, Status
<1>6. View([d EXCEPT !.halted = TRUE], d, d.step, d.dispatch, d.turn, d.back, d.results)
    BY <1>5, SetFlags, Zenon DEF View
<1>7. Halted(r) = [d EXCEPT !.halted = TRUE]
    BY <1>2, <1>4, Zenon DEF Halted
<1> QED
    BY <1>1, <1>3, <1>5, <1>6, <1>7 DEF View, SameLog, Open

LEMMA KeptStatusView ==
    ASSUME NEW r \in RunType, NEW v \in Status
    PROVE  View(Kept([r EXCEPT !.status = v]), r, r.step, r.dispatch, r.turn, Open(r), r.results)
<1>1. PICK d : d = [r EXCEPT !.status = v]
    BY Zenon
<1>2. View(d, r, r.step, r.dispatch, r.turn, r.back, r.results)
    BY <1>1, SetStatus, Zenon
<1>3. View(Kept(d), d, d.step, d.dispatch, d.turn, Open(d), d.results)
    BY <1>2, KeptView, Zenon DEF View
<1> QED
    BY <1>1, <1>2, <1>3, Zenon DEF View, SameLog, Open

LEMMA StoppedView ==
    ASSUME NEW r \in RunType, NEW i, i = Indeterminate(r)
    PROVE  View(Stopped(r), r, r.step, i.dispatch, r.turn, [dispatch |-> i.dispatch, turn |-> r.turn], i.results)
<1>1. "cancelled" \in Status
    BY Zenon DEF Status, Terminal
<1>2. CASE r.dispatch = "prepared"
  <2>1. View(i, r, r.step, "indeterminate", r.turn, [dispatch |-> "indeterminate", turn |-> r.turn], i.results)
    BY <1>2, IndeterminateView, Zenon DEF View
  <2>2. Stopped(r) = i /\ i.dispatch = "indeterminate"
    BY <1>2, <2>1, Zenon DEF Stopped, View
  <2> QED
    BY <2>1, <2>2, Zenon
<1>3. CASE r.dispatch # "prepared"
  <2>1. i = r /\ Stopped(r) = Kept([r EXCEPT !.status = "cancelled"])
    BY <1>3, IndeterminateView, Zenon DEF Stopped
  <2>2. View(Kept([r EXCEPT !.status = "cancelled"]), r, r.step, r.dispatch, r.turn, Open(r), r.results)
    BY <1>1, KeptStatusView, Zenon
  <2> QED
    BY <2>1, <2>2, Zenon DEF Open
<1> QED
    BY <1>2, <1>3, Zenon

\* The runs that the handlers keep in memory without a commit.
SameRun(a, b) ==
    a.step = b.step /\ a.dispatch = b.dispatch /\ a.turn = b.turn /\ a.back = b.back /\ a.results = b.results

LEMMA EmittedRun ==
    ASSUME NEW r \in RunType
    PROVE  /\ Emitted(r) \in RunType /\ SameRun(Emitted(r), r)
           /\ Emitted(r).epoch = r.epoch /\ Emitted(r).checkpoint = r.checkpoint /\ Emitted(r).seq = r.seq + 1
           /\ Emitted(r).pending = r.pending /\ Emitted(r).sent = r.sent /\ Emitted(r).committed = r.committed
<1>1. r.seq + 1 \in Nat /\ Emitted(r) = [r EXCEPT !.seq = r.seq + 1]
    BY DEF RunType, Emitted
<1>2. Emitted(r) \in RunType
    BY <1>1, SetField, Zenon
<1> QED
    BY <1>1, <1>2, Zenon DEF RunType, SameRun

LEMMA ProjectedRun ==
    ASSUME NEW r \in RunType
    PROVE  /\ Projected(r) \in RunType /\ SameRun(Projected(r), r)
           /\ Projected(r).epoch = r.epoch /\ Projected(r).checkpoint = r.checkpoint /\ Projected(r).seq = r.seq
           /\ Projected(r).committed = r.committed
           /\ Projected(r).sent = 0 \/ Projected(r).sent < Len(Projected(r).pending)
<1>1. r.sent \in Nat /\ r.pending \in Seq(Event)
    BY Zenon DEF RunType
<1>2. CASE r.sent + 1 < Len(r.pending)
  <2>1. Projected(r) = [r EXCEPT !.sent = r.sent + 1]
    BY <1>2, Zenon DEF Projected
  <2>2. Projected(r) \in RunType
    BY <1>1, <2>1, SetField
  <2> QED
    BY <1>1, <1>2, <2>1, <2>2, Zenon DEF RunType, SameRun
<1>3. CASE ~(r.sent + 1 < Len(r.pending))
  <2>1. PICK d : d = [r EXCEPT !.sent = 0]
    BY Zenon
  <2>2. d \in RunType
    BY <2>1, SetField, Zenon
  <2>3. Projected(r) = [d EXCEPT !.pending = <<>>]
    BY <1>3, <2>1, Zenon DEF Projected
  <2>a. <<>> \in Seq(Event)
    OBVIOUS
  <2>4. PICK v \in Seq(Event) : v = <<>>
    BY <2>a, Zenon
  <2>5. Projected(r) \in RunType
    BY <2>2, <2>3, <2>4, SetPending, Zenon
  <2> QED
    BY <1>3, <2>5, Zenon DEF RunType, SameRun, Projected
<1> QED
    BY <1>2, <1>3, Zenon

LEMMA ScannedRun ==
    ASSUME NEW r \in RunType, trace \in Lines
    PROVE  /\ Scanned(r) \in RunType /\ SameRun(Scanned(r), r)
           /\ Scanned(r).epoch = r.epoch /\ Scanned(r).checkpoint = r.checkpoint
           /\ Scanned(r).pending = r.pending /\ Scanned(r).sent = r.sent
           /\ Scanned(r).seq >= r.committed
<1> DEFINE S == {e.seq : e \in Records(trace)} \cup {0}
<1>0. trace \in Seq(Event)
    BY Zenon DEF Lines
<1>1. PICK m \in Nat : Top(trace, Len(trace), m)
    BY <1>0 DEF Lines
<1>2. \A i \in 1..Len(trace) : trace[i].seq \in Nat /\ trace[i].seq <= m
  <2>1. \A i \in 1..Len(trace) : trace[i] \in Event
    BY <1>0
  <2>2. \A e \in Event : e.seq \in Nat
    BY Zenon DEF Event
  <2> QED
    BY <1>1, <2>1, <2>2, Zenon DEF Top
<1>3. \A x \in S : x \in Nat /\ x <= m
  <2>1. \A e \in Records(trace) : \E i \in 1..Len(trace) : e = trace[i]
    BY <1>0 DEF Records
  <2> QED
    BY <1>2, <2>1
<1>a. m \in S
  <2>1. CASE m = 0
    BY <2>1, Zenon
  <2>2. CASE m # 0
    <3>1. PICK i \in 1..Len(trace) : trace[i].seq = m
        BY <1>1, <2>2, Zenon DEF Top
    <3>2. trace[i] \in Records(trace)
        BY <1>0, <2>2, <3>1 DEF Records, Torn, Garbage, NewEvent
    <3> QED
        BY <3>1, <3>2, Zenon
  <2> QED
    BY <2>1, <2>2, Zenon
<1>4. LastSeq(trace) \in Nat
  <2>1. S \in SUBSET Nat
    BY <1>3, Zenon
  <2>2. Highest(S) \in S
    BY <1>a, <1>3, <2>1, HighestOf, Zenon
  <2> QED
    BY <2>1, <2>2, Zenon DEF LastSeq
<1>5. r.committed \in Nat
    BY Zenon DEF RunType
<1>6. PICK last \in Nat : last = Highest({LastSeq(trace), r.committed})
    BY <1>4, <1>5, HighestOfTwo, Zenon
<1>7. last >= r.committed
    BY <1>4, <1>5, <1>6, HighestOfTwo, Zenon
<1>8. PICK d : d = [r EXCEPT !.committed = last]
    BY Zenon
<1>9. d \in RunType
    BY <1>8, SetField, Zenon
<1>10. Scanned(r) = [d EXCEPT !.seq = last]
    BY <1>6, <1>8, Zenon DEF Scanned
<1>11. Scanned(r) \in RunType
    BY <1>9, <1>10, SetField, Zenon
<1> QED
    BY <1>7, <1>8, <1>10, <1>11, Zenon DEF RunType, SameRun

\* The run of a checkpoint, and the checkpoint of a run.
LEMMA RebuiltRun ==
    ASSUME NEW c \in SnapshotType, c.dispatch = "prepared" => c.next \in Steps, NEW e \in Nat,
           checkpoints \in Seq(SnapshotType)
    PROVE  /\ Rebuilt(c, e) \in RunType
           /\ Rebuilt(c, e).epoch = e /\ Rebuilt(c, e).checkpoint = Len(checkpoints)
           /\ Rebuilt(c, e).sent = 0 /\ Rebuilt(c, e).committed = c.committed
           /\ Rebuilt(c, e).step = IF c.dispatch = "prepared" THEN c.next ELSE c.next - 1
           /\ Rebuilt(c, e).dispatch = c.dispatch /\ Rebuilt(c, e).turn = c.turn
           /\ Rebuilt(c, e).back = [dispatch |-> c.dispatch, turn |-> c.turn]
           /\ Rebuilt(c, e).results = c.results
<1>1. /\ c.committed \in Nat /\ c.pending \in Seq(Event) /\ c.status \in Status
      /\ c.next \in 1..Len(Kind) + 1 /\ c.dispatch \in Dispatch /\ c.turn \in Turn /\ c.results \in Results
    BY Zenon DEF SnapshotType
<1>2. PICK n \in Nat : n = Len(checkpoints)
    OBVIOUS
<1>3. PICK k \in Position : k = IF c.dispatch = "prepared" THEN c.next ELSE c.next - 1
    BY <1>1, PlanAssumption DEF Position
<1>4. PICK d : d = [NewRun(e) EXCEPT
            !.committed = c.committed, !.checkpoint = n, !.pending = c.pending,
            !.status = c.status, !.step = k,
            !.dispatch = c.dispatch, !.turn = c.turn, !.results = c.results]
    BY Zenon
<1>5. d = [epoch |-> e, seq |-> 0, committed |-> c.committed, checkpoint |-> n, pending |-> c.pending,
           try |-> 0, sent |-> 0, traceErr |-> FALSE, halted |-> FALSE, status |-> c.status, step |-> k,
           dispatch |-> c.dispatch, turn |-> c.turn, back |-> [dispatch |-> "none", turn |-> None],
           results |-> c.results]
    BY <1>4, Zenon DEF NewRun
<1>6. [dispatch |-> "none", turn |-> None] \in Before
    BY Zenon DEF Before, Dispatch, Turn
<1>7. d \in RunType
    BY <1>1, <1>5, <1>6, Zenon DEF RunType
<1>8. Rebuilt(c, e) = Kept(d)
    BY <1>2, <1>3, <1>4, Zenon DEF Rebuilt
<1>9. Rebuilt(c, e) \in RunType
    BY <1>7, <1>8, KeptRun, Zenon
<1>10. Rebuilt(c, e).committed = c.committed
    BY <1>5, <1>8, Zenon DEF Kept
<1> QED
    BY <1>2, <1>3, <1>5, <1>7, <1>8, <1>9, <1>10, KeptRun DEF SameLog, SameWork, Open

\* The step that a checkpoint goes on with.
LEMMA NextStepType ==
    ASSUME NEW r \in RunType, r.dispatch = "prepared" => r.step \in Steps
    PROVE  /\ NextStep(r) \in 1..Len(Kind) + 1
           /\ r.dispatch = "prepared" => NextStep(r) = r.step
           /\ r.turn # None /\ r.step \in Steps => NextStep(r) = r.step
           /\ NextStep(r) # r.step => NextStep(r) = IF r.step <= Len(Kind) THEN r.step + 1 ELSE Len(Kind) + 1
           /\ NextStep(r) = r.step /\ r.step \in Steps =>
                r.dispatch = "prepared" \/ r.turn # None \/ r.results[r.step] = None
<1>1. r.step \in Nat /\ r.step <= Len(Kind) + 1 /\ Len(Kind) \in Nat
    BY PlanAssumption DEF RunType, Position
<1>2. Steps = 1..Len(Kind)
    BY PlanAssumption DEF Steps
<1>4. CASE \/ r.status = "paused" /\ r.step \in Steps /\ r.results[r.step] = None
           \/ r.dispatch = "prepared"
           \/ r.turn # None /\ r.step \in Steps
  <2>1. NextStep(r) = r.step
    BY <1>4, Zenon DEF NextStep
  <2> QED
    BY <1>1, <1>2, <1>4, <2>1
<1>5. CASE ~(\/ r.status = "paused" /\ r.step \in Steps /\ r.results[r.step] = None
             \/ r.dispatch = "prepared"
             \/ r.turn # None /\ r.step \in Steps)
  <2>1. NextStep(r) = IF r.step <= Len(Kind) THEN r.step + 1 ELSE Len(Kind) + 1
    BY <1>5, Zenon DEF NextStep
  <2> QED
    BY <1>1, <1>2, <1>5, <2>1
<1> QED
    BY <1>4, <1>5, Zenon

LEMMA SnapshotOfRun ==
    ASSUME NEW r \in RunType, r.dispatch = "prepared" => r.step \in Steps
    PROVE  /\ Snapshot(r) \in SnapshotType
           /\ Snapshot(r).dispatch = "prepared" => Snapshot(r).next \in Steps
<1>1. NextStep(r) \in 1..Len(Kind) + 1 /\ (r.dispatch = "prepared" => NextStep(r) = r.step)
    BY NextStepType, Zenon
<1>2. Snapshot(r).next = NextStep(r) /\ Snapshot(r).dispatch = r.dispatch
    BY Zenon DEF Snapshot
<1>3. Snapshot(r) \in SnapshotType
    BY <1>1, Zenon DEF Snapshot, SnapshotType, RunType
<1> QED
    BY <1>1, <1>2, <1>3, Zenon

\* The run of the step that begins, and the run that a resumption goes on with.
Begun(r) == [r EXCEPT !.step = r.step + 1, !.dispatch = "none"]

Resumed(r) == [Scanned(r) EXCEPT !.status = "running"]

LEMMA BegunView ==
    ASSUME NEW r \in RunType, r.step < Len(Kind)
    PROVE  View(Begun(r), r, r.step + 1, "none", r.turn, r.back, r.results) /\ Begun(r).committed = r.committed
<1>1. r.step + 1 \in Position
    BY PlanAssumption DEF RunType, Position
<1>2. PICK k \in Position : k = r.step + 1
    BY <1>1, Zenon
<1>3. PICK d : d = [r EXCEPT !.step = k]
    BY Zenon
<1>4. View(d, r, k, r.dispatch, r.turn, r.back, r.results)
    BY <1>3, SetStep, Zenon
<1>5. View([d EXCEPT !.dispatch = "none"], d, d.step, "none", d.turn, d.back, d.results)
    BY <1>4, SetDispatch, Zenon DEF View, Dispatch
<1>6. Begun(r) = [d EXCEPT !.dispatch = "none"]
    BY <1>2, <1>3, Zenon DEF Begun
<1>7. Begun(r).committed = r.committed
    BY Zenon DEF Begun, RunType
<1> QED
    BY <1>2, <1>4, <1>5, <1>6, <1>7, Zenon DEF View, SameLog

-----------------------------------------------------------------------------
(* Commits.                                                                *)

\* What comes of a commit of r: the checkpoint is written and the run goes on; it
\* is not written and the run is put back; it is written and the run is put back
\* all the same.
Published(r, n) == checkpoints' = Append(checkpoints, Snapshot(Staged(r, n)))

SavedRun(s, r, n) ==
    /\ SameRun(s, r) /\ s.epoch = r.epoch /\ s.checkpoint = r.checkpoint + 1 /\ s.seq = r.seq + n
    /\ s.sent = r.sent /\ Len(s.pending) = Len(r.pending) + n

BackRun(s, r) ==
    /\ SameLog(s, PutBack(r)) /\ s.step = r.step /\ s.results = r.results
    /\ s.dispatch = r.back.dispatch /\ s.turn = r.back.turn /\ s.back = r.back

Outcome(p, r, n, then, otherwise, s, a) ==
    \/ Saves(p, r) /\ Published(r, n) /\ SavedRun(s, r, n) /\ a = then
    \/ checkpoints' = checkpoints /\ BackRun(s, r) /\ a = otherwise
    \/ Saves(p, r) /\ Published(r, n) /\ BackRun(s, r) /\ a = otherwise

LEMMA CommitOutcome ==
    ASSUME faults \in Nat, NEW p \in Procs, NEW r \in RunType, NEW n \in Nat \ {0},
           NEW then, NEW otherwise, Commit(p, r, n, then, otherwise)
    PROVE  /\ faults' \in Nat
           /\ \E s \in RunType, a \in {then, otherwise} :
                /\ run' = [run EXCEPT ![p] = s] /\ agenda' = [agenda EXCEPT ![p] = a]
                /\ Outcome(p, r, n, then, otherwise, s, a)
<1>1. CASE SaveState(p, r, n) /\ Go(p, then)
  <2>1. PICK g : g = Staged(r, n)
    BY Zenon
  <2>2. /\ g \in RunType /\ SameRun(g, r) /\ g.epoch = r.epoch /\ g.checkpoint = r.checkpoint
        /\ g.seq = r.seq + n /\ g.sent = r.sent /\ Len(g.pending) = Len(r.pending) + n
    BY <2>1, StagedRun, Zenon DEF SameRun, SameWork
  <2>3. PICK k \in Nat : k = g.checkpoint + 1
    BY <2>2 DEF RunType
  <2>4. PICK s : s = [g EXCEPT !.checkpoint = k]
    BY Zenon
  <2>5. s \in RunType
    BY <2>2, <2>4, SetField, Zenon
  <2>6. SavedRun(s, r, n)
    BY <2>2, <2>3, <2>4, Zenon DEF SavedRun, SameRun, RunType
  <2>7. run' = [run EXCEPT ![p] = s] /\ agenda' = [agenda EXCEPT ![p] = then] /\ faults' = faults
    BY <1>1, <2>1, <2>3, <2>4, Zenon DEF SaveState, Go
  <2>8. Saves(p, r) /\ Published(r, n)
    BY <1>1, Zenon DEF SaveState, Published
  <2> QED
    BY <2>5, <2>6, <2>7, <2>8, Zenon DEF Outcome
<1>2. CASE /\ FailSave(p, r, n)
           /\ run' = [run EXCEPT ![p] = [PutBack(r) EXCEPT !.try = faults']]
           /\ Go(p, otherwise)
  <2>1. faults' \in Nat
    BY <1>2 DEF FailSave
  <2>2. checkpoints' = checkpoints \/ (Saves(p, r) /\ Published(r, n))
    BY <1>2, Zenon DEF FailSave, Published
  <2>3. PICK s : s = [PutBack(r) EXCEPT !.try = faults']
    BY Zenon
  <2>4. s \in RunType /\ BackRun(s, r)
    BY <2>1, <2>3, PutBackRun, TryRun DEF BackRun, SameWork
  <2>5. run' = [run EXCEPT ![p] = s] /\ agenda' = [agenda EXCEPT ![p] = otherwise]
    BY <1>2, <2>3, Zenon DEF Go
  <2> QED
    BY <2>1, <2>2, <2>4, <2>5, Zenon DEF Outcome
<1> QED
    BY <1>1, <1>2, Zenon DEF Commit

\* The published checkpoint.
LEMMA PublishedCheckpoint ==
    ASSUME checkpoints \in Seq(SnapshotType),
           \A i \in DOMAIN checkpoints : checkpoints[i].dispatch = "prepared" => checkpoints[i].next \in Steps,
           NEW r \in RunType, NEW n \in Nat \ {0}, Owned(r), Published(r, n)
    PROVE  /\ checkpoints' \in Seq(SnapshotType)
           /\ \A i \in DOMAIN checkpoints' : checkpoints'[i].dispatch = "prepared" => checkpoints'[i].next \in Steps
           /\ Len(checkpoints') = Len(checkpoints) + 1
           /\ checkpoints' # <<>> /\ Newest' = Snapshot(Staged(r, n))
           /\ Newest'.committed = r.seq + n /\ Newest'.epoch = r.epoch
           /\ \A i \in DOMAIN checkpoints : checkpoints'[i] = checkpoints[i]
           /\ DOMAIN checkpoints' = DOMAIN checkpoints \cup {Len(checkpoints) + 1}
<1>1. PICK g : g = Staged(r, n)
    BY Zenon
<1>2. g \in RunType /\ g.dispatch = r.dispatch /\ g.step = r.step /\ g.committed = r.seq + n /\ g.epoch = r.epoch
    BY <1>1, StagedRun, Zenon DEF SameWork
<1>3. PICK c : c = Snapshot(g)
    BY Zenon
<1>4. c \in SnapshotType /\ (c.dispatch = "prepared" => c.next \in Steps)
    BY <1>2, <1>3, SnapshotOfRun, Zenon DEF Owned
<1>5. c.committed = r.seq + n /\ c.epoch = r.epoch
    BY <1>2, <1>3, Zenon DEF Snapshot
<1>6. checkpoints' = Append(checkpoints, c)
    BY <1>1, <1>3, Zenon DEF Published
<1>7. checkpoints' \in Seq(SnapshotType) /\ Len(checkpoints') = Len(checkpoints) + 1
      /\ checkpoints'[Len(checkpoints) + 1] = c /\ DOMAIN checkpoints' = DOMAIN checkpoints \cup {Len(checkpoints) + 1}
    BY <1>4, <1>6
<1>8. \A i \in DOMAIN checkpoints : checkpoints'[i] = checkpoints[i]
    BY <1>4, <1>6
<1>9. checkpoints' # <<>> /\ Newest' = c
    BY <1>7 DEF Newest
<1> QED
    BY <1>1, <1>3, <1>4, <1>5, <1>7, <1>8, <1>9, Zenon

-----------------------------------------------------------------------------
(* Handlers.                                                               *)

LEMMA AtWork ==
    ASSUME BaseInv, NEW p \in Procs, agenda[p] # <<>>
    PROVE  /\ lock = p /\ agenda[p] \in Program /\ run[p] \in RunType
           /\ epochFile > 0 /\ lease[p] = epochFile /\ Drives(run[p], agenda[p])
BY Zenon DEF BaseInv, LeaseInv, Idle, Holds, TypeInv

\* A program with its first operation and its goal.
Leads(a, first, goal) == a \in Program /\ Head(a) = first /\ End(a) = goal

LEMMA Programs ==
    /\ \A g \in {"ready", "running", "asking", "answered", "halt", "release"} : Leads(<<g>>, g, g)
    /\ \A e \in {"emit!", "emit?"}, g \in {"release", "ready"} : Leads(<<"project", e, g>>, "project", g)
    /\ Leads(<<"project", "emit?", "emit!", "exec">>, "project", "exec")
    /\ \A g \in {"asking", "accepted"} : Leads(<<"project", g>>, "project", g)
    /\ \A g \in {"release", "scan"} : Leads(<<"recover", g>>, "recover", g)
    /\ \A g \in {"ready", "tool", "ask"} : Leads(<<"emit!", g>>, "emit!", g)
<1>1. {"ready", "running", "asking", "answered", "accepted", "halt", "release", "exec", "scan", "tool", "ask"}
          \subseteq Op \ Middle
    BY Zenon DEF Op, Middle
<1>2. "emit!" \in Middle /\ "emit?" \in Middle /\ "project" \in Middle /\ "recover" \in Middle
    BY Zenon DEF Middle
<1> QED
    BY <1>1, <1>2, OneOp, TwoOps, ThreeOps, FourOps DEF Leads

LEMMA ViewOwned ==
    ASSUME NEW r \in RunType, NEW x, NEW step, NEW dispatch, NEW turn, NEW b, NEW results,
           View(x, r, step, dispatch, turn, b, results), Owned(r),
           dispatch = "prepared" \/ b.dispatch = "prepared" => step \in Steps
    PROVE  x \in RunType /\ Owned(x) /\ (Ahead(r) => Ahead(x))
BY Zenon DEF View, SameLog, Owned, Ahead, Current

\* The goal of a program is its only operation that is not a write to the trace.
LEMMA AtGoal ==
    ASSUME BaseInv, NEW p \in Procs, NEW g \in Op \ Middle, At(p, g) \/ agenda[p] = <<g>>
    PROVE  /\ lock = p /\ agenda[p] = <<g>> /\ run[p] \in RunType
           /\ epochFile > 0 /\ lease[p] = epochFile /\ Serves(run[p], g)
<1>1. agenda[p] # <<>> /\ Head(agenda[p]) = g
    BY DEF At
<1> QED
    BY <1>1, AtWork, ProgramRest, Zenon DEF Drives

LEMMA Goals ==
    {"ready", "running", "asking", "answered", "accepted", "halt", "release", "exec", "scan", "tool", "ask"}
        \subseteq Op \ Middle
BY Zenon DEF Op, Middle

LEMMA TypedParts ==
    ASSUME BaseInv
    PROVE  /\ checkpoints \in Seq(SnapshotType) /\ trace \in Lines /\ faults \in Nat
           /\ effects \in [Steps -> Nat] /\ acked \in [Steps -> Answers \cup {None}]
           /\ run \in [Procs -> RunType] /\ agenda \in [Procs -> Program \cup {<<>>}]
BY Zenon DEF BaseInv, TypeInv

\* After the scan the numbering goes on after the newest checkpoint.
LEMMA ScannedAhead ==
    ASSUME BaseInv, NEW r \in RunType, Serves(r, "scan"), NEW c \in RunType,
           SameRun(c, r), c.epoch = r.epoch, c.checkpoint = r.checkpoint,
           c.pending = r.pending, c.sent = r.sent, c.seq >= r.committed
    PROVE  Owned(c) /\ Ahead(c)
<1>1. Owned(c)
    BY Zenon DEF Serves, Owned, SameRun
<1>2. Current(r) /\ checkpoints # <<>> /\ r.committed >= Newest.committed
    BY Zenon DEF Serves
<1>3. checkpoints \in Seq(SnapshotType)
    BY Zenon DEF BaseInv, TypeInv
<1>4. Newest \in SnapshotType
    BY <1>2, <1>3 DEF Newest
<1>5. Newest.committed \in Nat /\ r.committed \in Nat /\ c.seq \in Nat
    BY <1>4, Zenon DEF SnapshotType, RunType
<1> QED
    BY <1>1, <1>2, <1>5 DEF Ahead

\* The call of a cancelled run never writes: its lease is gone.
LEMMA LateFenced ==
    ASSUME BaseInv, NEW p \in Procs, NEW call \in late[p], run[p].epoch # call.epoch
    PROVE  ~ValidWriterEpoch(p, call.epoch)
<1>1. call.epoch # 0
    BY DEF BaseInv, TypeInv, LateType
<1>2. CASE lock = p
    BY <1>2, Zenon DEF BaseInv, LeaseInv, Holds, Drives, Serves, Owned, ValidWriterEpoch
<1>3. CASE lock # p
    BY <1>1, <1>3, Zenon DEF BaseInv, LeaseInv, Idle, ValidWriterEpoch
<1> QED
    BY <1>2, <1>3, Zenon

-----------------------------------------------------------------------------
(* The trace.                                                              *)

LEMMA TopOfPart ==
    ASSUME NEW l, NEW a, NEW k \in Nat, NEW m \in Nat, Top(l, k, m), \A i \in 1..k : a[i] = l[i]
    PROVE  Top(a, k, m)
BY Zenon DEF Top

LEMMA AppendLine ==
    ASSUME NEW l \in Lines, NEW e \in Event
    PROVE  Append(l, e) \in Lines
<1>1. l \in Seq(Event) /\ e.seq \in Nat /\ Len(l) \in Nat
    BY DEF Lines, Event
<1>0. Append(l, e) \in Seq(Event)
    BY <1>1
<1>2. PICK a \in Seq(Event) : a = Append(l, e)
    BY <1>0, Zenon
<1>3. Len(a) = Len(l) + 1 /\ a[Len(l) + 1] = e /\ \A i \in 1..Len(l) : a[i] = l[i]
    BY <1>1, <1>2
<1>4. \A k \in 0..Len(l) : \E m \in Nat : Top(a, k, m)
  <2> TAKE k \in 0..Len(l)
  <2>1. PICK m \in Nat : Top(l, k, m)
    BY Zenon DEF Lines
  <2>2. k \in Nat /\ \A i \in 1..k : a[i] = l[i]
    BY <1>1, <1>3
  <2> QED
    BY <2>1, <2>2, TopOfPart, Zenon
<1>5. \E m \in Nat : Top(a, Len(a), m)
  <2>1. PICK n \in Nat : Top(a, Len(l), n)
    BY <1>1, <1>4
  <2>2. \A i \in 1..Len(l) : a[i].seq \in Nat
    <3>1. \A i \in 1..Len(l) : l[i] \in Event
        BY <1>1
    <3>2. \A x \in Event : x.seq \in Nat
        BY Zenon DEF Event
    <3> QED
        BY <1>3, <3>1, <3>2, Zenon
  <2>3. \A i \in 1..Len(l) : a[i].seq <= n
    BY <2>1, Zenon DEF Top
  <2>4. CASE e.seq <= n
    <3>1. \A i \in 1..Len(a) : a[i].seq <= n
        BY <1>1, <1>3, <2>3, <2>4
    <3>2. n = 0 \/ \E i \in 1..Len(a) : a[i].seq = n
        BY <1>1, <1>3, <2>1 DEF Top
    <3> QED
        BY <3>1, <3>2, Zenon DEF Top
  <2>5. CASE e.seq > n
    <3>1. \A i \in 1..Len(a) : a[i].seq <= e.seq
        BY <1>1, <1>3, <2>2, <2>3, <2>5
    <3>2. \E i \in 1..Len(a) : a[i].seq = e.seq
        BY <1>1, <1>3
    <3> QED
        BY <1>1, <3>1, <3>2, Zenon DEF Top
  <2> QED
    BY <1>1, <2>4, <2>5
<1>6. \A k \in 0..Len(a) : k \in 0..Len(l) \/ k = Len(a)
    BY <1>1, <1>3
<1>7. \A k \in 0..Len(a) : \E m \in Nat : Top(a, k, m)
    BY <1>4, <1>5, <1>6, Zenon
<1> QED
    BY <1>2, <1>7, Zenon DEF Lines

LEMMA FrontLine ==
    ASSUME NEW l \in Lines, l # <<>>
    PROVE  WithoutLast(l) \in Lines
<1>1. l \in Seq(Event) /\ Len(l) \in Nat \ {0}
    BY DEF Lines
<1>0. WithoutLast(l) \in Seq(Event)
    BY <1>1 DEF WithoutLast
<1>2. PICK a \in Seq(Event) : a = WithoutLast(l)
    BY <1>0, Zenon
<1>3. Len(a) = Len(l) - 1 /\ \A i \in 1..Len(a) : a[i] = l[i]
    BY <1>1, <1>2 DEF WithoutLast
<1>4. \A k \in 0..Len(a) : \E m \in Nat : Top(a, k, m)
  <2> TAKE k \in 0..Len(a)
  <2>1. k \in Nat /\ k \in 0..Len(l) /\ \A i \in 1..k : a[i] = l[i]
    BY <1>1, <1>3
  <2>2. PICK m \in Nat : Top(l, k, m)
    BY <2>1, Zenon DEF Lines
  <2> QED
    BY <2>1, <2>2, TopOfPart, Zenon
<1>5. a \in Lines
    BY <1>4, Zenon DEF Lines
<1> QED
    BY <1>2, <1>5, Zenon

LEMMA OpenedLines ==
    ASSUME NEW p \in Procs, trace \in Lines
    PROVE  Repaired(trace) \in Lines /\ Opened(p) \in Lines
<1>1. Repaired(trace) \in Lines
    BY FrontLine, Zenon DEF Repaired, Unfinished
<1> QED
    BY <1>1, Zenon DEF Opened

\* Torn and Garbage are lines too.
LEMMA WrittenLines ==
    ASSUME NEW p \in Procs, trace \in Lines, NEW e \in Event, WriteTrace(p, e)
    PROVE  trace' \in Lines
<1>1. Garbage \in Event
    BY Zenon DEF Garbage, NewEvent, Event
<1>2. PICK l \in Lines : l = Opened(p)
    BY OpenedLines, Zenon
<1>3. WithLine(l, e) \in Lines
  <2>1. l # <<>> => Append(WithoutLast(l), Garbage) \in Lines
    BY <1>1, FrontLine, AppendLine, Zenon
  <2> QED
    BY <2>1, AppendLine, Zenon DEF WithLine, Unfinished
<1> QED
    BY <1>2, <1>3, Zenon DEF WriteTrace

-----------------------------------------------------------------------------
(* Commits.                                                                *)

\* The handler of p goes on with the program a and the run s, and with it come
\* only changes that leave the lease alone.
LEMMA HandleStep ==
    ASSUME BaseInv, NEW p \in Procs, lock = p,
           UNCHANGED <<lock, epochFile, lease>>,
           NEW a \in Program, agenda' = [agenda EXCEPT ![p] = a],
           NEW s \in RunType, run' = [run EXCEPT ![p] = s],
           Drives(s, a)',
           checkpoints' \in Seq(SnapshotType),
           \A n \in DOMAIN checkpoints' : checkpoints'[n].dispatch = "prepared" => checkpoints'[n].next \in Steps,
           trace' \in Lines, faults' \in Nat, late' \in [Procs -> SUBSET LateType],
           effects' \in [Steps -> Nat], acked' \in [Steps -> Answers \cup {None}]
    PROVE  BaseInv'
<1>1. TypeInv /\ LeaseInv
    BY Zenon DEF BaseInv
<1>2. agenda' \in [Procs -> Program \cup {<<>>}] /\ run' \in [Procs -> RunType]
    BY <1>1, Zenon DEF TypeInv
<1>3. TypeInv'
    BY <1>1, <1>2, Zenon DEF TypeInv
<1>4. agenda'[p] = a /\ run'[p] = s /\ a # <<>>
    BY <1>1, Zenon DEF TypeInv, Program
<1>5. Holds(p)'
    BY <1>1, <1>4, Zenon DEF LeaseInv, Holds
<1>6. \A q \in Procs : q # p => Idle(q)'
    BY <1>1, Zenon DEF LeaseInv, Idle, TypeInv
<1>7. LeaseInv'
    BY <1>5, <1>6, Zenon DEF LeaseInv
<1> QED
    BY <1>3, <1>7, Zenon DEF BaseInv

\* The run that comes of a commit is one that the leaseholder may have.
LEMMA OutcomeDrives ==
    ASSUME BaseInv, NEW p \in Procs, lock = p, UNCHANGED epochFile,
           NEW r \in RunType, NEW n \in Nat \ {0}, NEW s \in RunType,
           NEW then, NEW otherwise, NEW a \in {then, otherwise},
           Outcome(p, r, n, then, otherwise, s, a),
           Owned(r), Ahead(r), Placed(r, End(then)), Placed(PutBack(r), End(otherwise)), End(a) # "scan"
    PROVE  Drives(s, a)'
<1>1. checkpoints \in Seq(SnapshotType)
      /\ \A i \in DOMAIN checkpoints : checkpoints[i].dispatch = "prepared" => checkpoints[i].next \in Steps
    BY Zenon DEF BaseInv, TypeInv
<1>3. r.checkpoint \in Nat /\ r.seq \in Nat /\ r.sent \in Nat /\ Len(r.pending) \in Nat /\ Len(checkpoints) \in Nat
  <2>1. r.checkpoint \in Nat /\ r.seq \in Nat /\ r.sent \in Nat /\ r.pending \in Seq(Event)
    BY Zenon DEF RunType
  <2> QED
    BY <1>1, <2>1
<1>4. /\ r.epoch = epochFile /\ r.checkpoint <= Len(checkpoints)
      /\ r.sent = 0 \/ r.sent < Len(r.pending)
      /\ r.dispatch = "prepared" \/ r.back.dispatch = "prepared" => r.step \in Steps
    BY Zenon DEF Owned
<1>5. CASE Saves(p, r) /\ Published(r, n) /\ SavedRun(s, r, n) /\ a = then
  <2>1. Len(checkpoints') = Len(checkpoints) + 1 /\ Newest'.committed = r.seq + n
    BY <1>1, <1>5, PublishedCheckpoint, Zenon
  <2>2. /\ s.epoch = r.epoch /\ s.checkpoint = r.checkpoint + 1 /\ s.seq = r.seq + n /\ s.sent = r.sent
        /\ Len(s.pending) = Len(r.pending) + n
        /\ s.dispatch = r.dispatch /\ s.turn = r.turn /\ s.back = r.back /\ s.step = r.step
    BY <1>5, Zenon DEF SavedRun, SameRun
  <2>3. Owned(s)'
    BY <1>3, <1>4, <2>1, <2>2 DEF Owned
  <2>4. Ahead(s)'
    BY <1>3, <2>1, <2>2 DEF Ahead
  <2> QED
    BY <1>5, <2>2, <2>3, <2>4, Zenon DEF Drives, Serves, Placed
<1>b. /\ PutBack(r).step = r.step /\ PutBack(r).back = r.back
      /\ PutBack(r).dispatch = r.back.dispatch /\ PutBack(r).turn = r.back.turn
    BY PutBackRun, Zenon DEF SameWork
<1>6. CASE checkpoints' = checkpoints /\ BackRun(s, r) /\ a = otherwise
  <2>1. /\ s.epoch = r.epoch /\ s.checkpoint = r.checkpoint /\ s.seq = r.seq /\ s.sent = 0
        /\ s.dispatch = r.back.dispatch /\ s.turn = r.back.turn /\ s.back = r.back /\ s.step = r.step
    BY <1>6, PutBackRun, Zenon DEF BackRun, SameLog
  <2>2. Owned(s)'
    BY <1>4, <1>6, <2>1, Zenon DEF Owned
  <2>3. Ahead(s)'
    BY <1>6, <2>1, Zenon DEF Ahead, Current, Newest
  <2> QED
    BY <1>6, <1>b, <2>1, <2>2, <2>3, Zenon DEF Drives, Serves, Placed
<1>7. CASE Saves(p, r) /\ Published(r, n) /\ BackRun(s, r) /\ a = otherwise
  <2>1. Len(checkpoints') = Len(checkpoints) + 1
    BY <1>1, <1>7, PublishedCheckpoint, Zenon
  <2>2. /\ s.epoch = r.epoch /\ s.checkpoint = r.checkpoint /\ s.seq = r.seq /\ s.sent = 0
        /\ s.dispatch = r.back.dispatch /\ s.turn = r.back.turn /\ s.back = r.back /\ s.step = r.step
    BY <1>7, PutBackRun, Zenon DEF BackRun, SameLog
  <2>3. Owned(s)'
    BY <1>3, <1>4, <2>1, <2>2 DEF Owned
  <2>4. Ahead(s)'
    BY <1>3, <1>4, <2>1, <2>2 DEF Ahead, Current
  <2> QED
    BY <1>7, <1>b, <2>2, <2>3, <2>4, Zenon DEF Drives, Serves, Placed
<1> QED
    BY <1>5, <1>6, <1>7, Zenon DEF Outcome

\* What FencedCheckpoints says of a step.
FencedStep ==
    (checkpoints' # checkpoints) =>
        /\ lock # None
        /\ Len(checkpoints') = Len(checkpoints) + 1
        /\ \A n \in DOMAIN checkpoints : checkpoints'[n] = checkpoints[n]
        /\ Newest'.epoch = epochFile
        /\ checkpoints # <<>> => Newest'.committed > Newest.committed

LEMMA PublishedFenced ==
    ASSUME BaseInv, NEW p \in Procs, lock = p, NEW r \in RunType, NEW n \in Nat \ {0},
           Owned(r), Ahead(r), Saves(p, r), Published(r, n)
    PROVE  FencedStep
<1>1. TypeInv
    BY Zenon DEF BaseInv
<1>2. /\ checkpoints' \in Seq(SnapshotType)
      /\ Len(checkpoints') = Len(checkpoints) + 1
      /\ Newest'.committed = r.seq + n /\ Newest'.epoch = r.epoch
      /\ \A i \in DOMAIN checkpoints : checkpoints'[i] = checkpoints[i]
    BY <1>1, PublishedCheckpoint, Zenon DEF TypeInv
<1>3. checkpoints \in Seq(SnapshotType)
    BY <1>1, Zenon DEF TypeInv
<1>4. \A i \in DOMAIN checkpoints : checkpoints'[i] = checkpoints[i]
    BY <1>2, Zenon
<1>5. checkpoints # <<>> => Newest'.committed > Newest.committed
  <2>1. Current(r)
    BY Zenon DEF Saves, Current
  <2>2. checkpoints # <<>> => Newest \in SnapshotType
    BY <1>3 DEF Newest
  <2>3. checkpoints # <<>> => Newest.committed \in Nat
    BY <2>2, Zenon DEF SnapshotType
  <2>4. r.seq \in Nat
    BY Zenon DEF RunType
  <2> QED
    BY <1>2, <2>1, <2>3, <2>4 DEF Ahead
<1>6. r.epoch = epochFile /\ lock # None
    BY NoneAssumption, Zenon DEF Owned
<1> QED
    BY <1>2, <1>4, <1>5, <1>6, Zenon DEF FencedStep, Newest

LEMMA CommitBase ==
    ASSUME BaseInv, NEW p \in Procs, lock = p, UNCHANGED <<lock, epochFile, lease, trace, effects, acked>>,
           NEW r \in RunType, NEW n \in Nat \ {0}, NEW then \in Program, NEW otherwise \in Program,
           Commit(p, r, n, then, otherwise), late' \in [Procs -> SUBSET LateType],
           Owned(r), Ahead(r), Placed(r, End(then)), Placed(PutBack(r), End(otherwise)),
           End(then) # "scan", End(otherwise) # "scan"
    PROVE  BaseInv' /\ FencedStep
<1>1. TypeInv
    BY Zenon DEF BaseInv
<1>2. faults \in Nat
    BY <1>1, Zenon DEF TypeInv
<1>3. faults' \in Nat
    BY <1>2, CommitOutcome, Zenon
<1>4. PICK s \in RunType, a \in {then, otherwise} :
           /\ run' = [run EXCEPT ![p] = s] /\ agenda' = [agenda EXCEPT ![p] = a]
           /\ Outcome(p, r, n, then, otherwise, s, a)
    BY <1>2, CommitOutcome
<1>5. Drives(s, a)'
    BY <1>4, OutcomeDrives, Zenon
<1>6. /\ checkpoints' \in Seq(SnapshotType)
      /\ \A i \in DOMAIN checkpoints' : checkpoints'[i].dispatch = "prepared" => checkpoints'[i].next \in Steps
  <2>1. CASE checkpoints' = checkpoints
    BY <1>1, <2>1, Zenon DEF TypeInv
  <2>2. CASE Published(r, n)
    <3>1. /\ checkpoints \in Seq(SnapshotType)
          /\ \A i \in DOMAIN checkpoints : checkpoints[i].dispatch = "prepared" => checkpoints[i].next \in Steps
        BY <1>1, Zenon DEF TypeInv
    <3> QED
        BY <2>2, <3>1, PublishedCheckpoint, Zenon
  <2> QED
    BY <1>4, <2>1, <2>2, Zenon DEF Outcome
<1>7. trace' \in Lines /\ effects' \in [Steps -> Nat] /\ acked' \in [Steps -> Answers \cup {None}]
    BY <1>1, Zenon DEF TypeInv
<1>8. a \in Program
    BY <1>4, Zenon
<1>9. FencedStep
  <2>1. checkpoints' = checkpoints \/ (Saves(p, r) /\ Published(r, n))
    BY <1>4, Zenon DEF Outcome
  <2> QED
    BY <2>1, PublishedFenced, Zenon DEF FencedStep
<1> QED
    BY <1>3, <1>4, <1>5, <1>6, <1>7, <1>8, <1>9, HandleStep, Zenon

\* The frame of a commit.
LEMMA CommitStep ==
    ASSUME BaseInv, NEW p \in Procs, lock = p, UNCHANGED <<onlyCommit, late, ghosts>>,
           NEW r \in RunType, NEW n \in Nat \ {0}, NEW then, NEW otherwise, Commit(p, r, n, then, otherwise),
           Owned(r), Ahead(r), NEW first, NEW g, NEW start, NEW h,
           Leads(then, first, g), Leads(otherwise, start, h), g # "scan", h # "scan",
           Placed(r, g), Placed(PutBack(r), h)
    PROVE  BaseInv' /\ FencedStep
<1>1. late' \in [Procs -> SUBSET LateType] /\ UNCHANGED <<lock, epochFile, lease, trace, effects, acked>>
    BY Zenon DEF BaseInv, TypeInv, onlyCommit, ghosts, store
<1> QED
    BY <1>1, CommitBase, Zenon DEF Leads

\* Halting or letting go needs no place in the plan.
LEMMA NoPlace ==
    ASSUME NEW r
    PROVE  Placed(r, "halt") /\ Placed(r, "release")
BY Zenon DEF Placed

-----------------------------------------------------------------------------
(* The steps of a handle.                                                  *)

LEMMA CompleteBase ==
    ASSUME BaseInv, NEW p \in Procs, Complete(p)
    PROVE  BaseInv' /\ FencedStep
<1>1. PICK r : r = run[p]
    BY Zenon
<1>2. agenda[p] = <<"ready">> /\ agenda[p] # <<>> /\ r.step >= Len(Kind)
    BY <1>1 DEF Complete
<1>3. lock = p /\ r \in RunType /\ Serves(r, "ready")
    BY <1>1, <1>2, AtWork, Programs, Zenon DEF Leads, Drives
<1>4. View(Finished(r), r, Len(Kind) + 1, r.dispatch, r.turn, Open(r), r.results)
    BY <1>3, FinishedView, Zenon
<1>5. Owned(Finished(r)) /\ Ahead(Finished(r)) /\ Finished(r) \in RunType
    BY <1>3, <1>4, ViewOwned, Zenon DEF Serves, Placed, Open
<1>6. Commit(p, Finished(r), 2, <<"project", "emit!", "release">>, <<"halt">>) /\ UNCHANGED <<onlyCommit, late, ghosts>>
    BY <1>1, Zenon DEF Complete, Finished
<1> QED
    BY <1>3, <1>5, <1>6, CommitStep, Programs, NoPlace

LEMMA PrepareDispatchBase ==
    ASSUME BaseInv, NEW p \in Procs, PrepareDispatch(p)
    PROVE  BaseInv' /\ FencedStep
<1>1. PICK r : r = run[p]
    BY Zenon
<1>2. lock = p /\ r \in RunType /\ Serves(r, "tool")
    BY <1>1, AtGoal, Goals, Zenon DEF PrepareDispatch
<1>3. View(Prepared(r), r, r.step, "prepared", r.turn, Open(r), r.results)
    BY <1>2, PreparedView, Zenon
<1>4. Owned(Prepared(r)) /\ Ahead(Prepared(r)) /\ Prepared(r) \in RunType
    BY <1>2, <1>3, ViewOwned, Zenon DEF Serves, Placed, Open
<1>5. Commit(p, Prepared(r), 1, <<"project", "emit?", "emit!", "exec">>, <<"halt">>)
      /\ UNCHANGED <<onlyCommit, late, ghosts>>
    BY <1>1, Zenon DEF PrepareDispatch, Prepared
<1>6. Placed(Prepared(r), "exec")
    BY <1>2, <1>3, Zenon DEF Serves, Placed, View
<1> QED
    BY <1>2, <1>4, <1>5, <1>6, CommitStep, Programs, NoPlace

LEMMA SettleToolBase ==
    ASSUME BaseInv, NEW p \in Procs, SettleTool(p)
    PROVE  BaseInv' /\ FencedStep
<1>1. PICK r : r = run[p]
    BY Zenon
<1>2. lock = p /\ r \in RunType /\ Serves(r, "running")
    BY <1>1, AtGoal, Goals, Zenon DEF SettleTool
<1>3. View(Succeeded(r), r, r.step, "settled", r.turn, [dispatch |-> "settled", turn |-> r.turn],
           [r.results EXCEPT ![r.step] = "done"])
    BY <1>2, SucceededView, Zenon
<1>4. View(Failed(r), r, r.step, "settled", r.turn, [dispatch |-> "settled", turn |-> r.turn],
           [r.results EXCEPT ![r.step] = "failed"])
    BY <1>2, FailedView, Zenon
<1>5. Owned(r) /\ Ahead(r) /\ r.step \in Steps
    BY <1>2, Zenon DEF Serves, Placed
<1>6. /\ Owned(Succeeded(r)) /\ Ahead(Succeeded(r)) /\ Succeeded(r) \in RunType
      /\ Owned(Failed(r)) /\ Ahead(Failed(r)) /\ Failed(r) \in RunType
      /\ Owned(Indeterminate(r)) /\ Ahead(Indeterminate(r)) /\ Indeterminate(r) \in RunType
    BY <1>2, <1>3, <1>4, <1>5, IndeterminateRun, ViewOwned
<1>7. Placed(Succeeded(r), "ready")
    BY <1>3, <1>5, PlanAssumption DEF Placed, View, Steps
<1>8. UNCHANGED <<onlyCommit, late, ghosts>>
    BY Zenon DEF SettleTool
<1>9. CASE Commit(p, Succeeded(r), 2, <<"project", "emit!", "ready">>, <<"halt">>)
    BY <1>2, <1>6, <1>7, <1>8, <1>9, CommitStep, Programs, NoPlace
<1>10. CASE Commit(p, Failed(r), 2, <<"project", "emit!", "release">>, <<"halt">>)
    BY <1>2, <1>6, <1>8, <1>10, CommitStep, Programs, NoPlace
<1>11. CASE Commit(p, Indeterminate(r), 2, <<"project", "emit?", "release">>, <<"halt">>)
    BY <1>2, <1>6, <1>8, <1>11, CommitStep, Programs, NoPlace
<1> QED
    BY <1>1, <1>9, <1>10, <1>11, Zenon DEF SettleTool, Succeeded, Failed

LEMMA PrepareInteractionBase ==
    ASSUME BaseInv, NEW p \in Procs, PrepareInteraction(p)
    PROVE  BaseInv' /\ FencedStep
<1>1. PICK r : r = run[p]
    BY Zenon
<1>2. lock = p /\ r \in RunType /\ Serves(r, "ask")
    BY <1>1, AtGoal, Goals, Zenon DEF PrepareInteraction
<1>3. View(Asked(r), r, r.step, r.dispatch, "pending", Open(r), r.results)
    BY <1>2, AskedView, Zenon
<1>4. Owned(Asked(r)) /\ Ahead(Asked(r)) /\ Asked(r) \in RunType
    BY <1>2, <1>3, ViewOwned, Zenon DEF Serves, Placed, Open
<1>5. Commit(p, Asked(r), 1, <<"project", "asking">>, <<"halt">>) /\ UNCHANGED <<onlyCommit, late, ghosts>>
    BY <1>1, Zenon DEF PrepareInteraction, Asked
<1>6. Placed(Asked(r), "asking")
    BY <1>2, <1>3, Zenon DEF Serves, Placed, View
<1> QED
    BY <1>2, <1>4, <1>5, <1>6, CommitStep, Programs, NoPlace

LEMMA AcceptInteractionBase ==
    ASSUME BaseInv, NEW p \in Procs, NEW answer \in Answers, AcceptInteraction(p, answer)
    PROVE  BaseInv' /\ FencedStep
<1>1. PICK r : r = run[p]
    BY Zenon
<1>2. lock = p /\ r \in RunType /\ Serves(r, "asking")
    BY <1>1, AtGoal, Goals, Zenon DEF AcceptInteraction
<1>3. View(Accepted(r, answer), r, r.step, r.dispatch, answer, Open(r), r.results)
    BY <1>2, AcceptedView, Zenon
<1>4. Owned(Accepted(r, answer)) /\ Ahead(Accepted(r, answer)) /\ Accepted(r, answer) \in RunType
    BY <1>2, <1>3, ViewOwned, Zenon DEF Serves, Placed, Open
<1>5. PICK h \in {"asking", "halt"} : Commit(p, Accepted(r, answer), 1, <<"project", "accepted">>, <<h>>)
    BY <1>1, Zenon DEF AcceptInteraction, Accepted
<1>6. UNCHANGED <<onlyCommit, late, ghosts>>
    BY Zenon DEF AcceptInteraction
<1>7. Placed(Accepted(r, answer), "accepted") /\ Placed(PutBack(Accepted(r, answer)), h)
    BY <1>2, <1>3, <1>4, PutBackRun DEF Serves, Placed, View, Open, SameWork
<1>8. Leads(<<h>>, h, h) /\ h # "scan"
    BY Programs, Zenon
<1> QED
    BY <1>2, <1>4, <1>5, <1>6, <1>7, <1>8, CommitStep, Programs

LEMMA SettleAnswerBase ==
    ASSUME BaseInv, NEW p \in Procs, SettleAnswer(p)
    PROVE  BaseInv' /\ FencedStep
<1>1. PICK r : r = run[p]
    BY Zenon
<1>2. lock = p /\ r \in RunType /\ Serves(r, "answered")
    BY <1>1, AtGoal, Goals, Zenon DEF SettleAnswer
<1>3. View(Answered(r), r, r.step, r.dispatch, None, [dispatch |-> r.dispatch, turn |-> None],
           [r.results EXCEPT ![r.step] = r.turn])
    BY <1>2, AnsweredView, Zenon DEF Serves, Placed
<1>4. Owned(Answered(r)) /\ Ahead(Answered(r)) /\ Answered(r) \in RunType
    BY <1>2, <1>3, ViewOwned DEF Serves, Placed
<1>5. Commit(p, Answered(r), 2, <<"project", "emit!", "ready">>, <<"halt">>) /\ UNCHANGED <<onlyCommit, late, ghosts>>
    BY <1>1, Zenon DEF SettleAnswer, Answered
<1>6. Placed(Answered(r), "ready")
    BY <1>2, <1>3, PlanAssumption DEF Serves, Placed, View, Steps
<1> QED
    BY <1>2, <1>4, <1>5, <1>6, CommitStep, Programs, NoPlace

LEMMA HaltBase ==
    ASSUME BaseInv, NEW p \in Procs, Halt(p)
    PROVE  BaseInv' /\ FencedStep
<1>1. PICK r : r = run[p]
    BY Zenon
<1>2. lock = p /\ r \in RunType /\ Serves(r, "halt")
    BY <1>1, AtGoal, Goals, Zenon DEF Halt
<1>3. PICK i : i = Indeterminate(r)
    BY Zenon
<1>4. View(Halted(r), r, r.step, i.dispatch, r.turn, [dispatch |-> i.dispatch, turn |-> r.turn], i.results)
    BY <1>2, <1>3, HaltedView, Zenon
<1>5. i.dispatch # "prepared"
    BY <1>2, <1>3, IndeterminateView, Zenon DEF View
<1>6. Owned(Halted(r)) /\ Ahead(Halted(r)) /\ Halted(r) \in RunType
    BY <1>2, <1>4, <1>5, ViewOwned, Zenon DEF Serves
<1>7. PICK then : then = IF r.traceErr THEN <<"release">> ELSE <<"project", "emit?", "release">>
    BY Zenon
<1>8. Commit(p, Halted(r), 2, then, <<"release">>) /\ UNCHANGED <<onlyCommit, late, ghosts>>
    BY <1>1, <1>7, Zenon DEF Halt, Halted
<1>9. Leads(then, Head(then), "release")
    BY <1>7, Programs, Zenon DEF Leads
<1> QED
    BY <1>2, <1>6, <1>8, <1>9, CommitStep, Programs, NoPlace

LEMMA DetachBase ==
    ASSUME BaseInv, NEW p \in Procs, Detach(p)
    PROVE  BaseInv' /\ FencedStep
<1>1. PICK r : r = run[p]
    BY Zenon
<1>2. lock = p /\ r \in RunType /\ (Serves(r, "ready") \/ Serves(r, "asking"))
    BY <1>1, AtGoal, Goals, Zenon DEF Detach
<1>3. View(Paused(r), r, r.step, r.dispatch, r.turn, Open(r), r.results)
    BY <1>2, KeptStatusView, Zenon DEF Paused, Status
<1>4. Owned(Paused(r)) /\ Ahead(Paused(r)) /\ Paused(r) \in RunType
    BY <1>2, <1>3, ViewOwned, Zenon DEF Serves, Owned, Open
<1>5. Commit(p, Paused(r), 2, <<"project", "emit?", "release">>, <<"halt">>) /\ UNCHANGED <<onlyCommit, late, ghosts>>
    BY <1>1, Zenon DEF Detach, Paused
<1> QED
    BY <1>2, <1>4, <1>5, CommitStep, Programs, NoPlace

LEMMA CancelBase ==
    ASSUME BaseInv, NEW p \in Procs, Cancel(p)
    PROVE  BaseInv' /\ FencedStep
<1>1. PICK r : r = run[p]
    BY Zenon
<1>2. PICK g \in {"ready", "exec", "running", "asking", "answered"} : agenda[p] = <<g>>
    BY Zenon DEF Cancel
<1>3. lock = p /\ r \in RunType /\ Serves(r, g) /\ epochFile > 0
    BY <1>1, <1>2, AtGoal, Goals, Zenon
<1>4. PICK i : i = Indeterminate(r)
    BY Zenon
<1>5. View(Stopped(r), r, r.step, i.dispatch, r.turn, [dispatch |-> i.dispatch, turn |-> r.turn], i.results)
    BY <1>3, <1>4, StoppedView, Zenon
<1>6. i.dispatch # "prepared"
    BY <1>3, <1>4, IndeterminateView, Zenon DEF View
<1>7. Owned(Stopped(r)) /\ Ahead(Stopped(r)) /\ Stopped(r) \in RunType
    BY <1>3, <1>5, <1>6, ViewOwned, Zenon DEF Serves
<1>8. PICK e \in {"emit!", "emit?"} : e = IF r.dispatch = "prepared" THEN "emit?" ELSE "emit!"
    BY Zenon
<1>9. Commit(p, Stopped(r), 2, <<"project", e, "release">>, <<"halt">>)
      /\ UNCHANGED <<lock, epochFile, lease, trace, effects, acked>>
    BY <1>1, <1>8, Zenon DEF Cancel, onlyCommit, ghosts, store
<1>10. late' \in [Procs -> SUBSET LateType]
  <2>1. late \in [Procs -> SUBSET LateType] /\ epochFile \in Nat
    BY Zenon DEF BaseInv, TypeInv
  <2>2. CASE agenda[p] \in {<<"exec">>, <<"running">>}
    <3>1. r.step \in Steps /\ r.epoch \in Nat \ {0}
      BY <1>2, <1>3, <2>1, <2>2 DEF Serves, Placed, Owned
    <3>2. PICK b \in BOOLEAN : b = (agenda[p] = <<"running">>)
      BY Zenon
    <3>3. [epoch |-> r.epoch, step |-> r.step, started |-> b] \in LateType
      BY <3>1, Zenon DEF LateType
    <3>4. late' = [late EXCEPT ![p] = @ \cup {[epoch |-> r.epoch, step |-> r.step, started |-> b]}]
      BY <1>1, <2>2, <3>2, Zenon DEF Cancel
    <3> QED
      BY <2>1, <3>3, <3>4, Zenon
  <2>3. CASE agenda[p] \notin {<<"exec">>, <<"running">>}
    BY <2>1, <2>3, Zenon DEF Cancel
  <2> QED
    BY <2>2, <2>3, Zenon
<1> QED
    BY <1>3, <1>7, <1>9, <1>10, CommitBase, Programs, NoPlace DEF Leads

LEMMA RecoverDispatchBase ==
    ASSUME BaseInv, NEW p \in Procs, RecoverDispatch(p)
    PROVE  BaseInv' /\ FencedStep
<1>1. PICK r : r = run[p]
    BY Zenon
<1>2. lock = p /\ r \in RunType /\ Serves(r, "scan")
    BY <1>1, AtGoal, Goals, Zenon DEF RecoverDispatch
<1>3. PICK c : c = Scanned(r)
    BY Zenon
<1>4. /\ c \in RunType /\ SameRun(c, r) /\ c.epoch = r.epoch /\ c.checkpoint = r.checkpoint
      /\ c.pending = r.pending /\ c.sent = r.sent /\ c.seq >= r.committed
    BY <1>2, <1>3, ScannedRun, Zenon DEF BaseInv, TypeInv
<1>5. Owned(c) /\ Ahead(c)
    BY <1>2, <1>4, ScannedAhead, Zenon
<1>7. View(Indeterminate(c), c, c.step, Indeterminate(c).dispatch, c.turn, Indeterminate(c).back, Indeterminate(c).results)
    BY <1>4, IndeterminateRun, Zenon
<1>8. Indeterminate(c).dispatch # "prepared" /\ Indeterminate(c).back.dispatch # "prepared"
  <2>1. c.dispatch = "prepared"
    BY <1>1, <1>4, Zenon DEF RecoverDispatch, SameRun
  <2>2. View(Indeterminate(c), c, c.step, "indeterminate", c.turn, [dispatch |-> "indeterminate", turn |-> c.turn],
             [c.results EXCEPT ![c.step] = "indeterminate"])
    BY <1>4, <2>1, IndeterminateView, Zenon
  <2> QED
    BY <2>2 DEF View
<1>9. Owned(Indeterminate(c)) /\ Ahead(Indeterminate(c)) /\ Indeterminate(c) \in RunType
  <2>1. PICK d, b, w : d = Indeterminate(c).dispatch /\ b = Indeterminate(c).back /\ w = Indeterminate(c).results
    BY Zenon
  <2>2. View(Indeterminate(c), c, c.step, d, c.turn, b, w)
    BY <1>7, <2>1, Zenon
  <2>3. d # "prepared" /\ b.dispatch # "prepared"
    BY <1>8, <2>1, Zenon
  <2> QED
    BY <1>4, <1>5, <2>2, <2>3, ViewOwned, Zenon
<1>10. Commit(p, Indeterminate(c), 1, <<"recover", "release">>, <<"release">>) /\ UNCHANGED <<onlyCommit, late, ghosts>>
    BY <1>1, <1>3, Zenon DEF RecoverDispatch
<1> QED
    BY <1>2, <1>9, <1>10, CommitStep, Programs, NoPlace

\* A step of the leaseholder that writes no checkpoint.
LEMMA QuietStep ==
    ASSUME BaseInv, NEW p \in Procs, agenda[p] # <<>>,
           UNCHANGED <<lock, epochFile, checkpoints, lease, late>>,
           NEW a \in Program, agenda' = [agenda EXCEPT ![p] = a],
           NEW s \in RunType, run' = [run EXCEPT ![p] = s], Drives(s, a),
           trace' \in Lines, faults' \in Nat,
           effects' \in [Steps -> Nat], acked' \in [Steps -> Answers \cup {None}]
    PROVE  BaseInv'
<1>1. lock = p
    BY AtWork, Zenon
<1>2. /\ checkpoints' \in Seq(SnapshotType) /\ late' \in [Procs -> SUBSET LateType]
      /\ \A n \in DOMAIN checkpoints' : checkpoints'[n].dispatch = "prepared" => checkpoints'[n].next \in Steps
    BY Zenon DEF BaseInv, TypeInv
<1>3. Drives(s, a)'
    BY Zenon DEF Drives, Serves, Owned, Ahead, Current, Newest, Placed
<1> QED
    BY <1>1, <1>2, <1>3, HandleStep, Zenon

\* A run with the same place in log and plan serves the same goal.
LEMMA DrivesOn ==
    ASSUME NEW r \in RunType, NEW s \in RunType, NEW old, NEW a, Drives(r, old), checkpoints \in Seq(SnapshotType),
           End(a) = End(old), old \in Resuming => a \in Resuming,
           s.epoch = r.epoch, s.checkpoint = r.checkpoint, s.seq >= r.seq, s.committed = r.committed,
           s.sent = 0 \/ s.sent < Len(s.pending), SameRun(s, r)
    PROVE  Drives(s, a)
<1>1. Owned(s) /\ Placed(s, End(a))
    BY Zenon DEF Drives, Serves, Owned, Placed, SameRun
<1>2. Current(s) <=> Current(r)
    BY Zenon DEF Current
<1>3. checkpoints # <<>> => Newest.committed \in Nat
  <2>1. checkpoints # <<>> => Newest \in SnapshotType
    BY DEF Newest
  <2> QED
    BY <2>1, Zenon DEF SnapshotType
<1>4. Ahead(r) => Ahead(s)
    BY <1>2, <1>3 DEF Ahead, RunType
<1> QED
    BY <1>1, <1>2, <1>4, Zenon DEF Drives, Serves

LEMMA NextPendingEvent ==
    ASSUME NEW r \in RunType, Owned(r), r.pending # <<>>
    PROVE  NextPending(r) \in Event
<1>1. r.pending \in Seq(Event) /\ r.sent \in Nat
    BY Zenon DEF RunType
<1>2. r.sent + 1 \in 1..Len(r.pending)
    BY <1>1 DEF Owned
<1> QED
    BY <1>1, <1>2 DEF NextPending

LEMMA ResumingRest ==
    ASSUME NEW old \in Resuming, Head(old) \in Middle
    PROVE  Tail(old) \in Resuming
<1>1. old = <<"recover", "scan">>
    BY DEF Resuming, Middle
<1>2. Tail(<<"recover", "scan">>) = <<"scan">>
    OBVIOUS
<1> QED
    BY <1>1, <1>2, Zenon DEF Resuming

LEMMA ProjectBase ==
    ASSUME BaseInv, NEW p \in Procs, Project(p)
    PROVE  BaseInv'
<1>1. PICK r : r = run[p]
    BY Zenon
<1>2. agenda[p] # <<>> /\ Head(agenda[p]) \in Middle
    BY Zenon DEF Project, At, Middle
<1>3. r \in RunType /\ Drives(r, agenda[p]) /\ agenda[p] \in Program
    BY <1>1, <1>2, AtWork, Zenon
<1>4. NextPending(r) \in Event
    BY <1>1, <1>3, NextPendingEvent, Zenon DEF Project, Drives, Serves
<1>5. trace' \in Lines
    BY <1>1, <1>4, WrittenLines, TypedParts, Zenon DEF Project
<1>6. PICK s : s = Projected(r)
    BY Zenon
<1>7. s \in RunType /\ run' = [run EXCEPT ![p] = s]
    BY <1>1, <1>3, <1>6, ProjectedRun, Zenon DEF Project
<1>8. PICK a \in Program :
        /\ agenda' = [agenda EXCEPT ![p] = a] /\ End(a) = End(agenda[p])
        /\ a = agenda[p] \/ a = Tail(agenda[p])
  <2>1. CASE UNCHANGED agenda
    <3>1. agenda' = [agenda EXCEPT ![p] = agenda[p]]
      BY <2>1, TypedParts, Zenon
    <3> QED
      BY <1>3, <3>1, Zenon
  <2>2. CASE Go(p, Rest(p))
    BY <1>2, <1>3, <2>2, ProgramRest, Zenon DEF Go, Rest
  <2> QED
    BY <2>1, <2>2, Zenon DEF Project
<1>9. Drives(s, a)
  <2>1. s.seq = r.seq /\ r.seq \in Nat
    BY <1>3, <1>6, ProjectedRun, Zenon DEF RunType
  <2>2. agenda[p] \in Resuming => a \in Resuming
    BY <1>2, <1>8, ResumingRest, Zenon
  <2> QED
    BY <1>3, <1>6, <1>7, <1>8, <2>1, <2>2, ProjectedRun, TypedParts, DrivesOn
<1>10. UNCHANGED <<lock, epochFile, checkpoints, lease, late, faults, effects, acked>>
    BY Zenon DEF Project, ghosts
<1> QED
    BY <1>2, <1>5, <1>7, <1>8, <1>9, <1>10, QuietStep, TypedParts, Zenon

LEMMA FailedTrace ==
    ASSUME BaseInv, NEW p \in Procs, FailTrace(p)
    PROVE  trace' \in Lines /\ faults' \in Nat
BY OpenedLines, TypedParts DEF FailTrace

LEMMA ProjectFailsBase ==
    ASSUME BaseInv, NEW p \in Procs, ProjectFails(p)
    PROVE  BaseInv'
<1>1. PICK r : r = run[p]
    BY Zenon
<1>2. agenda[p] # <<>> /\ Head(agenda[p]) \in {"project", "recover"}
    BY Zenon DEF ProjectFails, At
<1>3. r \in RunType /\ Drives(r, agenda[p]) /\ agenda[p] \in Program
    BY <1>1, <1>2, AtWork, Zenon
<1>4. PICK b : b = PutBack(r)
    BY Zenon
<1>5. b \in RunType
    BY <1>3, <1>4, PutBackRun, Zenon
<1>6. PICK s : s = [b EXCEPT !.traceErr = TRUE]
    BY Zenon
<1>7. View(s, b, b.step, b.dispatch, b.turn, b.back, b.results)
    BY <1>5, <1>6, SetFlags, Zenon
<1>8. run' = [run EXCEPT ![p] = s] /\ s \in RunType
    BY <1>1, <1>4, <1>6, <1>7, Zenon DEF ProjectFails, View
<1>9. /\ s.epoch = r.epoch /\ s.checkpoint = r.checkpoint /\ s.seq = r.seq /\ s.sent = 0
      /\ s.step = r.step /\ s.dispatch = r.back.dispatch /\ s.turn = r.back.turn /\ s.back = r.back
    BY <1>3, <1>4, <1>7, PutBackRun, Zenon DEF View, SameLog, SameWork
<1>10. Owned(s) /\ (Ahead(r) => Ahead(s))
    BY <1>3, <1>9, Zenon DEF Drives, Serves, Owned, Ahead, Current
<1>11. PICK g \in {"release", "halt", "asking"} :
          /\ agenda' = [agenda EXCEPT ![p] = <<g>>]
          /\ g = "halt" => Head(agenda[p]) = "project"
          /\ g = "asking" => Tail(agenda[p]) = <<"accepted">>
    BY Zenon DEF ProjectFails, Go, Rest, At
<1>12. <<g>> \in Program /\ End(<<g>>) = g
    BY Programs DEF Leads
<1>13. Drives(s, <<g>>)
  <2>1. CASE g = "release"
    BY <1>10, <1>12, <2>1, NoPlace, Zenon DEF Drives, Serves, Resuming
  <2>2. CASE g = "halt"
    <3>1. agenda[p] \notin Resuming
      BY <1>11, <2>2 DEF Resuming
    <3> QED
      BY <1>3, <1>10, <1>12, <2>2, <3>1, NoPlace, Zenon DEF Drives, Serves
  <2>3. CASE g = "asking"
    <3>1. End(agenda[p]) = "accepted"
      <4>1. Tail(agenda[p]) = <<"accepted">> /\ Head(agenda[p]) \in Middle
        BY <1>2, <1>11, <2>3, Zenon DEF Middle
      <4>2. End(<<"accepted">>) = "accepted"
        BY Zenon DEF End
      <4> QED
        BY <1>3, <4>1, <4>2, ProgramRest, Zenon
    <3>2. Serves(r, "accepted")
      BY <1>3, <3>1, Zenon DEF Drives
    <3>3. Ahead(r) /\ Placed(s, "asking")
      BY <1>9, <3>2, Zenon DEF Serves, Placed
    <3> QED
      BY <1>10, <1>12, <2>3, <3>3, Zenon DEF Drives, Serves
  <2> QED
    BY <2>1, <2>2, <2>3, Zenon
<1>14. UNCHANGED <<lock, epochFile, checkpoints, lease, late, effects, acked>> /\ FailTrace(p)
    BY Zenon DEF ProjectFails, ghosts
<1> QED
    BY <1>2, <1>8, <1>11, <1>12, <1>13, <1>14, FailedTrace, QuietStep, TypedParts, Zenon

LEMMA DirectEventType ==
    ASSUME NEW r \in RunType
    PROVE  DirectEvent(r) \in Event
BY DEF DirectEvent, NewEvent, Event, RunType

LEMMA EmitBase ==
    ASSUME BaseInv, NEW p \in Procs, Emit(p)
    PROVE  BaseInv'
<1>1. PICK r : r = run[p]
    BY Zenon
<1>2. agenda[p] # <<>> /\ Head(agenda[p]) \in Middle
    BY Zenon DEF Emit, At, Middle
<1>3. r \in RunType /\ Drives(r, agenda[p]) /\ agenda[p] \in Program
    BY <1>1, <1>2, AtWork, Zenon
<1>4. trace' \in Lines
    BY <1>1, <1>3, DirectEventType, WrittenLines, TypedParts, Zenon DEF Emit
<1>5. PICK s : s = Emitted(r)
    BY Zenon
<1>6. s \in RunType /\ run' = [run EXCEPT ![p] = s]
    BY <1>1, <1>3, <1>5, EmittedRun, Zenon DEF Emit
<1>7. PICK a \in Program : agenda' = [agenda EXCEPT ![p] = a] /\ End(a) = End(agenda[p]) /\ a = Tail(agenda[p])
    BY <1>2, <1>3, ProgramRest, Zenon DEF Emit, Go, Rest
<1>8. Drives(s, a)
  <2>1. s.seq = r.seq + 1 /\ r.seq \in Nat /\ s.sent = r.sent /\ s.pending = r.pending
    BY <1>3, <1>5, EmittedRun, Zenon DEF RunType
  <2>2. agenda[p] \in Resuming => a \in Resuming
    BY <1>2, <1>7, ResumingRest, Zenon
  <2>3. s.sent = 0 \/ s.sent < Len(s.pending)
    BY <1>3, <2>1, Zenon DEF Drives, Serves, Owned
  <2> QED
    BY <1>3, <1>5, <1>6, <1>7, <2>1, <2>2, <2>3, EmittedRun, TypedParts, DrivesOn
<1>9. UNCHANGED <<lock, epochFile, checkpoints, lease, late, faults, effects, acked>>
    BY Zenon DEF Emit, ghosts
<1> QED
    BY <1>2, <1>4, <1>6, <1>7, <1>8, <1>9, QuietStep, TypedParts, Zenon

LEMMA EmitFailsBase ==
    ASSUME BaseInv, NEW p \in Procs, EmitFails(p)
    PROVE  BaseInv'
<1>1. PICK r : r = run[p]
    BY Zenon
<1>2. agenda[p] # <<>> /\ Head(agenda[p]) \in {"emit!", "emit?"}
    BY Zenon DEF EmitFails, At
<1>3. r \in RunType /\ Drives(r, agenda[p]) /\ agenda[p] \in Program
    BY <1>1, <1>2, AtWork, Zenon
<1>4. PICK e : e = Emitted(r)
    BY Zenon
<1>5. /\ e \in RunType /\ SameRun(e, r) /\ e.epoch = r.epoch /\ e.checkpoint = r.checkpoint /\ e.seq = r.seq + 1
      /\ e.pending = r.pending /\ e.sent = r.sent /\ e.committed = r.committed
    BY <1>3, <1>4, EmittedRun, Zenon
<1>6. PICK s : s = [e EXCEPT !.traceErr = TRUE]
    BY Zenon
<1>7. s \in RunType
    BY <1>5, <1>6, SetField, Zenon
<1>8. s.committed = r.committed /\ SameLog(s, e) /\ SameRun(s, r)
    BY <1>5, <1>6, Zenon DEF SameLog, SameRun, RunType
<1>9. run' = [run EXCEPT ![p] = s]
    BY <1>1, <1>4, <1>6, Zenon DEF EmitFails
<1>10. Drives(s, agenda[p])
  <2>1. s.seq >= r.seq
    BY <1>3, <1>5, <1>8 DEF SameLog, RunType
  <2>2. s.sent = 0 \/ s.sent < Len(s.pending)
    BY <1>3, <1>5, <1>8, Zenon DEF Drives, Serves, Owned, SameLog
  <2>3. s.epoch = r.epoch /\ s.checkpoint = r.checkpoint
    BY <1>5, <1>8, Zenon DEF SameLog
  <2> QED
    BY <1>3, <1>7, <1>8, <2>1, <2>2, <2>3, TypedParts, DrivesOn, Zenon
<1>11. agenda[p] \notin Resuming /\ Head(agenda[p]) \in Middle
    BY <1>2 DEF Resuming, Middle
<1>12. UNCHANGED <<lock, epochFile, checkpoints, lease, late, effects, acked>> /\ FailTrace(p)
    BY Zenon DEF EmitFails, ghosts
<1>13. CASE agenda' = [agenda EXCEPT ![p] = <<"halt">>]
  <2>1. Drives(s, <<"halt">>) /\ <<"halt">> \in Program
    BY <1>10, <1>11, Programs, NoPlace, Zenon DEF Drives, Serves, Leads
  <2> QED
    BY <1>2, <1>7, <1>9, <1>12, <1>13, <2>1, FailedTrace, QuietStep, TypedParts, Zenon
<1>14. CASE agenda' = [agenda EXCEPT ![p] = Tail(agenda[p])]
  <2>1. PICK a : a = Tail(agenda[p])
    BY Zenon
  <2>2. a \in Program /\ End(a) = End(agenda[p])
    BY <1>3, <1>11, <2>1, ProgramRest, Zenon
  <2>3. Drives(s, a)
    BY <1>10, <1>11, <2>2, Zenon DEF Drives
  <2> QED
    BY <1>2, <1>7, <1>9, <1>12, <1>14, <2>1, <2>2, <2>3, FailedTrace, QuietStep, TypedParts, Zenon
<1> QED
    BY <1>13, <1>14, Zenon DEF EmitFails, Go, Rest

\* A step that only sets another program.
LEMMA AgendaStep ==
    ASSUME BaseInv, NEW p \in Procs, agenda[p] # <<>>, NEW g \in {"running", "answered", "halt", "release"},
           agenda' = [agenda EXCEPT ![p] = <<g>>], UNCHANGED <<disk, store, run, late, faults>>,
           effects' \in [Steps -> Nat], acked' \in [Steps -> Answers \cup {None}],
           Serves(run[p], g)
    PROVE  BaseInv'
<1>1. PICK r : r = run[p]
    BY Zenon
<1>2. r \in RunType /\ run' = [run EXCEPT ![p] = r]
    BY <1>1, TypedParts, Zenon
<1>3. <<g>> \in Program /\ End(<<g>>) = g
    BY Programs, Zenon DEF Leads
<1>4. Drives(r, <<g>>)
    BY <1>1, <1>3, Zenon DEF Drives, Serves, Resuming
<1>5. UNCHANGED <<lock, epochFile, checkpoints, lease, late, trace, faults>>
    BY Zenon DEF disk, store
<1> QED
    BY <1>2, <1>3, <1>4, <1>5, QuietStep, TypedParts, Zenon

LEMMA TraceErrSeenBase ==
    ASSUME BaseInv, NEW p \in Procs, TraceErrSeen(p)
    PROVE  BaseInv'
<1>1. agenda[p] # <<>> /\ Head(agenda[p]) = "emit!"
    BY Zenon DEF TraceErrSeen, At
<1>2. Drives(run[p], agenda[p]) /\ agenda[p] \notin Resuming
    BY <1>1, AtWork DEF Resuming
<1>3. Serves(run[p], "halt")
    BY <1>2, NoPlace, Zenon DEF Drives, Serves
<1> QED
    BY <1>1, <1>3, AgendaStep, TypedParts, Zenon DEF TraceErrSeen, Go, ghosts

LEMMA AlreadyAnsweredBase ==
    ASSUME BaseInv, NEW p \in Procs, AlreadyAnswered(p)
    PROVE  BaseInv'
<1>1. agenda[p] # <<>> /\ Serves(run[p], "ask")
    BY AtGoal, Goals, Zenon DEF AlreadyAnswered, At
<1>2. Serves(run[p], "answered")
    BY <1>1, Zenon DEF Serves, Placed, AlreadyAnswered
<1> QED
    BY <1>1, <1>2, AgendaStep, TypedParts, Zenon DEF AlreadyAnswered, Go, ghosts

LEMMA RefuseTerminalBase ==
    ASSUME BaseInv, NEW p \in Procs, RefuseTerminal(p)
    PROVE  BaseInv'
<1>1. agenda[p] # <<>> /\ Serves(run[p], "scan")
    BY AtGoal, Goals, Zenon DEF RefuseTerminal, At
<1>2. Serves(run[p], "release")
    BY <1>1, NoPlace, Zenon DEF Serves
<1> QED
    BY <1>1, <1>2, AgendaStep, TypedParts, Zenon DEF RefuseTerminal, Go, ghosts

LEMMA ExecuteBase ==
    ASSUME BaseInv, NEW p \in Procs, Execute(p)
    PROVE  BaseInv'
<1>1. agenda[p] # <<>> /\ Serves(run[p], "exec")
    BY AtGoal, Goals DEF Execute
<1>2. Serves(run[p], "running") /\ run[p].step \in Steps
    BY <1>1, Zenon DEF Serves, Placed
<1>3. effects' \in [Steps -> Nat]
    BY <1>2, TypedParts DEF Execute
<1> QED
    BY <1>1, <1>2, <1>3, AgendaStep, TypedParts, Zenon DEF Execute, Go

LEMMA AcknowledgeBase ==
    ASSUME BaseInv, NEW p \in Procs, Acknowledge(p)
    PROVE  BaseInv'
<1>1. agenda[p] # <<>> /\ Serves(run[p], "accepted")
    BY AtGoal, Goals DEF Acknowledge
<1>2. Serves(run[p], "answered") /\ run[p].step \in Steps /\ run[p].turn \in Answers
    BY <1>1, Zenon DEF Serves, Placed
<1>3. acked' \in [Steps -> Answers \cup {None}]
    BY <1>2, TypedParts, Zenon DEF Acknowledge
<1> QED
    BY <1>1, <1>2, <1>3, AgendaStep, TypedParts, Zenon DEF Acknowledge, Go

LEMMA BeginStepBase ==
    ASSUME BaseInv, NEW p \in Procs, BeginStep(p)
    PROVE  BaseInv'
<1>1. PICK r : r = run[p]
    BY Zenon
<1>2. agenda[p] # <<>> /\ r \in RunType /\ Serves(r, "ready") /\ r.step < Len(Kind)
    BY <1>1, AtGoal, Goals DEF BeginStep
<1>3. PICK s : s = Begun(r)
    BY Zenon
<1>4. View(s, r, r.step + 1, "none", r.turn, r.back, r.results)
    BY <1>2, <1>3, BegunView, Zenon
<1>5. s \in RunType /\ run' = [run EXCEPT ![p] = s]
    BY <1>1, <1>3, <1>4, TypedParts, Zenon DEF BeginStep, View, Begun
<1>6. r.step + 1 \in Steps
    BY <1>2, PlanAssumption DEF RunType, Position, Steps
<1>7. PICK g \in {"tool", "ask"} : g = Kind[r.step + 1]
    BY <1>6, PlanAssumption DEF Steps
<1>8. agenda' = [agenda EXCEPT ![p] = <<"emit!", g>>]
    BY <1>1, <1>7, Zenon DEF BeginStep, Go
<1>9. <<"emit!", g>> \in Program /\ End(<<"emit!", g>>) = g
    BY Programs, Zenon DEF Leads
<1>10. Owned(s) /\ Ahead(s)
  <2>1. Owned(r) /\ Ahead(r)
    BY <1>2, Zenon DEF Serves
  <2>2. PICK k : k = r.step + 1
    BY Zenon
  <2>3. View(s, r, k, "none", r.turn, r.back, r.results) /\ k \in Steps
    BY <1>4, <1>6, <2>2, Zenon
  <2> QED
    BY <1>2, <2>1, <2>3, ViewOwned, Zenon
<1>11. Placed(s, g)
    BY <1>4, <1>6, Zenon DEF Placed, View
<1>12. Drives(s, <<"emit!", g>>)
    BY <1>9, <1>10, <1>11, Zenon DEF Drives, Serves
<1>13. UNCHANGED <<lock, epochFile, checkpoints, lease, late, trace, faults, effects, acked>>
    BY Zenon DEF BeginStep, disk, store, ghosts
<1> QED
    BY <1>2, <1>5, <1>8, <1>9, <1>12, <1>13, QuietStep, TypedParts, Zenon

LEMMA RebuildRunBase ==
    ASSUME BaseInv, NEW p \in Procs, RebuildRun(p)
    PROVE  BaseInv'
<1>1. PICK r : r = run[p]
    BY Zenon
<1>2. agenda[p] # <<>> /\ r \in RunType /\ Serves(r, "scan") /\ r.dispatch # "prepared"
    BY <1>1, AtGoal, Goals, Zenon DEF RebuildRun, At
<1>3. PICK c : c = Scanned(r)
    BY Zenon
<1>4. /\ c \in RunType /\ SameRun(c, r) /\ c.epoch = r.epoch /\ c.checkpoint = r.checkpoint
      /\ c.pending = r.pending /\ c.sent = r.sent /\ c.seq >= r.committed
    BY <1>2, <1>3, ScannedRun, TypedParts, Zenon
<1>5. Owned(c) /\ Ahead(c)
    BY <1>2, <1>4, ScannedAhead, Zenon
<1>6. PICK s : s = Resumed(r)
    BY Zenon
<1>7. View(s, c, c.step, c.dispatch, c.turn, c.back, c.results)
    BY <1>3, <1>4, <1>6, SetStatus, Zenon DEF Resumed, Status
<1>8. s \in RunType /\ Owned(s) /\ Ahead(s)
    BY <1>4, <1>5, <1>7, ViewOwned, Zenon DEF Owned
<1>9. Placed(s, "ready")
  <2>1. s.step = r.step /\ s.dispatch = r.dispatch
    BY <1>4, <1>7, Zenon DEF SameRun, View
  <2> QED
    BY <1>2, <2>1, Zenon DEF Placed, Serves
<1>10. run' = [run EXCEPT ![p] = s] /\ agenda' = [agenda EXCEPT ![p] = <<"emit!", "ready">>]
    BY <1>1, <1>6, Zenon DEF RebuildRun, Resumed, Go
<1>11. <<"emit!", "ready">> \in Program /\ End(<<"emit!", "ready">>) = "ready"
    BY Programs, Zenon DEF Leads
<1>12. Drives(s, <<"emit!", "ready">>)
    BY <1>8, <1>9, <1>11, Zenon DEF Drives, Serves
<1>13. UNCHANGED <<lock, epochFile, checkpoints, lease, late, trace, faults, effects, acked>>
    BY Zenon DEF RebuildRun, disk, store, ghosts
<1> QED
    BY <1>2, <1>8, <1>10, <1>11, <1>12, <1>13, QuietStep, TypedParts, Zenon

\* A process takes the free lease.
LEMMA TakeLease ==
    ASSUME BaseInv, NEW p \in Procs, AcquireRunLease(p),
           NEW a \in Program, agenda' = [agenda EXCEPT ![p] = a],
           NEW s \in RunType, run' = [run EXCEPT ![p] = s], Drives(s, a)',
           UNCHANGED <<checkpoints, trace, late, faults, effects, acked>>
    PROVE  BaseInv'
<1>1. TypeInv /\ LeaseInv
    BY Zenon DEF BaseInv
<1>2. /\ lock = None /\ lock' = p /\ epochFile' = epochFile + 1 /\ epochFile \in Nat
      /\ lease' = [lease EXCEPT ![p] = epochFile + 1]
    BY <1>1, Zenon DEF AcquireRunLease, TypeInv
<1>3. /\ agenda' \in [Procs -> Program \cup {<<>>}] /\ run' \in [Procs -> RunType] /\ lease' \in [Procs -> Nat]
    BY <1>1, <1>2 DEF TypeInv
<1>4. TypeInv'
    BY <1>1, <1>2, <1>3, Zenon DEF TypeInv
<1>5. agenda'[p] = a /\ run'[p] = s /\ a # <<>> /\ lease'[p] = epochFile'
    BY <1>1, <1>2, Zenon DEF TypeInv, Program
<1>6. Holds(p)'
    BY <1>2, <1>5 DEF Holds
<1>7. \A q \in Procs : q # p => Idle(q)'
    BY <1>1, <1>2, NoneAssumption, Zenon DEF LeaseInv, Idle, TypeInv
<1> QED
    BY <1>2, <1>4, <1>6, <1>7, Zenon DEF BaseInv, LeaseInv

LEMMA NewDrives ==
    ASSUME NEW e \in Nat, epochFile' = e, NEW a \in {<<"ready">>, <<"release">>},
           checkpoints' \in Seq(SnapshotType), NEW s, s = NewRun(e)
    PROVE  Drives(s, a)' /\ s \in RunType
<1>1. /\ s \in RunType /\ s.epoch = e /\ s.checkpoint = 0 /\ s.sent = 0 /\ s.step = 0
      /\ s.dispatch = "none" /\ s.back = [dispatch |-> "none", turn |-> None]
    BY NewRunType, Zenon DEF NewRun
<1>2. Owned(s)'
    BY <1>1 DEF Owned
<1>3. Ahead(s)'
    BY <1>1 DEF Ahead, Current
<1>4. Placed(s, "ready")' /\ Placed(s, "release")'
    BY <1>1, PlanAssumption DEF Placed
<1>5. End(a) = "ready" \/ End(a) = "release"
    BY SMTT(20) DEF End
<1> QED
    BY <1>1, <1>2, <1>3, <1>4, <1>5, Zenon DEF Drives, Serves

LEMMA StartBase ==
    ASSUME BaseInv, NEW p \in Procs, Start(p)
    PROVE  BaseInv'
<1>1. PICK e \in Nat : e = epochFile + 1
    BY DEF BaseInv, TypeInv
<1>2. PICK s : s = NewRun(e)
    BY Zenon
<1>3. AcquireRunLease(p) /\ epochFile' = e
    BY <1>1, Zenon DEF Start, AcquireRunLease
<1>4. run' = [run EXCEPT ![p] = s] /\ agenda' = [agenda EXCEPT ![p] = <<"ready">>]
    BY <1>1, <1>2, Zenon DEF Start, Go
<1>5. UNCHANGED <<checkpoints, trace, late, faults, effects, acked>>
    BY Zenon DEF Start, ghosts
<1>6. Drives(s, <<"ready">>)' /\ s \in RunType
    BY <1>2, <1>3, <1>5, NewDrives, TypedParts, Zenon
<1>7. <<"ready">> \in Program
    BY Programs, Zenon DEF Leads
<1> QED
    BY <1>3, <1>4, <1>5, <1>6, <1>7, TakeLease, Zenon

LEMMA ResumeBase ==
    ASSUME BaseInv, NEW p \in Procs, NEW acknowledged \in BOOLEAN, Resume(p, acknowledged)
    PROVE  BaseInv'
<1>1. PICK e \in Nat : e = epochFile + 1
    BY DEF BaseInv, TypeInv
<1>2. AcquireRunLease(p) /\ epochFile' = e /\ UNCHANGED <<checkpoints, trace, late, faults, effects, acked>>
    BY <1>1, Zenon DEF Resume, AcquireRunLease, ghosts
<1>3. CASE run' = [run EXCEPT ![p] = NewRun(e)] /\ agenda' = [agenda EXCEPT ![p] = <<"release">>]
  <2>1. PICK s : s = NewRun(e)
    BY Zenon
  <2>2. Drives(s, <<"release">>)' /\ s \in RunType
    BY <1>2, <2>1, NewDrives, TypedParts, Zenon
  <2>3. <<"release">> \in Program
    BY Programs, Zenon DEF Leads
  <2> QED
    BY <1>2, <1>3, <2>1, <2>2, <2>3, TakeLease, Zenon
<1>4. CASE /\ checkpoints # <<>> /\ run' = [run EXCEPT ![p] = Rebuilt(Newest, e)]
           /\ agenda' = [agenda EXCEPT ![p] = <<"recover", "scan">>]
  <2>1. Len(checkpoints) \in DOMAIN checkpoints
    BY <1>4, TypedParts
  <2>2. PICK c \in SnapshotType : c = Newest
    BY <2>1, TypedParts DEF Newest
  <2>3. c.dispatch = "prepared" => c.next \in Steps
    BY <2>1, <2>2, Zenon DEF BaseInv, TypeInv, Newest
  <2>4. PICK s : s = Rebuilt(c, e)
    BY Zenon
  <2>5. /\ s \in RunType /\ s.epoch = e /\ s.checkpoint = Len(checkpoints)
        /\ s.sent = 0 /\ s.committed = c.committed
        /\ s.step = (IF c.dispatch = "prepared" THEN c.next ELSE c.next - 1)
        /\ s.dispatch = c.dispatch /\ s.back = [dispatch |-> c.dispatch, turn |-> c.turn]
    <3>1. checkpoints \in Seq(SnapshotType)
      BY TypedParts, Zenon
    <3> QED
      BY <2>3, <2>4, <3>1, RebuiltRun, ZenonT(30)
  <2>6. c.next \in 1..Len(Kind) + 1 /\ c.committed \in Nat /\ Len(Kind) \in Nat /\ Steps = 1..Len(Kind)
    BY <2>2, PlanAssumption DEF SnapshotType, Steps
  <2>7. s.step <= Len(Kind) /\ (s.dispatch = "prepared" => s.step \in Steps)
    BY <2>3, <2>5, <2>6
  <2>8. Owned(s)'
    BY <1>2, <2>5, <2>7, TypedParts DEF Owned
  <2>9. Placed(s, "scan")'
    BY <2>7, Zenon DEF Placed
  <2>10. (Current(s) /\ checkpoints # <<>> /\ s.committed >= Newest.committed)'
    BY <1>2, <1>4, <2>2, <2>5, <2>6 DEF Current, Newest
  <2>11. <<"recover", "scan">> \in Program /\ End(<<"recover", "scan">>) = "scan"
    BY Programs, Zenon DEF Leads
  <2>12. Drives(s, <<"recover", "scan">>)'
    BY <2>8, <2>9, <2>10, <2>11, Zenon DEF Drives, Serves, Resuming
  <2> QED
    BY <1>2, <1>4, <2>2, <2>4, <2>5, <2>11, <2>12, TakeLease, Zenon
<1> QED
    BY <1>1, <1>3, <1>4, Zenon DEF Resume, Go, Newest

\* A process lets go of the lease, or dies.
LEMMA DropLease ==
    ASSUME BaseInv, NEW p \in Procs, agenda[p] # <<>>, lock' = None, lease' = [lease EXCEPT ![p] = 0],
           run' = [run EXCEPT ![p] = NoRun], agenda' = [agenda EXCEPT ![p] = <<>>],
           trace' \in Lines, late' \in [Procs -> SUBSET LateType],
           UNCHANGED <<epochFile, checkpoints, faults, effects, acked>>
    PROVE  BaseInv'
<1>1. TypeInv /\ LeaseInv /\ lock = p
    BY AtWork, Zenon DEF BaseInv
<1>2. NoRun \in RunType
    BY NewRunType, Zenon DEF NoRun
<1>3. run' \in [Procs -> RunType] /\ lease' \in [Procs -> Nat]
    BY <1>1, <1>2, Zenon DEF TypeInv
<1>4. agenda' \in [Procs -> Program \cup {<<>>}]
    BY <1>1, Zenon DEF TypeInv
<1>5. TypeInv'
    BY <1>1, <1>3, <1>4, Zenon DEF TypeInv
<1>6. \A q \in Procs : Idle(q)'
    BY <1>1, Zenon DEF LeaseInv, Idle, TypeInv
<1> QED
    BY <1>5, <1>6, NoneAssumption, Zenon DEF BaseInv, LeaseInv

LEMMA ReleaseBase ==
    ASSUME BaseInv, NEW p \in Procs, Release(p)
    PROVE  BaseInv'
<1>1. agenda[p] # <<>> /\ UNCHANGED <<epochFile, checkpoints, trace, late, faults, effects, acked>>
    BY Zenon DEF Release, At, ghosts
<1>2. trace' \in Lines /\ late' \in [Procs -> SUBSET LateType]
    BY <1>1, Zenon DEF BaseInv, TypeInv
<1> QED
    BY <1>1, <1>2, DropLease, Zenon DEF Release, Go

LEMMA CrashBase ==
    ASSUME BaseInv, NEW p \in Procs, Crash(p)
    PROVE  BaseInv'
<1>1. agenda[p] # <<>> /\ UNCHANGED <<epochFile, checkpoints, faults, effects, acked>>
    BY Zenon DEF Crash, ghosts
<1>2. Torn \in Event
    BY Zenon DEF Torn, NewEvent, Event
<1>3. PICK l \in Lines : l = Repaired(trace)
    BY OpenedLines, TypedParts, Zenon
<1>4. trace' = trace \/ trace' = Append(l, Torn)
    BY <1>3, Zenon DEF Crash
<1>5. trace' \in Lines
    BY <1>2, <1>3, <1>4, AppendLine, TypedParts, Zenon
<1>6. late' \in [Procs -> SUBSET LateType]
    BY Zenon DEF BaseInv, TypeInv, Crash
<1> QED
    BY <1>1, <1>5, <1>6, DropLease, Zenon DEF Crash, Go

\* Steps beside the handle.
LEMMA BesideStep ==
    ASSUME BaseInv, UNCHANGED <<lock, epochFile, checkpoints, trace, lease, agenda, run, faults, acked>>,
           late' \in [Procs -> SUBSET LateType], effects' \in [Steps -> Nat]
    PROVE  BaseInv'
<1>1. TypeInv'
    BY Zenon DEF BaseInv, TypeInv
<1>2. LeaseInv'
    BY Zenon DEF BaseInv, LeaseInv, Holds, Idle, Drives, Serves, Owned, Ahead, Current, Newest, Placed
<1> QED
    BY <1>1, <1>2, Zenon DEF BaseInv

LEMMA CloseBase ==
    ASSUME BaseInv, NEW p \in Procs, Close(p)
    PROVE  BaseInv'
<1>1. late' \in [Procs -> SUBSET LateType] /\ effects' \in [Steps -> Nat]
    BY Zenon DEF BaseInv, TypeInv, Close, ghosts
<1> QED
    BY <1>1, BesideStep, Zenon DEF Close, disk, ghosts

LEMMA LateReturnBase ==
    ASSUME BaseInv, NEW p \in Procs, LateReturn(p)
    PROVE  BaseInv' /\ UNCHANGED checkpoints
<1>1. PICK call \in late[p] :
        /\ run[p].epoch # call.epoch
        /\ effects' = IF call.started THEN effects ELSE [effects EXCEPT ![call.step] = @ + 1]
        /\ checkpoints' = IF checkpoints # <<>> /\ ValidWriterEpoch(p, call.epoch)
                          THEN Append(checkpoints, [Newest EXCEPT !.epoch = call.epoch,
                                                                            !.status = "indeterminate"])
                          ELSE checkpoints
        /\ late' = [late EXCEPT ![p] = @ \ {call}]
        /\ UNCHANGED <<lock, epochFile, plan, trace, store, agenda, run, faults, acked>>
    BY Zenon DEF LateReturn
<1>2. checkpoints' = checkpoints
    BY <1>1, LateFenced, Zenon
<1>3. late \in [Procs -> SUBSET LateType] /\ effects \in [Steps -> Nat]
    BY Zenon DEF BaseInv, TypeInv
<1>4. late' \in [Procs -> SUBSET LateType]
    BY <1>1, <1>3, Zenon
<1>5. call.step \in Steps
    BY <1>3 DEF LateType
<1>6. effects' \in [Steps -> Nat]
    BY <1>1, <1>3, <1>5
<1> QED
    BY <1>1, <1>2, <1>4, <1>6, BesideStep, Zenon DEF store

-----------------------------------------------------------------------------
(* The checkpoints are fenced by the lease.                                *)

LEMMA BaseInitial ==
    ASSUME Init
    PROVE  BaseInv
<1>1. NoRun \in RunType
    BY NewRunType, Zenon DEF NoRun
<1>2. <<>> \in Lines /\ <<>> \in Seq(SnapshotType)
  <2>1. <<>> \in Seq(Event) /\ 0 \in Nat /\ \A k \in 0..Len(<<>>) : \A i \in 1..k : FALSE
    OBVIOUS
  <2>2. <<>> \in Lines
    BY <2>1, Zenon DEF Lines, Top
  <2> QED
    BY <2>2
<1>3. TypeInv
    BY <1>1, <1>2 DEF Init, TypeInv
<1>4. LeaseInv
    BY NoneAssumption, Zenon DEF Init, LeaseInv, Idle
<1> QED
    BY <1>3, <1>4, Zenon DEF BaseInv

\* A step that stutters changes nothing that the invariant speaks of.
LEMMA BaseStutter ==
    ASSUME BaseInv, UNCHANGED vars
    PROVE  BaseInv' /\ FencedStep
<1>1. late' \in [Procs -> SUBSET LateType] /\ effects' \in [Steps -> Nat]
    BY Zenon DEF BaseInv, TypeInv, vars, ghosts
<1> QED
    BY <1>1, BesideStep, Zenon DEF vars, disk, store, ghosts, FencedStep

LEMMA BaseNext ==
    ASSUME BaseInv, Next
    PROVE  BaseInv' /\ FencedStep
<1>1. PICK p \in Procs :
        \/ Start(p) \/ Release(p) \/ Close(p) \/ Crash(p)
        \/ Project(p) \/ ProjectFails(p)
        \/ Emit(p) \/ EmitFails(p) \/ TraceErrSeen(p)
        \/ BeginStep(p) \/ Complete(p) \/ PrepareDispatch(p) \/ Execute(p) \/ SettleTool(p)
        \/ PrepareInteraction(p) \/ AlreadyAnswered(p) \/ Acknowledge(p) \/ SettleAnswer(p)
        \/ \E answer \in Answers : AcceptInteraction(p, answer)
        \/ Halt(p) \/ Cancel(p) \/ Detach(p) \/ LateReturn(p)
        \/ \E acknowledged \in BOOLEAN : Resume(p, acknowledged)
        \/ RecoverDispatch(p) \/ RefuseTerminal(p) \/ RebuildRun(p)
    BY Zenon DEF Next
<1>2. CASE Start(p)
    BY <1>2, StartBase, Zenon DEF Start, FencedStep
<1>3. CASE Release(p)
    BY <1>3, ReleaseBase, Zenon DEF Release, FencedStep
<1>4. CASE Close(p)
    BY <1>4, CloseBase, Zenon DEF Close, disk, FencedStep
<1>5. CASE Crash(p)
    BY <1>5, CrashBase, Zenon DEF Crash, FencedStep
<1>6. CASE Project(p)
    BY <1>6, ProjectBase, Zenon DEF Project, FencedStep
<1>7. CASE ProjectFails(p)
    BY <1>7, ProjectFailsBase, Zenon DEF ProjectFails, FencedStep
<1>8. CASE Emit(p)
    BY <1>8, EmitBase, Zenon DEF Emit, FencedStep
<1>9. CASE EmitFails(p)
    BY <1>9, EmitFailsBase, Zenon DEF EmitFails, FencedStep
<1>10. CASE TraceErrSeen(p)
    BY <1>10, TraceErrSeenBase, Zenon DEF TraceErrSeen, disk, FencedStep
<1>11. CASE BeginStep(p)
    BY <1>11, BeginStepBase, Zenon DEF BeginStep, disk, FencedStep
<1>12. CASE Execute(p)
    BY <1>12, ExecuteBase, Zenon DEF Execute, disk, FencedStep
<1>13. CASE AlreadyAnswered(p)
    BY <1>13, AlreadyAnsweredBase, Zenon DEF AlreadyAnswered, disk, FencedStep
<1>14. CASE Acknowledge(p)
    BY <1>14, AcknowledgeBase, Zenon DEF Acknowledge, disk, FencedStep
<1>15. CASE RefuseTerminal(p)
    BY <1>15, RefuseTerminalBase, Zenon DEF RefuseTerminal, disk, FencedStep
<1>16. CASE RebuildRun(p)
    BY <1>16, RebuildRunBase, Zenon DEF RebuildRun, disk, FencedStep
<1>17. CASE LateReturn(p)
    BY <1>17, LateReturnBase, Zenon DEF FencedStep
<1>18. CASE \E acknowledged \in BOOLEAN : Resume(p, acknowledged)
    BY <1>18, ResumeBase, Zenon DEF Resume, FencedStep
<1>19. CASE \E answer \in Answers : AcceptInteraction(p, answer)
    BY <1>19, AcceptInteractionBase, Zenon
<1>20. CASE Complete(p) \/ PrepareDispatch(p) \/ SettleTool(p) \/ PrepareInteraction(p) \/ SettleAnswer(p)
    BY <1>20, CompleteBase, PrepareDispatchBase, SettleToolBase, PrepareInteractionBase, SettleAnswerBase, Zenon
<1>21. CASE Halt(p) \/ Cancel(p) \/ Detach(p) \/ RecoverDispatch(p)
    BY <1>21, HaltBase, CancelBase, DetachBase, RecoverDispatchBase, Zenon
<1> QED
    BY <1>1, <1>2, <1>3, <1>4, <1>5, <1>6, <1>7, <1>8, <1>9, <1>10, <1>11, <1>12, <1>13, <1>14, <1>15, <1>16,
       <1>17, <1>18, <1>19, <1>20, <1>21, SMTT(20)

\* In every state the process that holds the lock has the current epoch and a run
\* that numbers its events after those of the newest checkpoint it knows; no other
\* process has a run at all.
THEOREM BaseInductive == Spec => []BaseInv
<1>1. BaseInv /\ [Next]_vars => BaseInv'
    BY BaseNext, BaseStutter, Zenon
<1> QED
    BY <1>1, BaseInitial, PTL DEF Spec

\* Whatever fails, crashes or returns late, a checkpoint is only ever added by the
\* holder of the lease, in its epoch, and commits more of the trace than the one
\* before it (DirRunStore.SaveState, executeStep of a cancelled run).
THEOREM FencedCheckpointsAlways == Spec => FencedCheckpoints
<1>1. BaseInv /\ [Next]_vars => [FencedStep]_vars
    BY BaseNext, Zenon
<1>2. Spec => [][FencedStep]_vars
    BY <1>1, BaseInductive, PTL DEF Spec
<1> QED
    BY <1>2, PTL DEF FencedCheckpoints, FencedStep
=============================================================================
