-------------------------- MODULE DurableRunProofs --------------------------
(***************************************************************************)
(* Theorems about DurableRun, for every plan in which only the first step  *)
(* asks, every set of processes and every bound: the effect of a step is   *)
(* started at most once, an acknowledged answer is kept, the cursor names  *)
(* a step that is not settled, and a settled result stays settled.  First, *)
(* what a run remembers of its past, and what its newest checkpoint tells  *)
(* of it, is preserved by the steps that commit, start a tool or           *)
(* acknowledge an answer; then by all others.                              *)
(***************************************************************************)
EXTENDS DurableRunLeaseProofs

-----------------------------------------------------------------------------
(* Frames.                                                                 *)

LEMMA UsedSame ==
    ASSUME UNCHANGED <<effects, late>>
    PROVE  (\A s \in Steps : Used(s)' <=> Used(s)) /\ (OnceInv => OnceInv')
<1>1. \A s \in Steps : Used(s)' <=> Used(s)
    BY Zenon DEF Used
<1>2. OnceInv => OnceInv'
    BY DEF OnceInv, EffectOnce
<1> QED
    BY <1>1, <1>2, Zenon

\* The record stays true when it tells of every step in use.
LEMMA RecordSame ==
    ASSUME RecordInv, UNCHANGED <<checkpoints, acked>>, \A s \in Steps : Used(s)' => Marked(s)
    PROVE  RecordInv'
<1>1. (\A n \in DOMAIN checkpoints : SnapshotSound(checkpoints[n]))'
    BY Zenon DEF RecordInv, SnapshotSound
<1>2. \A s \in Steps : Used(s)' => Marked(s)'
    BY Zenon DEF Marked, Newest
<1>3. AckedAnswerKept'
    BY Zenon DEF RecordInv, AckedAnswerKept, Newest
<1>4. (\A s \in Steps : acked[s] # None => Kind[s] = "ask")'
    BY Zenon DEF RecordInv
<1> QED
    BY <1>1, <1>2, <1>3, <1>4, Zenon DEF RecordInv

\* The handler of p goes on with the program a and the run s.
LEMMA MemoryStep ==
    ASSUME RunIInv, BaseInv', NEW p \in Procs, lock = p, UNCHANGED <<lock, plan>>,
           NEW a, agenda' = [agenda EXCEPT ![p] = a], NEW s, run' = [run EXCEPT ![p] = s],
           RecordInv', OnceInv', Memory(s, a)'
    PROVE  RunIInv'
<1>1. agenda'[p] = a /\ run'[p] = s
    BY Zenon DEF RunIInv, BaseInv, TypeInv
<1>2. plan /\ p # None
    BY NoneAssumption, Zenon DEF RunIInv
<1>3. \A q \in Procs : lock' = q => q = p
    BY Zenon
<1>4. \A q \in Procs : lock' = q => Memory(run[q], agenda[q])'
    BY <1>1, <1>3, Zenon DEF Memory
<1> QED
    BY <1>2, <1>4, Zenon DEF RunIInv

\* What is needed of the run is the same for two runs that are alike.
LEMMA SameFit ==
    ASSUME NEW s, NEW r, SameRun(s, r), s.checkpoint = r.checkpoint, NEW g
    PROVE  /\ SoundRun(s) <=> SoundRun(r)
           /\ SoundBack(s) <=> SoundBack(r)
           /\ KeepsRun(s) <=> KeepsRun(r)
           /\ KeepsBack(s) <=> KeepsBack(r)
           /\ Current(s) <=> Current(r)
           /\ Fit(r, g) => Fit(s, g)
           /\ Recorded(r, g) => Recorded(s, g)
<1>1. s.step = r.step /\ s.dispatch = r.dispatch /\ s.turn = r.turn /\ s.back = r.back /\ s.results = r.results
    BY Zenon DEF SameRun
<1>2. Current(s) <=> Current(r)
    BY Zenon DEF Current
<1>3. (SoundRun(s) <=> SoundRun(r)) /\ (SoundBack(s) <=> SoundBack(r))
    BY <1>1, Zenon DEF SoundRun, SoundBack
<1>4. (KeepsRun(s) <=> KeepsRun(r)) /\ (KeepsBack(s) <=> KeepsBack(r))
    BY <1>1, Zenon DEF KeepsRun, KeepsBack
<1>5. Fit(r, g) => Fit(s, g)
    BY <1>1, Zenon DEF Fit, Open
<1>6. Recorded(r, g) => Recorded(s, g)
    BY <1>1, <1>2, Zenon DEF Recorded
<1> QED
    BY <1>2, <1>3, <1>4, <1>5, <1>6, Zenon

LEMMA EasyGoal ==
    ASSUME NEW r, NEW g \in {"halt", "release"}
    PROVE  Fit(r, g) /\ Recorded(r, g)
BY Zenon DEF Fit, Recorded

LEMMA AtMind ==
    ASSUME RunIInv, NEW p \in Procs, agenda[p] # <<>>
    PROVE  /\ lock = p /\ agenda[p] \in Program /\ run[p] \in RunType
           /\ Drives(run[p], agenda[p]) /\ Memory(run[p], agenda[p])
<1>1. BaseInv
    BY Zenon DEF RunIInv
<1>2. lock = p /\ agenda[p] \in Program /\ run[p] \in RunType /\ Drives(run[p], agenda[p])
    BY <1>1, AtWork, Zenon
<1> QED
    BY <1>2, Zenon DEF RunIInv

\* The goal is reached.
LEMMA MindAtGoal ==
    ASSUME RunIInv, NEW p \in Procs, NEW g \in Op \ Middle, At(p, g) \/ agenda[p] = <<g>>
    PROVE  /\ agenda[p] # <<>> /\ lock = p /\ run[p] \in RunType
           /\ Serves(run[p], g) /\ Fit(run[p], g) /\ Recorded(run[p], g)
           /\ SoundRun(run[p]) /\ SoundBack(run[p])
           /\ Current(run[p]) => KeepsRun(run[p]) /\ Holding(run[p].results)
<1>1. BaseInv
    BY Zenon DEF RunIInv
<1>2. agenda[p] # <<>> /\ Serves(run[p], g)
    BY <1>1, AtGoal
<1>3. lock = p /\ agenda[p] \in Program /\ run[p] \in RunType /\ Memory(run[p], agenda[p])
    BY <1>2, AtMind, Zenon
<1>4. End(agenda[p]) = g
  <2>1. Head(agenda[p]) = g
    BY DEF At
  <2> QED
    BY <1>3, <2>1, ProgramRest, Zenon
<1> QED
    BY <1>2, <1>3, <1>4, Zenon DEF Memory

-----------------------------------------------------------------------------
(* Commits.                                                                *)

\* The snapshot of a sound run.
LEMMA SnapshotOfSound ==
    ASSUME NEW r \in RunType, SoundRun(r), NEW c, c = Snapshot(r)
    PROVE  /\ SnapshotSound(c)
           /\ c.results = r.results /\ c.dispatch = r.dispatch /\ c.turn = r.turn
           /\ r.dispatch = "prepared" => c.next = r.step
           /\ r.turn # None => c.next = 1
<1>1. c.results = r.results /\ c.dispatch = r.dispatch /\ c.turn = r.turn /\ c.next = NextStep(r)
    BY Zenon DEF Snapshot
<1>2. r.step \in Nat /\ Steps \subseteq Nat /\ Len(Kind) \in Nat /\ Steps = 1..Len(Kind)
    BY PlanAssumption DEF RunType, Position, Steps
<1>3. Sound(r.step, r.dispatch, r.turn, r.results)
    BY Zenon DEF SoundRun
<1>4. r.turn # None => (r.step = 0 \/ r.step = 1) /\ 1 \in Steps /\ Kind[1] = "ask" /\ r.results[1] = None
    BY <1>3, Zenon DEF Sound
<1>5. r.dispatch = "prepared" => r.step \in Steps /\ Kind[r.step] = "tool" /\ r.results[r.step] = None /\ r.turn = None
    BY <1>3, Zenon DEF Sound
<1>6. r.dispatch = "prepared" => c.next = r.step
    BY <1>1, Zenon DEF NextStep
<1>7. r.turn # None => c.next = 1
  <2>1. CASE r.step = 1
    BY <1>1, <1>4, <2>1, Zenon DEF NextStep
  <2>2. CASE r.step = 0
    BY <1>1, <1>2, <1>4, <1>5, <2>2 DEF NextStep
  <2> QED
    BY <1>4, <2>1, <2>2, Zenon
<1>8. \/ c.next = r.step /\ r.step \in Steps /\ r.results[r.step] = None
      \/ c.next = r.step + 1
      \/ c.next = Len(Kind) + 1
    BY <1>1, <1>2, <1>4, <1>5 DEF NextStep
<1>9. \A s \in Steps : s > r.step => r.results[s] = None
    BY <1>3, Zenon DEF Sound
<1>10. \A s \in Steps : s >= c.next => r.results[s] = None
    BY <1>2, <1>8, <1>9
<1>11. SnapshotSound(c)
    BY <1>1, <1>4, <1>5, <1>6, <1>7, <1>10, Zenon DEF SnapshotSound
<1> QED
    BY <1>1, <1>6, <1>7, <1>11, Zenon

\* The checkpoint that a commit publishes.
LEMMA PublishedSound ==
    ASSUME BaseInv, NEW r \in RunType, NEW n \in Nat \ {0}, Owned(r), Published(r, n), SoundRun(r)
    PROVE  /\ checkpoints' # <<>> /\ Len(checkpoints') = Len(checkpoints) + 1
           /\ DOMAIN checkpoints' = DOMAIN checkpoints \cup {Len(checkpoints) + 1}
           /\ \A i \in DOMAIN checkpoints : checkpoints'[i] = checkpoints[i]
           /\ Newest' = checkpoints'[Len(checkpoints) + 1]
           /\ SnapshotSound(Newest')
           /\ Newest'.results = r.results /\ Newest'.dispatch = r.dispatch /\ Newest'.turn = r.turn
           /\ r.dispatch = "prepared" => Newest'.next = r.step
           /\ r.turn # None => Newest'.next = 1
<1>1. /\ checkpoints' # <<>> /\ Len(checkpoints') = Len(checkpoints) + 1
      /\ DOMAIN checkpoints' = DOMAIN checkpoints \cup {Len(checkpoints) + 1}
      /\ \A i \in DOMAIN checkpoints : checkpoints'[i] = checkpoints[i]
      /\ Newest' = Snapshot(Staged(r, n))
    BY PublishedCheckpoint, Zenon DEF BaseInv, TypeInv
<1>2. PICK g : g = Staged(r, n)
    BY Zenon
<1>3. g \in RunType /\ g.dispatch = r.dispatch /\ g.turn = r.turn /\ g.step = r.step /\ g.results = r.results
    BY <1>2, StagedRun, Zenon DEF SameWork
<1>4. SoundRun(g)
    BY <1>3, Zenon DEF SoundRun
<1>5. PICK c : c = Snapshot(g)
    BY Zenon
<1>6. Newest' = c
    BY <1>1, <1>2, <1>5, Zenon
<1>7. /\ SnapshotSound(c)
      /\ c.results = r.results /\ c.dispatch = r.dispatch /\ c.turn = r.turn
      /\ r.dispatch = "prepared" => c.next = r.step
      /\ r.turn # None => c.next = 1
    BY <1>3, <1>4, <1>5, SnapshotOfSound, Zenon
<1>8. Newest' = checkpoints'[Len(checkpoints) + 1]
    BY <1>1, Zenon DEF Newest
<1> QED
    BY <1>1, <1>6, <1>7, <1>8, Zenon

\* What is recorded then.
LEMMA PublishedRecord ==
    ASSUME QuestionsFirst, BaseInv, RecordInv, UNCHANGED acked,
           NEW r \in RunType, NEW n \in Nat \ {0}, Owned(r), Published(r, n), SoundRun(r), KeepsRun(r)'
    PROVE  RecordInv'
<1>1. /\ checkpoints' # <<>>
      /\ DOMAIN checkpoints' = DOMAIN checkpoints \cup {Len(checkpoints) + 1}
      /\ \A i \in DOMAIN checkpoints : checkpoints'[i] = checkpoints[i]
      /\ Newest' = checkpoints'[Len(checkpoints) + 1]
      /\ SnapshotSound(Newest')
      /\ Newest'.results = r.results /\ Newest'.dispatch = r.dispatch /\ Newest'.turn = r.turn
      /\ r.dispatch = "prepared" => Newest'.next = r.step
      /\ r.turn # None => Newest'.next = 1
    BY PublishedSound, Zenon
<1>2. (\A i \in DOMAIN checkpoints : SnapshotSound(checkpoints[i]))'
  <2>1. \A i \in DOMAIN checkpoints : SnapshotSound(checkpoints'[i])
    BY <1>1, Zenon DEF RecordInv
  <2>2. \A i \in DOMAIN checkpoints' : SnapshotSound(checkpoints'[i])
    BY <1>1, <2>1, Zenon
  <2> QED
    BY <2>2, Zenon DEF SnapshotSound
<1>3. \A s \in Steps : Used(s)' => r.results[s] # None \/ (r.dispatch = "prepared" /\ r.step = s)
    BY Zenon DEF KeepsRun, Keeps
<1>4. \A s \in Steps : Used(s)' => Marked(s)'
    BY <1>1, <1>3, Zenon DEF Marked
<1>5. \A s \in Steps : acked'[s] # None => r.results[s] = acked'[s] \/ (r.turn = acked'[s] /\ r.results[s] = None)
    BY Zenon DEF KeepsRun, Keeps
<1>6. (\A s \in Steps : acked[s] # None => Kind[s] = "ask")'
    BY Zenon DEF RecordInv
<1>7. \A s \in Steps : acked'[s] # None => s = 1
    BY <1>6, Zenon DEF QuestionsFirst
<1>8. AckedAnswerKept'
    BY <1>1, <1>5, <1>7, Zenon DEF AckedAnswerKept
<1> QED
    BY <1>2, <1>4, <1>6, <1>8, Zenon DEF RecordInv

\* The run after a commit that succeeded,
LEMMA SavedMemory ==
    ASSUME BaseInv, NEW p \in Procs, NEW r \in RunType, NEW n \in Nat \ {0}, NEW s, NEW a,
           Owned(r), Saves(p, r), Published(r, n), SavedRun(s, r, n), SoundRun(r), SoundBack(r),
           KeepsRun(r)', KeepsBack(r)', Fit(r, End(a))', End(a) \in {"ready", "exec", "asking", "accepted", "release"}
    PROVE  Memory(s, a)'
<1>1. /\ checkpoints' # <<>> /\ Len(checkpoints') = Len(checkpoints) + 1
      /\ Newest'.results = r.results /\ Newest'.dispatch = r.dispatch /\ Newest'.turn = r.turn
      /\ r.dispatch = "prepared" => Newest'.next = r.step
      /\ r.turn # None => Newest'.next = 1
    BY PublishedSound, Zenon
<1>2. /\ s.step = r.step /\ s.dispatch = r.dispatch /\ s.turn = r.turn /\ s.back = r.back /\ s.results = r.results
      /\ s.checkpoint = r.checkpoint + 1
    BY Zenon DEF SavedRun, SameRun
<1>3. Current(s)'
    BY <1>1, <1>2, Zenon DEF Saves, Current
<1>4. SoundRun(s)' /\ SoundBack(s)'
    BY <1>2, Zenon DEF SoundRun, SoundBack, Sound
<1>5. KeepsRun(s)' /\ KeepsBack(s)'
    BY <1>2, Zenon DEF KeepsRun, KeepsBack
<1>6. Holding(s.results)'
    BY <1>1, <1>2, Zenon DEF Holding
<1>7. Fit(s, End(a))'
    BY <1>2, Zenon DEF Fit, Open
<1>8. CASE End(a) = "exec"
  <2>1. r.dispatch = "prepared"
    BY <1>8, Zenon DEF Fit
  <2>2. Recorded(s, End(a))'
    BY <1>1, <1>2, <1>8, <2>1, Zenon DEF Recorded
  <2> QED
    BY <1>4, <1>5, <1>6, <1>7, <2>2, Zenon DEF Memory
<1>9. CASE End(a) = "accepted"
  <2>1. r.turn \in Answers /\ r.results[1] = None
    BY <1>9, Zenon DEF Fit
  <2>2. r.turn # None
    BY <2>1, NoneAssumption, Zenon
  <2>3. Recorded(s, End(a))'
    BY <1>1, <1>2, <1>3, <1>9, <2>1, <2>2, Zenon DEF Recorded
  <2> QED
    BY <1>4, <1>5, <1>6, <1>7, <2>3, Zenon DEF Memory
<1>10. CASE End(a) \notin {"exec", "accepted"}
  <2>1. Recorded(s, End(a))'
    BY <1>3, <1>10, Zenon DEF Recorded
  <2> QED
    BY <1>4, <1>5, <1>6, <1>7, <2>1, Zenon DEF Memory
<1> QED
    BY <1>8, <1>9, <1>10, Zenon

\* and after one that did not.
LEMMA BackMemory ==
    ASSUME BaseInv, NEW p \in Procs, NEW r \in RunType, NEW n \in Nat \ {0}, NEW s, NEW a,
           Owned(r), BackRun(s, r), SoundBack(r),
           UNCHANGED checkpoints \/ (Saves(p, r) /\ Published(r, n) /\ SoundRun(r)),
           Current(r) => KeepsBack(r)' /\ Holding(r.results),
           Fit(PutBack(r), End(a))', End(a) \in {"asking", "halt", "release"}
    PROVE  Memory(s, a)'
<1>1. PICK b : b = PutBack(r)
    BY Zenon
<1>2. /\ b.step = r.step /\ b.dispatch = r.back.dispatch /\ b.turn = r.back.turn /\ b.back = r.back
      /\ b.results = r.results /\ b.checkpoint = r.checkpoint
    BY <1>1, PutBackRun, Zenon DEF SameWork
<1>3. SameRun(s, b) /\ s.checkpoint = r.checkpoint
    BY <1>1, <1>2, Zenon DEF SameRun, BackRun, SameLog
<1>4. /\ s.step = r.step /\ s.dispatch = r.back.dispatch /\ s.turn = r.back.turn /\ s.back = r.back
      /\ s.results = r.results
    BY Zenon DEF BackRun
<1>5. SoundRun(s)' /\ SoundBack(s)'
    BY <1>4, Zenon DEF SoundRun, SoundBack, Sound
<1>6. Fit(b, End(a))'
    BY <1>1, Zenon
<1>7. Fit(s, End(a))'
    BY <1>2, <1>4, <1>6, Zenon DEF Fit, Open
<1>8. Recorded(s, End(a))'
    BY Zenon DEF Recorded
<1>9. ASSUME Current(s)' PROVE KeepsRun(s)' /\ KeepsBack(s)' /\ Holding(s.results)'
  <2>1. r.checkpoint \in Nat /\ Len(checkpoints) \in Nat
    BY DEF BaseInv, TypeInv, RunType
  <2>2. CASE UNCHANGED checkpoints
    <3>1. Current(r)
      BY <1>3, <1>9, <2>2, Zenon DEF Current
    <3> QED
      BY <1>4, <2>2, <3>1, Zenon DEF KeepsRun, KeepsBack, Holding, Newest
  <2>3. CASE Saves(p, r) /\ Published(r, n) /\ SoundRun(r)
    <3>1. Len(checkpoints') = Len(checkpoints) + 1
      BY <2>3, PublishedSound, Zenon
    <3> QED
      BY <1>3, <1>9, <2>1, <2>3, <3>1 DEF Current, Saves
  <2> QED
    BY <2>2, <2>3, Zenon
<1> QED
    BY <1>5, <1>7, <1>8, <1>9, Zenon DEF Memory

\* What a checkpoint settled stays settled.
StableStep ==
    checkpoints # <<>> =>
        \A s \in Steps : Newest.results[s] # None => Newest'.results[s] = Newest.results[s]

\* A commit preserves both invariants, and what was settled before it.
LEMMA CommitMemory ==
    ASSUME QuestionsFirst, RunIInv, BaseInv', NEW p \in Procs, lock = p, UNCHANGED <<lock, plan, acked>>,
           OnceInv', \A t \in Steps : Used(t)' => Marked(t),
           NEW r \in RunType, NEW n \in Nat \ {0}, NEW then, NEW otherwise, Commit(p, r, n, then, otherwise),
           Owned(r), SoundRun(r), SoundBack(r),
           Current(r) => KeepsRun(r)' /\ KeepsBack(r)' /\ Holding(r.results),
           Fit(r, End(then))', Fit(PutBack(r), End(otherwise))',
           End(then) \in {"ready", "exec", "asking", "accepted", "release"},
           End(otherwise) \in {"asking", "halt", "release"}
    PROVE  RunIInv' /\ StableStep
<1>1. BaseInv /\ RecordInv /\ faults \in Nat
    BY Zenon DEF RunIInv, BaseInv, TypeInv
<1>2. PICK s \in RunType, a \in {then, otherwise} :
        /\ run' = [run EXCEPT ![p] = s] /\ agenda' = [agenda EXCEPT ![p] = a]
        /\ Outcome(p, r, n, then, otherwise, s, a)
    BY <1>1, CommitOutcome
<1>3. Saves(p, r) => Current(r)
    BY Zenon DEF Saves, Current
<1>4. Saves(p, r) /\ Published(r, n) => RecordInv'
    BY <1>1, <1>3, PublishedRecord, Zenon
<1>5. UNCHANGED checkpoints => RecordInv'
    BY <1>1, RecordSame, Zenon
<1>s. StableStep
  <2>1. CASE Saves(p, r) /\ Published(r, n)
    <3>1. Newest'.results = r.results /\ Holding(r.results)
      BY <1>1, <1>3, <2>1, PublishedSound, Zenon
    <3> QED
      BY <3>1, Zenon DEF StableStep, Holding
  <2>2. CASE UNCHANGED checkpoints
    BY <2>2, Zenon DEF StableStep, Newest
  <2> QED
    BY <1>2, <2>1, <2>2, Zenon DEF Outcome
<1>6. CASE Saves(p, r) /\ Published(r, n) /\ SavedRun(s, r, n) /\ a = then
  <2>1. Memory(s, a)'
    BY <1>1, <1>3, <1>6, SavedMemory, Zenon
  <2> QED
    BY <1>2, <1>4, <1>6, <1>s, <2>1, MemoryStep, Zenon
<1>7. CASE checkpoints' = checkpoints /\ BackRun(s, r) /\ a = otherwise
  <2>1. Memory(s, a)'
    BY <1>1, <1>7, BackMemory, Zenon
  <2> QED
    BY <1>2, <1>5, <1>7, <1>s, <2>1, MemoryStep, Zenon
<1>8. CASE Saves(p, r) /\ Published(r, n) /\ BackRun(s, r) /\ a = otherwise
  <2>1. Memory(s, a)'
    BY <1>1, <1>8, BackMemory, Zenon
  <2> QED
    BY <1>2, <1>4, <1>8, <1>s, <2>1, MemoryStep, Zenon
<1> QED
    BY <1>2, <1>6, <1>7, <1>8, Zenon DEF Outcome

\* A run that may be committed.
Coherent(x) ==
    /\ x \in RunType /\ Owned(x) /\ SoundRun(x) /\ SoundBack(x)
    /\ Current(x) => KeepsRun(x) /\ KeepsBack(x) /\ Holding(x.results)

\* The frame of a commit.
LEMMA CommitOnly ==
    ASSUME QuestionsFirst, RunIInv, BaseInv', NEW p \in Procs, lock = p, UNCHANGED <<onlyCommit, late, ghosts>>,
           NEW x, Coherent(x), NEW n \in Nat \ {0}, NEW then, NEW otherwise, Commit(p, x, n, then, otherwise),
           NEW first, NEW g \in {"ready", "exec", "asking", "accepted", "release"}, Leads(then, first, g), Fit(x, g),
           NEW start, NEW h \in {"asking", "halt", "release"}, Leads(otherwise, start, h), Fit(PutBack(x), h)
    PROVE  RunIInv' /\ StableStep
<1>1. UNCHANGED <<lock, plan, late, effects, acked>>
    BY Zenon DEF onlyCommit, ghosts
<1>2. (\A t \in Steps : Used(t)' <=> Used(t)) /\ OnceInv'
    BY <1>1, UsedSame, Zenon DEF RunIInv
<1>3. \A t \in Steps : Used(t)' => Marked(t)
    BY <1>2, Zenon DEF RunIInv, RecordInv
<1>4. x \in RunType /\ Owned(x) /\ SoundRun(x) /\ SoundBack(x)
    BY Zenon DEF Coherent
<1>5. (KeepsRun(x)' <=> KeepsRun(x)) /\ (KeepsBack(x)' <=> KeepsBack(x))
    BY <1>1, <1>2, Zenon DEF KeepsRun, KeepsBack, Keeps
<1>6. Current(x) => KeepsRun(x)' /\ KeepsBack(x)' /\ Holding(x.results)
    BY <1>5, Zenon DEF Coherent
<1>7. End(then) = g /\ End(otherwise) = h
    BY Zenon DEF Leads
<1>8. Fit(x, End(then))'
    BY <1>1, <1>7, Zenon DEF Fit, Used
<1>9. PICK b : b = PutBack(x)
    BY Zenon
<1>10. Fit(b, End(otherwise))'
    BY <1>1, <1>7, <1>9, Zenon DEF Fit, Used
<1> QED
    BY <1>1, <1>2, <1>3, <1>4, <1>6, <1>7, <1>8, <1>9, <1>10, CommitMemory, Zenon

\* A run made from r.
LEMMA ViewCoherent ==
    ASSUME NEW r \in RunType, NEW x, NEW step, NEW d, NEW t, NEW b, NEW w, View(x, r, step, d, t, b, w), Owned(r),
           Sound(step, d, t, w), Sound(step, b.dispatch, b.turn, w),
           Current(r) => Keeps(step, d, t, w) /\ Keeps(step, b.dispatch, b.turn, w) /\ Holding(w)
    PROVE  Coherent(x)
<1>1. d = "prepared" \/ b.dispatch = "prepared" => step \in Steps
    BY Zenon DEF Sound
<1>2. x \in RunType /\ Owned(x)
    BY <1>1, ViewOwned, Zenon
<1>3. x.step = step /\ x.dispatch = d /\ x.turn = t /\ x.back = b /\ x.results = w /\ x.checkpoint = r.checkpoint
    BY Zenon DEF View, SameLog
<1>4. Current(x) <=> Current(r)
    BY <1>3, Zenon DEF Current
<1>5. SoundRun(x) /\ SoundBack(x)
    BY <1>3, Zenon DEF SoundRun, SoundBack
<1>6. Current(x) => KeepsRun(x) /\ KeepsBack(x) /\ Holding(x.results)
    BY <1>3, <1>4, Zenon DEF KeepsRun, KeepsBack
<1> QED
    BY <1>2, <1>5, <1>6, Zenon DEF Coherent

\* The current step is settled with the result v.
LEMMA Settling ==
    ASSUME QuestionsFirst, RecordInv, NEW r \in RunType, r.step \in Steps, r.results[r.step] = None, SoundRun(r),
           Current(r) => KeepsRun(r) /\ Holding(r.results),
           NEW v \in Result, r.turn # None => v = r.turn /\ r.step = 1,
           NEW d, d # "prepared", NEW w, w = [r.results EXCEPT ![r.step] = v]
    PROVE  Sound(r.step, d, None, w) /\ (Current(r) => Keeps(r.step, d, None, w) /\ Holding(w))
<1>1. DOMAIN r.results = Steps
    BY Zenon DEF RunType, Results
<1>2. w[r.step] = v /\ \A s \in Steps : s # r.step => w[s] = r.results[s]
    BY <1>1, Zenon
<1>3. v # None
    BY NoneAssumption, Zenon DEF Result
<1>4. Steps \subseteq Nat
    BY PlanAssumption DEF Steps
<1>5. \A s \in Steps : s > r.step => w[s] = None
    BY <1>2, <1>4 DEF SoundRun, Sound
<1>6. Sound(r.step, d, None, w)
    BY <1>5, Zenon DEF Sound
<1>7. ASSUME Current(r) PROVE Keeps(r.step, d, None, w) /\ Holding(w)
  <2>1. \A s \in Steps : Used(s) => r.results[s] # None \/ r.step = s
    BY <1>7, Zenon DEF KeepsRun, Keeps
  <2>2. \A s \in Steps : Used(s) => w[s] # None
    BY <1>2, <1>3, <2>1, Zenon
  <2>3. \A s \in Steps : acked[s] # None => s = 1 /\ (r.results[s] = acked[s] \/ (r.turn = acked[s] /\ r.results[s] = None))
    BY <1>7, Zenon DEF KeepsRun, Keeps, QuestionsFirst, RecordInv
  <2>4. \A s \in Steps : acked[s] # None => w[s] = acked[s]
    BY <1>2, <2>3, Zenon
  <2>5. Holding(w)
    BY <1>2, <1>7, Zenon DEF Holding
  <2> QED
    BY <2>2, <2>4, <2>5, Zenon DEF Keeps
<1> QED
    BY <1>6, <1>7, Zenon

LEMMA SettledRun ==
    ASSUME QuestionsFirst, RecordInv, NEW r \in RunType, Owned(r), r.step \in Steps, r.results[r.step] = None,
           SoundRun(r), Current(r) => KeepsRun(r) /\ Holding(r.results),
           NEW v \in Result, r.turn # None => v = r.turn /\ r.step = 1, NEW d, d # "prepared",
           NEW x, View(x, r, r.step, d, None, [dispatch |-> d, turn |-> None], [r.results EXCEPT ![r.step] = v])
    PROVE  Coherent(x) /\ Fit(x, "ready")
<1>1. PICK w : w = [r.results EXCEPT ![r.step] = v]
    BY Zenon
<1>2. Sound(r.step, d, None, w) /\ (Current(r) => Keeps(r.step, d, None, w) /\ Holding(w))
    BY <1>1, Settling, Zenon
<1>3. PICK b : b = [dispatch |-> d, turn |-> None]
    BY Zenon
<1>4. b.dispatch = d /\ b.turn = None
    BY <1>3, Zenon
<1>5. View(x, r, r.step, d, None, b, w)
    BY <1>1, <1>3, Zenon
<1>6. Coherent(x)
    BY <1>2, <1>4, <1>5, ViewCoherent, Zenon
<1>7. x.dispatch = d /\ x.turn = None /\ x.back = b
    BY <1>5, Zenon DEF View
<1> QED
    BY <1>4, <1>6, <1>7, Zenon DEF Fit

\* Nothing but the status is new.
LEMMA SameCoherent ==
    ASSUME NEW r \in RunType, Owned(r), SoundRun(r), Current(r) => KeepsRun(r) /\ Holding(r.results),
           NEW x, View(x, r, r.step, r.dispatch, r.turn, Open(r), r.results)
    PROVE  Coherent(x)
<1>1. Open(r).dispatch = r.dispatch /\ Open(r).turn = r.turn
    BY Zenon DEF Open
<1>2. PICK b : b = Open(r)
    BY Zenon
<1>3. View(x, r, r.step, r.dispatch, r.turn, b, r.results) /\ b.dispatch = r.dispatch /\ b.turn = r.turn
    BY <1>1, <1>2, Zenon
<1> QED
    BY <1>3, ViewCoherent, Zenon DEF SoundRun, KeepsRun

\* An open dispatch is given up.
LEMMA GivenUpCoherent ==
    ASSUME QuestionsFirst, RecordInv, NEW r \in RunType, Owned(r), SoundRun(r),
           Current(r) => KeepsRun(r) /\ Holding(r.results), NEW i, i = Indeterminate(r),
           NEW x, View(x, r, r.step, i.dispatch, r.turn, [dispatch |-> i.dispatch, turn |-> r.turn], i.results)
    PROVE  Coherent(x)
<1>1. CASE r.dispatch = "prepared"
  <2>1. i.dispatch = "indeterminate" /\ i.results = [r.results EXCEPT ![r.step] = "indeterminate"]
    BY <1>1, IndeterminateView, Zenon DEF View
  <2>2. r.step \in Steps /\ r.results[r.step] = None /\ r.turn = None
    BY <1>1, Zenon DEF SoundRun, Sound
  <2>3. "indeterminate" \in Result
    BY Zenon DEF Result
  <2> QED
    BY <2>1, <2>2, <2>3, SettledRun
<1>2. CASE r.dispatch # "prepared"
  <2>1. i = r
    BY <1>2, IndeterminateView, Zenon
  <2> QED
    BY <2>1, SameCoherent, Zenon DEF Open
<1> QED
    BY <1>1, <1>2, Zenon

-----------------------------------------------------------------------------
(* The steps that commit.                                                  *)

LEMMA PrepareDispatchMemory ==
    ASSUME QuestionsFirst, RunIInv, BaseInv', NEW p \in Procs, PrepareDispatch(p)
    PROVE  RunIInv' /\ StableStep
<1>1. PICK r : r = run[p]
    BY Zenon
<1>2. /\ lock = p /\ r \in RunType /\ Serves(r, "tool") /\ Fit(r, "tool")
      /\ SoundRun(r) /\ (Current(r) => KeepsRun(r) /\ Holding(r.results))
    BY <1>1, MindAtGoal, Goals, Zenon DEF PrepareDispatch
<1>3. PICK x : x = Prepared(r)
    BY Zenon
<1>4. PICK b : b = Open(r)
    BY Zenon
<1>5. View(x, r, r.step, "prepared", r.turn, b, r.results) /\ b.dispatch = r.dispatch /\ b.turn = r.turn
    BY <1>2, <1>3, <1>4, PreparedView, Zenon DEF Open
<1>6. /\ r.step \in Steps /\ Owned(r)
      /\ r.dispatch = "none" /\ r.turn = None /\ Kind[r.step] = "tool" /\ r.results[r.step] = None /\ ~Used(r.step)
    BY <1>2, Zenon DEF Serves, Placed, Fit
<1>7. Sound(r.step, r.dispatch, r.turn, r.results) /\ Sound(r.step, "prepared", r.turn, r.results)
    BY <1>2, <1>6, Zenon DEF SoundRun, Sound
<1>8. Current(r) => /\ Keeps(r.step, r.dispatch, r.turn, r.results)
                    /\ Keeps(r.step, "prepared", r.turn, r.results) /\ Holding(r.results)
    BY <1>2, <1>6, Zenon DEF KeepsRun, Keeps
<1>9. Coherent(x)
    BY <1>2, <1>5, <1>6, <1>7, <1>8, ViewCoherent, Zenon
<1>10. Fit(x, "exec")
    BY <1>5, <1>6, Zenon DEF Fit, View
<1>11. Commit(p, x, 1, <<"project", "emit?", "emit!", "exec">>, <<"halt">>) /\ UNCHANGED <<onlyCommit, late, ghosts>>
    BY <1>1, <1>3, Zenon DEF PrepareDispatch, Prepared
<1>12. /\ Leads(<<"project", "emit?", "emit!", "exec">>, "project", "exec") /\ Leads(<<"halt">>, "halt", "halt")
       /\ Fit(PutBack(x), "halt")
    BY Programs, EasyGoal, Zenon
<1> QED
    BY <1>2, <1>9, <1>10, <1>11, <1>12, CommitOnly

LEMMA CompleteMemory ==
    ASSUME QuestionsFirst, RunIInv, BaseInv', NEW p \in Procs, Complete(p)
    PROVE  RunIInv' /\ StableStep
<1>1. PICK r : r = run[p]
    BY Zenon
<1>2. /\ lock = p /\ r \in RunType /\ Serves(r, "ready") /\ Fit(r, "ready")
      /\ SoundRun(r) /\ (Current(r) => KeepsRun(r) /\ Holding(r.results)) /\ r.step >= Len(Kind)
    BY <1>1, MindAtGoal, Goals, Zenon DEF Complete
<1>3. PICK x : x = Finished(r)
    BY Zenon
<1>4. PICK b : b = Open(r)
    BY Zenon
<1>5. PICK k : k = Len(Kind) + 1
    BY Zenon
<1>6. View(x, r, k, r.dispatch, r.turn, b, r.results) /\ b.dispatch = r.dispatch /\ b.turn = r.turn
    BY <1>2, <1>3, <1>4, <1>5, FinishedView, Zenon DEF Open
<1>7. r.dispatch # "prepared" /\ r.turn = None /\ Owned(r)
  <2>1. r.turn # None => r.step = 0 /\ 1 \in Steps
    BY <1>2, Zenon DEF Fit, SoundRun, Sound
  <2>2. 1 \in Steps => Len(Kind) >= 1 /\ Len(Kind) \in Nat
    BY PlanAssumption DEF Steps
  <2>3. r.turn = None
    BY <1>2, <2>1, <2>2
  <2> QED
    BY <1>2, <2>3, Zenon DEF Fit, Serves
<1>8. \A s \in Steps : ~(s > k)
    BY <1>5, PlanAssumption DEF Steps
<1>9. Sound(k, r.dispatch, r.turn, r.results)
    BY <1>7, <1>8, Zenon DEF Sound
<1>10. Current(r) => Keeps(k, r.dispatch, r.turn, r.results) /\ Holding(r.results)
    BY <1>2, <1>7, Zenon DEF KeepsRun, Keeps
<1>11. Coherent(x)
    BY <1>2, <1>6, <1>7, <1>9, <1>10, ViewCoherent, Zenon
<1>12. Commit(p, x, 2, <<"project", "emit!", "release">>, <<"halt">>) /\ UNCHANGED <<onlyCommit, late, ghosts>>
    BY <1>1, <1>3, Zenon DEF Complete, Finished
<1>13. /\ Leads(<<"project", "emit!", "release">>, "project", "release") /\ Leads(<<"halt">>, "halt", "halt")
       /\ Fit(x, "release") /\ Fit(PutBack(x), "halt")
    BY Programs, EasyGoal, Zenon
<1> QED
    BY <1>2, <1>11, <1>12, <1>13, CommitOnly

LEMMA SettleToolMemory ==
    ASSUME QuestionsFirst, RunIInv, BaseInv', NEW p \in Procs, SettleTool(p)
    PROVE  RunIInv' /\ StableStep
<1>1. PICK r : r = run[p]
    BY Zenon
<1>2. /\ lock = p /\ r \in RunType /\ Serves(r, "running") /\ Fit(r, "running")
      /\ SoundRun(r) /\ (Current(r) => KeepsRun(r) /\ Holding(r.results))
    BY <1>1, MindAtGoal, Goals, Zenon DEF SettleTool
<1>3. r.dispatch = "prepared" /\ Owned(r) /\ RecordInv
    BY <1>2, Zenon DEF Fit, Serves, RunIInv
<1>4. r.step \in Steps /\ r.results[r.step] = None /\ r.turn = None
    BY <1>2, <1>3, Zenon DEF SoundRun, Sound
<1>5. {"done", "failed", "indeterminate"} \subseteq Result
    BY Zenon DEF Result
<1>6. ASSUME NEW v \in {"done", "failed", "indeterminate"}, NEW d \in {"settled", "indeterminate"}, NEW x,
             View(x, r, r.step, d, r.turn, [dispatch |-> d, turn |-> r.turn], [r.results EXCEPT ![r.step] = v])
      PROVE  Coherent(x) /\ Fit(x, "ready")
    BY <1>2, <1>3, <1>4, <1>5, <1>6, SettledRun, Zenon
<1>7. UNCHANGED <<onlyCommit, late, ghosts>>
    BY Zenon DEF SettleTool
<1>8. /\ \A e \in {"emit!", "emit?"}, g \in {"release", "ready"} : Leads(<<"project", e, g>>, "project", g)
      /\ Leads(<<"halt">>, "halt", "halt")
    BY Programs, Zenon
<1>9. \A x : Fit(x, "release") /\ Fit(PutBack(x), "halt")
    BY EasyGoal, Zenon
<1>10. ASSUME NEW x, x = Succeeded(r), Commit(p, x, 2, <<"project", "emit!", "ready">>, <<"halt">>)
       PROVE  RunIInv' /\ StableStep
  <2>1. Coherent(x) /\ Fit(x, "ready")
    BY <1>2, <1>6, <1>10, SucceededView, Zenon
  <2> QED
    BY <1>2, <1>7, <1>8, <1>9, <1>10, <2>1, CommitOnly
<1>11. ASSUME NEW x, x = Failed(r), Commit(p, x, 2, <<"project", "emit!", "release">>, <<"halt">>)
       PROVE  RunIInv' /\ StableStep
  <2>1. Coherent(x)
    BY <1>2, <1>6, <1>11, FailedView, Zenon
  <2> QED
    BY <1>2, <1>7, <1>8, <1>9, <1>11, <2>1, CommitOnly
<1>12. ASSUME NEW x, x = Indeterminate(r), Commit(p, x, 2, <<"project", "emit?", "release">>, <<"halt">>)
       PROVE  RunIInv' /\ StableStep
  <2>1. Coherent(x)
    BY <1>2, <1>3, <1>6, <1>12, IndeterminateView, Zenon
  <2> QED
    BY <1>2, <1>7, <1>8, <1>9, <1>12, <2>1, CommitOnly
<1> QED
    BY <1>1, <1>10, <1>11, <1>12, Zenon DEF SettleTool, Succeeded, Failed

\* While the question is open nothing else can be acknowledged.
LEMMA NothingAcked ==
    ASSUME QuestionsFirst, RecordInv, acked[1] = None
    PROVE  \A s \in Steps : acked[s] = None
BY Zenon DEF RecordInv, QuestionsFirst

LEMMA PrepareInteractionMemory ==
    ASSUME QuestionsFirst, RunIInv, BaseInv', NEW p \in Procs, PrepareInteraction(p)
    PROVE  RunIInv' /\ StableStep
<1>1. PICK r : r = run[p]
    BY Zenon
<1>2. /\ lock = p /\ r \in RunType /\ Serves(r, "ask") /\ Fit(r, "ask") /\ Recorded(r, "ask")
      /\ SoundRun(r) /\ (Current(r) => KeepsRun(r) /\ Holding(r.results)) /\ r.turn \notin Answers
    BY <1>1, MindAtGoal, Goals, Zenon DEF PrepareInteraction
<1>3. PICK x : x = Asked(r)
    BY Zenon
<1>4. PICK b : b = Open(r)
    BY Zenon
<1>5. View(x, r, r.step, r.dispatch, "pending", b, r.results) /\ b.dispatch = r.dispatch /\ b.turn = r.turn
    BY <1>2, <1>3, <1>4, AskedView, Zenon DEF Open
<1>6. /\ r.step = 1 /\ 1 \in Steps /\ Owned(r) /\ Current(r)
      /\ Kind[1] = "ask" /\ r.results[1] = None /\ r.dispatch # "prepared"
    BY <1>2, Zenon DEF Serves, Placed, Fit, Recorded
<1>7. acked[1] = None
  <2>1. acked[1] \in Answers \cup {None}
    BY <1>6, Zenon DEF RunIInv, BaseInv, TypeInv
  <2>2. acked[1] # None => r.turn = acked[1]
    BY <1>2, <1>6, Zenon DEF KeepsRun, Keeps
  <2> QED
    BY <1>2, <2>1, <2>2, Zenon
<1>8. \A s \in Steps : acked[s] = None
    BY <1>7, NothingAcked, Zenon DEF RunIInv
<1>9. Sound(r.step, r.dispatch, r.turn, r.results) /\ Sound(r.step, r.dispatch, "pending", r.results)
    BY <1>2, <1>6, Zenon DEF SoundRun, Sound
<1>10. /\ Keeps(r.step, r.dispatch, r.turn, r.results)
       /\ Keeps(r.step, r.dispatch, "pending", r.results) /\ Holding(r.results)
    BY <1>2, <1>6, <1>8, Zenon DEF KeepsRun, Keeps
<1>11. Coherent(x)
    BY <1>2, <1>5, <1>6, <1>9, <1>10, ViewCoherent, Zenon
<1>12. Fit(x, "asking")
    BY <1>5, <1>6, <1>7, Zenon DEF Fit, View
<1>13. Commit(p, x, 1, <<"project", "asking">>, <<"halt">>) /\ UNCHANGED <<onlyCommit, late, ghosts>>
    BY <1>1, <1>3, Zenon DEF PrepareInteraction, Asked
<1>14. /\ Leads(<<"project", "asking">>, "project", "asking") /\ Leads(<<"halt">>, "halt", "halt")
       /\ Fit(PutBack(x), "halt")
    BY Programs, EasyGoal, Zenon
<1> QED
    BY <1>2, <1>11, <1>12, <1>13, <1>14, CommitOnly

LEMMA AcceptInteractionMemory ==
    ASSUME QuestionsFirst, RunIInv, BaseInv', NEW p \in Procs, NEW answer \in Answers, AcceptInteraction(p, answer)
    PROVE  RunIInv' /\ StableStep
<1>1. PICK r : r = run[p]
    BY Zenon
<1>2. /\ lock = p /\ r \in RunType /\ Serves(r, "asking") /\ Fit(r, "asking")
      /\ SoundRun(r) /\ (Current(r) => KeepsRun(r) /\ Holding(r.results))
    BY <1>1, MindAtGoal, Goals, Zenon DEF AcceptInteraction
<1>3. PICK x : x = Accepted(r, answer)
    BY Zenon
<1>4. PICK b : b = Open(r)
    BY Zenon
<1>5. View(x, r, r.step, r.dispatch, answer, b, r.results) /\ b.dispatch = r.dispatch /\ b.turn = r.turn
    BY <1>2, <1>3, <1>4, AcceptedView, Zenon DEF Open
<1>6. /\ r.step = 1 /\ 1 \in Steps /\ Owned(r) /\ acked[1] = None
      /\ Kind[1] = "ask" /\ r.results[1] = None /\ r.dispatch # "prepared"
    BY <1>2, Zenon DEF Serves, Placed, Fit
<1>7. \A s \in Steps : acked[s] = None
    BY <1>6, NothingAcked, Zenon DEF RunIInv
<1>8. Sound(r.step, r.dispatch, r.turn, r.results) /\ Sound(r.step, r.dispatch, answer, r.results)
    BY <1>2, <1>6, Zenon DEF SoundRun, Sound
<1>9. Current(r) => /\ Keeps(r.step, r.dispatch, r.turn, r.results)
                    /\ Keeps(r.step, r.dispatch, answer, r.results) /\ Holding(r.results)
    BY <1>2, <1>7, Zenon DEF KeepsRun, Keeps
<1>10. Coherent(x)
    BY <1>2, <1>5, <1>6, <1>8, <1>9, ViewCoherent, Zenon
<1>11. Fit(x, "accepted")
    BY <1>5, <1>6, Zenon DEF Fit, View
<1>12. Fit(PutBack(x), "asking") /\ Fit(PutBack(x), "halt")
  <2>1. x \in RunType /\ x.step = r.step /\ x.results = r.results /\ x.back = b
    BY <1>5, Zenon DEF View
  <2>2. PICK y : y = PutBack(x)
    BY Zenon
  <2>3. y.step = r.step /\ y.results = r.results /\ y.dispatch = r.dispatch
    BY <1>5, <2>1, <2>2, PutBackRun, Zenon DEF SameWork
  <2>4. Fit(y, "asking") /\ Fit(y, "halt")
    BY <1>6, <2>3, Zenon DEF Fit
  <2> QED
    BY <2>2, <2>4, Zenon
<1>13. PICK h \in {"asking", "halt"} : Commit(p, x, 1, <<"project", "accepted">>, <<h>>)
    BY <1>1, <1>3, Zenon DEF AcceptInteraction, Accepted
<1>14. UNCHANGED <<onlyCommit, late, ghosts>>
    BY Zenon DEF AcceptInteraction
<1>15. Leads(<<"project", "accepted">>, "project", "accepted") /\ Leads(<<h>>, h, h)
    BY Programs, Zenon
<1> QED
    BY <1>2, <1>10, <1>11, <1>12, <1>13, <1>14, <1>15, CommitOnly

LEMMA SettleAnswerMemory ==
    ASSUME QuestionsFirst, RunIInv, BaseInv', NEW p \in Procs, SettleAnswer(p)
    PROVE  RunIInv' /\ StableStep
<1>1. PICK r : r = run[p]
    BY Zenon
<1>2. /\ lock = p /\ r \in RunType /\ Serves(r, "answered") /\ Fit(r, "answered")
      /\ SoundRun(r) /\ (Current(r) => KeepsRun(r) /\ Holding(r.results))
    BY <1>1, MindAtGoal, Goals, Zenon DEF SettleAnswer
<1>3. /\ r.step = 1 /\ r.step \in Steps /\ Owned(r) /\ RecordInv
      /\ r.results[r.step] = None /\ r.dispatch # "prepared" /\ r.turn \in Answers
    BY <1>2, Zenon DEF Serves, Placed, Fit, RunIInv
<1>4. PICK x : x = Answered(r)
    BY Zenon
<1>5. PICK v \in Result : v = r.turn
    BY <1>3, Zenon DEF Result
<1>6. View(x, r, r.step, r.dispatch, None, [dispatch |-> r.dispatch, turn |-> None], [r.results EXCEPT ![r.step] = v])
    BY <1>2, <1>3, <1>4, <1>5, AnsweredView, Zenon
<1>7. Coherent(x) /\ Fit(x, "ready")
    BY <1>2, <1>3, <1>5, <1>6, SettledRun, Zenon
<1>8. Commit(p, x, 2, <<"project", "emit!", "ready">>, <<"halt">>) /\ UNCHANGED <<onlyCommit, late, ghosts>>
    BY <1>1, <1>4, Zenon DEF SettleAnswer, Answered
<1>9. /\ Leads(<<"project", "emit!", "ready">>, "project", "ready") /\ Leads(<<"halt">>, "halt", "halt")
      /\ Fit(PutBack(x), "halt")
    BY Programs, EasyGoal, Zenon
<1> QED
    BY <1>2, <1>7, <1>8, <1>9, CommitOnly

LEMMA HaltMemory ==
    ASSUME QuestionsFirst, RunIInv, BaseInv', NEW p \in Procs, Halt(p)
    PROVE  RunIInv' /\ StableStep
<1>1. PICK r : r = run[p]
    BY Zenon
<1>2. /\ lock = p /\ r \in RunType /\ Serves(r, "halt")
      /\ SoundRun(r) /\ (Current(r) => KeepsRun(r) /\ Holding(r.results))
    BY <1>1, MindAtGoal, Goals, Zenon DEF Halt
<1>3. Owned(r) /\ RecordInv
    BY <1>2, Zenon DEF Serves, RunIInv
<1>4. PICK i : i = Indeterminate(r)
    BY Zenon
<1>5. PICK x : x = Halted(r)
    BY Zenon
<1>6. View(x, r, r.step, i.dispatch, r.turn, [dispatch |-> i.dispatch, turn |-> r.turn], i.results)
    BY <1>2, <1>4, <1>5, HaltedView, Zenon
<1>7. Coherent(x)
    BY <1>2, <1>3, <1>4, <1>6, GivenUpCoherent, Zenon
<1>8. PICK then : then = IF r.traceErr THEN <<"release">> ELSE <<"project", "emit?", "release">>
    BY Zenon
<1>9. Commit(p, x, 2, then, <<"release">>) /\ UNCHANGED <<onlyCommit, late, ghosts>>
    BY <1>1, <1>5, <1>8, Zenon DEF Halt, Halted
<1>10. /\ Leads(then, Head(then), "release") /\ Leads(<<"release">>, "release", "release")
       /\ Fit(x, "release") /\ Fit(PutBack(x), "release")
    BY <1>8, Programs, EasyGoal, Zenon DEF Leads
<1> QED
    BY <1>2, <1>7, <1>9, <1>10, CommitOnly

LEMMA DetachMemory ==
    ASSUME QuestionsFirst, RunIInv, BaseInv', NEW p \in Procs, Detach(p)
    PROVE  RunIInv' /\ StableStep
<1>1. PICK r : r = run[p]
    BY Zenon
<1>2. PICK g \in {"ready", "asking"} : agenda[p] = <<g>>
    BY Zenon DEF Detach
<1>3. /\ lock = p /\ r \in RunType /\ Serves(r, g)
      /\ SoundRun(r) /\ (Current(r) => KeepsRun(r) /\ Holding(r.results))
    BY <1>1, <1>2, MindAtGoal, Goals, Zenon
<1>4. PICK x : x = Paused(r)
    BY Zenon
<1>5. View(x, r, r.step, r.dispatch, r.turn, Open(r), r.results)
    BY <1>3, <1>4, KeptStatusView, Zenon DEF Paused, Status
<1>6. Coherent(x)
    BY <1>3, <1>5, SameCoherent, Zenon DEF Serves
<1>7. Commit(p, x, 2, <<"project", "emit?", "release">>, <<"halt">>) /\ UNCHANGED <<onlyCommit, late, ghosts>>
    BY <1>1, <1>4, Zenon DEF Detach, Paused
<1>8. /\ Leads(<<"project", "emit?", "release">>, "project", "release") /\ Leads(<<"halt">>, "halt", "halt")
      /\ Fit(x, "release") /\ Fit(PutBack(x), "halt")
    BY Programs, EasyGoal, Zenon
<1> QED
    BY <1>3, <1>6, <1>7, <1>8, CommitOnly

LEMMA RecoverDispatchMemory ==
    ASSUME QuestionsFirst, RunIInv, BaseInv', NEW p \in Procs, RecoverDispatch(p)
    PROVE  RunIInv' /\ StableStep
<1>1. PICK r : r = run[p]
    BY Zenon
<1>2. /\ lock = p /\ r \in RunType /\ Serves(r, "scan") /\ r.dispatch = "prepared"
      /\ SoundRun(r) /\ (Current(r) => KeepsRun(r) /\ Holding(r.results))
    BY <1>1, MindAtGoal, Goals, Zenon DEF RecoverDispatch
<1>3. PICK c : c = Scanned(r)
    BY Zenon
<1>4. BaseInv /\ RecordInv
    BY Zenon DEF RunIInv
<1>5. /\ c \in RunType /\ SameRun(c, r) /\ c.epoch = r.epoch /\ c.checkpoint = r.checkpoint
      /\ c.pending = r.pending /\ c.sent = r.sent /\ c.seq >= r.committed
    BY <1>2, <1>3, <1>4, ScannedRun, Zenon DEF BaseInv, TypeInv
<1>6. Owned(c)
    BY <1>2, <1>4, <1>5, ScannedAhead, Zenon
<1>7. c.results = r.results /\ c.dispatch = "prepared"
    BY <1>2, <1>5, Zenon DEF SameRun
<1>8. SoundRun(c) /\ (Current(c) => KeepsRun(c) /\ Holding(c.results))
    BY <1>2, <1>5, <1>7, SameFit, Zenon
<1>9. c.step \in Steps /\ c.results[c.step] = None /\ c.turn = None
    BY <1>7, <1>8, Zenon DEF SoundRun, Sound
<1>10. PICK x : x = Indeterminate(c)
    BY Zenon
<1>11. View(x, c, c.step, "indeterminate", None, [dispatch |-> "indeterminate", turn |-> None],
            [c.results EXCEPT ![c.step] = "indeterminate"])
    BY <1>5, <1>7, <1>9, <1>10, IndeterminateView, Zenon
<1>12. Coherent(x)
  <2>1. "indeterminate" \in Result
    BY Zenon DEF Result
  <2> QED
    BY <1>4, <1>5, <1>6, <1>8, <1>9, <1>11, <2>1, SettledRun, Zenon
<1>13. Commit(p, x, 1, <<"recover", "release">>, <<"release">>) /\ UNCHANGED <<onlyCommit, late, ghosts>>
    BY <1>1, <1>3, <1>10, Zenon DEF RecoverDispatch
<1>14. /\ Leads(<<"recover", "release">>, "recover", "release") /\ Leads(<<"release">>, "release", "release")
       /\ Fit(x, "release") /\ Fit(PutBack(x), "release")
    BY Programs, EasyGoal, Zenon
<1> QED
    BY <1>2, <1>12, <1>13, <1>14, CommitOnly

\* A call is left behind by a cancelled run.
LEMMA LateAdded ==
    ASSUME late \in [Procs -> SUBSET LateType], effects \in [Steps -> Nat], NEW p \in Procs, NEW call \in LateType,
           late' = [late EXCEPT ![p] = @ \cup {call}], UNCHANGED effects, OnceInv,
           ~call.started => ~Used(call.step)
    PROVE  /\ OnceInv'
           /\ \A t \in Steps : Used(t)' => Used(t) \/ (~call.started /\ t = call.step)
<1>1. \A q \in Procs : \A a \in late'[q] : a \in late[q] \/ (q = p /\ a = call)
    BY Zenon
<1>2. \A q \in Procs : \A a \in late[q] : ~call.started /\ ~a.started => a.step # call.step
    BY Zenon DEF Used
<1>3. ~call.started => effects[call.step] = 0
    BY DEF Used, LateType
<1>4. (\A q \in Procs : \A a \in late[q] : ~a.started => effects[a.step] = 0)'
    BY <1>1, <1>3, Zenon DEF OnceInv
<1>5. \A q, z \in Procs : \A a \in late'[q], b \in late'[z] :
         ~a.started /\ ~b.started /\ a.step = b.step => q = z /\ a = b
  <2> SUFFICES ASSUME NEW q \in Procs, NEW z \in Procs, NEW a \in late'[q], NEW b \in late'[z],
                      ~a.started, ~b.started, a.step = b.step
               PROVE  q = z /\ a = b
    OBVIOUS
  <2>1. a \in late[q] \/ (q = p /\ a = call)
    BY <1>1, Zenon
  <2>2. b \in late[z] \/ (z = p /\ b = call)
    BY <1>1, Zenon
  <2>3. a \in late[q] /\ b \in late[z] => q = z /\ a = b
    BY Zenon DEF OnceInv
  <2>4. ~(a \in late[q] /\ b = call) /\ ~(b \in late[z] /\ a = call)
    BY <1>2, Zenon
  <2> QED
    BY <2>1, <2>2, <2>3, <2>4, Zenon
<1>6. EffectOnce'
    BY Zenon DEF OnceInv, EffectOnce
<1>7. \A t \in Steps : Used(t)' => Used(t) \/ (~call.started /\ t = call.step)
    BY <1>1, Zenon DEF Used
<1> QED
    BY <1>4, <1>5, <1>6, <1>7, Zenon DEF OnceInv

\* What the calls left behind by Cancel are.
LEMMA CancelLate ==
    ASSUME BaseInv, OnceInv, NEW p \in Procs, Cancel(p), NEW r \in RunType, r = run[p], NEW g, agenda[p] = <<g>>,
           g \in {"exec", "running"} => r.step \in Steps, r.epoch \in Nat \ {0}, g = "exec" => ~Used(r.step)
    PROVE  /\ OnceInv'
           /\ \A t \in Steps : Used(t)' => Used(t) \/ (g = "exec" /\ t = r.step)
<1>1. late \in [Procs -> SUBSET LateType] /\ effects \in [Steps -> Nat] /\ UNCHANGED effects
    BY Zenon DEF BaseInv, TypeInv, Cancel, ghosts
<1>2. CASE g \in {"exec", "running"}
  <2>1. PICK b \in BOOLEAN : b = (agenda[p] = <<"running">>)
    BY Zenon
  <2>2. b <=> g = "running"
    <3>1. <<g>>[1] = g /\ <<"running">>[1] = "running"
      BY Zenon
    <3> QED
      BY <2>1, <3>1, Zenon
  <2>3. PICK call : call = [epoch |-> r.epoch, step |-> r.step, started |-> b]
    BY Zenon
  <2>4. call \in LateType /\ call.step = r.step /\ call.started = b
    BY <1>2, <2>3, Zenon DEF LateType
  <2>5. late' = [late EXCEPT ![p] = @ \cup {call}]
    BY <1>2, <2>1, <2>3, Zenon DEF Cancel
  <2> QED
    BY <1>1, <1>2, <2>2, <2>4, <2>5, LateAdded, Zenon
<1>3. CASE g \notin {"exec", "running"}
  <2>1. UNCHANGED late
    BY <1>3 DEF Cancel
  <2> QED
    BY <1>1, <2>1, UsedSame, Zenon
<1> QED
    BY <1>2, <1>3, Zenon

LEMMA CancelMemory ==
    ASSUME QuestionsFirst, RunIInv, BaseInv', NEW p \in Procs, Cancel(p)
    PROVE  RunIInv' /\ StableStep
<1>1. PICK r : r = run[p]
    BY Zenon
<1>2. PICK g \in {"ready", "exec", "running", "asking", "answered"} : agenda[p] = <<g>>
    BY Zenon DEF Cancel
<1>3. /\ lock = p /\ r \in RunType /\ Serves(r, g) /\ Fit(r, g) /\ Recorded(r, g)
      /\ SoundRun(r) /\ (Current(r) => KeepsRun(r) /\ Holding(r.results))
    BY <1>1, <1>2, MindAtGoal, Goals, Zenon
<1>4. BaseInv /\ RecordInv /\ OnceInv /\ Owned(r)
    BY <1>3, Zenon DEF RunIInv, Serves
<1>5. PICK i : i = Indeterminate(r)
    BY Zenon
<1>6. PICK x : x = Stopped(r)
    BY Zenon
<1>7. View(x, r, r.step, i.dispatch, r.turn, [dispatch |-> i.dispatch, turn |-> r.turn], i.results)
    BY <1>3, <1>5, <1>6, StoppedView, Zenon
<1>8. Coherent(x)
    BY <1>3, <1>4, <1>5, <1>7, GivenUpCoherent, Zenon
<1>9. PICK e \in {"emit!", "emit?"} : e = IF r.dispatch = "prepared" THEN "emit?" ELSE "emit!"
    BY Zenon
<1>10. Commit(p, x, 2, <<"project", e, "release">>, <<"halt">>) /\ UNCHANGED <<lock, plan, acked>>
    BY <1>1, <1>6, <1>9, Zenon DEF Cancel, onlyCommit, ghosts
<1>11. g \in {"exec", "running"} => r.step \in Steps
    BY <1>3, Zenon DEF Serves, Placed
<1>12. g = "exec" => ~Used(r.step) /\ Marked(r.step) /\ x.results[r.step] # None
  <2> SUFFICES ASSUME g = "exec" PROVE ~Used(r.step) /\ Marked(r.step) /\ x.results[r.step] # None
    BY Zenon
  <2>1. ~Used(r.step) /\ r.dispatch = "prepared"
    BY <1>3, Zenon DEF Fit
  <2>2. Marked(r.step)
    BY <1>3, Zenon DEF Recorded, Marked
  <2>3. x.results = [r.results EXCEPT ![r.step] = "indeterminate"]
    BY <1>3, <1>5, <1>7, <2>1, IndeterminateView, Zenon DEF View
  <2>4. DOMAIN r.results = Steps
    BY <1>3, Zenon DEF RunType, Results
  <2>5. x.results[r.step] = "indeterminate"
    BY <1>11, <2>3, <2>4, Zenon
  <2> QED
    BY <2>1, <2>2, <2>5, NoneAssumption, Zenon
<1>13. r.epoch \in Nat \ {0}
  <2>1. epochFile \in Nat /\ epochFile > 0
    BY <1>2, <1>4, AtGoal, Goals, Zenon DEF BaseInv, TypeInv
  <2> QED
    BY <1>4, <2>1 DEF Owned
<1>14. OnceInv' /\ \A t \in Steps : Used(t)' => Used(t) \/ (g = "exec" /\ t = r.step)
    BY <1>1, <1>2, <1>3, <1>4, <1>11, <1>12, <1>13, CancelLate, Zenon
<1>15. \A t \in Steps : Used(t)' => Marked(t)
    BY <1>4, <1>12, <1>14, Zenon DEF RecordInv
<1>16. (KeepsRun(x) => KeepsRun(x)') /\ (KeepsBack(x) => KeepsBack(x)')
    BY <1>10, <1>12, <1>14, Zenon DEF KeepsRun, KeepsBack, Keeps
<1>17. x \in RunType /\ Owned(x) /\ SoundRun(x) /\ SoundBack(x)
       /\ (Current(x) => KeepsRun(x)' /\ KeepsBack(x)' /\ Holding(x.results))
    BY <1>8, <1>16, Zenon DEF Coherent
<1>18. End(<<"project", e, "release">>) = "release" /\ End(<<"halt">>) = "halt"
    BY Programs, Zenon DEF Leads
<1>19. Fit(x, "release")' /\ Fit(PutBack(x), "halt")'
    BY Zenon DEF Fit
<1> QED
    BY <1>3, <1>10, <1>14, <1>15, <1>17, <1>18, <1>19, CommitMemory

-----------------------------------------------------------------------------
(* Effects and acknowledgements.                                           *)

\* What a run keeps when step t is put in use.
LEMMA KeepsStep ==
    ASSUME NEW r, UNCHANGED <<checkpoints, acked>>, NEW t, r.dispatch = "prepared" /\ r.step = t,
           \A s \in Steps : Used(s)' => Used(s) \/ s = t, Current(r) => KeepsRun(r) /\ Holding(r.results)
    PROVE  Current(r)' => KeepsRun(r)' /\ Holding(r.results)'
<1>1. Current(r)' => Current(r)
    BY Zenon DEF Current
<1>2. KeepsRun(r) => KeepsRun(r)'
    BY Zenon DEF KeepsRun, Keeps
<1>3. Holding(r.results) => Holding(r.results)'
    BY Zenon DEF Holding, Newest
<1> QED
    BY <1>1, <1>2, <1>3, Zenon

LEMMA ExecuteMemory ==
    ASSUME RunIInv, BaseInv', NEW p \in Procs, Execute(p)
    PROVE  RunIInv'
<1>1. PICK r : r = run[p]
    BY Zenon
<1>2. /\ lock = p /\ r \in RunType /\ Serves(r, "exec") /\ Fit(r, "exec") /\ Recorded(r, "exec")
      /\ SoundRun(r) /\ SoundBack(r) /\ (Current(r) => KeepsRun(r) /\ Holding(r.results))
    BY <1>1, MindAtGoal, Goals, Zenon DEF Execute
<1>3. PICK t \in Steps : t = r.step
    BY <1>2, Zenon DEF Serves, Placed
<1>4. r.dispatch = "prepared" /\ ~Used(t)
    BY <1>2, <1>3, Zenon DEF Fit
<1>5. Marked(t)
    BY <1>2, <1>3, Zenon DEF Recorded, Marked
<1>6. effects \in [Steps -> Nat] /\ OnceInv /\ RecordInv
    BY Zenon DEF RunIInv, BaseInv, TypeInv
<1>7. effects' = [effects EXCEPT ![t] = effects[t] + 1] /\ UNCHANGED <<lock, plan, checkpoints, late, run, acked>>
    BY <1>1, <1>3, Zenon DEF Execute, disk
<1>8. effects[t] = 0 /\ \A q \in Procs : \A call \in late[q] : ~call.started => call.step # t
    BY <1>4, <1>6 DEF Used
<1>9. \A s \in Steps : effects'[s] = IF s = t THEN 1 ELSE effects[s]
    BY <1>6, <1>7, <1>8
<1>10. EffectOnce'
    BY <1>6, <1>9 DEF OnceInv, EffectOnce
<1>11. (\A q \in Procs : \A call \in late[q] : ~call.started => effects[call.step] = 0)'
  <2>1. \A q \in Procs : \A call \in late[q] : call.step \in Steps
    BY DEF RunIInv, BaseInv, TypeInv, LateType
  <2> QED
    BY <1>6, <1>7, <1>8, <1>9, <2>1, Zenon DEF OnceInv
<1>12. OnceInv'
    BY <1>6, <1>7, <1>10, <1>11, Zenon DEF OnceInv
<1>13. \A s \in Steps : Used(s)' => Used(s) \/ s = t
    BY <1>7, <1>9, Zenon DEF Used
<1>14. RecordInv'
  <2>1. \A s \in Steps : Used(s)' => Marked(s)
    BY <1>5, <1>6, <1>13, Zenon DEF RecordInv
  <2> QED
    BY <1>6, <1>7, <2>1, RecordSame, Zenon
<1>15. PICK a : a = <<"running">>
    BY Zenon
<1>16. agenda' = [agenda EXCEPT ![p] = a] /\ Head(a) = "running" /\ End(a) = "running"
    BY <1>15 DEF Execute, Go, End
<1>17. Fit(r, "running")' /\ Recorded(r, "running")'
    BY <1>4, Zenon DEF Fit, Recorded
<1>18. SoundRun(r)' /\ SoundBack(r)'
    BY <1>2, Zenon DEF SoundRun, SoundBack, Sound
<1>19. Current(r)' => KeepsRun(r)' /\ Holding(r.results)'
    BY <1>2, <1>3, <1>4, <1>7, <1>13, KeepsStep, Zenon
<1>20. Memory(r, a)'
    BY <1>16, <1>17, <1>18, <1>19, Zenon DEF Memory
<1>21. run' = [run EXCEPT ![p] = r]
    BY <1>1, <1>7, Zenon DEF RunIInv, BaseInv, TypeInv
<1> QED
    BY <1>2, <1>7, <1>12, <1>14, <1>16, <1>20, <1>21, MemoryStep, Zenon

LEMMA AcknowledgeMemory ==
    ASSUME QuestionsFirst, RunIInv, BaseInv', NEW p \in Procs, Acknowledge(p)
    PROVE  RunIInv'
<1>1. PICK r : r = run[p]
    BY Zenon
<1>2. /\ lock = p /\ r \in RunType /\ Serves(r, "accepted") /\ Fit(r, "accepted") /\ Recorded(r, "accepted")
      /\ SoundRun(r) /\ SoundBack(r) /\ (Current(r) => KeepsRun(r) /\ Holding(r.results))
    BY <1>1, MindAtGoal, Goals, Zenon DEF Acknowledge
<1>3. /\ r.step = 1 /\ 1 \in Steps /\ Kind[1] = "ask" /\ r.results[1] = None
      /\ r.dispatch # "prepared" /\ r.turn \in Answers /\ acked[1] = None
    BY <1>2, Zenon DEF Serves, Placed, Fit
<1>4. /\ Current(r) /\ checkpoints # <<>>
      /\ Newest.turn = r.turn /\ Newest.next = 1 /\ Newest.results[1] = None
    BY <1>2, Zenon DEF Recorded
<1>5. acked \in [Steps -> Answers \cup {None}] /\ OnceInv /\ RecordInv
    BY Zenon DEF RunIInv, BaseInv, TypeInv
<1>6. acked' = [acked EXCEPT ![1] = r.turn] /\ UNCHANGED <<lock, plan, checkpoints, late, run, effects>>
    BY <1>1, <1>3, Zenon DEF Acknowledge, disk
<1>7. \A s \in Steps : acked'[s] = IF s = 1 THEN r.turn ELSE None
    BY <1>3, <1>5, <1>6, NothingAcked, Zenon
<1>8. OnceInv' /\ \A s \in Steps : Used(s)' <=> Used(s)
    BY <1>5, <1>6, UsedSame, Zenon
<1>9. RecordInv'
  <2>1. (\A i \in DOMAIN checkpoints : SnapshotSound(checkpoints[i]))'
    BY <1>5, <1>6, Zenon DEF RecordInv, SnapshotSound
  <2>2. \A s \in Steps : Used(s)' => Marked(s)'
    BY <1>5, <1>6, <1>8, Zenon DEF RecordInv, Marked, Newest
  <2>3. Newest' = Newest
    BY <1>6, Zenon DEF Newest
  <2>4. AckedAnswerKept'
    BY <1>4, <1>6, <1>7, <2>3, Zenon DEF AckedAnswerKept
  <2>5. (\A s \in Steps : acked[s] # None => Kind[s] = "ask")'
    BY <1>3, <1>7, Zenon
  <2> QED
    BY <2>1, <2>2, <2>4, <2>5, Zenon DEF RecordInv
<1>10. PICK a : a = <<"answered">>
    BY Zenon
<1>11. agenda' = [agenda EXCEPT ![p] = a] /\ Head(a) = "answered" /\ End(a) = "answered"
    BY <1>10 DEF Acknowledge, Go, End
<1>12. Fit(r, "answered")' /\ Recorded(r, "answered")'
    BY <1>3, Zenon DEF Fit, Recorded
<1>13. SoundRun(r)' /\ SoundBack(r)'
    BY <1>2, Zenon DEF SoundRun, SoundBack, Sound
<1>14. KeepsRun(r)'
    BY <1>2, <1>3, <1>4, <1>7, <1>8, Zenon DEF KeepsRun, Keeps
<1>15. Holding(r.results)'
    BY <1>2, <1>4, <1>6, Zenon DEF Holding, Newest
<1>16. Memory(r, a)'
    BY <1>11, <1>12, <1>13, <1>14, <1>15, Zenon DEF Memory
<1>17. run' = [run EXCEPT ![p] = r]
    BY <1>1, <1>6, Zenon DEF RunIInv, BaseInv, TypeInv
<1> QED
    BY <1>2, <1>6, <1>8, <1>9, <1>11, <1>16, <1>17, MemoryStep, Zenon

-----------------------------------------------------------------------------
(* What the steps that do not commit leave alone.                          *)

\* The predicates on a run that nothing in the store disturbs.
LEMMA MemorySame ==
    ASSUME UNCHANGED <<checkpoints, late, effects, acked>>, NEW s, NEW a, Memory(s, a)
    PROVE  Memory(s, a)'
<1>1. \A t \in Steps : Used(t)' <=> Used(t)
    BY UsedSame, Zenon
<1>2. SoundRun(s)' /\ SoundBack(s)'
    BY Zenon DEF Memory, SoundRun, SoundBack, Sound
<1>3. (Current(s)' <=> Current(s)) /\ (Holding(s.results)' <=> Holding(s.results))
    BY Zenon DEF Current, Holding, Newest
<1>4. (KeepsRun(s)' <=> KeepsRun(s)) /\ (KeepsBack(s)' <=> KeepsBack(s))
    BY <1>1, Zenon DEF KeepsRun, KeepsBack, Keeps
<1>5. Fit(s, End(a))'
    BY Zenon DEF Memory, Fit, Used
<1>6. Recorded(s, End(a))'
    BY <1>3, Zenon DEF Memory, Recorded, Newest
<1> QED
    BY <1>2, <1>3, <1>4, <1>5, <1>6, Zenon DEF Memory

\* A step that leaves the store and the run's place alone.
LEMMA QuietMemory ==
    ASSUME RunIInv, BaseInv', NEW p \in Procs, lock = p,
           UNCHANGED <<lock, plan, checkpoints, late, effects, acked>>,
           NEW a, agenda' = [agenda EXCEPT ![p] = a], NEW s, run' = [run EXCEPT ![p] = s],
           Memory(s, a)
    PROVE  RunIInv'
<1>1. OnceInv'
    BY UsedSame, Zenon DEF RunIInv
<1>2. RecordInv'
    BY UsedSame, RecordSame, Zenon DEF RunIInv, RecordInv
<1>3. Memory(s, a)'
    BY MemorySame, Zenon
<1> QED
    BY <1>1, <1>2, <1>3, MemoryStep, Zenon

\* The same run with another program before it.
LEMMA MemoryOn ==
    ASSUME NEW r, NEW b, Memory(r, b), NEW s, SameRun(s, r), s.checkpoint = r.checkpoint,
           NEW a, Head(a) \in {"project", "recover"} => Head(b) \in {"project", "recover"},
           Fit(r, End(a)), Recorded(r, End(a))
    PROVE  Memory(s, a)
<1>1. s.results = r.results
    BY Zenon DEF SameRun
<1> QED
    BY <1>1, SameFit, Zenon DEF Memory

-----------------------------------------------------------------------------
(* The steps that write to the trace.                                      *)

\* The first operation is done, or all but the goal is given up.
LEMMA ProgressMemory ==
    ASSUME NEW r, NEW b \in Program, Memory(r, b), NEW s, SameRun(s, r), s.checkpoint = r.checkpoint,
           NEW a, \/ a = b
                  \/ Head(b) \in Middle /\ a = Tail(b)
                  \/ a = <<"halt">>
                  \/ a = <<"release">>
    PROVE  Memory(s, a)
<1>1. CASE a = b
    BY <1>1, MemoryOn, Zenon DEF Memory
<1>2. CASE Head(b) \in Middle /\ a = Tail(b)
  <2>1. End(a) = End(b) /\ Head(a) \notin {"project", "recover"}
    BY <1>2, ProgramRest, Zenon
  <2> QED
    BY <2>1, MemoryOn, Zenon DEF Memory
<1>3. ASSUME NEW g \in {"halt", "release"}, a = <<g>> PROVE Memory(s, a)
  <2>1. End(a) = g /\ Head(a) = g
    BY <1>3 DEF End
  <2>2. Fit(r, End(a)) /\ Recorded(r, End(a)) /\ Head(a) \notin {"project", "recover"}
    BY <2>1, EasyGoal, Zenon
  <2> QED
    BY <2>2, MemoryOn, Zenon
<1> QED
    BY <1>1, <1>2, <1>3, Zenon

LEMMA ProjectMemory ==
    ASSUME RunIInv, BaseInv', NEW p \in Procs, Project(p)
    PROVE  RunIInv'
<1>1. PICK r : r = run[p]
    BY Zenon
<1>2. agenda[p] # <<>> /\ Head(agenda[p]) \in Middle
    BY Zenon DEF Project, At, Middle
<1>3. lock = p /\ r \in RunType /\ agenda[p] \in Program /\ Memory(r, agenda[p])
    BY <1>1, <1>2, AtMind, Zenon
<1>4. PICK s : s = Projected(r)
    BY Zenon
<1>5. SameRun(s, r) /\ s.checkpoint = r.checkpoint
    BY <1>3, <1>4, ProjectedRun, Zenon
<1>6. run' = [run EXCEPT ![p] = s]
    BY <1>1, <1>4, Zenon DEF Project
<1>7. PICK a : agenda' = [agenda EXCEPT ![p] = a] /\ (a = agenda[p] \/ a = Tail(agenda[p]))
  <2>1. CASE UNCHANGED agenda
    <3>1. agenda' = [agenda EXCEPT ![p] = agenda[p]]
      BY <2>1, Zenon DEF RunIInv, BaseInv, TypeInv
    <3> QED
      BY <3>1, Zenon
  <2>2. CASE Go(p, Rest(p))
    BY <2>2, Zenon DEF Go, Rest
  <2> QED
    BY <2>1, <2>2, Zenon DEF Project
<1>8. Memory(s, a)
    BY <1>2, <1>3, <1>5, <1>7, ProgressMemory, Zenon
<1>9. UNCHANGED <<lock, plan, checkpoints, late, effects, acked>>
    BY Zenon DEF Project, ghosts
<1> QED
    BY <1>3, <1>6, <1>7, <1>8, <1>9, QuietMemory, Zenon

LEMMA EmitMemory ==
    ASSUME RunIInv, BaseInv', NEW p \in Procs, Emit(p)
    PROVE  RunIInv'
<1>1. PICK r : r = run[p]
    BY Zenon
<1>2. agenda[p] # <<>> /\ Head(agenda[p]) \in Middle
    BY Zenon DEF Emit, At, Middle
<1>3. lock = p /\ r \in RunType /\ agenda[p] \in Program /\ Memory(r, agenda[p])
    BY <1>1, <1>2, AtMind, Zenon
<1>4. PICK s : s = Emitted(r)
    BY Zenon
<1>5. SameRun(s, r) /\ s.checkpoint = r.checkpoint
    BY <1>3, <1>4, EmittedRun, Zenon
<1>6. run' = [run EXCEPT ![p] = s]
    BY <1>1, <1>4, Zenon DEF Emit
<1>7. PICK a : agenda' = [agenda EXCEPT ![p] = a] /\ a = Tail(agenda[p])
    BY Zenon DEF Emit, Go, Rest
<1>8. Memory(s, a)
    BY <1>2, <1>3, <1>5, <1>7, ProgressMemory, Zenon
<1>9. UNCHANGED <<lock, plan, checkpoints, late, effects, acked>>
    BY Zenon DEF Emit, ghosts
<1> QED
    BY <1>3, <1>6, <1>7, <1>8, <1>9, QuietMemory, Zenon

LEMMA EmitFailsMemory ==
    ASSUME RunIInv, BaseInv', NEW p \in Procs, EmitFails(p)
    PROVE  RunIInv'
<1>1. PICK r : r = run[p]
    BY Zenon
<1>2. agenda[p] # <<>> /\ Head(agenda[p]) \in Middle
    BY Zenon DEF EmitFails, At, Middle
<1>3. lock = p /\ r \in RunType /\ agenda[p] \in Program /\ Memory(r, agenda[p])
    BY <1>1, <1>2, AtMind, Zenon
<1>4. PICK e : e = Emitted(r)
    BY Zenon
<1>5. e \in RunType /\ SameRun(e, r) /\ e.checkpoint = r.checkpoint
    BY <1>3, <1>4, EmittedRun, Zenon
<1>6. PICK s : s = [e EXCEPT !.traceErr = TRUE]
    BY Zenon
<1>7. SameRun(s, r) /\ s.checkpoint = r.checkpoint
    BY <1>5, <1>6, Zenon DEF SameRun, RunType
<1>8. run' = [run EXCEPT ![p] = s]
    BY <1>1, <1>4, <1>6, Zenon DEF EmitFails
<1>9. PICK a : agenda' = [agenda EXCEPT ![p] = a] /\ (a = Tail(agenda[p]) \/ a = <<"halt">>)
    BY Zenon DEF EmitFails, Go, Rest
<1>10. Memory(s, a)
    BY <1>2, <1>3, <1>7, <1>9, ProgressMemory, Zenon
<1>11. UNCHANGED <<lock, plan, checkpoints, late, effects, acked>>
    BY Zenon DEF EmitFails, ghosts
<1> QED
    BY <1>3, <1>8, <1>9, <1>10, <1>11, QuietMemory, Zenon

\* The step sets another program, towards a goal that suits the run.
LEMMA TurnMemory ==
    ASSUME RunIInv, BaseInv', NEW p \in Procs, agenda[p] # <<>>, NEW g \in {"halt", "release", "answered"},
           agenda' = [agenda EXCEPT ![p] = <<g>>],
           UNCHANGED <<disk, store, run, late, faults, ghosts>>, Fit(run[p], g), Recorded(run[p], g)
    PROVE  RunIInv'
<1>1. PICK r : r = run[p]
    BY Zenon
<1>2. lock = p /\ Memory(r, agenda[p])
    BY <1>1, AtMind, Zenon
<1>3. PICK a : a = <<g>>
    BY Zenon
<1>4. End(a) = g /\ Head(a) \notin {"project", "recover"}
    BY <1>3 DEF End
<1>5. Memory(r, a)
    BY <1>1, <1>2, <1>4, MemoryOn, Zenon DEF SameRun
<1>6. run' = [run EXCEPT ![p] = r] /\ UNCHANGED <<lock, plan, checkpoints, late, effects, acked>>
    BY <1>1, Zenon DEF RunIInv, BaseInv, TypeInv, disk, ghosts
<1> QED
    BY <1>2, <1>3, <1>5, <1>6, QuietMemory, Zenon

LEMMA TraceErrSeenMemory ==
    ASSUME RunIInv, BaseInv', NEW p \in Procs, TraceErrSeen(p)
    PROVE  RunIInv'
BY TurnMemory, EasyGoal, Zenon DEF TraceErrSeen, At, Go

LEMMA RefuseTerminalMemory ==
    ASSUME RunIInv, BaseInv', NEW p \in Procs, RefuseTerminal(p)
    PROVE  RunIInv'
BY TurnMemory, EasyGoal, Zenon DEF RefuseTerminal, At, Go

LEMMA AlreadyAnsweredMemory ==
    ASSUME RunIInv, BaseInv', NEW p \in Procs, AlreadyAnswered(p)
    PROVE  RunIInv'
<1>1. agenda[p] # <<>> /\ Head(agenda[p]) = "ask" /\ run[p].turn \in Answers
    BY Zenon DEF AlreadyAnswered, At
<1>2. agenda[p] \in Program /\ Memory(run[p], agenda[p])
    BY <1>1, AtMind, Zenon
<1>3. End(agenda[p]) = "ask"
    BY <1>1, <1>2, ProgramRest, Zenon DEF Middle
<1>4. Fit(run[p], "ask")
    BY <1>2, <1>3, Zenon DEF Memory
<1>5. Fit(run[p], "answered") /\ Recorded(run[p], "answered")
    BY <1>1, <1>4, Zenon DEF Fit, Recorded
<1> QED
    BY <1>1, <1>5, TurnMemory, Zenon DEF AlreadyAnswered, Go

\* What was open before the commit is put back.
LEMMA ProjectFailsMemory ==
    ASSUME RunIInv, BaseInv', NEW p \in Procs, ProjectFails(p)
    PROVE  RunIInv'
<1>1. PICK r : r = run[p]
    BY Zenon
<1>2. agenda[p] # <<>> /\ Head(agenda[p]) \in {"project", "recover"}
    BY Zenon DEF ProjectFails, At
<1>3. lock = p /\ r \in RunType /\ agenda[p] \in Program /\ Drives(r, agenda[p]) /\ Memory(r, agenda[p])
    BY <1>1, <1>2, AtMind, Zenon
<1>4. PICK b : b = PutBack(r)
    BY Zenon
<1>5. b \in RunType
    BY <1>3, <1>4, PutBackRun, Zenon
<1>6. PICK s : s = [b EXCEPT !.traceErr = TRUE]
    BY Zenon
<1>7. run' = [run EXCEPT ![p] = s]
    BY <1>1, <1>4, <1>6, Zenon DEF ProjectFails
<1>8. View(s, b, b.step, b.dispatch, b.turn, b.back, b.results)
    BY <1>5, <1>6, SetFlags, Zenon
<1>9. /\ s.checkpoint = r.checkpoint /\ s.step = r.step /\ s.results = r.results
      /\ s.dispatch = r.back.dispatch /\ s.turn = r.back.turn /\ s.back = r.back
    BY <1>3, <1>4, <1>8, PutBackRun, Zenon DEF View, SameLog, SameWork
<1>10. PICK g \in {"release", "halt", "asking"} :
          agenda' = [agenda EXCEPT ![p] = <<g>>] /\ (g = "asking" => Tail(agenda[p]) = <<"accepted">>)
    BY Zenon DEF ProjectFails, Go, Rest
<1>11. PICK a : a = <<g>>
    BY Zenon
<1>12. End(a) = g /\ Head(a) \notin {"project", "recover"}
    BY <1>11 DEF End
<1>13. Fit(s, g) /\ Recorded(s, g)
  <2>1. CASE g # "asking"
    BY <2>1, EasyGoal, Zenon
  <2>2. CASE g = "asking"
    <3>1. End(agenda[p]) = "accepted"
      <4>1. Tail(agenda[p]) = <<"accepted">> /\ Head(agenda[p]) \in Middle
        BY <1>2, <1>10, <2>2, Zenon DEF Middle
      <4>2. End(<<"accepted">>) = "accepted"
        BY Zenon DEF End
      <4> QED
        BY <1>3, <4>1, <4>2, ProgramRest, Zenon
    <3>2. Fit(r, "accepted") /\ r.back.dispatch # "prepared"
      BY <1>3, <3>1, Zenon DEF Memory, Drives, Serves, Placed
    <3> QED
      BY <1>9, <2>2, <3>2, Zenon DEF Fit, Recorded
  <2> QED
    BY <2>1, <2>2, Zenon
<1>14. Memory(s, a)
  <2>1. SoundRun(s) /\ SoundBack(s)
    BY <1>3, <1>9, Zenon DEF Memory, SoundRun, SoundBack
  <2>2. Current(s) => KeepsRun(s) /\ Holding(s.results)
    BY <1>2, <1>3, <1>9, Zenon DEF Memory, KeepsRun, KeepsBack, Current
  <2> QED
    BY <1>12, <1>13, <2>1, <2>2 DEF Memory
<1>15. UNCHANGED <<lock, plan, checkpoints, late, effects, acked>>
    BY Zenon DEF ProjectFails, ghosts
<1> QED
    BY <1>3, <1>7, <1>10, <1>11, <1>14, <1>15, QuietMemory, Zenon

LEMMA BeginStepMemory ==
    ASSUME QuestionsFirst, RunIInv, BaseInv', NEW p \in Procs, BeginStep(p)
    PROVE  RunIInv'
<1>1. PICK r : r = run[p]
    BY Zenon
<1>2. /\ agenda[p] # <<>> /\ lock = p /\ r \in RunType /\ Fit(r, "ready") /\ Recorded(r, "ready")
      /\ SoundRun(r) /\ SoundBack(r) /\ (Current(r) => KeepsRun(r) /\ Holding(r.results))
      /\ r.step < Len(Kind)
    BY <1>1, MindAtGoal, Goals, Zenon DEF BeginStep
<1>3. PICK s : s = Begun(r)
    BY Zenon
<1>4. View(s, r, r.step + 1, "none", r.turn, r.back, r.results)
    BY <1>2, <1>3, BegunView, Zenon
<1>5. run' = [run EXCEPT ![p] = s]
    BY <1>1, <1>3, TypedParts, Zenon DEF BeginStep, Begun, RunIInv
<1>6. PICK k \in Steps : k = r.step + 1 /\ r.step \in Nat
    BY <1>2, PlanAssumption DEF RunType, Position, Steps
<1>7. PICK g \in {"tool", "ask"} : g = Kind[k]
    BY <1>6, PlanAssumption DEF Steps
<1>8. PICK a : a = <<"emit!", g>>
    BY Zenon
<1>9. agenda' = [agenda EXCEPT ![p] = a]
    BY <1>1, <1>6, <1>7, <1>8, Zenon DEF BeginStep, Go
<1>10. End(a) = g /\ Head(a) = "emit!"
    BY <1>8 DEF End
<1>11. /\ s.checkpoint = r.checkpoint /\ s.step = k /\ s.dispatch = "none" /\ s.turn = r.turn
       /\ s.back = r.back /\ s.results = r.results
    BY <1>4, <1>6, Zenon DEF View, SameLog
<1>12. /\ r.dispatch # "prepared" /\ (r.turn # None => r.step = 0)
       /\ r.back.dispatch # "prepared" /\ (r.back.turn # None => r.step = 0)
    BY <1>2, Zenon DEF Fit
<1>13. /\ \A t \in Steps : t > r.step => r.results[t] = None
       /\ r.turn # None => 1 \in Steps /\ Kind[1] = "ask" /\ r.results[1] = None
       /\ r.back.turn # None => 1 \in Steps /\ Kind[1] = "ask" /\ r.results[1] = None
    BY <1>2, Zenon DEF SoundRun, SoundBack, Sound
<1>14. Steps \subseteq Nat
    BY PlanAssumption DEF Steps
<1>15. SoundRun(s) /\ SoundBack(s)
    BY <1>6, <1>11, <1>12, <1>13, <1>14, SMTT(20) DEF SoundRun, SoundBack, Sound
<1>16. Current(r) /\ Current(s)
    BY <1>2, <1>11, Zenon DEF Recorded, Current
<1>17. KeepsRun(r) /\ Holding(r.results)
    BY <1>2, <1>16, Zenon
<1>18. KeepsRun(s) /\ Holding(s.results)
    BY <1>11, <1>12, <1>17, Zenon DEF KeepsRun, Keeps
<1>19. r.results[k] = None /\ ~Used(k)
  <2>1. r.results[k] = None
    BY <1>6, <1>13, <1>14
  <2> QED
    BY <1>12, <1>17, <2>1, Zenon DEF KeepsRun, Keeps
<1>20. g = "tool" => r.turn = None
  <2>1. r.turn # None => k = 1
    BY <1>6, <1>12
  <2> QED
    BY <1>7, <1>13, <2>1, Zenon
<1>21. g = "ask" => k = 1
    BY <1>7, Zenon DEF QuestionsFirst
<1>22. Fit(s, g) /\ Recorded(s, g)
    BY <1>7, <1>11, <1>16, <1>19, <1>20, <1>21, SMTT(20) DEF Fit, Recorded
<1>23. Memory(s, a)
    BY <1>10, <1>15, <1>18, <1>22, SMTT(20) DEF Memory
<1>24. UNCHANGED <<lock, plan, checkpoints, late, effects, acked>>
    BY Zenon DEF BeginStep, disk, ghosts
<1> QED
    BY <1>2, <1>5, <1>9, <1>23, <1>24, QuietMemory, Zenon

LEMMA RebuildRunMemory ==
    ASSUME RunIInv, BaseInv', NEW p \in Procs, RebuildRun(p)
    PROVE  RunIInv'
<1>1. PICK r : r = run[p]
    BY Zenon
<1>2. /\ agenda[p] # <<>> /\ lock = p /\ r \in RunType /\ Serves(r, "scan") /\ Fit(r, "scan")
      /\ SoundRun(r) /\ SoundBack(r) /\ (Current(r) => KeepsRun(r) /\ Holding(r.results))
      /\ r.dispatch # "prepared"
    BY <1>1, MindAtGoal, Goals, Zenon DEF RebuildRun
<1>3. PICK c : c = Scanned(r)
    BY Zenon
<1>4. c \in RunType /\ SameRun(c, r) /\ c.checkpoint = r.checkpoint
    BY <1>2, <1>3, ScannedRun, TypedParts DEF RunIInv
<1>5. PICK s : s = Resumed(r)
    BY Zenon
<1>6. View(s, c, c.step, c.dispatch, c.turn, c.back, c.results)
    BY <1>3, <1>4, <1>5, SetStatus, Zenon DEF Resumed, Status
<1>7. SameRun(s, r) /\ s.checkpoint = r.checkpoint
    BY <1>4, <1>6, Zenon DEF SameRun, View, SameLog
<1>8. PICK a : a = <<"emit!", "ready">>
    BY Zenon
<1>9. run' = [run EXCEPT ![p] = s] /\ agenda' = [agenda EXCEPT ![p] = a]
    BY <1>1, <1>5, <1>8, Zenon DEF RebuildRun, Resumed, Go
<1>10. End(a) = "ready" /\ Head(a) = "emit!"
    BY <1>8 DEF End
<1>11. Fit(r, "ready") /\ Recorded(r, "ready")
    BY <1>2 DEF Fit, Recorded, Serves, Open
<1>12. Memory(s, a)
  <2>1. s.results = r.results
    BY <1>7, Zenon DEF SameRun
  <2> QED
    BY <1>2, <1>7, <1>10, <1>11, <2>1, SameFit, SMTT(20) DEF Memory
<1>13. UNCHANGED <<lock, plan, checkpoints, late, effects, acked>>
    BY Zenon DEF RebuildRun, disk, ghosts
<1> QED
    BY <1>2, <1>9, <1>12, <1>13, QuietMemory, Zenon

-----------------------------------------------------------------------------
(* The steps beside the leaseholder, and those of the lease.               *)

\* A run remembers enough when fewer steps are in use.
LEMMA MemoryLess ==
    ASSUME UNCHANGED <<checkpoints, acked>>, \A s \in Steps : Used(s)' => Used(s),
           NEW r, NEW a, Memory(r, a), End(a) \in {"tool", "exec"} => r.step \in Steps
    PROVE  Memory(r, a)'
<1>1. SoundRun(r)' /\ SoundBack(r)'
    BY Zenon DEF Memory, SoundRun, SoundBack, Sound
<1>2. (Current(r)' <=> Current(r)) /\ (Holding(r.results)' <=> Holding(r.results))
    BY Zenon DEF Current, Holding, Newest
<1>3. (KeepsRun(r) => KeepsRun(r)') /\ (KeepsBack(r) => KeepsBack(r)')
    BY Zenon DEF KeepsRun, KeepsBack, Keeps
<1>4. Fit(r, End(a))'
    BY Zenon DEF Memory, Fit
<1>5. Recorded(r, End(a))'
    BY <1>2, Zenon DEF Memory, Recorded, Newest
<1> QED
    BY <1>1, <1>2, <1>3, <1>4, <1>5, Zenon DEF Memory

\* A step that touches neither the leaseholder nor its record.
LEMMA BesideMemory ==
    ASSUME RunIInv, BaseInv', UNCHANGED <<lock, plan, checkpoints, acked, run, agenda>>,
           OnceInv', \A s \in Steps : Used(s)' => Used(s)
    PROVE  RunIInv'
<1>1. RecordInv'
  <2>1. \A s \in Steps : Used(s)' => Marked(s)
    BY Zenon DEF RunIInv, RecordInv
  <2> QED
    BY <2>1, RecordSame, Zenon DEF RunIInv
<1>2. ASSUME NEW p \in Procs, lock' = p PROVE Memory(run[p], agenda[p])'
  <2>1. PICK r, a : r = run[p] /\ a = agenda[p]
    BY Zenon
  <2>2. Memory(r, a) /\ a # <<>>
    BY <1>2, <2>1, Zenon DEF RunIInv, BaseInv, LeaseInv, Holds
  <2>3. Drives(r, a)
    BY <2>1, <2>2, AtMind, Zenon
  <2>4. End(a) \in {"tool", "exec"} => r.step \in Steps
    BY <2>3, Zenon DEF Drives, Serves, Placed
  <2>5. Memory(r, a)'
    BY <2>2, <2>4, MemoryLess, Zenon
  <2>6. run'[p] = r /\ agenda'[p] = a
    BY <2>1, Zenon
  <2> QED
    BY <2>5, <2>6, Zenon DEF Memory
<1> QED
    BY <1>1, <1>2, Zenon DEF RunIInv

\* Fewer calls are left behind.
LEMMA LateLess ==
    ASSUME OnceInv, UNCHANGED effects, \A q \in Procs : late'[q] \subseteq late[q]
    PROVE  OnceInv' /\ \A s \in Steps : Used(s)' => Used(s)
<1>1. EffectOnce'
    BY Zenon DEF OnceInv, EffectOnce
<1>2. \A q \in Procs : \A a \in late'[q] : ~a.started => effects'[a.step] = 0
    BY Zenon DEF OnceInv
<1>3. \A q, z \in Procs : \A a \in late'[q], b \in late'[z] :
         ~a.started /\ ~b.started /\ a.step = b.step => q = z /\ a = b
  <2> SUFFICES ASSUME NEW q \in Procs, NEW z \in Procs, NEW a \in late'[q], NEW b \in late'[z],
                      ~a.started, ~b.started, a.step = b.step
               PROVE  q = z /\ a = b
    BY Zenon
  <2>1. a \in late[q] /\ b \in late[z]
    BY Zenon
  <2> QED
    BY <2>1, Zenon DEF OnceInv
<1>4. \A s \in Steps : Used(s)' => Used(s)
    BY Zenon DEF Used
<1> QED
    BY <1>1, <1>2, <1>3, <1>4, Zenon DEF OnceInv

LEMMA CloseMemory ==
    ASSUME RunIInv, BaseInv', NEW p \in Procs, Close(p)
    PROVE  RunIInv'
<1>1. UNCHANGED <<lock, plan, checkpoints, acked, run, agenda, effects>>
    BY Zenon DEF Close, disk, ghosts
<1>2. late \in [Procs -> SUBSET LateType] /\ late' = [late EXCEPT ![p] = {}]
    BY Zenon DEF RunIInv, BaseInv, TypeInv, Close
<1>3. \A q \in Procs : late'[q] \subseteq late[q]
    BY <1>2, Zenon
<1>4. OnceInv' /\ \A s \in Steps : Used(s)' => Used(s)
    BY <1>1, <1>3, LateLess, Zenon DEF RunIInv
<1> QED
    BY <1>1, <1>4, BesideMemory, Zenon

LEMMA LateReturnMemory ==
    ASSUME RunIInv, BaseInv', NEW p \in Procs, LateReturn(p)
    PROVE  RunIInv'
<1>1. PICK call \in late[p] :
        /\ run[p].epoch # call.epoch
        /\ effects' = IF call.started THEN effects ELSE [effects EXCEPT ![call.step] = @ + 1]
        /\ checkpoints' = IF checkpoints # <<>> /\ ValidWriterEpoch(p, call.epoch)
                          THEN Append(checkpoints, [Newest EXCEPT !.epoch = call.epoch, !.status = "indeterminate"])
                          ELSE checkpoints
        /\ late' = [late EXCEPT ![p] = @ \ {call}]
        /\ UNCHANGED <<lock, epochFile, plan, trace, store, agenda, run, faults, acked>>
    BY Zenon DEF LateReturn
<1>2. BaseInv /\ OnceInv
    BY Zenon DEF RunIInv
<1>3. UNCHANGED <<lock, plan, checkpoints, acked, run, agenda>>
    BY <1>1, <1>2, LateFenced, Zenon
<1>4. late \in [Procs -> SUBSET LateType] /\ effects \in [Steps -> Nat] /\ call \in LateType
    BY <1>1, <1>2, Zenon DEF BaseInv, TypeInv
<1>5. \A q \in Procs : late'[q] \subseteq late[q] /\ (q = p => call \notin late'[q])
    BY <1>1, <1>4, Zenon
<1>6. CASE call.started
  <2>1. UNCHANGED effects
    BY <1>1, <1>6, Zenon
  <2>2. OnceInv' /\ \A s \in Steps : Used(s)' => Used(s)
    BY <1>2, <1>5, <2>1, LateLess, Zenon
  <2> QED
    BY <1>3, <2>2, BesideMemory, Zenon
<1>7. CASE ~call.started
  <2>1. PICK t \in Steps : t = call.step
    BY <1>4, Zenon DEF LateType
  <2>2. effects[t] = 0 /\ Used(t)
    BY <1>1, <1>2, <1>7, <2>1 DEF OnceInv, Used
  <2>3. \A s \in Steps : effects'[s] = IF s = t THEN 1 ELSE effects[s]
    BY <1>1, <1>4, <1>7, <2>1, <2>2, SMTT(20)
  <2>4. \A q \in Procs : \A a \in late'[q] : ~a.started => a.step # t
    <3> SUFFICES ASSUME NEW q \in Procs, NEW a \in late'[q], ~a.started PROVE a.step # t
      BY Zenon
    <3>1. a \in late[q] /\ (q = p => a # call)
      BY <1>5, Zenon
    <3>2. a.step = call.step => q = p /\ a = call
      BY <1>2, <1>7, <3>1, Zenon DEF OnceInv
    <3> QED
      BY <2>1, <3>1, <3>2, Zenon
  <2>5. EffectOnce'
    BY <1>2, <2>3 DEF OnceInv, EffectOnce
  <2>6. \A q \in Procs : \A a \in late'[q] : ~a.started => effects'[a.step] = 0
    <3>1. \A q \in Procs : \A a \in late'[q] : a.step \in Steps
      BY <1>4, <1>5 DEF LateType
    <3> QED
      BY <1>2, <1>5, <2>3, <2>4, <3>1, SMTT(20) DEF OnceInv
  <2>7. \A q, z \in Procs : \A a \in late'[q], b \in late'[z] :
         ~a.started /\ ~b.started /\ a.step = b.step => q = z /\ a = b
    <3> SUFFICES ASSUME NEW q \in Procs, NEW z \in Procs, NEW a \in late'[q], NEW b \in late'[z],
                        ~a.started, ~b.started, a.step = b.step
                 PROVE  q = z /\ a = b
      BY Zenon
    <3>1. a \in late[q] /\ b \in late[z]
      BY <1>5, Zenon
    <3> QED
      BY <1>2, <3>1, Zenon DEF OnceInv
  <2>8. OnceInv'
    BY <2>5, <2>6, <2>7, Zenon DEF OnceInv
  <2>9. \A s \in Steps : Used(s)' => Used(s)
    <3>1. \A s \in Steps : s # t /\ Used(s)' => Used(s)
      BY <1>5, <2>3, Zenon DEF Used
    <3> QED
      BY <2>2, <3>1, Zenon
  <2> QED
    BY <1>3, <2>8, <2>9, BesideMemory, Zenon
<1> QED
    BY <1>6, <1>7, Zenon

\* The lease is let go of: nobody has a run that remembers.
LEMMA DroppedMemory ==
    ASSUME RunIInv, BaseInv', lock' = None, UNCHANGED <<plan, checkpoints, acked, effects>>,
           \A q \in Procs : late'[q] \subseteq late[q]
    PROVE  RunIInv'
<1>1. OnceInv' /\ \A s \in Steps : Used(s)' => Used(s)
    BY LateLess, Zenon DEF RunIInv
<1>2. \A s \in Steps : Used(s)' => Marked(s)
    BY <1>1, Zenon DEF RunIInv, RecordInv
<1>3. RecordInv'
    BY <1>2, RecordSame, Zenon DEF RunIInv
<1>4. (checkpoints # <<>> \/ lock # None => plan)'
    BY Zenon DEF RunIInv
<1>5. \A p \in Procs : lock' # p
    BY NoneAssumption, Zenon
<1> QED
    BY <1>1, <1>3, <1>4, <1>5, Zenon DEF RunIInv

LEMMA ReleaseMemory ==
    ASSUME RunIInv, BaseInv', NEW p \in Procs, Release(p)
    PROVE  RunIInv'
<1>1. lock' = None /\ UNCHANGED <<plan, checkpoints, acked, effects, late>>
    BY Zenon DEF Release, ghosts
<1>2. \A q \in Procs : late'[q] \subseteq late[q]
    BY <1>1, Zenon
<1> QED
    BY <1>1, <1>2, DroppedMemory, Zenon

LEMMA CrashMemory ==
    ASSUME RunIInv, BaseInv', NEW p \in Procs, Crash(p)
    PROVE  RunIInv'
<1>1. lock' = None /\ UNCHANGED <<plan, checkpoints, acked, effects>> /\ late' = [late EXCEPT ![p] = {}]
    BY Zenon DEF Crash, ghosts
<1>2. late \in [Procs -> SUBSET LateType]
    BY Zenon DEF RunIInv, BaseInv, TypeInv
<1>3. \A q \in Procs : late'[q] \subseteq late[q]
    BY <1>1, <1>2, Zenon
<1> QED
    BY <1>1, <1>3, DroppedMemory, Zenon

\* The lease is taken, with a run that remembers what it has to.
LEMMA TakenMemory ==
    ASSUME RunIInv, BaseInv', NEW p \in Procs, lock' = p, plan',
           NEW a, agenda' = [agenda EXCEPT ![p] = a], NEW s, run' = [run EXCEPT ![p] = s],
           UNCHANGED <<checkpoints, acked, effects, late>>,
           Memory(s, a), End(a) \notin {"tool", "exec"}
    PROVE  RunIInv'
<1>1. OnceInv' /\ \A t \in Steps : Used(t)' <=> Used(t)
    BY UsedSame, Zenon DEF RunIInv
<1>2. \A t \in Steps : Used(t)' => Marked(t)
    BY <1>1, Zenon DEF RunIInv, RecordInv
<1>3. RecordInv'
    BY <1>2, RecordSame, Zenon DEF RunIInv
<1>4. Memory(s, a)'
    BY <1>1, MemoryLess, Zenon
<1>5. agenda'[p] = a /\ run'[p] = s
    BY Zenon DEF RunIInv, BaseInv, TypeInv
<1>6. \A q \in Procs : lock' = q => q = p
    BY Zenon
<1>7. \A q \in Procs : lock' = q => Memory(run[q], agenda[q])'
    BY <1>4, <1>5, <1>6, Zenon DEF Memory
<1> QED
    BY <1>1, <1>3, <1>7, Zenon DEF RunIInv

\* A run that has nothing behind it.
LEMMA NewMemory ==
    ASSUME RunIInv, NEW e \in Nat, NEW s, s = NewRun(e), NEW a \in {<<"ready">>, <<"release">>},
           a = <<"ready">> => checkpoints = <<>>
    PROVE  Memory(s, a)
<1>1. /\ s.checkpoint = 0 /\ s.dispatch = "none" /\ s.turn = None
      /\ s.back.dispatch = "none" /\ s.back.turn = None /\ \A t \in Steps : s.results[t] = None
    BY NewRunType
<1>2. SoundRun(s) /\ SoundBack(s)
    BY <1>1, Zenon DEF SoundRun, SoundBack, Sound
<1>3. Current(s) => checkpoints = <<>>
    BY <1>1, TypedParts DEF Current, RunIInv
<1>4. checkpoints = <<>> => \A t \in Steps : ~Used(t) /\ acked[t] = None
    BY Zenon DEF RunIInv, RecordInv, Marked, AckedAnswerKept
<1>5. Current(s) => KeepsRun(s) /\ Holding(s.results)
    BY <1>3, <1>4, Zenon DEF KeepsRun, Keeps, Holding
<1>6. /\ Head(a) \notin {"project", "recover"}
      /\ End(a) \in {"ready", "release"} /\ (End(a) = "ready" => checkpoints = <<>>)
    BY DEF End
<1>7. Fit(s, End(a))
    BY <1>1, <1>6, Zenon DEF Fit
<1>8. Recorded(s, End(a))
    BY <1>1, <1>6, Zenon DEF Recorded, Current
<1> QED
    BY <1>2, <1>5, <1>6, <1>7, <1>8, Zenon DEF Memory

LEMMA StartMemory ==
    ASSUME RunIInv, BaseInv', NEW p \in Procs, Start(p)
    PROVE  RunIInv'
<1>1. PICK e \in Nat : e = epochFile + 1
    BY DEF RunIInv, BaseInv, TypeInv
<1>2. PICK s : s = NewRun(e)
    BY Zenon
<1>3. PICK a : a = <<"ready">>
    BY Zenon
<1>4. /\ ~plan /\ plan' /\ lock' = p /\ UNCHANGED <<checkpoints, acked, effects, late>>
      /\ run' = [run EXCEPT ![p] = s] /\ agenda' = [agenda EXCEPT ![p] = a]
    BY <1>1, <1>2, <1>3, Zenon DEF Start, AcquireRunLease, Go, ghosts
<1>5. checkpoints = <<>>
    BY <1>4, Zenon DEF RunIInv
<1>6. Memory(s, a)
    BY <1>2, <1>3, <1>5, NewMemory, Zenon
<1>7. End(a) = "ready"
    BY <1>3, Zenon DEF End
<1> QED
    BY <1>4, <1>6, <1>7, TakenMemory, Zenon

\* The run of the newest checkpoint remembers what that tells.
LEMMA RebuiltMemory ==
    ASSUME RunIInv, NEW e \in Nat, checkpoints # <<>>, NEW s, s = Rebuilt(Newest, e)
    PROVE  Memory(s, <<"recover", "scan">>)
<1>1. Len(checkpoints) \in DOMAIN checkpoints /\ checkpoints \in Seq(SnapshotType)
    BY TypedParts DEF RunIInv
<1>2. PICK c \in SnapshotType : c = Newest
    BY <1>1 DEF Newest
<1>3. SnapshotSound(c)
    BY <1>1, <1>2, Zenon DEF RunIInv, RecordInv, Newest
<1>4. /\ s.step = (IF c.dispatch = "prepared" THEN c.next ELSE c.next - 1)
      /\ s.dispatch = c.dispatch /\ s.turn = c.turn /\ s.results = c.results
      /\ s.back = [dispatch |-> c.dispatch, turn |-> c.turn]
  <2>1. c.dispatch = "prepared" => c.next \in Steps
    BY <1>3, Zenon DEF SnapshotSound
  <2> QED
    BY <1>1, <1>2, <2>1, RebuiltRun, Zenon
<1>5. c.next \in 1..Len(Kind) + 1 /\ Len(Kind) \in Nat /\ Steps = 1..Len(Kind)
    BY <1>2, PlanAssumption DEF SnapshotType, Steps
<1>6. Sound(s.step, c.dispatch, c.turn, c.results)
    BY <1>3, <1>4, <1>5 DEF Sound, SnapshotSound
<1>7. Keeps(s.step, c.dispatch, c.turn, c.results)
  <2>1. \A t \in Steps : Used(t) => c.results[t] # None \/ (c.dispatch = "prepared" /\ s.step = t)
    <3>1. \A t \in Steps : Used(t) => c.results[t] # None \/ (c.dispatch = "prepared" /\ c.next = t)
      BY <1>2, Zenon DEF RunIInv, RecordInv, Marked
    <3>2. c.dispatch = "prepared" => s.step = c.next
      BY <1>4, Zenon
    <3> QED
      BY <3>1, <3>2, Zenon
  <2>2. \A t \in Steps : acked[t] # None => c.results[t] = acked[t] \/ (c.turn = acked[t] /\ c.results[t] = None)
    BY <1>2, Zenon DEF RunIInv, RecordInv, AckedAnswerKept
  <2> QED
    BY <2>1, <2>2, Zenon DEF Keeps
<1>8. Holding(c.results)
    BY <1>2, Zenon DEF Holding
<1>9. s.back.dispatch = c.dispatch /\ s.back.turn = c.turn
    BY <1>4
<1>10. SoundRun(s) /\ SoundBack(s) /\ KeepsRun(s) /\ KeepsBack(s) /\ Holding(s.results)
    BY <1>4, <1>6, <1>7, <1>8, <1>9, Zenon DEF SoundRun, SoundBack, KeepsRun, KeepsBack
<1>11. End(<<"recover", "scan">>) = "scan"
    BY Zenon DEF End
<1>12. c.turn # None => s.step = 0
    BY <1>3, <1>4, <1>5 DEF SnapshotSound
<1>13. Fit(s, "scan") /\ Recorded(s, "scan")
    BY <1>4, <1>12, Zenon DEF Fit, Recorded, Open
<1> QED
    BY <1>10, <1>11, <1>13, Zenon DEF Memory

LEMMA ResumeMemory ==
    ASSUME RunIInv, BaseInv', NEW p \in Procs, NEW acknowledged \in BOOLEAN, Resume(p, acknowledged)
    PROVE  RunIInv'
<1>1. PICK e \in Nat : e = epochFile + 1
    BY DEF RunIInv, BaseInv, TypeInv
<1>2. plan' /\ lock' = p /\ UNCHANGED <<checkpoints, acked, effects, late>>
    BY Zenon DEF Resume, AcquireRunLease, ghosts, RunIInv
<1>3. CASE run' = [run EXCEPT ![p] = NewRun(e)] /\ agenda' = [agenda EXCEPT ![p] = <<"release">>]
  <2>1. PICK s : s = NewRun(e)
    BY Zenon
  <2>2. <<"release">> # <<"ready">> /\ End(<<"release">>) = "release"
    BY Zenon DEF End
  <2>3. Memory(s, <<"release">>)
    BY <2>1, <2>2, NewMemory, Zenon
  <2> QED
    BY <1>2, <1>3, <2>1, <2>2, <2>3, TakenMemory, Zenon
<1>4. CASE /\ checkpoints # <<>> /\ run' = [run EXCEPT ![p] = Rebuilt(Newest, e)]
           /\ agenda' = [agenda EXCEPT ![p] = <<"recover", "scan">>]
  <2>1. PICK s : s = Rebuilt(Newest, e)
    BY Zenon
  <2>2. End(<<"recover", "scan">>) = "scan"
    BY Zenon DEF End
  <2>3. Memory(s, <<"recover", "scan">>)
    BY <1>4, <2>1, RebuiltMemory, Zenon
  <2> QED
    BY <1>2, <1>4, <2>1, <2>2, <2>3, TakenMemory, Zenon
<1> QED
  <2>1. \/ /\ run' = [run EXCEPT ![p] = NewRun(epochFile + 1)]
           /\ agenda' = [agenda EXCEPT ![p] = <<"release">>]
        \/ /\ checkpoints # <<>> /\ run' = [run EXCEPT ![p] = Rebuilt(Newest, epochFile + 1)]
           /\ agenda' = [agenda EXCEPT ![p] = <<"recover", "scan">>]
    BY Zenon DEF Resume, Go
  <2> QED
    BY <1>1, <1>3, <1>4, <2>1, Zenon

-----------------------------------------------------------------------------
(* The theorems.                                                           *)

LEMMA RunInitial ==
    ASSUME Init
    PROVE  RunIInv
<1>1. BaseInv
    BY BaseInitial, Zenon
<1>2. /\ lock = None /\ checkpoints = <<>>
      /\ \A p \in Procs : late[p] = {}
      /\ \A s \in Steps : effects[s] = 0 /\ acked[s] = None
    BY Zenon DEF Init
<1>3. \A s \in Steps : ~Used(s)
    BY <1>2 DEF Used
<1>4. RecordInv
  <2>1. \A n \in DOMAIN checkpoints : SnapshotSound(checkpoints[n])
    BY <1>2
  <2>2. AckedAnswerKept
    BY <1>2, Zenon DEF AckedAnswerKept
  <2> QED
    BY <1>2, <1>3, <2>1, <2>2, Zenon DEF RecordInv
<1>5. OnceInv
    BY <1>2 DEF OnceInv, EffectOnce
<1>6. \A p \in Procs : lock # p
    BY <1>2, NoneAssumption, Zenon
<1> QED
    BY <1>1, <1>2, <1>4, <1>5, <1>6, Zenon DEF RunIInv

LEMMA RunStutter ==
    ASSUME RunIInv, BaseInv', UNCHANGED vars
    PROVE  RunIInv'
<1>1. UNCHANGED <<lock, plan, checkpoints, acked, run, agenda, effects, late>>
    BY Zenon DEF vars, disk, ghosts
<1>2. OnceInv' /\ \A s \in Steps : Used(s)' => Used(s)
    BY <1>1, UsedSame, Zenon DEF RunIInv
<1> QED
    BY <1>1, <1>2, BesideMemory, Zenon

LEMMA RunNext ==
    ASSUME QuestionsFirst, RunIInv, BaseInv', Next
    PROVE  RunIInv' /\ StableStep
<1>1. PICK p \in Procs :
        \/ Start(p) \/ Release(p) \/ Close(p) \/ Crash(p)
        \/ Project(p) \/ ProjectFails(p)
        \/ Emit(p) \/ EmitFails(p) \/ TraceErrSeen(p)
        \/ BeginStep(p) \/ Complete(p) \/ PrepareDispatch(p) \/ Execute(p) \/ SettleTool(p)
        \/ PrepareInteraction(p) \/ AlreadyAnswered(p) \/ Acknowledge(p) \/ SettleAnswer(p)
        \/ \E answer \in Answers : AcceptInteraction(p, answer)
        \/ Halt(p) \/ Cancel(p) \/ Detach(p) \/ LateReturn(p)
        \/ \E acknowledged \in BOOLEAN : Resume(p, acknowledged)
        \/ RecoverDispatch(p) \/ RefuseTerminal(p) \/ RebuildRun(p)
    BY Zenon DEF Next
<1>a. UNCHANGED checkpoints => StableStep
    BY Zenon DEF StableStep, Newest
<1>2. CASE Start(p) \/ Release(p) \/ Close(p) \/ Crash(p)
  <2>1. UNCHANGED checkpoints
    BY <1>2, Zenon DEF Start, Release, Close, Crash, disk
  <2> QED
    BY <1>2, <1>a, <2>1, StartMemory, ReleaseMemory, CloseMemory, CrashMemory, Zenon
<1>3. CASE Project(p) \/ ProjectFails(p) \/ Emit(p) \/ EmitFails(p) \/ TraceErrSeen(p)
  <2>1. UNCHANGED checkpoints
    BY <1>3, Zenon DEF Project, ProjectFails, Emit, EmitFails, TraceErrSeen, disk
  <2> QED
    BY <1>3, <1>a, <2>1, ProjectMemory, ProjectFailsMemory, EmitMemory, EmitFailsMemory, TraceErrSeenMemory, Zenon
<1>4. CASE BeginStep(p) \/ Execute(p) \/ AlreadyAnswered(p) \/ Acknowledge(p)
  <2>1. UNCHANGED checkpoints
    BY <1>4, Zenon DEF BeginStep, Execute, AlreadyAnswered, Acknowledge, disk
  <2> QED
    BY <1>4, <1>a, <2>1, BeginStepMemory, ExecuteMemory, AlreadyAnsweredMemory, AcknowledgeMemory, Zenon
<1>5. CASE RefuseTerminal(p) \/ RebuildRun(p)
  <2>1. UNCHANGED checkpoints
    BY <1>5, Zenon DEF RefuseTerminal, RebuildRun, disk
  <2> QED
    BY <1>5, <1>a, <2>1, RefuseTerminalMemory, RebuildRunMemory, Zenon
<1>6. CASE LateReturn(p)
  <2>1. UNCHANGED checkpoints
    BY <1>6, LateReturnBase, Zenon DEF RunIInv
  <2> QED
    BY <1>6, <1>a, <2>1, LateReturnMemory, Zenon
<1>7. CASE \E acknowledged \in BOOLEAN : Resume(p, acknowledged)
  <2>1. UNCHANGED checkpoints
    BY <1>7, Zenon DEF Resume
  <2> QED
    BY <1>7, <1>a, <2>1, ResumeMemory, Zenon
<1>8. CASE Complete(p) \/ PrepareDispatch(p) \/ SettleTool(p) \/ PrepareInteraction(p) \/ SettleAnswer(p)
    BY <1>8, CompleteMemory, PrepareDispatchMemory, SettleToolMemory, PrepareInteractionMemory, SettleAnswerMemory,
       Zenon
<1>9. CASE \E answer \in Answers : AcceptInteraction(p, answer)
    BY <1>9, AcceptInteractionMemory, Zenon
<1>10. CASE Halt(p) \/ Cancel(p) \/ Detach(p) \/ RecoverDispatch(p)
    BY <1>10, HaltMemory, CancelMemory, DetachMemory, RecoverDispatchMemory, Zenon
<1> QED
    BY <1>1, <1>2, <1>3, <1>4, <1>5, <1>6, <1>7, <1>8, <1>9, <1>10, Zenon

\* In every state the newest checkpoint tells of every effect that was started and of
\* every answer that was acknowledged, and the run of the leaseholder remembers them
\* for as long as it can still save a checkpoint (persistCompletedCheckpoint, LoadState and
\* RebuildRun, the roll back of a commit that failed, the tool call of a cancelled run).
THEOREM RunInductive ==
    ASSUME QuestionsFirst
    PROVE  Spec => []RunIInv
<1>1. RunIInv /\ BaseInv' /\ [Next]_vars => RunIInv'
    BY RunNext, RunStutter, Zenon
<1> QED
    BY <1>1, RunInitial, BaseInductive, PTL DEF Spec

\* The effect of a tool step is started at most once in the life of the run: the intent
\* that PrepareDispatch commits is found by every later writer, whatever crashed, was
\* cancelled or detached in between, and recoverUnmatchedDispatches never executes it again.
THEOREM EffectOnceAlways ==
    ASSUME QuestionsFirst
    PROVE  Spec => []EffectOnce
<1>1. RunIInv => EffectOnce
    BY Zenon DEF RunIInv, OnceInv
<1> QED
    BY <1>1, RunInductive, PTL

\* An answer that AcceptInteraction acknowledged is in the newest checkpoint, as the
\* answered turn or as the result of its step, across crashes and resumptions.
THEOREM AckedAnswerKeptAlways ==
    ASSUME QuestionsFirst
    PROVE  Spec => []AckedAnswerKept
<1>1. RunIInv => AckedAnswerKept
    BY Zenon DEF RunIInv, RecordInv
<1> QED
    BY <1>1, RunInductive, PTL

\* The cursor that nextExecutionCursorSet gives the newest checkpoint names a step that
\* has not been settled: a resumption never executes a settled step again.
THEOREM CursorUnsettledAlways ==
    ASSUME QuestionsFirst
    PROVE  Spec => []CursorUnsettled
<1>1. RunIInv => CursorUnsettled
  <2> SUFFICES ASSUME RunIInv, checkpoints # <<>>, Newest.next \in Steps PROVE Newest.results[Newest.next] = None
    BY Zenon DEF CursorUnsettled
  <2>1. Len(checkpoints) \in DOMAIN checkpoints
    BY TypedParts DEF RunIInv
  <2>2. SnapshotSound(Newest)
    BY <2>1, Zenon DEF RunIInv, RecordInv, Newest
  <2>3. Newest.next >= Newest.next
    BY PlanAssumption DEF Steps
  <2> QED
    BY <2>2, <2>3, Zenon DEF SnapshotSound
<1> QED
    BY <1>1, RunInductive, PTL

\* A result that a checkpoint records for a step is in every later checkpoint: no
\* resumption, cancellation, late tool or rolled back commit takes it away.
THEOREM ResultsStableAlways ==
    ASSUME QuestionsFirst
    PROVE  Spec => ResultsStable
<1>1. RunIInv /\ BaseInv' /\ [Next]_vars => [StableStep]_vars
    BY RunNext, Zenon
<1>2. Spec => [][StableStep]_vars
    BY <1>1, RunInductive, BaseInductive, PTL DEF Spec
<1> QED
    BY <1>2, PTL DEF ResultsStable, StableStep
=============================================================================
