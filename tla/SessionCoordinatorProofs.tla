---------------------- MODULE SessionCoordinatorProofs ----------------------
(***************************************************************************)
(* Proofs about SessionCoordinator, for any set of processes and any length *)
(* of the handoff chain.  The properties are about one process that drives, *)
(* fails and hands over while others wait, so the inductive invariant says  *)
(* for each place of a coordinator what it may rely on: who is past         *)
(* AcquireSession is alone (HoldsLease), the journal tells which run may be  *)
(* entered (JournalInv), and what is in memory has been restored from the   *)
(* journal or is on its way to it (Enters, Engages, Saves, Drives).         *)
(***************************************************************************)
EXTENDS SessionCoordinator, TLAPS

\* There is a first run, and no process has the name that says a lease is free.
CoordConstants == Runs \in Nat \ {0} /\ Nobody \notin Process

Place == {"off", "leased", "attached", "resume", "source", "restore", "restoring", "engine", "save",
          "journal", "register", "drive", "prepare", "commit", "refused", "pause", "stopped", "failed"}
Goal == {"off", "begun", "register", "drive", "prepare", "refused", "pause", "stopped", "failed"}
Entry == {"none", "start", "reconcile", "resume", "target"}
RunStatus == {"running", "dispatch", "paused", "handoff", "indeterminate", "halted"} \cup Ended
AttemptStatus == Working \cup Ended \cup {"absent", "paused", "handoff", "indeterminate", "handed_off"}

SavedState == [epoch : Nat, st : RunStatus]

Attempts == [CoordRun -> [status : AttemptStatus, checkpoint : Seq(SavedState)]]

JournalRec == [seq : Nat, active : 0..Runs, closed : BOOLEAN, attempt : Attempts,
               transition : [CoordRun -> {"none", "prepared", "committed"}]]

LeaseRec == [epoch : Nat, holder : Process \cup {Nobody}]

RunRec == [epoch : Nat, holder : Process \cup {Nobody}, state : Seq(SavedState)]

ProcRec == [pc : Place, via : Entry, epoch : Nat, run : 0..Runs, handle : 0..Runs, seq : Nat,
            mem : Seq(SavedState), next : Goal, detaching : 0..Runs, ack : BOOLEAN]

TypeOK ==
    /\ journal \in JournalRec /\ sessionLease \in LeaseRec
    /\ runStore \in [CoordRun -> RunRec] /\ proc \in [Process -> ProcRec]

\* Places of a coordinator: before it has chosen a run, on the way into the engine, with
\* the engine's lease, and in a handoff.
Attaching == {"leased", "attached", "resume", "source"}
Entering == {"restore", "restoring", "engine"}
Engaged == {"save", "journal", "register", "drive"}
Handing == {"source", "prepare", "commit"}

\* The engine refuses to go on from this checkpoint.
Over(c) == c # <<>> /\ Newest(c).st \in Ended \cup {"handoff"}

\* The journal: an attempt that could still run is the active one, and a run is absent
\* until the handoff to it is committed.
AttemptInv(r) ==
    /\ Status(r) = "absent" => Checkpoint(r) = <<>> /\ runStore[r].epoch = 0
    /\ Status(r) \in Working => journal.active = r
    /\ Status(r) = "handoff" =>
         Checkpoint(r) # <<>> /\ Newest(Checkpoint(r)).st = "handoff" /\ r # Runs
    /\ Status(r) # "absent" /\ ~ Over(Checkpoint(r)) => journal.active = r \/ journal.closed
    /\ journal.transition[r] # "none" =>
         /\ Checkpoint(r) # <<>> /\ Newest(Checkpoint(r)).st = "handoff"
         /\ Status(r) \in {"handoff", "handed_off"}
    /\ r # Runs /\ journal.transition[r] # "committed" => Status(r + 1) = "absent"

JournalInv ==
    /\ journal.seq = 0 =>
         journal.active = NoRun /\ ~ journal.closed /\ \A r \in CoordRun : Status(r) = "absent"
    /\ journal.seq # 0 => Status(1) # "absent"
    /\ journal.closed => journal.active = NoRun
    /\ \A r \in CoordRun : AttemptInv(r)

RunEpochs == \A r \in CoordRun : runStore[r].epoch <= sessionLease.epoch

\* A coordinator that has not released or crashed holds the session lease, and it finds or
\* creates a session before it does anything else.
HoldsLease(p) ==
    /\ proc[p].pc = "off" => proc[p].handle = NoRun
    /\ proc[p].pc # "off" => Current(p) /\ proc[p].epoch # 0
    /\ proc[p].pc \notin {"off", "leased"} => journal.seq # 0

\* No run has the epoch of a coordinator that has not entered one.
AheadOfRuns(p) ==
    proc[p].pc \in Attaching => \A r \in CoordRun : runStore[r].epoch < proc[p].epoch

Placed(p) ==
    proc[p].pc \in Entering \cup Engaged \cup Handing =>
        proc[p].run \in CoordRun /\ Status(proc[p].run) # "absent"

\* On the way into the engine: the memory, and then the run store, are the journal's.
Enters(p) ==
    LET q == proc[p] IN
    /\ q.pc \in Entering =>
         (q.via # "start" => journal.active = q.run) /\ runStore[q.run].epoch < q.epoch
    /\ q.pc \in {"restoring", "engine"} => q.mem = Checkpoint(q.run)
    /\ q.pc = "engine" /\ q.mem # <<>> => runStore[q.run].state = q.mem

\* With the engine's lease: the run is the active one and is not being handed over.
Engages(p) ==
    LET q == proc[p] IN
    q.pc \in Engaged =>
        /\ journal.active = q.run \/ (journal.closed /\ q.via = "start")
        /\ journal.transition[q.run] = "none" /\ runStore[q.run].epoch = q.epoch
        /\ q.mem # <<>> /\ (Newest(q.mem).st = "handoff" => q.run # Runs)

\* A checkpoint on its way to the journal: where the run goes on, its lease is kept.
Saves(p) ==
    LET q == proc[p] IN
    /\ q.pc \in {"save", "journal"} =>
         /\ q.next # "off"
         /\ q.next \in {"begun", "register", "drive"} =>
              /\ runStore[q.run].holder = p /\ Newest(q.mem).st \notin Ended
              /\ Stops(Newest(q.mem).st) => q.next = "register"
    /\ q.pc = "journal" => runStore[q.run].state = q.mem

\* Registered or driven: memory, run store and journal agree.
Drives(p) ==
    LET q == proc[p] IN
    q.pc \in {"register", "drive"} =>
        q.mem = Checkpoint(q.run) /\ runStore[q.run].state = q.mem /\ runStore[q.run].holder = p

HandsOff(p) ==
    proc[p].pc = "commit" => journal.active = proc[p].run /\ Status(proc[p].run) = "handoff"

PlaceInv(p) == AheadOfRuns(p) /\ Placed(p) /\ Enters(p) /\ Engages(p) /\ Saves(p) /\ Drives(p) /\ HandsOff(p)

\* The inductive invariant.
CoordIInv ==
    /\ CoordConstants /\ TypeOK /\ JournalInv /\ RunEpochs
    /\ \A p \in Process : HoldsLease(p) /\ PlaceInv(p)

----------------------------------------------------------------------------

\* The record of a process that is not attached.
LEMMA IdleFacts ==
    ASSUME CoordConstants
    PROVE  Idle \in ProcRec /\ Idle.pc = "off" /\ Idle.handle = NoRun
<1>1. Runs \in Nat /\ 0 \in Nat /\ 0 \in 0..Runs /\ <<>> \in Seq(SavedState)
    BY DEF CoordConstants
<1>2. "off" \in Place /\ "none" \in Entry /\ "off" \in Goal /\ FALSE \in BOOLEAN
    BY Zenon DEF Place, Entry, Goal
<1>3. Idle.pc = "off" /\ Idle.handle = NoRun
    BY DEF Idle
<1> DEFINE c == <<>>
<1>4. c \in Seq(SavedState)
    BY <1>1, Zenon
<1>5. Idle = [pc |-> "off", via |-> "none", epoch |-> 0, run |-> 0, handle |-> 0, seq |-> 0,
              mem |-> c, next |-> "off", detaching |-> 0, ack |-> FALSE]
    BY Zenon DEF Idle, NoRun
<1> HIDE DEF c
<1>6. Idle \in ProcRec
    BY <1>1, <1>2, <1>4, <1>5 DEF ProcRec
<1> QED
    BY <1>3, <1>6, Zenon

\* Nothing is relied on before the first attachment.
LEMMA CoordInit == CoordConstants /\ Init => CoordIInv
<1> SUFFICES ASSUME CoordConstants, Init PROVE CoordIInv
    BY Zenon
<1>c. Runs \in Nat /\ 0 \in Nat /\ 0 \in 0..Runs /\ 1 \in CoordRun /\ <<>> \in Seq(SavedState)
    BY DEF CoordConstants, CoordRun
<1>i. Idle \in ProcRec /\ Idle.pc = "off" /\ Idle.handle = NoRun
    BY IdleFacts, Zenon
<1>1. TypeOK
  <2>1. journal \in JournalRec
    <3> DEFINE a == [r \in CoordRun |-> [status |-> "absent", checkpoint |-> <<>>]]
               t == [r \in CoordRun |-> "none"]
    <3>1. a \in Attempts
      <4>1. \A c \in Seq(SavedState) : [status |-> "absent", checkpoint |-> c] \in
              [status : AttemptStatus, checkpoint : Seq(SavedState)]
        BY Zenon DEF AttemptStatus
      <4> QED
        BY <1>c, <4>1, Zenon DEF Attempts
    <3>2. t \in [CoordRun -> {"none", "prepared", "committed"}]
      BY Zenon
    <3>3. journal = [seq |-> 0, active |-> NoRun, closed |-> FALSE, attempt |-> a, transition |-> t]
      BY Zenon DEF Init
    <3> HIDE DEF a, t
    <3> QED
      BY <1>c, <3>1, <3>2, <3>3 DEF JournalRec, NoRun
  <2>2. sessionLease \in LeaseRec /\ runStore \in [CoordRun -> RunRec]
    BY <1>c, Zenon DEF Init, LeaseRec, RunRec, Gone
  <2> QED
    BY <1>i, <2>1, <2>2, Zenon DEF Init, TypeOK
<1>2. /\ journal.seq = 0 /\ journal.active = NoRun /\ journal.closed = FALSE
      /\ \A r \in CoordRun : Status(r) = "absent" /\ Checkpoint(r) = <<>>
                             /\ runStore[r].epoch = 0 /\ journal.transition[r] = "none"
    BY Zenon DEF Init, Status, Checkpoint
<1>3. \A r \in CoordRun : r # Runs => r + 1 \in CoordRun
    BY <1>c DEF CoordRun
<1>4. JournalInv
    BY <1>c, <1>2, <1>3, Zenon DEF JournalInv, AttemptInv, Working
<1>5. RunEpochs
    BY <1>2 DEF RunEpochs, Init
<1>6. ASSUME NEW p \in Process PROVE HoldsLease(p) /\ PlaceInv(p)
  <2>1. proc[p].pc = "off" /\ proc[p].handle = NoRun
    BY <1>i, Zenon DEF Init
  <2> QED
    BY <2>1, Zenon DEF HoldsLease, PlaceInv, AheadOfRuns, Placed, Enters, Engages, Saves, Drives,
       HandsOff, Attaching, Entering, Engaged, Handing
<1> QED
    BY <1>1, <1>4, <1>5, <1>6, Zenon DEF CoordIInv

\* Nobody else is past AcquireSession.
LEMMA Alone ==
    ASSUME CoordIInv, NEW p \in Process, NEW q \in Process, q # p, proc[p].pc # "off"
    PROVE  proc[q].pc = "off"
    BY Zenon DEF CoordIInv, HoldsLease, Current

\* A step of one process that is past AcquireSession keeps the invariant when it keeps
\* what is about the journal and about itself.
LEMMA OwnStep ==
    ASSUME CoordIInv, NEW p \in Process, NEW new \in ProcRec, proc[p].pc # "off",
           proc' = [proc EXCEPT ![p] = new], journal' \in JournalRec,
           sessionLease' \in LeaseRec, runStore' \in [CoordRun -> RunRec],
           JournalInv', RunEpochs', HoldsLease(p)', PlaceInv(p)'
    PROVE  CoordIInv'
<1>1. TypeOK'
    BY Zenon DEF CoordIInv, TypeOK
<1>2. ASSUME NEW q \in Process, q # p PROVE (HoldsLease(q) /\ PlaceInv(q))'
  <2>1. proc'[q] = proc[q] /\ proc[q].pc = "off"
    BY <1>2, Alone, Zenon DEF CoordIInv, TypeOK
  <2>2. proc[q].handle = NoRun
    BY <2>1, Zenon DEF CoordIInv, HoldsLease
  <2> QED
    BY <2>1, <2>2, Zenon DEF HoldsLease, PlaceInv, AheadOfRuns, Placed, Enters, Engages, Saves,
       Drives, HandsOff, Attaching, Entering, Engaged, Handing
<1> QED
    BY <1>1, <1>2, Zenon DEF CoordIInv, CoordConstants

\* JournalInv depends on the run store only through the runs that are absent.
LEMMA JournalKept ==
    ASSUME CoordIInv, journal' = journal,
           \A r \in CoordRun : Status(r) = "absent" => runStore'[r].epoch = runStore[r].epoch
    PROVE  JournalInv'
<1>1. JournalInv /\ \A r \in CoordRun : Status(r)' = Status(r) /\ Checkpoint(r)' = Checkpoint(r)
    BY Zenon DEF CoordIInv, Status, Checkpoint
<1>2. Status(1)' = Status(1) /\ \A r \in CoordRun : Status(r + 1)' = Status(r + 1)
    BY Zenon DEF Status
<1>3. ASSUME NEW r \in CoordRun PROVE AttemptInv(r)'
  <2>1. AttemptInv(r) /\ Status(r)' = Status(r) /\ Checkpoint(r)' = Checkpoint(r)
        /\ Status(r + 1)' = Status(r + 1)
    BY <1>1, <1>2, Zenon DEF JournalInv
  <2>2. Over(Checkpoint(r)') <=> Over(Checkpoint(r))
    BY <2>1, Zenon
  <2> QED
    BY <2>1, <2>2, Zenon DEF AttemptInv
<1> QED
    BY <1>1, <1>2, <1>3, Zenon DEF JournalInv

\* A step of a process that leaves the journal, the session lease and the epochs of the
\* runs as they are.
LEMMA KeepingStep ==
    ASSUME CoordIInv, NEW p \in Process, NEW new \in ProcRec, proc[p].pc # "off", new.pc # "off",
           proc[p].pc = "leased" => new.pc = "leased" \/ journal.seq # 0,
           new.epoch = proc[p].epoch, proc' = [proc EXCEPT ![p] = new],
           journal' = journal, sessionLease' = sessionLease, runStore' \in [CoordRun -> RunRec],
           \A r \in CoordRun : runStore'[r].epoch = runStore[r].epoch, PlaceInv(p)'
    PROVE  CoordIInv'
<1>1. JournalInv'
    BY JournalKept, Zenon
<1>2. RunEpochs'
    BY Zenon DEF CoordIInv, RunEpochs
<1>3. proc'[p] = new
    BY Zenon DEF CoordIInv, TypeOK
<1>4. HoldsLease(p)'
    BY <1>3, Zenon DEF CoordIInv, HoldsLease, Current
<1>5. journal' \in JournalRec /\ sessionLease' \in LeaseRec
    BY Zenon DEF CoordIInv, TypeOK
<1> QED
    BY <1>1, <1>2, <1>4, <1>5, OwnStep, Zenon

\* A coordinator that has failed, stopped or waits to pause relies on nothing.
LEMMA AtRest ==
    ASSUME NEW p \in Process, proc'[p].pc \in {"refused", "pause", "stopped", "failed"}
    PROVE  PlaceInv(p)'
    BY Zenon DEF PlaceInv, AheadOfRuns, Placed, Enters, Engages, Saves, Drives, HandsOff,
       Attaching, Entering, Engaged, Handing

\* What SaveNext makes of the record of a process.
LEMMA SaveNextFacts ==
    ASSUME NEW q \in ProcRec, NEW st \in RunStatus, NEW goal \in Goal,
           NEW new, new = SaveNext(q, st, goal)
    PROVE  /\ new \in ProcRec /\ new.pc = "save" /\ new.next = goal
           /\ new.run = q.run /\ new.via = q.via /\ new.epoch = q.epoch /\ new.handle = q.handle
           /\ new.mem # <<>> /\ Newest(new.mem).st = st
<1> DEFINE c == [epoch |-> q.epoch, st |-> st]
           m == Append(q.mem, c)
<1>1. q.mem \in Seq(SavedState) /\ q.epoch \in Nat
    BY Zenon DEF ProcRec
<1>2. c \in SavedState /\ c.st = st
    BY <1>1, Zenon DEF SavedState
<1> HIDE DEF c
<1>3. m \in Seq(SavedState) /\ m # <<>> /\ Newest(m) = c
    BY <1>1, <1>2 DEF Newest
<1>4. SaveNext(q, st, goal) = [q EXCEPT !.pc = "save", !.mem = m, !.next = goal]
    BY Zenon DEF SaveNext, c
<1> HIDE DEF m
<1>5. "save" \in Place
    BY Zenon DEF Place
<1>6. [q EXCEPT !.pc = "save", !.mem = m, !.next = goal] \in ProcRec
    BY <1>3, <1>5, Zenon DEF ProcRec
<1>7. new = [q EXCEPT !.pc = "save", !.mem = m, !.next = goal] =>
      /\ new.pc = "save" /\ new.next = goal /\ new.mem = m
      /\ new.run = q.run /\ new.via = q.via /\ new.epoch = q.epoch /\ new.handle = q.handle
    BY Zenon DEF ProcRec
<1> QED
    BY <1>2, <1>3, <1>4, <1>6, <1>7, Zenon

\* A process that is about to save.
LEMMA SavingPlace ==
    ASSUME NEW p \in Process, NEW q \in ProcRec, NEW st \in RunStatus, NEW goal \in Goal \ {"off"},
           proc'[p] = SaveNext(q, st, goal), q.run \in CoordRun, Status(q.run)' # "absent",
           journal'.active = q.run \/ (journal'.closed /\ q.via = "start"),
           journal'.transition[q.run] = "none", runStore'[q.run].epoch = q.epoch,
           st = "handoff" => q.run # Runs,
           goal \in {"begun", "register", "drive"} =>
              runStore'[q.run].holder = p /\ st \notin Ended /\ (Stops(st) => goal = "register")
    PROVE  PlaceInv(p)'
<1>1. /\ proc'[p].pc = "save" /\ proc'[p].next = goal /\ proc'[p].run = q.run /\ proc'[p].via = q.via
      /\ proc'[p].epoch = q.epoch /\ proc'[p].mem # <<>> /\ Newest(proc'[p].mem).st = st
    BY SaveNextFacts, SMT
<1>2. AheadOfRuns(p)' /\ Placed(p)' /\ Enters(p)'
    BY <1>1, Zenon DEF AheadOfRuns, Placed, Enters, Attaching, Entering
<1>3. Drives(p)' /\ HandsOff(p)' /\ Engages(p)'
    BY <1>1, Zenon DEF Drives, HandsOff, Engages
<1>4. Saves(p)'
    BY <1>1, Zenon DEF Saves
<1> QED
    BY <1>2, <1>3, <1>4, Zenon DEF PlaceInv

\* Between two checkpoints of a run that is registered or driven nothing but the record of
\* the process changes.
LEMMA SavingStep ==
    ASSUME CoordIInv, NEW p \in Process, NEW st \in RunStatus, NEW goal \in Goal \ {"off"},
           proc[p].pc \in Engaged, proc' = [proc EXCEPT ![p] = SaveNext(proc[p], st, goal)],
           UNCHANGED <<journal, sessionLease, runStore>>,
           st = "handoff" => proc[p].run # Runs,
           goal \in {"begun", "register", "drive"} =>
              runStore[proc[p].run].holder = p /\ st \notin Ended /\ (Stops(st) => goal = "register")
    PROVE  CoordIInv'
<1> DEFINE new == SaveNext(proc[p], st, goal)
<1>1. proc[p] \in ProcRec /\ proc'[p] = new /\ goal \in Goal /\ runStore \in [CoordRun -> RunRec]
    BY Zenon DEF CoordIInv, TypeOK
<1>2. new \in ProcRec /\ new.pc = "save" /\ new.epoch = proc[p].epoch
    BY <1>1, SaveNextFacts, SMT
<1>3. proc[p].pc \notin {"off", "leased"} /\ Placed(p) /\ Engages(p)
    BY Zenon DEF Engaged, CoordIInv, PlaceInv
<1>4. /\ proc[p].run \in CoordRun /\ Status(proc[p].run) # "absent"
      /\ journal.active = proc[p].run \/ (journal.closed /\ proc[p].via = "start")
      /\ journal.transition[proc[p].run] = "none" /\ runStore[proc[p].run].epoch = proc[p].epoch
    BY <1>3, Zenon DEF Placed, Engages
<1> HIDE DEF new
<1>6. ASSUME NEW q, q = proc[p] PROVE PlaceInv(p)'
  <2>1. /\ q \in ProcRec /\ proc'[p] = SaveNext(q, st, goal) /\ q.run \in CoordRun
        /\ journal'.attempt[q.run].status # "absent"
    BY <1>1, <1>4, <1>6, Zenon DEF Status, new
  <2>2. /\ journal'.active = q.run \/ (journal'.closed /\ q.via = "start")
        /\ journal'.transition[q.run] = "none" /\ runStore'[q.run].epoch = q.epoch
    BY <1>4, <1>6, Zenon
  <2>3. /\ st = "handoff" => q.run # Runs
        /\ goal \in {"begun", "register", "drive"} =>
             runStore'[q.run].holder = p /\ st \notin Ended /\ (Stops(st) => goal = "register")
    BY <1>6, Zenon
  <2> QED
    BY <2>1, <2>2, <2>3, SavingPlace, Zenon DEF Status
<1>7. PlaceInv(p)'
    BY <1>6, Zenon
<1> QED
    BY <1>1, <1>2, <1>3, <1>7, KeepingStep, Zenon DEF new

\* A process that only moves to another place.
LEMMA PcFacts ==
    ASSUME NEW q \in ProcRec, NEW x \in Place
    PROVE  /\ [q EXCEPT !.pc = x] \in ProcRec /\ [q EXCEPT !.pc = x].pc = x
           /\ [q EXCEPT !.pc = x].epoch = q.epoch /\ [q EXCEPT !.pc = x].run = q.run
           /\ [q EXCEPT !.pc = x].via = q.via /\ [q EXCEPT !.pc = x].mem = q.mem
           /\ [q EXCEPT !.pc = x].next = q.next /\ [q EXCEPT !.pc = x].handle = q.handle
    BY Zenon DEF ProcRec

\* A process that stops or fails, and gives back leases of runs or not.
LEMMA RestingStep ==
    ASSUME CoordIInv, NEW p \in Process, proc[p].pc \notin {"off", "leased"},
           NEW x \in {"refused", "pause", "stopped", "failed"},
           proc' = [proc EXCEPT ![p] = [proc[p] EXCEPT !.pc = x]],
           journal' = journal, sessionLease' = sessionLease, runStore' \in [CoordRun -> RunRec],
           \A r \in CoordRun : runStore'[r].epoch = runStore[r].epoch
    PROVE  CoordIInv'
<1>1. proc[p] \in ProcRec /\ x \in Place /\ x # "off"
    BY Zenon DEF CoordIInv, TypeOK, Place
<1> DEFINE new == [proc[p] EXCEPT !.pc = x]
<1>2. new \in ProcRec /\ new.pc = x /\ new.epoch = proc[p].epoch
    BY <1>1, PcFacts, Zenon
<1>3. proc' = [proc EXCEPT ![p] = new] /\ proc'[p] = new
    BY Zenon DEF CoordIInv, TypeOK
<1> HIDE DEF new
<1>4. PlaceInv(p)'
    BY <1>2, <1>3, AtRest, Zenon
<1> QED
    BY <1>1, <1>2, <1>3, <1>4, KeepingStep, Zenon

----------------------------------------------------------------------------
(* Steps that change the record of the process only. *)

\* RegisterFails: a cancelled state is on its way to the run store.
LEMMA RegisterFailsInv ==
    ASSUME CoordIInv, NEW p \in Process, RegisterFails(p) PROVE CoordIInv'
<1>1. /\ proc[p].pc \in Engaged /\ UNCHANGED <<journal, sessionLease, runStore>>
      /\ proc' = [proc EXCEPT ![p] = SaveNext(proc[p], "cancelled", "failed")]
    BY Zenon DEF RegisterFails, Engaged
<1>2. "cancelled" \in RunStatus /\ "failed" \in Goal \ {"off"}
    BY Zenon DEF RunStatus, Goal, Ended
<1> QED
    BY <1>1, <1>2, SavingStep, Zenon

\* A driven run may go on with the lease it has.
LEMMA DrivenLease ==
    ASSUME CoordIInv, NEW p \in Process, proc[p].pc = "drive"
    PROVE  proc[p].pc \in Engaged /\ runStore[proc[p].run].holder = p
    BY Zenon DEF CoordIInv, PlaceInv, Drives, Engaged

\* Step: a new state is in memory and on its way to the run store.
LEMMA StepInv ==
    ASSUME CoordIInv, NEW p \in Process,
           NEW st \in {"running", "dispatch", "completed", "handoff"}, Step(p, st)
    PROVE  CoordIInv'
<1> DEFINE goal == CASE st = "handoff" -> "prepare" [] st = "completed" -> "stopped" [] OTHER -> "drive"
<1>1. /\ proc[p].pc = "drive" /\ UNCHANGED <<journal, sessionLease, runStore>>
      /\ proc' = [proc EXCEPT ![p] = SaveNext(proc[p], st, goal)]
      /\ st = "handoff" => proc[p].run < Runs
    BY Zenon DEF Step
<1>2. goal \in Goal \ {"off"} /\ st \in RunStatus
    BY Zenon DEF Goal, RunStatus, Ended
<1>3. goal \in {"begun", "register", "drive"} => st \notin Ended /\ ~ Stops(st)
    BY SMT DEF Ended, Stops
<1>4. st = "handoff" => proc[p].run # Runs
    BY <1>1, SMT DEF CoordIInv, CoordConstants
<1> HIDE DEF goal
<1> QED
    BY <1>1, <1>2, <1>3, <1>4, DrivenLease, SavingStep, Zenon

\* CancelCommand saves a cancelled or indeterminate state.
LEMMA CancelCommandInv ==
    ASSUME CoordIInv, NEW p \in Process, CancelCommand(p) PROVE CoordIInv'
<1> DEFINE st == IF Newest(proc[p].mem).st = "dispatch" THEN "indeterminate" ELSE "cancelled"
<1>1. /\ proc[p].pc = "drive" /\ UNCHANGED <<journal, sessionLease, runStore>>
      /\ proc' = [proc EXCEPT ![p] = SaveNext(proc[p], st, "stopped")]
    BY Zenon DEF CancelCommand
<1>2. st \in RunStatus /\ st # "handoff" /\ "stopped" \in Goal \ {"off"}
    BY Zenon DEF RunStatus, Goal, Ended
<1> HIDE DEF st
<1> QED
    BY <1>1, <1>2, DrivenLease, SavingStep, Zenon

\* DetachEngine saves a paused or indeterminate state.
LEMMA DetachEngineInv ==
    ASSUME CoordIInv, NEW p \in Process, DetachEngine(p) PROVE CoordIInv'
<1> DEFINE st == IF Newest(proc[p].mem).st = "dispatch" THEN "indeterminate" ELSE "paused"
<1>1. /\ proc[p].pc = "drive" /\ UNCHANGED <<journal, sessionLease, runStore>>
      /\ proc' = [proc EXCEPT ![p] = SaveNext(proc[p], st, "pause")]
    BY Zenon DEF DetachEngine
<1>2. st \in RunStatus /\ st # "handoff" /\ "pause" \in Goal \ {"off"}
    BY Zenon DEF RunStatus, Goal, Ended
<1> HIDE DEF st
<1> QED
    BY <1>1, <1>2, DrivenLease, SavingStep, Zenon

\* HandoffFails leaves the journal and both leases alone.
LEMMA HandoffFailsInv ==
    ASSUME CoordIInv, NEW p \in Process, HandoffFails(p) PROVE CoordIInv'
<1> DEFINE x == IF proc[p].handle = NoRun THEN "failed" ELSE "stopped"
<1>1. /\ proc[p].pc \notin {"off", "leased"} /\ UNCHANGED <<journal, sessionLease, runStore>>
      /\ proc' = [proc EXCEPT ![p] = [proc[p] EXCEPT !.pc = x]]
    BY Zenon DEF HandoffFails
<1>2. x \in {"refused", "pause", "stopped", "failed"} /\ runStore \in [CoordRun -> RunRec]
    BY Zenon DEF CoordIInv, TypeOK
<1> HIDE DEF x
<1> QED
    BY <1>1, <1>2, RestingStep, Zenon

\* DetachStopped: the engine has stopped, the session is paused next.
LEMMA DetachStoppedInv ==
    ASSUME CoordIInv, NEW p \in Process, DetachStopped(p) PROVE CoordIInv'
<1>1. /\ proc[p].pc \notin {"off", "leased"} /\ UNCHANGED <<journal, sessionLease, runStore>>
      /\ proc' = [proc EXCEPT ![p] = [proc[p] EXCEPT !.pc = "pause"]]
    BY Zenon DEF DetachStopped
<1>2. "pause" \in {"refused", "pause", "stopped", "failed"} /\ runStore \in [CoordRun -> RunRec]
    BY Zenon DEF CoordIInv, TypeOK
<1> QED
    BY <1>1, <1>2, RestingStep, Zenon

\* A detach that begins, or begins again, is known to the handle only.
LEMMA DetachingStep ==
    ASSUME CoordIInv, NEW p \in Process, NEW x \in 0..Runs, proc[p].pc # "off",
           proc' = [proc EXCEPT ![p] = [proc[p] EXCEPT !.detaching = x]],
           UNCHANGED <<journal, sessionLease, runStore>>
    PROVE  CoordIInv'
<1> DEFINE new == [proc[p] EXCEPT !.detaching = x]
<1>1. proc[p] \in ProcRec /\ runStore \in [CoordRun -> RunRec]
    BY Zenon DEF CoordIInv, TypeOK
<1>2. new \in ProcRec /\ new.pc = proc[p].pc /\ new.epoch = proc[p].epoch
    BY <1>1, Zenon DEF ProcRec
<1>3. new.run = proc[p].run /\ new.via = proc[p].via /\ new.mem = proc[p].mem /\ new.next = proc[p].next
    BY <1>1, Zenon DEF ProcRec
<1>4. proc' = [proc EXCEPT ![p] = new] /\ proc'[p] = new
    BY Zenon DEF CoordIInv, TypeOK
<1> HIDE DEF new
<1>5. PlaceInv(p) /\ \A r : Status(r)' = Status(r) /\ Checkpoint(r)' = Checkpoint(r)
    BY Zenon DEF CoordIInv, Status, Checkpoint
<1>6. (AheadOfRuns(p) /\ Placed(p) /\ HandsOff(p))'
    BY <1>2, <1>3, <1>4, <1>5, Zenon DEF PlaceInv, AheadOfRuns, Placed, HandsOff
<1>7. (Enters(p) /\ Engages(p))'
    BY <1>2, <1>3, <1>4, <1>5, Zenon DEF PlaceInv, Enters, Engages
<1>8. (Saves(p) /\ Drives(p))'
    BY <1>2, <1>3, <1>4, <1>5, Zenon DEF PlaceInv, Saves, Drives
<1>9. PlaceInv(p)'
    BY <1>6, <1>7, <1>8, Zenon DEF PlaceInv
<1> QED
    BY <1>1, <1>2, <1>4, <1>9, KeepingStep, Zenon

\* DetachBegins: only the thread that detaches moves.
LEMMA DetachBeginsInv ==
    ASSUME CoordIInv, NEW p \in Process, DetachBegins(p) PROVE CoordIInv'
<1>1. proc[p].handle \in 0..Runs /\ proc[p].pc # "off"
    BY Zenon DEF CoordIInv, TypeOK, ProcRec, HoldsLease, DetachBegins
<1>2. /\ proc' = [proc EXCEPT ![p] = [proc[p] EXCEPT !.detaching = proc[p].handle]]
      /\ UNCHANGED <<journal, sessionLease, runStore>>
    BY Zenon DEF DetachBegins
<1> QED
    BY <1>1, <1>2, DetachingStep, Zenon

\* DetachAgain: it moves to the target of the handoff.
LEMMA DetachAgainInv ==
    ASSUME CoordIInv, NEW p \in Process, DetachAgain(p) PROVE CoordIInv'
<1>1. proc[p].run \in 0..Runs /\ proc[p].pc # "off"
    BY Zenon DEF CoordIInv, TypeOK, ProcRec, DetachAgain
<1>2. /\ proc' = [proc EXCEPT ![p] = [proc[p] EXCEPT !.detaching = proc[p].run]]
      /\ UNCHANGED <<journal, sessionLease, runStore>>
    BY Zenon DEF DetachAgain
<1> QED
    BY <1>1, <1>2, DetachingStep, Zenon

\* A process that has attached and has not chosen a run.
LEMMA AttachingStep ==
    ASSUME CoordIInv, NEW p \in Process, NEW new \in ProcRec, proc[p].pc \in {"leased", "attached"},
           proc[p].pc = "leased" => journal.seq # 0, new.pc \in {"attached", "resume"}, new.epoch = proc[p].epoch,
           proc' = [proc EXCEPT ![p] = new], UNCHANGED <<journal, sessionLease, runStore>>
    PROVE  CoordIInv'
<1>1. proc'[p] = new /\ new.pc # "off" /\ proc[p].pc # "off" /\ runStore \in [CoordRun -> RunRec]
    BY Zenon DEF CoordIInv, TypeOK
<1>2. AheadOfRuns(p)'
    BY <1>1, Zenon DEF CoordIInv, PlaceInv, AheadOfRuns, Attaching
<1>3. (Placed(p) /\ Enters(p) /\ Engages(p) /\ Saves(p) /\ Drives(p) /\ HandsOff(p))'
    BY <1>1, Zenon DEF Placed, Enters, Engages, Saves, Drives, HandsOff, Entering, Engaged, Handing
<1>4. PlaceInv(p)'
    BY <1>2, <1>3, Zenon DEF PlaceInv
<1> QED
    BY <1>1, <1>4, KeepingStep, Zenon

\* The places of an attachment that has no run yet.
LEMMA AttachFacts ==
    ASSUME NEW q \in ProcRec, NEW via \in Entry
    PROVE  /\ [q EXCEPT !.pc = "resume", !.via = via] \in ProcRec
           /\ [q EXCEPT !.pc = "resume", !.via = via].pc = "resume"
           /\ [q EXCEPT !.pc = "resume", !.via = via].epoch = q.epoch
<1>1. "resume" \in Place
    BY Zenon DEF Place
<1> QED
    BY <1>1, Zenon DEF ProcRec

\* ClientResume: an attachment without a run goes on to resume.
LEMMA ClientResumeInv ==
    ASSUME CoordIInv, NEW p \in Process, ClientResume(p) PROVE CoordIInv'
<1> DEFINE new == [proc[p] EXCEPT !.pc = "resume", !.via = "resume"]
<1>1. proc[p] \in ProcRec /\ "resume" \in Entry
    BY Zenon DEF CoordIInv, TypeOK, Entry
<1>2. new \in ProcRec /\ new.pc = "resume" /\ new.epoch = proc[p].epoch
    BY <1>1, AttachFacts, Zenon
<1>3. proc[p].pc = "attached" /\ proc' = [proc EXCEPT ![p] = new] /\ UNCHANGED <<journal, sessionLease, runStore>>
    BY Zenon DEF ClientResume
<1> HIDE DEF new
<1> QED
    BY <1>2, <1>3, AttachingStep, Zenon

\* ReconcileAttached: the session exists, no run is entered yet.
LEMMA ReconcileAttachedInv ==
    ASSUME CoordIInv, NEW p \in Process, ReconcileAttached(p) PROVE CoordIInv'
<1> DEFINE resumes == [proc[p] EXCEPT !.pc = "resume", !.via = "reconcile"]
           attached == [proc[p] EXCEPT !.pc = "attached"]
<1>1. proc[p] \in ProcRec /\ "reconcile" \in Entry /\ "attached" \in Place
    BY Zenon DEF CoordIInv, TypeOK, Entry, Place
<1>2. /\ resumes \in ProcRec /\ resumes.pc = "resume" /\ resumes.epoch = proc[p].epoch
      /\ attached \in ProcRec /\ attached.pc = "attached" /\ attached.epoch = proc[p].epoch
    BY <1>1, AttachFacts, PcFacts, Zenon
<1>3. proc[p].pc = "leased" /\ journal.seq # 0 /\ UNCHANGED <<journal, sessionLease, runStore>>
    BY SMT DEF ReconcileAttached
<1>4. proc' = [proc EXCEPT ![p] = resumes] \/ proc' = [proc EXCEPT ![p] = attached]
    BY Zenon DEF ReconcileAttached
<1> HIDE DEF resumes, attached
<1> QED
    BY <1>2, <1>3, <1>4, AttachingStep, Zenon

\* resumeWithLease: the place it goes to is the one that the active attempt calls for.
LEMMA resumeWithLeaseInv ==
    ASSUME CoordIInv, NEW p \in Process, NEW ack \in BOOLEAN, resumeWithLease(p, ack) PROVE CoordIInv'
<1> DEFINE r == journal.active
           fails == [proc[p] EXCEPT !.pc = "failed"]
           commits == [proc[p] EXCEPT !.pc = "commit", !.run = r, !.seq = journal.seq]
           sources == [proc[p] EXCEPT !.pc = "source", !.run = r, !.seq = journal.seq]
           restores == [proc[p] EXCEPT !.pc = "restore", !.run = r, !.seq = journal.seq, !.ack = ack]
<1>1. /\ proc[p] \in ProcRec /\ r \in 0..Runs /\ journal.seq \in Nat
      /\ runStore \in [CoordRun -> RunRec]
    BY Zenon DEF CoordIInv, TypeOK, JournalRec
<1>2. r # NoRun => r \in CoordRun
    BY <1>1, SMT DEF CoordRun, NoRun, CoordIInv, CoordConstants
<1>3. proc[p].pc = "resume" /\ UNCHANGED <<journal, sessionLease, runStore>>
    BY Zenon DEF resumeWithLease
<1>4. \A u \in CoordRun : runStore[u].epoch < proc[p].epoch
    BY <1>3, Zenon DEF CoordIInv, PlaceInv, AheadOfRuns, Attaching
<1>5. \/ proc' = [proc EXCEPT ![p] = fails]
      \/ r # NoRun /\ Status(r) = "handoff" /\ proc' = [proc EXCEPT ![p] = commits]
      \/ r # NoRun /\ Status(r) = "handoff" /\ proc' = [proc EXCEPT ![p] = sources]
      \/ r # NoRun /\ Status(r) # "absent" /\ proc' = [proc EXCEPT ![p] = restores]
    BY Zenon DEF resumeWithLease, Working
<1>6. CASE proc' = [proc EXCEPT ![p] = fails]
    BY <1>1, <1>3, <1>6, RestingStep, Zenon
<1>7. CASE r # NoRun /\ Status(r) = "handoff" /\ proc' = [proc EXCEPT ![p] = commits]
  <2>1. commits \in ProcRec /\ commits.pc = "commit" /\ commits.run = r /\ commits.epoch = proc[p].epoch
    <3>1. "commit" \in Place
      BY Zenon DEF Place
    <3> QED
      BY <1>1, <3>1, Zenon DEF ProcRec
  <2> HIDE DEF commits
  <2>2. proc'[p] = commits
    BY <1>7, Zenon DEF CoordIInv, TypeOK
  <2>3. Placed(p)' /\ HandsOff(p)'
    BY <1>2, <1>3, <1>7, <2>1, <2>2, Zenon DEF Placed, HandsOff, Status
  <2>4. (AheadOfRuns(p) /\ Enters(p) /\ Engages(p) /\ Saves(p) /\ Drives(p))'
    BY <2>1, <2>2, Zenon DEF AheadOfRuns, Enters, Engages, Saves, Drives, Attaching, Entering, Engaged
  <2>5. PlaceInv(p)'
    BY <2>3, <2>4, Zenon DEF PlaceInv
  <2> QED
    BY <1>1, <1>3, <1>7, <2>1, <2>5, KeepingStep, Zenon
<1>8. CASE r # NoRun /\ Status(r) = "handoff" /\ proc' = [proc EXCEPT ![p] = sources]
  <2>1. sources \in ProcRec /\ sources.pc = "source" /\ sources.run = r /\ sources.epoch = proc[p].epoch
    <3>1. "source" \in Place
      BY Zenon DEF Place
    <3> QED
      BY <1>1, <3>1, Zenon DEF ProcRec
  <2> HIDE DEF sources
  <2>2. proc'[p] = sources
    BY <1>8, Zenon DEF CoordIInv, TypeOK
  <2>3. Placed(p)' /\ AheadOfRuns(p)'
    BY <1>2, <1>3, <1>4, <1>8, <2>1, <2>2, Zenon DEF Placed, AheadOfRuns, Status
  <2>4. (HandsOff(p) /\ Enters(p) /\ Engages(p) /\ Saves(p) /\ Drives(p))'
    BY <2>1, <2>2, Zenon DEF HandsOff, Enters, Engages, Saves, Drives, Entering, Engaged
  <2>5. PlaceInv(p)'
    BY <2>3, <2>4, Zenon DEF PlaceInv
  <2> QED
    BY <1>1, <1>3, <1>8, <2>1, <2>5, KeepingStep, Zenon
<1>9. CASE r # NoRun /\ Status(r) # "absent" /\ proc' = [proc EXCEPT ![p] = restores]
  <2>1. restores \in ProcRec /\ restores.pc = "restore" /\ restores.run = r /\ restores.epoch = proc[p].epoch
    <3>1. "restore" \in Place
      BY Zenon DEF Place
    <3> QED
      BY <1>1, <3>1, Zenon DEF ProcRec
  <2> HIDE DEF restores
  <2>2. proc'[p] = restores
    BY <1>9, Zenon DEF CoordIInv, TypeOK
  <2>3. Placed(p)' /\ Enters(p)'
    BY <1>2, <1>3, <1>4, <1>9, <2>1, <2>2, Zenon DEF Placed, Enters, Status
  <2>4. (HandsOff(p) /\ AheadOfRuns(p) /\ Engages(p) /\ Saves(p) /\ Drives(p))'
    BY <2>1, <2>2, Zenon DEF HandsOff, AheadOfRuns, Engages, Saves, Drives, Attaching, Engaged
  <2>5. PlaceInv(p)'
    BY <2>3, <2>4, Zenon DEF PlaceInv
  <2> QED
    BY <1>1, <1>3, <1>9, <2>1, <2>5, KeepingStep, Zenon
<1> QED
    BY <1>5, <1>6, <1>7, <1>8, <1>9, Zenon

----------------------------------------------------------------------------
(* Steps that change the directory of a run. *)

\* Replacing the saved state of one run changes neither epochs nor holders.
LEMMA StateFacts ==
    ASSUME runStore \in [CoordRun -> RunRec], NEW r \in CoordRun, NEW c \in Seq(SavedState),
           runStore' = [runStore EXCEPT ![r] = [runStore[r] EXCEPT !.state = c]]
    PROVE  /\ runStore' \in [CoordRun -> RunRec] /\ runStore'[r].state = c
           /\ \A u \in CoordRun : runStore'[u].epoch = runStore[u].epoch
           /\ \A u \in CoordRun : runStore'[u].holder = runStore[u].holder
<1>1. runStore[r] \in RunRec
    BY Zenon
<1> DEFINE new == [runStore[r] EXCEPT !.state = c]
<1>2. new \in RunRec /\ new.state = c /\ new.epoch = runStore[r].epoch /\ new.holder = runStore[r].holder
    BY <1>1, Zenon DEF RunRec
<1> HIDE DEF new
<1>3. runStore' = [runStore EXCEPT ![r] = new]
    BY Zenon DEF new
<1> QED
    BY <1>2, <1>3, Zenon

\* DiscardProjection: memory has the journal's checkpoint, the run store has none.
LEMMA DiscardProjectionInv ==
    ASSUME CoordIInv, NEW p \in Process, DiscardProjection(p) PROVE CoordIInv'
<1> DEFINE r == proc[p].run
           x == IF Checkpoint(r) = <<>> THEN "engine" ELSE "restoring"
           new == [proc[p] EXCEPT !.mem = Checkpoint(r), !.pc = x]
<1>1. proc[p] \in ProcRec /\ runStore \in [CoordRun -> RunRec] /\ journal \in JournalRec
    BY Zenon DEF CoordIInv, TypeOK
<1>2. proc[p].pc = "restore" /\ UNCHANGED <<journal, sessionLease>>
    BY Zenon DEF DiscardProjection
<1>3. Placed(p) /\ Enters(p) /\ r \in CoordRun
    BY <1>2, Zenon DEF CoordIInv, PlaceInv, Placed, Entering
<1>4. Checkpoint(r) \in Seq(SavedState)
    BY <1>1, <1>3, Zenon DEF JournalRec, Attempts, Checkpoint
<1>5. CASE proc' = [proc EXCEPT ![p] = [proc[p] EXCEPT !.pc = "failed"]] /\ UNCHANGED runStore
    BY <1>1, <1>2, <1>5, RestingStep, Zenon
<1>6. CASE /\ proc' = [proc EXCEPT ![p] = new]
           /\ runStore' = [runStore EXCEPT ![r] = [runStore[r] EXCEPT !.state = Gone]]
  <2>1. x \in {"engine", "restoring"} /\ x \in Place /\ x # "off"
    BY Zenon DEF Place
  <2>2. Gone \in Seq(SavedState)
    BY SMT DEF Gone
  <2>3. runStore' \in [CoordRun -> RunRec] /\ \A u \in CoordRun : runStore'[u].epoch = runStore[u].epoch
    BY <1>1, <1>3, <1>6, <2>2, StateFacts, Zenon
  <2>4. /\ new \in ProcRec /\ new.pc = x /\ new.mem = Checkpoint(r) /\ new.run = r
        /\ new.via = proc[p].via /\ new.epoch = proc[p].epoch
    <3> HIDE DEF x
    <3> QED
      BY <1>1, <1>4, <2>1, Zenon DEF ProcRec
  <2>5. proc'[p] = new /\ (x = "engine" => Checkpoint(r) = <<>>)
    BY <1>6, Zenon DEF CoordIInv, TypeOK
  <2>6. /\ journal'.attempt[r].status = Status(r) /\ journal'.attempt[r].checkpoint = Checkpoint(r)
        /\ journal' = journal
    BY <1>2, Zenon DEF Status, Checkpoint
  <2> HIDE DEF new, x
  <2>7. Placed(p)' /\ Enters(p)'
    <3>1. /\ Status(r) # "absent" /\ (proc[p].via # "start" => journal.active = r)
          /\ runStore[r].epoch < proc[p].epoch
      BY <1>2, <1>3, Zenon DEF Placed, Enters, Entering
    <3>2. Placed(p)'
      BY <1>3, <2>4, <2>5, <2>6, <3>1, Zenon DEF Placed, Status
    <3>3. runStore'[r].epoch < proc[p].epoch /\ (x = "engine" => new.mem = <<>>)
      BY <1>3, <2>3, <2>4, <2>5, <3>1, Zenon
    <3> QED
      BY <2>1, <2>4, <2>5, <2>6, <3>1, <3>2, <3>3, Zenon DEF Enters, Checkpoint
  <2>8. (HandsOff(p) /\ AheadOfRuns(p) /\ Engages(p) /\ Saves(p) /\ Drives(p))'
    BY <2>1, <2>4, <2>5, Zenon DEF HandsOff, AheadOfRuns, Engages, Saves, Drives, Attaching, Engaged
  <2>9. PlaceInv(p)'
    BY <2>7, <2>8, Zenon DEF PlaceInv
  <2> QED
    BY <1>2, <1>6, <2>1, <2>3, <2>4, <2>9, KeepingStep, Zenon
<1> QED
    BY <1>5, <1>6, Zenon DEF DiscardProjection

\* RestoreRunProjection writes the journal's checkpoint.
LEMMA RestoreRunProjectionInv ==
    ASSUME CoordIInv, NEW p \in Process, RestoreRunProjection(p) PROVE CoordIInv'
<1> DEFINE r == proc[p].run
           new == [proc[p] EXCEPT !.pc = "engine"]
<1>1. proc[p] \in ProcRec /\ runStore \in [CoordRun -> RunRec] /\ "engine" \in Place
    BY Zenon DEF CoordIInv, TypeOK, Place
<1>2. /\ proc[p].pc = "restoring" /\ journal' = journal /\ sessionLease' = sessionLease
      /\ runStore' = [runStore EXCEPT ![r] = [runStore[r] EXCEPT !.state = proc[p].mem]]
      /\ proc' = [proc EXCEPT ![p] = new] /\ proc'[p] = new
    BY Zenon DEF RestoreRunProjection, CoordIInv, TypeOK
<1>3. /\ r \in CoordRun /\ Status(r) # "absent" /\ (proc[p].via # "start" => journal.active = r)
      /\ runStore[r].epoch < proc[p].epoch /\ proc[p].mem = Checkpoint(r)
    BY <1>2, Zenon DEF CoordIInv, PlaceInv, Placed, Enters, Entering
<1>4. proc[p].mem \in Seq(SavedState)
    BY <1>1, Zenon DEF ProcRec
<1>5. /\ runStore' \in [CoordRun -> RunRec] /\ \A u \in CoordRun : runStore'[u].epoch = runStore[u].epoch
      /\ runStore'[r].state = proc[p].mem
    BY <1>1, <1>2, <1>3, <1>4, StateFacts, Zenon
<1>6. /\ new \in ProcRec /\ new.pc = "engine" /\ new.run = r /\ new.via = proc[p].via
      /\ new.mem = proc[p].mem /\ new.epoch = proc[p].epoch
    BY <1>1, PcFacts, Zenon
<1> HIDE DEF new
<1>7. /\ journal'.attempt[r].status # "absent" /\ journal'.attempt[r].checkpoint = Checkpoint(r)
      /\ runStore'[r].epoch < proc[p].epoch
    BY <1>2, <1>3, <1>5, Zenon DEF Status, Checkpoint
<1>8. Placed(p)' /\ Enters(p)'
    BY <1>2, <1>3, <1>5, <1>6, <1>7, Zenon DEF Placed, Enters, Status, Checkpoint
<1>9. (HandsOff(p) /\ AheadOfRuns(p) /\ Engages(p) /\ Saves(p) /\ Drives(p))'
    BY <1>2, <1>6, Zenon DEF HandsOff, AheadOfRuns, Engages, Saves, Drives, Attaching, Engaged
<1>10. PlaceInv(p)'
    BY <1>8, <1>9, Zenon DEF PlaceInv
<1> QED
    BY <1>2, <1>5, <1>6, <1>10, KeepingStep, Zenon

\* loadHandoffSource: the state of the source is the journal's again.
LEMMA loadHandoffSourceInv ==
    ASSUME CoordIInv, NEW p \in Process, loadHandoffSource(p) PROVE CoordIInv'
<1> DEFINE r == proc[p].run
           new == [proc[p] EXCEPT !.pc = "prepare"]
<1>1. /\ proc[p] \in ProcRec /\ runStore \in [CoordRun -> RunRec] /\ journal \in JournalRec
      /\ "prepare" \in Place
    BY Zenon DEF CoordIInv, TypeOK, Place
<1>2. proc[p].pc = "source" /\ journal' = journal /\ sessionLease' = sessionLease
    BY Zenon DEF loadHandoffSource
<1>3. r \in CoordRun /\ Status(r) # "absent"
    BY <1>2, Zenon DEF CoordIInv, PlaceInv, Placed, Handing
<1>4. Checkpoint(r) \in Seq(SavedState)
    BY <1>1, <1>3, Zenon DEF JournalRec, Attempts, Checkpoint
<1>5. CASE proc' = [proc EXCEPT ![p] = [proc[p] EXCEPT !.pc = "failed"]] /\ UNCHANGED runStore
    BY <1>1, <1>2, <1>5, RestingStep, Zenon
<1>6. CASE /\ proc' = [proc EXCEPT ![p] = new]
           /\ runStore' = [runStore EXCEPT ![r] = [runStore[r] EXCEPT !.state = Checkpoint(r)]]
  <2>1. runStore' \in [CoordRun -> RunRec] /\ \A u \in CoordRun : runStore'[u].epoch = runStore[u].epoch
    BY <1>1, <1>3, <1>4, <1>6, StateFacts, Zenon
  <2>2. new \in ProcRec /\ new.pc = "prepare" /\ new.run = r /\ new.epoch = proc[p].epoch
    BY <1>1, PcFacts, Zenon
  <2>3. proc'[p] = new
    BY <1>6, Zenon DEF CoordIInv, TypeOK
  <2> HIDE DEF new
  <2>4. Placed(p)'
    BY <1>2, <1>3, <2>2, <2>3, Zenon DEF Placed, Status
  <2>5. (HandsOff(p) /\ AheadOfRuns(p) /\ Enters(p) /\ Engages(p) /\ Saves(p) /\ Drives(p))'
    BY <2>2, <2>3, Zenon DEF HandsOff, AheadOfRuns, Enters, Engages, Saves, Drives, Attaching,
       Entering, Engaged
  <2>6. PlaceInv(p)'
    BY <2>4, <2>5, Zenon DEF PlaceInv
  <2> QED
    BY <1>2, <1>6, <2>1, <2>2, <2>6, KeepingStep, Zenon
<1> QED
    BY <1>5, <1>6, Zenon DEF loadHandoffSource

\* WriteCheckpoint: the run store is ahead of the journal by this state.
LEMMA WriteCheckpointInv ==
    ASSUME CoordIInv, NEW p \in Process, WriteCheckpoint(p) PROVE CoordIInv'
<1> DEFINE r == proc[p].run
           new == [proc[p] EXCEPT !.pc = "journal"]
<1>1. proc[p] \in ProcRec /\ runStore \in [CoordRun -> RunRec] /\ "journal" \in Place
    BY Zenon DEF CoordIInv, TypeOK, Place
<1>2. /\ proc[p].pc = "save" /\ journal' = journal /\ sessionLease' = sessionLease
      /\ runStore' = [runStore EXCEPT ![r] = [runStore[r] EXCEPT !.state = proc[p].mem]]
      /\ proc' = [proc EXCEPT ![p] = new] /\ proc'[p] = new
    BY Zenon DEF WriteCheckpoint, CoordIInv, TypeOK
<1>3. Placed(p) /\ Engages(p) /\ Saves(p) /\ r \in CoordRun
    BY <1>2, Zenon DEF CoordIInv, PlaceInv, Placed, Engaged
<1>4. proc[p].mem \in Seq(SavedState)
    BY <1>1, Zenon DEF ProcRec
<1>5. /\ runStore' \in [CoordRun -> RunRec] /\ \A u \in CoordRun : runStore'[u].epoch = runStore[u].epoch
      /\ runStore'[r].state = proc[p].mem /\ runStore'[r].holder = runStore[r].holder
    BY <1>1, <1>2, <1>3, <1>4, StateFacts, Zenon
<1>6. /\ new \in ProcRec /\ new.pc = "journal" /\ new.run = r /\ new.via = proc[p].via
      /\ new.mem = proc[p].mem /\ new.epoch = proc[p].epoch /\ new.next = proc[p].next
    BY <1>1, PcFacts, Zenon
<1> HIDE DEF new
<1>7. Placed(p)' /\ Engages(p)'
  <2>1. /\ Status(r) # "absent" /\ (journal.active = r \/ (journal.closed /\ proc[p].via = "start"))
        /\ journal.transition[r] = "none" /\ runStore'[r].epoch = proc[p].epoch
        /\ proc[p].mem # <<>> /\ (Newest(proc[p].mem).st = "handoff" => r # Runs)
    BY <1>2, <1>3, <1>5, Zenon DEF Placed, Engages, Engaged
  <2>2. Placed(p)'
    BY <1>2, <1>3, <1>6, <2>1, Zenon DEF Placed, Status
  <2>3. Engages(p)'
    BY <1>2, <1>6, <2>1, Zenon DEF Engages
  <2> QED
    BY <2>2, <2>3, Zenon
<1>8. Saves(p)'
    BY <1>2, <1>3, <1>5, <1>6, Zenon DEF Saves
<1>9. (HandsOff(p) /\ AheadOfRuns(p) /\ Enters(p) /\ Drives(p))'
    BY <1>2, <1>6, Zenon DEF HandsOff, AheadOfRuns, Enters, Drives, Attaching, Entering
<1>10. PlaceInv(p)'
    BY <1>7, <1>8, <1>9, Zenon DEF PlaceInv
<1> QED
    BY <1>2, <1>5, <1>6, <1>10, KeepingStep, Zenon

\* Giving back the run leases of a process changes their holder only.
LEMMA FreedFacts ==
    ASSUME runStore \in [CoordRun -> RunRec], NEW p \in Process
    PROVE  /\ FreedRuns(p) \in [CoordRun -> RunRec]
           /\ \A r \in CoordRun : FreedRuns(p)[r].epoch = runStore[r].epoch
<1>1. ASSUME NEW r \in CoordRun
      PROVE  FreedRuns(p)[r] \in RunRec /\ FreedRuns(p)[r].epoch = runStore[r].epoch
  <2>1. runStore[r] \in RunRec /\ Nobody \in Process \cup {Nobody}
    BY Zenon
  <2> DEFINE freed == [runStore[r] EXCEPT !.holder = Nobody]
  <2>2. freed \in RunRec /\ freed.epoch = runStore[r].epoch
    BY <2>1, Zenon DEF RunRec
  <2>3. FreedRuns(p)[r] = IF runStore[r].holder = p THEN freed ELSE runStore[r]
    BY Zenon DEF FreedRuns
  <2> HIDE DEF freed
  <2> QED
    BY <2>1, <2>2, <2>3, Zenon
<1>2. FreedRuns(p) = [r \in CoordRun |-> FreedRuns(p)[r]]
    BY Zenon DEF FreedRuns
<1> QED
    BY <1>1, <1>2, Zenon

\* SaveFails: another state is to be saved, or the lease of the run is given back.
LEMMA SaveFailsInv ==
    ASSUME CoordIInv, NEW p \in Process, SaveFails(p) PROVE CoordIInv'
<1> DEFINE q == proc[p]
           leave == IF q.next \in {"begun", "register", "refused", "failed"} THEN "failed" ELSE "stopped"
<1>1. q \in ProcRec /\ runStore \in [CoordRun -> RunRec]
    BY Zenon DEF CoordIInv, TypeOK
<1>2. q.pc \in Engaged /\ q.pc \notin {"off", "leased"} /\ journal' = journal /\ sessionLease' = sessionLease
    BY Zenon DEF SaveFails, Engaged
<1>3. leave \in {"failed", "stopped"} /\ leave \in Goal \ {"off"}
    BY Zenon DEF Goal
<1>4. "cancelled" \in RunStatus /\ "halted" \in RunStatus /\ "failed" \in Goal \ {"off"}
    BY Zenon DEF RunStatus, Ended, Goal
<1>5. /\ \/ proc' = [proc EXCEPT ![p] = SaveNext(q, "cancelled", "failed")]
         \/ proc' = [proc EXCEPT ![p] = [q EXCEPT !.pc = leave]]
         \/ proc' = [proc EXCEPT ![p] = SaveNext(q, "halted", leave)]
      /\ runStore' = IF proc'[p].pc = leave THEN FreedRuns(p) ELSE runStore
    BY Zenon DEF SaveFails
<1> HIDE DEF leave
<1>6. ASSUME NEW st \in {"cancelled", "halted"}, NEW goal \in {"failed", "stopped"},
             proc' = [proc EXCEPT ![p] = SaveNext(q, st, goal)]
      PROVE  CoordIInv'
  <2>1. st \in RunStatus /\ goal \in Goal \ {"off"} /\ goal \in Goal
    BY <1>4, Zenon DEF Goal
  <2>2. SaveNext(q, st, goal).pc = "save"
    BY <1>1, <2>1, SaveNextFacts, SMT
  <2>3. proc'[p] = SaveNext(q, st, goal)
    BY <1>6, Zenon DEF CoordIInv, TypeOK
  <2>4. runStore' = runStore
    BY <1>3, <1>5, <2>2, <2>3, Zenon
  <2> QED
    BY <1>2, <1>6, <2>1, <2>4, SavingStep, Zenon
<1>7. CASE proc' = [proc EXCEPT ![p] = [q EXCEPT !.pc = leave]]
  <2>1. runStore' \in [CoordRun -> RunRec] /\ \A r \in CoordRun : runStore'[r].epoch = runStore[r].epoch
    BY <1>1, <1>5, FreedFacts, Zenon
  <2>2. leave \in {"refused", "pause", "stopped", "failed"}
    BY <1>3, Zenon
  <2> QED
    BY <1>2, <1>7, <2>1, <2>2, RestingStep, Zenon
<1> QED
    BY <1>3, <1>5, <1>6, <1>7, Zenon

----------------------------------------------------------------------------
(* The engine takes the lease of the run. *)

\* The epoch of a run is always behind that of the coordinator that enters it.
LEMMA EpochFree ==
    ASSUME CoordIInv, NEW p \in Process, proc[p].pc = "engine"
    PROVE  ~ EpochTaken(p)
<1>1. proc[p].run \in CoordRun /\ runStore[proc[p].run].epoch < proc[p].epoch
    BY Zenon DEF CoordIInv, PlaceInv, Placed, Enters, Entering
<1>2. runStore[proc[p].run].epoch \in Nat /\ proc[p].epoch \in Nat
    BY <1>1, Zenon DEF CoordIInv, TypeOK, RunRec, ProcRec
<1> QED
    BY <1>1, <1>2, SMT DEF EpochTaken

\* LeaseRefused: somebody else has the lease of the run (never a higher epoch).
LEMMA LeaseRefusedInv ==
    ASSUME CoordIInv, NEW p \in Process, LeaseRefused(p) PROVE CoordIInv'
<1>1. proc[p].pc = "engine" /\ runStore \in [CoordRun -> RunRec]
    BY Zenon DEF LeaseRefused, CoordIInv, TypeOK
<1>2. UNCHANGED <<journal, sessionLease, runStore>>
    BY <1>1, EpochFree, Zenon DEF LeaseRefused
<1>3. proc' = [proc EXCEPT ![p] = [proc[p] EXCEPT !.pc = "failed"]]
    BY Zenon DEF LeaseRefused
<1> QED
    BY <1>1, <1>2, <1>3, RestingStep, Zenon

\* What the engine relies on when it does not refuse: the run is active and no handoff of
\* it has begun.
LEMMA EngineMayRun ==
    ASSUME CoordIInv, NEW p \in Process, proc[p].pc = "engine", ~ Over(proc[p].mem)
    PROVE  /\ journal.active = proc[p].run \/ (journal.closed /\ proc[p].via = "start")
           /\ journal.transition[proc[p].run] = "none"
<1>1. /\ proc[p].run \in CoordRun /\ Status(proc[p].run) # "absent"
      /\ proc[p].mem = Checkpoint(proc[p].run)
      /\ proc[p].via # "start" => journal.active = proc[p].run
    BY Zenon DEF CoordIInv, PlaceInv, Placed, Enters, Entering
<1>2. AttemptInv(proc[p].run)
    BY <1>1, Zenon DEF CoordIInv, JournalInv
<1> QED
    BY <1>1, <1>2, Zenon DEF AttemptInv, Over

\* EngineRuns: the lease of the run gets the epoch of the session.
LEMMA EngineRunsInv ==
    ASSUME CoordIInv, NEW p \in Process, NEW refence \in BOOLEAN, EngineRuns(p, refence)
    PROVE  CoordIInv'
<1> DEFINE q == proc[p]
           r == q.run
           st == IF q.mem = <<>> THEN "new"
                 ELSE IF Newest(q.mem).st = "halted" THEN "indeterminate" ELSE Newest(q.mem).st
           refused == st \in Ended \cup {"handoff"} \/ (st = "indeterminate" /\ ~ q.ack)
           h == IF refused THEN Nobody ELSE p
           lease == [runStore[r] EXCEPT !.epoch = q.epoch, !.holder = h]
           new == IF refused THEN [q EXCEPT !.pc = "failed"]
                  ELSE IF st = "dispatch" THEN SaveNext(q, "indeterminate", "refused")
                  ELSE IF st = "new" THEN SaveNext(q, "running", "begun")
                  ELSE IF refence THEN SaveNext(q, st, "register")
                  ELSE [q EXCEPT !.pc = "register"]
<1>1. q \in ProcRec /\ runStore \in [CoordRun -> RunRec] /\ journal \in JournalRec
    BY Zenon DEF CoordIInv, TypeOK
<1>2. /\ q.pc = "engine" /\ journal' = journal /\ sessionLease' = sessionLease
      /\ refence => st \in {"running", "paused"}
      /\ proc' = [proc EXCEPT ![p] = new] /\ proc'[p] = new
    BY Zenon DEF EngineRuns, CoordIInv, TypeOK
<1>3. runStore' = [runStore EXCEPT ![r] = lease]
    BY <1>1, Zenon DEF EngineRuns
<1>4. /\ r \in CoordRun /\ Status(r) # "absent" /\ q.mem = Checkpoint(r) /\ q.epoch \in Nat
      /\ q.mem # <<>> => runStore[r].state = q.mem
    BY <1>1, <1>2, Zenon DEF CoordIInv, PlaceInv, Placed, Enters, Entering, ProcRec
<1>5. lease \in RunRec /\ lease.epoch = q.epoch /\ lease.holder = h /\ lease.state = runStore[r].state
  <2>1. h \in Process \cup {Nobody} /\ runStore[r] \in RunRec
    BY <1>1, <1>4, Zenon
  <2> HIDE DEF h
  <2> QED
    BY <1>4, <2>1, Zenon DEF RunRec
<1>6. ~ refused => ~ Over(q.mem)
    BY Zenon DEF Over, Ended
<1>7. ~ refused => /\ journal.active = r \/ (journal.closed /\ q.via = "start")
                   /\ journal.transition[r] = "none"
    BY <1>2, <1>6, EngineMayRun, Zenon
<1>8. q.mem # <<>> => Newest(q.mem).st \in RunStatus
  <2>1. q.mem \in Seq(SavedState)
    BY <1>1, Zenon DEF ProcRec
  <2>2. q.mem # <<>> => Newest(q.mem) \in SavedState
    BY <2>1, SMT DEF Newest
  <2> QED
    BY <2>2, Zenon DEF SavedState
<1>9. st \in RunStatus \cup {"new"}
    BY <1>8, Zenon DEF RunStatus
<1>10. /\ runStore' \in [CoordRun -> RunRec] /\ runStore'[r] = lease
       /\ \A u \in CoordRun : u # r => runStore'[u] = runStore[u]
  <2> HIDE DEF lease
  <2> QED
    BY <1>1, <1>3, <1>4, <1>5, Zenon
<1>11. JournalInv'
  <2>1. \A u \in CoordRun : Status(u) = "absent" => runStore'[u].epoch = runStore[u].epoch
    BY <1>4, <1>10, Zenon
  <2> QED
    BY <1>2, <2>1, JournalKept, Zenon
<1>12. RunEpochs'
  <2>1. q.epoch = sessionLease.epoch
    BY <1>2, Zenon DEF CoordIInv, HoldsLease, Current
  <2>2. runStore'[r].epoch <= sessionLease'.epoch
    BY <1>2, <1>4, <1>5, <1>10, <2>1, SMT
  <2> QED
    BY <1>2, <1>10, <2>2, Zenon DEF CoordIInv, RunEpochs
<1>13. new \in ProcRec /\ new.pc # "off" /\ new.epoch = q.epoch /\ PlaceInv(p)'
  <2> HIDE DEF st, lease, refused
  <2>1. CASE refused
    <3>1. new = [q EXCEPT !.pc = "failed"] /\ "failed" \in Place
      BY <2>1, Zenon DEF Place
    <3> HIDE DEF new
    <3>2. new \in ProcRec /\ new.pc = "failed" /\ new.epoch = q.epoch
      BY <1>1, <3>1, PcFacts, Zenon
    <3> QED
      BY <1>2, <3>2, AtRest, Zenon
  <2>2. ASSUME NEW s \in RunStatus, NEW goal \in Goal \ {"off"}, new = SaveNext(q, s, goal),
               ~ refused, s # "handoff",
               goal \in {"begun", "register", "drive"} =>
                  s \notin Ended /\ (Stops(s) => goal = "register")
        PROVE  new \in ProcRec /\ new.pc # "off" /\ new.epoch = q.epoch /\ PlaceInv(p)'
    <3> HIDE DEF new
    <3>1. goal \in Goal
      BY Zenon
    <3>2. new \in ProcRec /\ new.pc = "save" /\ new.epoch = q.epoch
      BY <1>1, <2>2, <3>1, SaveNextFacts, SMT
    <3>3. PICK o : o = q
      BY Zenon
    <3>4. /\ o \in ProcRec /\ proc'[p] = SaveNext(o, s, goal) /\ o.run \in CoordRun
          /\ journal'.attempt[o.run].status # "absent"
      BY <1>1, <1>2, <1>4, <2>2, <3>3, Zenon DEF Status
    <3>5. /\ journal'.active = o.run \/ (journal'.closed /\ o.via = "start")
          /\ journal'.transition[o.run] = "none"
      BY <1>2, <1>7, <2>2, <3>3, Zenon
    <3>6. runStore'[o.run].epoch = o.epoch /\ runStore'[o.run].holder = p
      BY <1>5, <1>10, <2>2, <3>3, Zenon
    <3>7. PlaceInv(p)'
      BY <2>2, <3>4, <3>5, <3>6, SavingPlace, Zenon DEF Status
    <3> QED
      BY <3>2, <3>7, Zenon
  <2>3. CASE ~ refused /\ st = "dispatch"
    <3>1. new = SaveNext(q, "indeterminate", "refused") /\ "indeterminate" \in RunStatus
          /\ "refused" \in Goal \ {"off"}
      BY <2>3, Zenon DEF RunStatus, Goal
    <3> QED
      BY <2>2, <2>3, <3>1, Zenon
  <2>4. CASE ~ refused /\ st = "new"
    <3>1. new = SaveNext(q, "running", "begun") /\ "running" \in RunStatus /\ "begun" \in Goal \ {"off"}
      BY <2>4, Zenon DEF RunStatus, Goal
    <3>2. "running" \notin Ended /\ ~ Stops("running")
      BY Zenon DEF Ended, Stops
    <3> QED
      BY <2>2, <2>4, <3>1, <3>2, Zenon
  <2>5. CASE ~ refused /\ st \notin {"new", "dispatch"} /\ refence
    <3>1. new = SaveNext(q, st, "register") /\ st \in RunStatus /\ "register" \in Goal \ {"off"}
      BY <1>9, <2>5, Zenon DEF Goal
    <3>2. st # "handoff" /\ st \notin Ended
      BY <1>2, <2>5, Zenon DEF Ended
    <3> QED
      BY <2>2, <2>5, <3>1, <3>2, Zenon
  <2>6. CASE ~ refused /\ st \notin {"new", "dispatch"} /\ ~ refence
    <3>1. new = [q EXCEPT !.pc = "register"] /\ "register" \in Place
      BY <2>6, Zenon DEF Place
    <3> HIDE DEF new
    <3>2. /\ new \in ProcRec /\ new.pc = "register" /\ new.epoch = q.epoch /\ new.run = r
          /\ new.mem = q.mem /\ new.via = q.via
      BY <1>1, <3>1, PcFacts, Zenon
    <3>3. q.mem # <<>> /\ Newest(q.mem).st # "handoff"
      BY <1>6, <2>6, Zenon DEF st, Over
    <3>4. /\ runStore'[r].epoch = q.epoch /\ runStore'[r].holder = p /\ runStore'[r].state = q.mem
      BY <1>4, <1>5, <1>10, <2>6, <3>3, Zenon
    <3>5. Placed(p)' /\ Drives(p)'
      BY <1>2, <1>4, <3>2, <3>4, Zenon DEF Placed, Drives, Status, Checkpoint
    <3>6. Engages(p)'
      BY <1>2, <1>7, <2>6, <3>2, <3>3, <3>4, Zenon DEF Engages
    <3>7. (AheadOfRuns(p) /\ Enters(p) /\ Saves(p) /\ HandsOff(p))'
      BY <1>2, <3>2, Zenon DEF AheadOfRuns, Enters, Saves, HandsOff, Attaching, Entering
    <3> QED
      BY <3>2, <3>5, <3>6, <3>7, Zenon DEF PlaceInv
  <2> QED
    BY <2>1, <2>3, <2>4, <2>5, <2>6, Zenon
<1> HIDE DEF new
<1>14. HoldsLease(p)'
    BY <1>2, <1>13, Zenon DEF CoordIInv, HoldsLease, Current
<1>15. sessionLease' \in LeaseRec /\ journal' \in JournalRec /\ proc[p].pc # "off"
    BY <1>1, <1>2, Zenon DEF CoordIInv, TypeOK
<1> QED
    BY <1>2, <1>10, <1>11, <1>12, <1>13, <1>14, <1>15, OwnStep, Zenon

----------------------------------------------------------------------------
(* Steps that change the session lease. *)

\* The record of a process that has just taken the lease, or renewed it.
LEMMA TakenFacts ==
    ASSUME CoordConstants, NEW n \in Nat, NEW x \in Place
    PROVE  /\ [Idle EXCEPT !.pc = x, !.epoch = n] \in ProcRec
           /\ [Idle EXCEPT !.pc = x, !.epoch = n].pc = x
           /\ [Idle EXCEPT !.pc = x, !.epoch = n].epoch = n
<1>1. Idle \in ProcRec
    BY IdleFacts, Zenon
<1> QED
    BY <1>1, Zenon DEF ProcRec

\* A process with a new epoch is ahead of every run and relies on nothing else.
LEMMA TakenPlace ==
    ASSUME CoordIInv, NEW p \in Process, NEW x \in {"leased", "attached"},
           runStore' = runStore, proc'[p].pc = x, proc'[p].epoch = sessionLease.epoch + 1
    PROVE  PlaceInv(p)'
<1>1. \A r \in CoordRun : runStore[r].epoch \in Nat /\ runStore[r].epoch <= sessionLease.epoch
    BY Zenon DEF CoordIInv, TypeOK, RunRec, RunEpochs
<1>2. sessionLease.epoch \in Nat
    BY Zenon DEF CoordIInv, TypeOK, LeaseRec
<1>3. \A r \in CoordRun : runStore[r].epoch < sessionLease.epoch + 1
    BY <1>1, <1>2, SMT
<1>4. AheadOfRuns(p)'
    BY <1>3, Zenon DEF AheadOfRuns
<1>5. (Placed(p) /\ Enters(p) /\ Engages(p) /\ Saves(p) /\ Drives(p) /\ HandsOff(p))'
    BY Zenon DEF Placed, Enters, Engages, Saves, Drives, HandsOff, Entering, Engaged, Handing
<1> QED
    BY <1>4, <1>5, Zenon DEF PlaceInv

\* The epochs of the runs stay behind when that of the session grows.
LEMMA EpochsBehind ==
    ASSUME CoordIInv, runStore' = runStore, sessionLease'.epoch = sessionLease.epoch + 1
    PROVE  RunEpochs'
<1>1. \A r \in CoordRun : runStore[r].epoch \in Nat /\ runStore[r].epoch <= sessionLease.epoch
    BY Zenon DEF CoordIInv, TypeOK, RunRec, RunEpochs
<1>2. sessionLease.epoch \in Nat
    BY Zenon DEF CoordIInv, TypeOK, LeaseRec
<1>3. \A r \in CoordRun : runStore[r].epoch <= sessionLease.epoch + 1
    BY <1>1, <1>2, SMT
<1> QED
    BY <1>3, Zenon DEF RunEpochs

\* AcquireSession: a new epoch is ahead of that of every run.
LEMMA AcquireSessionInv ==
    ASSUME CoordIInv, NEW p \in Process, AcquireSession(p) PROVE CoordIInv'
<1> DEFINE n == sessionLease.epoch + 1
           new == [Idle EXCEPT !.pc = "leased", !.epoch = n]
<1>1. sessionLease.epoch \in Nat /\ CoordConstants /\ proc \in [Process -> ProcRec]
    BY Zenon DEF CoordIInv, TypeOK, LeaseRec
<1>2. n \in Nat /\ n # 0
    BY <1>1, SMT
<1>3. /\ sessionLease.holder = Nobody /\ sessionLease' = [epoch |-> n, holder |-> p]
      /\ proc' = [proc EXCEPT ![p] = new] /\ journal' = journal /\ runStore' = runStore
    BY Zenon DEF AcquireSession
<1>4. sessionLease' \in LeaseRec /\ sessionLease'.epoch = n /\ sessionLease'.holder = p
    BY <1>2, <1>3, Zenon DEF LeaseRec
<1>5. new \in ProcRec /\ new.pc = "leased" /\ new.epoch = n
  <2>1. "leased" \in Place
    BY Zenon DEF Place
  <2> HIDE DEF n
  <2> QED
    BY <1>1, <1>2, <2>1, TakenFacts, Zenon
<1>6. \A q \in Process : proc[q].pc = "off" /\ proc[q].handle = NoRun
    BY <1>3, Zenon DEF CoordIInv, HoldsLease, Current, CoordConstants
<1>7. RunEpochs' /\ JournalInv'
    BY <1>3, <1>4, EpochsBehind, JournalKept, Zenon
<1> HIDE DEF new
<1>8. proc'[p] = new /\ \A q \in Process : q # p => proc'[q] = proc[q]
    BY <1>1, <1>3, Zenon
<1>9. PlaceInv(p)'
    BY <1>3, <1>5, <1>8, TakenPlace, Zenon
<1>10. HoldsLease(p)'
    BY <1>2, <1>4, <1>5, <1>8, Zenon DEF HoldsLease, Current
<1>11. ASSUME NEW q \in Process, q # p PROVE (HoldsLease(q) /\ PlaceInv(q))'
  <2>1. proc'[q].pc = "off" /\ proc'[q].handle = NoRun
    BY <1>6, <1>8, <1>11, Zenon
  <2> QED
    BY <2>1, Zenon DEF HoldsLease, PlaceInv, AheadOfRuns, Placed, Enters, Engages, Saves, Drives,
       HandsOff, Attaching, Entering, Engaged, Handing
<1>12. TypeOK'
    BY <1>1, <1>3, <1>4, <1>5, Zenon DEF CoordIInv, TypeOK
<1> QED
    BY <1>7, <1>9, <1>10, <1>11, <1>12, Zenon DEF CoordIInv, CoordConstants

\* The lease goes with the process that gives it back or dies.
LEMMA LeavingStep ==
    ASSUME CoordIInv, NEW p \in Process, proc[p].pc # "off", proc' = [proc EXCEPT ![p] = Idle],
           sessionLease' = [sessionLease EXCEPT !.holder = Nobody],
           runStore' \in [CoordRun -> RunRec], journal' \in JournalRec, JournalInv',
           \A r \in CoordRun : runStore'[r].epoch = runStore[r].epoch
    PROVE  CoordIInv'
<1>1. Idle \in ProcRec /\ Idle.pc = "off" /\ Idle.handle = NoRun
    BY IdleFacts, Zenon DEF CoordIInv
<1>2. sessionLease' \in LeaseRec /\ sessionLease'.epoch = sessionLease.epoch
    BY Zenon DEF CoordIInv, TypeOK, LeaseRec
<1>3. RunEpochs'
    BY <1>2, Zenon DEF CoordIInv, RunEpochs
<1>4. proc'[p].pc = "off" /\ proc'[p].handle = NoRun
    BY <1>1, Zenon DEF CoordIInv, TypeOK
<1>5. HoldsLease(p)' /\ PlaceInv(p)'
    BY <1>4, Zenon DEF HoldsLease, PlaceInv, AheadOfRuns, Placed, Enters, Engages, Saves, Drives,
       HandsOff, Attaching, Entering, Engaged, Handing
<1> QED
    BY <1>1, <1>2, <1>3, <1>5, OwnStep, Zenon

\* Release and Crash give every lease of the process back.
LEMMA ReleaseInv ==
    ASSUME CoordIInv, NEW p \in Process, Release(p) \/ Crash(p) PROVE CoordIInv'
<1>1. proc[p].pc # "off" /\ proc' = [proc EXCEPT ![p] = Idle] /\ journal' = journal /\ runStore' = FreedRuns(p)
    BY Zenon DEF Release, Crash
<1>2. sessionLease.holder = p
    BY <1>1, Zenon DEF CoordIInv, HoldsLease, Current
<1>3. sessionLease' = [sessionLease EXCEPT !.holder = Nobody]
    BY <1>2, Zenon DEF Release, Crash
<1>4. runStore' \in [CoordRun -> RunRec] /\ \A r \in CoordRun : runStore'[r].epoch = runStore[r].epoch
    BY <1>1, FreedFacts, Zenon DEF CoordIInv, TypeOK
<1>5. JournalInv' /\ journal' \in JournalRec
    BY <1>1, <1>4, JournalKept, Zenon DEF CoordIInv, TypeOK
<1> QED
    BY <1>1, <1>3, <1>4, <1>5, LeavingStep, Zenon

\* An attachment that goes on under a new epoch.
LEMMA RenewingStep ==
    ASSUME CoordIInv, NEW p \in Process, proc[p].pc # "off",
           sessionLease' = [sessionLease EXCEPT !.epoch = sessionLease.epoch + 1],
           proc' = [proc EXCEPT ![p] = [Idle EXCEPT !.pc = "attached", !.epoch = sessionLease'.epoch]],
           journal' \in JournalRec, journal'.seq # 0, JournalInv', runStore' = runStore
    PROVE  CoordIInv'
<1> DEFINE n == sessionLease.epoch + 1
           new == [Idle EXCEPT !.pc = "attached", !.epoch = n]
<1>1. sessionLease \in LeaseRec /\ CoordConstants /\ sessionLease.holder = p
    BY Zenon DEF CoordIInv, TypeOK, HoldsLease, Current
<1>2. n \in Nat /\ n # 0
    BY <1>1, SMT DEF LeaseRec
<1>3. sessionLease' \in LeaseRec /\ sessionLease'.epoch = n /\ sessionLease'.holder = p
  <2> HIDE DEF n
  <2>1. sessionLease' = [sessionLease EXCEPT !.epoch = n]
    BY Zenon DEF n
  <2> QED
    BY <1>1, <1>2, <2>1, Zenon DEF LeaseRec
<1>4. new \in ProcRec /\ new.pc = "attached" /\ new.epoch = n
  <2>1. "attached" \in Place
    BY Zenon DEF Place
  <2> HIDE DEF n
  <2> QED
    BY <1>1, <1>2, <2>1, TakenFacts, Zenon
<1>5. RunEpochs' /\ runStore' \in [CoordRun -> RunRec]
    BY <1>3, EpochsBehind, Zenon DEF CoordIInv, TypeOK
<1>6. proc' = [proc EXCEPT ![p] = new] /\ proc'[p] = new
    BY <1>3, Zenon DEF CoordIInv, TypeOK
<1> HIDE DEF new
<1>7. PlaceInv(p)'
    BY <1>4, <1>6, TakenPlace, Zenon
<1>8. HoldsLease(p)'
    BY <1>2, <1>3, <1>4, <1>6, Zenon DEF HoldsLease, Current
<1> QED
    BY <1>3, <1>4, <1>5, <1>6, <1>7, <1>8, OwnStep, Zenon

\* Refused: an attachment that reconciles goes on under a new epoch.
LEMMA RefusedInv ==
    ASSUME CoordIInv, NEW p \in Process, Refused(p) PROVE CoordIInv'
<1>1. proc[p].pc \notin {"off", "leased"} /\ journal' = journal /\ runStore' = runStore /\ journal'.seq # 0
    BY Zenon DEF Refused, CoordIInv, HoldsLease
<1>2. JournalInv' /\ journal' \in JournalRec /\ runStore \in [CoordRun -> RunRec]
    BY <1>1, JournalKept, Zenon DEF CoordIInv, TypeOK
<1>3. \/ /\ sessionLease' = [sessionLease EXCEPT !.epoch = sessionLease.epoch + 1]
         /\ proc' = [proc EXCEPT ![p] = [Idle EXCEPT !.pc = "attached", !.epoch = sessionLease'.epoch]]
      \/ /\ proc' = [proc EXCEPT ![p] = [proc[p] EXCEPT !.pc = "failed"]]
         /\ sessionLease' = sessionLease
    BY Zenon DEF Refused
<1> QED
    BY <1>1, <1>2, <1>3, RenewingStep, RestingStep, Zenon

----------------------------------------------------------------------------
(* Steps that change the journal. *)

\* A commit that does not touch the attempts.
LEMMA SeqGrows ==
    ASSUME CoordIInv, journal' = [journal EXCEPT !.seq = journal.seq + 1], journal.seq # 0,
           runStore' = runStore
    PROVE  journal' \in JournalRec /\ journal'.seq # 0 /\ JournalInv'
<1>1. journal \in JournalRec /\ journal.seq \in Nat
    BY Zenon DEF CoordIInv, TypeOK, JournalRec
<1>2. journal.seq + 1 \in Nat /\ journal.seq + 1 # 0
    BY <1>1, SMT
<1>3. /\ journal' \in JournalRec /\ journal'.seq # 0 /\ journal'.active = journal.active
      /\ journal'.closed = journal.closed /\ journal'.attempt = journal.attempt
      /\ journal'.transition = journal.transition
    BY <1>1, <1>2, Zenon DEF JournalRec
<1>4. \A r : Status(r)' = Status(r) /\ Checkpoint(r)' = Checkpoint(r)
    BY <1>3, Zenon DEF Status, Checkpoint
<1>5. JournalInv
    BY Zenon DEF CoordIInv
<1>6. ASSUME NEW r \in CoordRun PROVE AttemptInv(r)'
  <2>1. /\ Status(r)' = Status(r) /\ Checkpoint(r)' = Checkpoint(r) /\ AttemptInv(r)
        /\ Status(r + 1)' = Status(r + 1)
    BY <1>4, <1>5, Zenon DEF JournalInv
  <2>2. Over(Checkpoint(r)') <=> Over(Checkpoint(r))
    BY <2>1, Zenon
  <2> QED
    BY <1>3, <2>1, <2>2, Zenon DEF AttemptInv
<1>7. JournalInv'
    BY <1>3, <1>4, <1>5, <1>6, Zenon DEF JournalInv
<1> QED
    BY <1>3, <1>7, Zenon

\* PauseSession: the lease is given back or renewed.
LEMMA PauseSessionInv ==
    ASSUME CoordIInv, NEW p \in Process, PauseSession(p) PROVE CoordIInv'
<1>1. /\ proc[p].pc \notin {"off", "leased"} /\ runStore' = runStore /\ journal.seq # 0
      /\ runStore \in [CoordRun -> RunRec]
    BY Zenon DEF PauseSession, CoordIInv, HoldsLease, TypeOK
<1>2. \/ /\ journal' = [journal EXCEPT !.seq = journal.seq + 1]
         /\ sessionLease' = [sessionLease EXCEPT !.epoch = sessionLease.epoch + 1]
         /\ proc' = [proc EXCEPT ![p] = [Idle EXCEPT !.pc = "attached", !.epoch = sessionLease'.epoch]]
      \/ /\ journal' = [journal EXCEPT !.seq = journal.seq + 1]
         /\ sessionLease' = [sessionLease EXCEPT !.holder = Nobody]
         /\ proc' = [proc EXCEPT ![p] = Idle]
      \/ /\ proc' = [proc EXCEPT ![p] = [proc[p] EXCEPT !.pc = "failed"]]
         /\ journal' = journal /\ sessionLease' = sessionLease
    BY Zenon DEF PauseSession, Advanced
<1>3. journal' = [journal EXCEPT !.seq = journal.seq + 1] =>
        journal' \in JournalRec /\ journal'.seq # 0 /\ JournalInv'
    BY <1>1, SeqGrows, Zenon
<1> QED
    BY <1>1, <1>2, <1>3, RenewingStep, LeavingStep, RestingStep, Zenon

\* A step that keeps the lease and the epochs of the runs, and commits to the journal.
LEMMA CommittingStep ==
    ASSUME CoordIInv, NEW p \in Process, NEW new \in ProcRec, proc[p].pc # "off", new.pc # "off",
           new.epoch = proc[p].epoch, proc' = [proc EXCEPT ![p] = new],
           journal' \in JournalRec, journal'.seq # 0, JournalInv', sessionLease' = sessionLease,
           runStore' \in [CoordRun -> RunRec],
           \A r \in CoordRun : runStore'[r].epoch = runStore[r].epoch, PlaceInv(p)'
    PROVE  CoordIInv'
<1>1. RunEpochs' /\ sessionLease' \in LeaseRec
    BY Zenon DEF CoordIInv, RunEpochs, TypeOK
<1>2. proc'[p] = new
    BY Zenon DEF CoordIInv, TypeOK
<1>3. HoldsLease(p)'
    BY <1>2, Zenon DEF CoordIInv, HoldsLease, Current
<1> QED
    BY <1>1, <1>3, OwnStep, Zenon

\* A session is closed when none of its attempts is at work.
LEMMA CloseSessionInv ==
    ASSUME CoordIInv, NEW p \in Process, CloseSession(p) PROVE CoordIInv'
<1> DEFINE new == [proc[p] EXCEPT !.pc = "failed"]
<1>1. /\ proc[p] \in ProcRec /\ journal \in JournalRec /\ journal.seq \in Nat
      /\ runStore \in [CoordRun -> RunRec] /\ "failed" \in Place
    BY Zenon DEF CoordIInv, TypeOK, JournalRec, Place
<1>2. /\ journal' = [journal EXCEPT !.seq = journal.seq + 1, !.closed = TRUE, !.active = NoRun]
      /\ proc' = [proc EXCEPT ![p] = new] /\ proc'[p] = new
      /\ sessionLease' = sessionLease /\ runStore' = runStore /\ proc[p].pc # "off"
      /\ journal.active # NoRun => Status(journal.active) \in {"paused", "handoff", "indeterminate"}
    BY Zenon DEF CloseSession, CoordIInv, TypeOK
<1>3. journal.seq # 0
    BY Zenon DEF CloseSession, CoordIInv, HoldsLease
<1>4. journal.seq + 1 \in Nat /\ journal.seq + 1 # 0 /\ NoRun \in 0..Runs
    BY <1>1, SMT DEF CoordIInv, CoordConstants, NoRun
<1>5. /\ journal' \in JournalRec /\ journal'.seq # 0 /\ journal'.active = NoRun
      /\ journal'.closed = TRUE /\ journal'.attempt = journal.attempt
      /\ journal'.transition = journal.transition
    BY <1>1, <1>2, <1>4, Zenon DEF JournalRec
<1>6. \A r : Status(r)' = Status(r) /\ Checkpoint(r)' = Checkpoint(r)
    BY <1>5, Zenon DEF Status, Checkpoint
<1>7. JournalInv
    BY Zenon DEF CoordIInv
<1>8. ASSUME NEW r \in CoordRun PROVE AttemptInv(r)'
  <2>1. /\ Status(r)' = Status(r) /\ Checkpoint(r)' = Checkpoint(r) /\ AttemptInv(r)
        /\ Status(r + 1)' = Status(r + 1)
    BY <1>6, <1>7, Zenon DEF JournalInv
  <2>2. Status(r) \notin Working
    <3>1. r # NoRun
      BY SMT DEF CoordRun, NoRun, CoordIInv, CoordConstants
    <3> QED
      BY <1>2, <2>1, <3>1, Zenon DEF AttemptInv, Working
  <2> QED
    BY <1>2, <1>5, <2>1, <2>2, Zenon DEF AttemptInv
<1>9. JournalInv'
    BY <1>3, <1>5, <1>6, <1>7, <1>8, Zenon DEF JournalInv
<1>10. new \in ProcRec /\ new.pc = "failed" /\ new.epoch = proc[p].epoch
    BY <1>1, PcFacts, Zenon
<1> HIDE DEF new
<1>11. PlaceInv(p)'
    BY <1>2, <1>10, AtRest, Zenon
<1> QED
    BY <1>1, <1>2, <1>5, <1>9, <1>10, <1>11, CommittingStep, Zenon

\* PrepareTransition: the source is the active run and ends in a handoff.
LEMMA PrepareTransitionInv ==
    ASSUME CoordIInv, NEW p \in Process, PrepareTransition(p) PROVE CoordIInv'
<1> DEFINE new == [proc[p] EXCEPT !.pc = "commit"]
<1>0. PICK r : r = proc[p].run
    BY Zenon
<1>1. /\ proc[p] \in ProcRec /\ journal \in JournalRec /\ journal.seq \in Nat
      /\ runStore \in [CoordRun -> RunRec] /\ "commit" \in Place
    BY Zenon DEF CoordIInv, TypeOK, JournalRec, Place
<1>2. /\ journal' = [journal EXCEPT !.seq = journal.seq + 1,
                                    !.transition = [journal.transition EXCEPT ![r] = "prepared"]]
      /\ proc' = [proc EXCEPT ![p] = new] /\ proc'[p] = new
      /\ sessionLease' = sessionLease /\ runStore' = runStore /\ proc[p].pc = "prepare"
      /\ journal.active = r /\ Status(r) = "handoff" /\ journal.transition[r] = "none"
    BY <1>0, Zenon DEF PrepareTransition, CoordIInv, TypeOK
<1>3. journal.seq # 0 /\ r \in CoordRun
    BY <1>0, <1>2, Zenon DEF CoordIInv, HoldsLease, PlaceInv, Placed, Handing
<1>4. journal.seq + 1 \in Nat /\ journal.seq + 1 # 0
    BY <1>1, SMT
<1> DEFINE t == [journal.transition EXCEPT ![r] = "prepared"]
<1>5. /\ journal.transition \in [CoordRun -> {"none", "prepared", "committed"}]
      /\ t \in [CoordRun -> {"none", "prepared", "committed"}] /\ t[r] = "prepared"
      /\ \A u \in CoordRun : u # r => t[u] = journal.transition[u]
    BY <1>1, <1>3, Zenon DEF JournalRec
<1> HIDE DEF t
<1>6. /\ journal' \in JournalRec /\ journal'.seq # 0 /\ journal'.active = journal.active
      /\ journal'.closed = journal.closed /\ journal'.attempt = journal.attempt
      /\ journal'.transition = t
  <2>1. journal' = [journal EXCEPT !.seq = journal.seq + 1, !.transition = t]
    BY <1>2, Zenon DEF t
  <2> QED
    BY <1>1, <1>4, <1>5, <2>1, Zenon DEF JournalRec
<1>7. \A u : journal'.attempt[u].status = Status(u) /\ journal'.attempt[u].checkpoint = Checkpoint(u)
    BY <1>6, Zenon DEF Status, Checkpoint
<1>8. JournalInv
    BY Zenon DEF CoordIInv
<1>9. ASSUME NEW u \in CoordRun PROVE AttemptInv(u)'
  <2>1. /\ Status(u)' = Status(u) /\ Checkpoint(u)' = Checkpoint(u) /\ AttemptInv(u)
        /\ Status(u + 1)' = Status(u + 1)
    BY <1>7, <1>8, Zenon DEF JournalInv, Status, Checkpoint
  <2>2. Over(Checkpoint(u)') <=> Over(Checkpoint(u))
    BY <2>1, Zenon
  <2>3. CASE u = r
    BY <1>2, <1>5, <1>6, <2>1, <2>2, <2>3, Zenon DEF AttemptInv
  <2>4. CASE u # r
    BY <1>2, <1>5, <1>6, <2>1, <2>2, <2>4, Zenon DEF AttemptInv
  <2> QED
    BY <2>3, <2>4, Zenon
<1>10. JournalInv'
    BY <1>3, <1>6, <1>7, <1>8, <1>9, Zenon DEF JournalInv, Status
<1>11. new \in ProcRec /\ new.pc = "commit" /\ new.epoch = proc[p].epoch /\ new.run = r
    BY <1>0, <1>1, PcFacts, Zenon
<1> HIDE DEF new
<1>12. Placed(p)' /\ HandsOff(p)'
    BY <1>2, <1>3, <1>6, <1>7, <1>11, Zenon DEF Placed, HandsOff, Status
<1>13. (AheadOfRuns(p) /\ Enters(p) /\ Engages(p) /\ Saves(p) /\ Drives(p))'
    BY <1>2, <1>11, Zenon DEF AheadOfRuns, Enters, Engages, Saves, Drives, Attaching, Entering, Engaged
<1>14. PlaceInv(p)'
    BY <1>12, <1>13, Zenon DEF PlaceInv
<1> QED
    BY <1>1, <1>2, <1>6, <1>10, <1>11, <1>14, CommittingStep, Zenon

\* The neighbours of a run in the handoff chain.
LEMMA ChainFacts ==
    ASSUME CoordConstants
    PROVE  /\ 1 \in CoordRun /\ 1 \in 0..Runs /\ 1 # NoRun
           /\ \A r \in CoordRun : r # NoRun /\ r \in 0..Runs /\ r + 1 # r /\ r + 1 # 1
           /\ \A r \in CoordRun : r # Runs => r + 1 \in CoordRun
           /\ \A r, u \in CoordRun : r + 1 = u + 1 => r = u
           /\ \A r \in CoordRun : (r + 1) + 1 # r
    BY SMT DEF CoordConstants, CoordRun, NoRun

\* The attempts with a new status of one of them.
WithStatus(r, x) == [journal.attempt EXCEPT ![r] = [journal.attempt[r] EXCEPT !.status = x]]

\* What a change of one attempt's status leaves alone.
LEMMA StatusFacts ==
    ASSUME journal \in JournalRec, NEW r \in CoordRun, NEW x \in AttemptStatus, NEW a, a = WithStatus(r, x)
    PROVE  /\ a \in Attempts
           /\ a[r].status = x /\ a[r].checkpoint = journal.attempt[r].checkpoint
           /\ \A u \in CoordRun : u # r => a[u] = journal.attempt[u]
           /\ \A u \in CoordRun : a[u].checkpoint = journal.attempt[u].checkpoint
<1> DEFINE A == [status : AttemptStatus, checkpoint : Seq(SavedState)]
           new == [journal.attempt[r] EXCEPT !.status = x]
<1>1. journal.attempt \in [CoordRun -> A] /\ journal.attempt[r] \in A
    BY Zenon DEF JournalRec, Attempts
<1>2. new \in A /\ new.status = x /\ new.checkpoint = journal.attempt[r].checkpoint
    BY <1>1, Zenon
<1> HIDE DEF new, A
<1>3. a = [journal.attempt EXCEPT ![r] = new]
    BY Zenon DEF new, WithStatus
<1>4. a \in [CoordRun -> A] /\ a[r] = new
    BY <1>1, <1>2, <1>3, Zenon
<1>5. \A u \in CoordRun : u # r => a[u] = journal.attempt[u]
    BY <1>1, <1>3, Zenon
<1> QED
    BY <1>2, <1>4, <1>5, Zenon DEF A, Attempts

\* StartSession: the first run becomes the active one.
LEMMA StartSessionInv ==
    ASSUME CoordIInv, NEW p \in Process, StartSession(p) PROVE CoordIInv'
<1>0. PICK n : n = journal'.seq
    BY Zenon
<1> DEFINE new == [proc[p] EXCEPT !.pc = "restore", !.via = "start", !.run = 1, !.seq = n]
<1>1. /\ proc[p] \in ProcRec /\ journal \in JournalRec /\ journal.seq \in Nat
      /\ runStore \in [CoordRun -> RunRec] /\ CoordConstants
    BY Zenon DEF CoordIInv, TypeOK, JournalRec
<1>2. /\ proc[p].pc = "leased" /\ sessionLease' = sessionLease /\ runStore' = runStore
      /\ proc' = [proc EXCEPT ![p] = new] /\ proc'[p] = new
    BY <1>0, Zenon DEF StartSession, CoordIInv, TypeOK
<1>3. \A r \in CoordRun : runStore[r].epoch < proc[p].epoch
    BY <1>2, Zenon DEF CoordIInv, PlaceInv, AheadOfRuns, Attaching
<1>4. ASSUME journal' \in JournalRec, journal'.seq # 0, JournalInv' PROVE CoordIInv'
  <2>1. n \in Nat /\ "restore" \in Place /\ "start" \in Entry /\ 1 \in 0..Runs /\ 1 \in CoordRun
    BY <1>0, <1>1, <1>4, ChainFacts, Zenon DEF JournalRec, Place, Entry
  <2>2. /\ new \in ProcRec /\ new.pc = "restore" /\ new.run = 1 /\ new.via = "start"
        /\ new.epoch = proc[p].epoch
    BY <1>1, <2>1, Zenon DEF ProcRec
  <2> HIDE DEF new
  <2>3. Placed(p)' /\ Enters(p)'
    BY <1>2, <1>3, <1>4, <2>1, <2>2, Zenon DEF Placed, Enters, JournalInv, Status
  <2>4. (AheadOfRuns(p) /\ Engages(p) /\ Saves(p) /\ Drives(p) /\ HandsOff(p))'
    BY <1>2, <2>2, Zenon DEF AheadOfRuns, Engages, Saves, Drives, HandsOff, Attaching, Engaged
  <2>5. PlaceInv(p)'
    BY <2>3, <2>4, Zenon DEF PlaceInv
  <2> QED
    BY <1>1, <1>2, <1>4, <2>2, <2>5, CommittingStep, Zenon
<1>5. CASE journal.seq > 0
  <2>1. journal' = journal /\ journal.seq # 0
    BY <1>1, <1>5, SMT DEF StartSession
  <2> QED
    BY <1>1, <1>2, <1>4, <2>1, JournalKept, Zenon
<1>6. CASE ~ (journal.seq > 0)
  <2>0. PICK a : a = WithStatus(1, "starting")
    BY Zenon
  <2>1. journal.seq = 0
    BY <1>1, <1>6, SMT
  <2>2. journal' = [journal EXCEPT !.seq = 1, !.active = 1, !.attempt = a]
    BY <1>6, <2>0, Zenon DEF StartSession, WithStatus
  <2>3. 1 \in CoordRun /\ 1 \in 0..Runs /\ 1 # NoRun /\ 1 \in Nat /\ 1 # 0
    BY <1>1, ChainFacts, SMT
  <2>4. "starting" \in AttemptStatus
    BY Zenon DEF AttemptStatus, Working
  <2>5. /\ a \in Attempts
        /\ a[1].status = "starting"
        /\ \A u \in CoordRun : u # 1 => a[u] = journal.attempt[u]
        /\ \A u \in CoordRun : a[u].checkpoint = journal.attempt[u].checkpoint
    BY <1>1, <2>0, <2>3, <2>4, StatusFacts, SMT
  <2>6. /\ journal' \in JournalRec /\ journal'.seq = 1 /\ journal'.active = 1 /\ journal'.attempt = a
        /\ journal'.closed = journal.closed /\ journal'.transition = journal.transition
    BY <1>1, <2>2, <2>3, <2>5, Zenon DEF JournalRec
  <2>7. JournalInv /\ ~ journal.closed /\ \A u \in CoordRun : Status(u) = "absent"
    BY <2>1, Zenon DEF CoordIInv, JournalInv
  <2>8. /\ Status(1)' = "starting"
        /\ \A u \in CoordRun : (u # 1 => Status(u)' = "absent") /\ Checkpoint(u)' = Checkpoint(u)
    BY <2>5, <2>6, <2>7, Zenon DEF Status, Checkpoint
  <2>9. ASSUME NEW u \in CoordRun PROVE AttemptInv(u)'
    <3>1. AttemptInv(u) /\ Status(u) = "absent"
      BY <2>7, Zenon DEF JournalInv
    <3>2. journal'.transition[u] = "none" /\ Checkpoint(u)' = <<>> /\ runStore'[u].epoch = 0
      BY <1>2, <2>6, <2>8, <3>1, Zenon DEF AttemptInv
    <3>3. u # Runs => Status(u + 1)' = "absent"
      BY <1>1, <2>8, ChainFacts, Zenon
    <3>4. Status(u)' \in {"absent", "starting"} /\ (Status(u)' = "starting" => u = 1)
      BY <2>8, Zenon
    <3> QED
      BY <2>6, <3>2, <3>3, <3>4, Zenon DEF AttemptInv, Working
  <2>10. JournalInv'
    BY <2>3, <2>6, <2>7, <2>8, <2>9, Zenon DEF JournalInv
  <2> QED
    BY <1>4, <2>3, <2>6, <2>10, Zenon
<1> QED
    BY <1>5, <1>6, Zenon

\* RegisterRun: what is driven next is what was committed.
LEMMA RegisterRunInv ==
    ASSUME CoordIInv, NEW p \in Process, RegisterRun(p) PROVE CoordIInv'
<1>0. PICK n, r, via, mem : n = journal'.seq /\ r = proc[p].run /\ via = proc[p].via /\ mem = proc[p].mem
    BY Zenon
<1>1. /\ proc[p] \in ProcRec /\ journal \in JournalRec /\ journal.seq \in Nat
      /\ runStore \in [CoordRun -> RunRec] /\ CoordConstants
    BY Zenon DEF CoordIInv, TypeOK, JournalRec
<1>2. /\ proc[p].pc = "register" /\ sessionLease' = sessionLease /\ runStore' = runStore
      /\ \/ /\ via = "reconcile"
            /\ proc' = [proc EXCEPT ![p] = SaveNext([proc[p] EXCEPT !.seq = n], "paused", "pause")]
         \/ proc' = [proc EXCEPT ![p] = [proc[p] EXCEPT !.pc = "drive", !.handle = r, !.seq = n]]
    BY <1>0, Zenon DEF RegisterRun
<1>3. /\ r \in CoordRun /\ Status(r) # "absent" /\ journal.seq # 0
      /\ journal.active = r \/ (journal.closed /\ via = "start")
      /\ journal.transition[r] = "none" /\ runStore[r].epoch = proc[p].epoch
      /\ mem # <<>> /\ (Newest(mem).st = "handoff" => r # Runs)
      /\ mem = Checkpoint(r) /\ runStore[r].state = mem /\ runStore[r].holder = p
    BY <1>0, <1>2, Zenon DEF CoordIInv, PlaceInv, Placed, Engages, Drives, HoldsLease, Engaged
<1>4. ASSUME journal' \in JournalRec, journal'.seq # 0, JournalInv',
             journal'.active = journal.active, journal'.closed = journal.closed,
             journal'.transition = journal.transition, journal'.attempt[r].status # "absent",
             journal'.attempt[r].checkpoint = Checkpoint(r)
      PROVE  CoordIInv'
  <2>0. n \in Nat
    BY <1>0, <1>4, Zenon DEF JournalRec
  <2>1. CASE /\ via = "reconcile"
             /\ proc' = [proc EXCEPT ![p] = SaveNext([proc[p] EXCEPT !.seq = n], "paused", "pause")]
    <3>1. PICK o : o = [proc[p] EXCEPT !.seq = n]
      BY Zenon
    <3>2. o \in ProcRec /\ o.run = r /\ o.via = via /\ o.epoch = proc[p].epoch
      BY <1>0, <1>1, <2>0, <3>1, Zenon DEF ProcRec
    <3>3. PICK new : new = SaveNext(o, "paused", "pause")
      BY Zenon
    <3>4. "paused" \in RunStatus /\ "pause" \in Goal /\ "pause" \in Goal \ {"off"}
      BY Zenon DEF RunStatus, Goal
    <3>5. new \in ProcRec /\ new.pc = "save" /\ new.epoch = proc[p].epoch
      BY <3>2, <3>3, <3>4, SaveNextFacts, SMT
    <3>6. proc' = [proc EXCEPT ![p] = new] /\ proc'[p] = SaveNext(o, "paused", "pause")
      BY <2>1, <3>1, <3>3, Zenon DEF CoordIInv, TypeOK
    <3>7. /\ journal'.active = o.run \/ (journal'.closed /\ o.via = "start")
          /\ journal'.transition[o.run] = "none" /\ runStore'[o.run].epoch = o.epoch
          /\ o.run \in CoordRun /\ journal'.attempt[o.run].status # "absent"
      BY <1>2, <1>3, <1>4, <3>2, Zenon
    <3>8. PlaceInv(p)'
      BY <3>2, <3>4, <3>6, <3>7, SavingPlace, Zenon DEF Status
    <3> QED
      BY <1>1, <1>2, <1>4, <3>5, <3>6, <3>8, CommittingStep, Zenon
  <2>2. CASE proc' = [proc EXCEPT ![p] = [proc[p] EXCEPT !.pc = "drive", !.handle = r, !.seq = n]]
    <3>1. PICK new : new = [proc[p] EXCEPT !.pc = "drive", !.handle = r, !.seq = n]
      BY Zenon
    <3>2. "drive" \in Place /\ r \in 0..Runs
      BY <1>1, <1>3, ChainFacts, Zenon DEF Place
    <3>3. /\ new \in ProcRec /\ new.pc = "drive" /\ new.run = r /\ new.via = via /\ new.mem = mem
          /\ new.epoch = proc[p].epoch
      BY <1>0, <1>1, <2>0, <3>1, <3>2, Zenon DEF ProcRec
    <3>4. proc' = [proc EXCEPT ![p] = new] /\ proc'[p] = new
      BY <2>2, <3>1, Zenon DEF CoordIInv, TypeOK
    <3>5. /\ journal'.active = r \/ (journal'.closed /\ via = "start")
          /\ journal'.transition[r] = "none" /\ runStore'[r].epoch = proc[p].epoch
          /\ journal'.attempt[r].checkpoint = mem /\ runStore'[r].state = mem /\ runStore'[r].holder = p
      BY <1>2, <1>3, <1>4, Zenon
    <3>6. Placed(p)' /\ Drives(p)' /\ Engages(p)'
      <4>1. Placed(p)'
        BY <1>3, <1>4, <3>3, <3>4, Zenon DEF Placed, Status
      <4>2. Drives(p)'
        BY <3>3, <3>4, <3>5, Zenon DEF Drives, Checkpoint
      <4>3. Engages(p)'
        <5>1. /\ journal'.active = proc'[p].run \/ (journal'.closed /\ proc'[p].via = "start")
              /\ journal'.transition[proc'[p].run] = "none"
              /\ runStore'[proc'[p].run].epoch = proc'[p].epoch
          BY <3>3, <3>4, <3>5, Zenon
        <5>2. proc'[p].mem # <<>> /\ (Newest(proc'[p].mem).st = "handoff" => proc'[p].run # Runs)
          BY <1>3, <3>3, <3>4, Zenon
        <5> QED
          BY <5>1, <5>2, Zenon DEF Engages
      <4> QED
        BY <4>1, <4>2, <4>3, Zenon
    <3>7. (AheadOfRuns(p) /\ Enters(p) /\ Saves(p) /\ HandsOff(p))'
      BY <3>3, <3>4, Zenon DEF AheadOfRuns, Enters, Saves, HandsOff, Attaching, Entering
    <3>8. PlaceInv(p)'
      BY <3>6, <3>7, Zenon DEF PlaceInv
    <3> QED
      BY <1>1, <1>2, <1>4, <3>3, <3>4, <3>8, CommittingStep, Zenon
  <2> QED
    BY <1>2, <2>1, <2>2, Zenon
<1>5. CASE via \in {"start", "target"}
  <2>1. journal' = journal
    BY <1>0, <1>5, Zenon DEF RegisterRun
  <2>2. JournalInv'
    BY <1>2, <2>1, JournalKept, Zenon
  <2>3. journal'.attempt[r].status # "absent" /\ journal'.attempt[r].checkpoint = Checkpoint(r)
    BY <1>3, <2>1, Zenon DEF Status, Checkpoint
  <2> QED
    BY <1>1, <1>3, <1>4, <2>1, <2>2, <2>3, Zenon
<1>6. CASE via \notin {"start", "target"}
  <2>1. PICK a : a = WithStatus(r, "running")
    BY Zenon
  <2>2. journal' = [journal EXCEPT !.seq = journal.seq + 1, !.attempt = a]
    BY <1>0, <1>6, <2>1, Zenon DEF RegisterRun, WithStatus
  <2>3. journal.seq + 1 \in Nat /\ journal.seq + 1 # 0
    BY <1>1, SMT
  <2>4. "running" \in AttemptStatus
    BY Zenon DEF AttemptStatus, Working
  <2>5. /\ a \in Attempts
        /\ a[r].status = "running"
        /\ \A u \in CoordRun : u # r => a[u] = journal.attempt[u]
        /\ \A u \in CoordRun : a[u].checkpoint = journal.attempt[u].checkpoint
    BY <1>1, <1>3, <2>1, <2>4, StatusFacts, SMT
  <2>6. /\ journal' \in JournalRec /\ journal'.seq # 0 /\ journal'.active = journal.active
        /\ journal'.attempt = a /\ journal'.closed = journal.closed
        /\ journal'.transition = journal.transition
    BY <1>1, <2>2, <2>3, <2>5, Zenon DEF JournalRec
  <2>7. /\ Status(r)' = "running" /\ journal.active = r
        /\ \A u \in CoordRun : (u # r => Status(u)' = Status(u)) /\ Checkpoint(u)' = Checkpoint(u)
    BY <1>3, <1>6, <2>5, <2>6, Zenon DEF Status, Checkpoint
  <2>8. ASSUME NEW u \in CoordRun PROVE AttemptInv(u)'
    <3>1. AttemptInv(u) /\ Checkpoint(u)' = Checkpoint(u)
      BY <2>7, Zenon DEF CoordIInv, JournalInv
    <3>2. Over(Checkpoint(u)') <=> Over(Checkpoint(u))
      BY <3>1, Zenon
    <3>3. u # Runs /\ journal'.transition[u] # "committed" => Status(u + 1)' = "absent"
      <4>1. u # Runs => u + 1 \in CoordRun
        BY <1>1, ChainFacts, Zenon
      <4>2. u # Runs /\ journal.transition[u] # "committed" => Status(u + 1) = "absent"
        BY <3>1, Zenon DEF AttemptInv
      <4> QED
        BY <1>3, <2>6, <2>7, <4>1, <4>2, Zenon
    <3>4. CASE u = r
      BY <1>3, <2>6, <2>7, <3>1, <3>2, <3>3, <3>4, Zenon DEF AttemptInv, Working
    <3>5. CASE u # r
      <4>1. Status(u)' = Status(u)
        BY <2>7, <3>5, Zenon
      <4> QED
        BY <1>2, <2>6, <3>1, <3>2, <3>3, <4>1, Zenon DEF AttemptInv
    <3> QED
      BY <3>4, <3>5, Zenon
  <2>9. JournalInv'
    <3>1. Status(1)' # "absent"
      <4>1. Status(1) # "absent" /\ 1 \in CoordRun
        BY <1>1, <1>3, ChainFacts, Zenon DEF CoordIInv, JournalInv
      <4> QED
        BY <2>7, <4>1, Zenon
    <3> QED
      BY <2>6, <2>8, <3>1, Zenon DEF CoordIInv, JournalInv
  <2>10. journal'.attempt[r].status # "absent" /\ journal'.attempt[r].checkpoint = Checkpoint(r)
    BY <1>3, <2>5, <2>6, Zenon DEF Checkpoint
  <2> QED
    BY <1>4, <2>6, <2>9, <2>10, Zenon
<1> QED
    BY <1>5, <1>6, Zenon

\* What the attempt of a run becomes with a checkpoint.
LEMMA RunStatusFacts ==
    ASSUME NEW st \in RunStatus, NEW x, x = attemptStatusFromRun(st)
    PROVE  /\ x \in AttemptStatus /\ x # "absent" /\ (x \in Working => st \notin Ended)
           /\ x = "handoff" => st = "handoff"
    BY Zenon DEF RunStatus, AttemptStatus, attemptStatusFromRun, Working, Ended

\* A committed checkpoint of the active run.
WithCheckpoint(r, c, st) ==
    [journal EXCEPT !.seq = journal.seq + 1,
        !.attempt = [journal.attempt EXCEPT ![r] =
                        [status |-> attemptStatusFromRun(st), checkpoint |-> c]],
        !.active = IF st \in Ended THEN NoRun ELSE r]

\* What a committed checkpoint does to the journal.
LEMMA CommitJournal ==
    ASSUME CoordIInv, NEW r \in CoordRun, NEW c \in Seq(SavedState), NEW st \in RunStatus,
           c # <<>>, Newest(c).st = st, st = "handoff" => r # Runs,
           journal.seq # 0, journal.active = r, ~ journal.closed, journal.transition[r] = "none",
           Status(r) # "absent",
           journal' = WithCheckpoint(r, c, st),
           \A u \in CoordRun : runStore'[u].epoch = runStore[u].epoch
    PROVE  /\ journal' \in JournalRec /\ journal'.seq # 0 /\ JournalInv'
           /\ journal'.active = IF st \in Ended THEN NoRun ELSE r
           /\ journal'.transition[r] = "none"
           /\ journal'.attempt[r].status # "absent" /\ journal'.attempt[r].checkpoint = c
<1>0. PICK x, e : /\ x = attemptStatusFromRun(st)
                  /\ e = [status |-> attemptStatusFromRun(st), checkpoint |-> c]
    BY Zenon
<1>1. /\ journal \in JournalRec /\ journal.seq \in Nat /\ CoordConstants
      /\ journal.attempt \in Attempts
    BY Zenon DEF CoordIInv, TypeOK, JournalRec
<1>2. /\ x \in AttemptStatus /\ x # "absent" /\ (x \in Working => st \notin Ended)
      /\ x = "handoff" => st = "handoff"
    BY <1>0, RunStatusFacts, Zenon
<1>3. e \in [status : AttemptStatus, checkpoint : Seq(SavedState)] /\ e.status = x /\ e.checkpoint = c
    BY <1>0, <1>2, Zenon
<1>4. PICK a : a = [journal.attempt EXCEPT ![r] =
                       [status |-> attemptStatusFromRun(st), checkpoint |-> c]]
    BY Zenon
<1>5. a \in Attempts /\ a[r] = e /\ \A u \in CoordRun : u # r => a[u] = journal.attempt[u]
  <2>1. a = [journal.attempt EXCEPT ![r] = e]
    BY <1>0, <1>4, Zenon
  <2> QED
    BY <1>1, <1>3, <2>1, Zenon DEF Attempts
<1>6. PICK v : v = IF st \in Ended THEN NoRun ELSE r
    BY Zenon
<1>7. /\ journal.seq + 1 \in Nat /\ journal.seq + 1 # 0 /\ r \in 0..Runs /\ NoRun \in 0..Runs
    BY <1>1, SMT DEF CoordConstants, CoordRun, NoRun
<1>8. /\ journal' \in JournalRec /\ journal'.seq # 0 /\ journal'.active = v /\ journal'.attempt = a
      /\ journal'.closed = journal.closed /\ journal'.transition = journal.transition
  <2>1. v \in 0..Runs
    BY <1>6, <1>7, Zenon
  <2>2. journal' = [journal EXCEPT !.seq = journal.seq + 1, !.attempt = a, !.active = v]
    <3>1. CASE st \in Ended
      BY <1>4, <1>6, <3>1, Zenon DEF WithCheckpoint
    <3>2. CASE st \notin Ended
      BY <1>4, <1>6, <3>2, Zenon DEF WithCheckpoint
    <3> QED
      BY <3>1, <3>2, Zenon
  <2> QED
    BY <1>1, <1>5, <1>7, <2>1, <2>2, Zenon DEF JournalRec
<1>9. /\ Status(r)' = x /\ Checkpoint(r)' = c
      /\ \A u \in CoordRun : u # r => Status(u)' = Status(u) /\ Checkpoint(u)' = Checkpoint(u)
  <2>1. e.status = x /\ e.checkpoint = c /\ journal'.attempt = a
    BY <1>3, <1>8, Zenon
  <2>2. a[r] = e /\ \A u \in CoordRun : u # r => a[u] = journal.attempt[u]
    BY <1>5, Zenon
  <2> QED
    BY <2>1, <2>2, Zenon DEF Status, Checkpoint
<1>10. ASSUME NEW u \in CoordRun PROVE AttemptInv(u)'
  <2>1. AttemptInv(u)
    BY Zenon DEF CoordIInv, JournalInv
  <2>2. u # Runs /\ journal'.transition[u] # "committed" => Status(u + 1)' = "absent"
    <3>1. u # Runs => u + 1 \in CoordRun
      BY <1>1, ChainFacts, Zenon
    <3>2. u # Runs /\ journal.transition[u] # "committed" => Status(u + 1) = "absent"
      BY <2>1, Zenon DEF AttemptInv
    <3> QED
      BY <1>8, <1>9, <3>1, <3>2, Zenon
  <2>3. CASE u = r
    <3>1. Status(u)' = x /\ Checkpoint(u)' = c
      BY <1>9, <2>3, Zenon
    <3>2. ~ Over(c) => st \notin Ended
      BY Zenon DEF Over
    <3> QED
      BY <1>2, <1>6, <1>8, <2>2, <2>3, <3>1, <3>2, Zenon DEF AttemptInv
  <2>4. CASE u # r
    <3>1. Status(u)' = Status(u) /\ Checkpoint(u)' = Checkpoint(u)
      BY <1>9, <2>4, Zenon
    <3>2. Status(u) \notin Working /\ (Status(u) # "absent" => Over(Checkpoint(u)))
      BY <2>1, <2>4, Zenon DEF AttemptInv
    <3>3. Status(u) # "absent" => Over(Checkpoint(u)')
      BY <3>1, <3>2, Zenon
    <3> QED
      BY <1>8, <2>1, <2>2, <3>1, <3>2, <3>3, Zenon DEF AttemptInv
  <2> QED
    BY <2>3, <2>4, Zenon
<1>11. JournalInv'
  <2>1. Status(1)' # "absent"
    <3>1. Status(1) # "absent" /\ 1 \in CoordRun
      BY <1>1, ChainFacts, Zenon DEF CoordIInv, JournalInv
    <3> QED
      BY <1>2, <1>9, <3>1, Zenon
  <2> QED
    BY <1>8, <1>10, <2>1, Zenon DEF JournalInv
<1> QED
    BY <1>2, <1>3, <1>5, <1>6, <1>8, <1>11, Zenon

\* CommitExecutionMutation: the journal has caught up with the run store.
LEMMA CommitExecutionMutationInv ==
    ASSUME CoordIInv, NEW p \in Process, CommitExecutionMutation(p) PROVE CoordIInv'
<1>0. PICK r, c, st, goal, via : /\ r = proc[p].run /\ c = proc[p].mem /\ st = Newest(proc[p].mem).st
                                 /\ goal = proc[p].next /\ via = proc[p].via
    BY Zenon
<1>1. /\ proc[p] \in ProcRec /\ runStore \in [CoordRun -> RunRec] /\ proc[p].pc = "journal"
      /\ c \in Seq(SavedState) /\ goal \in Goal /\ proc[p].seq \in Nat
    BY <1>0, Zenon DEF CommitExecutionMutation, CoordIInv, TypeOK, ProcRec
<1>2. /\ r \in CoordRun /\ Status(r) # "absent" /\ journal.seq # 0 /\ ~ journal.closed
      /\ journal.active = r /\ journal.transition[r] = "none" /\ runStore[r].epoch = proc[p].epoch
      /\ c # <<>> /\ (st = "handoff" => r # Runs)
  <2>1. Placed(p) /\ Engages(p) /\ HoldsLease(p)
    BY Zenon DEF CoordIInv, PlaceInv
  <2>2. ~ journal.closed
    BY Zenon DEF CommitExecutionMutation
  <2> QED
    BY <1>0, <1>1, <2>1, <2>2, Zenon DEF Placed, Engages, HoldsLease, Engaged
<1>3. /\ goal # "off" /\ runStore[r].state = c
      /\ goal \in {"begun", "register", "drive"} =>
            runStore[r].holder = p /\ st \notin Ended /\ (Stops(st) => goal = "register")
  <2>1. Saves(p)
    BY Zenon DEF CoordIInv, PlaceInv
  <2> QED
    BY <1>0, <1>1, <2>1, Zenon DEF Saves
<1>4. st \in RunStatus /\ Newest(c).st = st
  <2>1. Newest(c) \in SavedState
    BY <1>1, <1>2, SMT DEF Newest
  <2> QED
    BY <1>0, <2>1, Zenon DEF SavedState
<1>5. /\ journal' = WithCheckpoint(r, c, st)
      /\ runStore' = IF Stops(st) /\ goal # "register"
                     THEN [runStore EXCEPT ![r] = [runStore[r] EXCEPT !.holder = Nobody]] ELSE runStore
      /\ sessionLease' = sessionLease
    BY <1>0, <1>3, Zenon DEF CommitExecutionMutation, WithCheckpoint
<1>6. PICK x : x = After(proc[p])
    BY Zenon
<1>7. PICK new : new = [proc[p] EXCEPT !.pc = x, !.seq = proc[p].seq + 1]
    BY Zenon
<1>8. proc' = [proc EXCEPT ![p] = new] /\ proc'[p] = new
  <2>1. proc' = [proc EXCEPT ![p] = new]
    BY <1>6, <1>7, Zenon DEF CommitExecutionMutation
  <2> QED
    BY <2>1, Zenon DEF CoordIInv, TypeOK
<1>9. /\ x \in {"register", "drive", "prepare", "refused", "pause", "stopped", "failed"}
      /\ x \in {"register", "drive"} => goal \in {"begun", "register", "drive"}
    BY <1>0, <1>1, <1>3, <1>6, Zenon DEF After, Goal
<1>10. /\ new \in ProcRec /\ new.pc = x /\ new.run = r /\ new.mem = c /\ new.via = via
       /\ new.epoch = proc[p].epoch
  <2>1. x \in Place
    BY <1>9, Zenon DEF Place
  <2>2. proc[p].seq + 1 \in Nat
    BY <1>1, SMT
  <2> QED
    BY <1>0, <1>1, <1>7, <2>1, <2>2, Zenon DEF ProcRec
<1>11. /\ runStore' \in [CoordRun -> RunRec]
       /\ \A u \in CoordRun : runStore'[u].epoch = runStore[u].epoch
  <2>1. PICK f : f = [runStore[r] EXCEPT !.holder = Nobody]
    BY Zenon
  <2>2. f \in RunRec /\ f.epoch = runStore[r].epoch
    <3>1. runStore[r] \in RunRec /\ Nobody \in Process \cup {Nobody}
      BY <1>1, <1>2, Zenon
    <3> QED
      BY <2>1, <3>1, Zenon DEF RunRec
  <2>3. runStore' = [runStore EXCEPT ![r] = f] \/ runStore' = runStore
    BY <1>5, <2>1, Zenon
  <2> QED
    BY <1>1, <1>2, <2>2, <2>3, Zenon
<1>12. /\ journal' \in JournalRec /\ journal'.seq # 0 /\ JournalInv'
       /\ journal'.active = IF st \in Ended THEN NoRun ELSE r
       /\ journal'.transition[r] = "none"
       /\ journal'.attempt[r].status # "absent" /\ journal'.attempt[r].checkpoint = c
  <2>1. journal' = WithCheckpoint(r, c, st) /\ c \in Seq(SavedState) /\ st \in RunStatus /\ Newest(c).st = st
    BY <1>1, <1>4, <1>5, Zenon
  <2>2. \A u \in CoordRun : runStore'[u].epoch = runStore[u].epoch
    BY <1>11, Zenon
  <2> QED
    BY <1>2, <2>1, <2>2, CommitJournal, SMT
<1>13. PlaceInv(p)'
  <2>1. CASE x \in {"refused", "pause", "stopped", "failed"}
    BY <1>8, <1>10, <2>1, AtRest, Zenon
  <2>2. Placed(p)'
    BY <1>2, <1>8, <1>10, <1>12, Zenon DEF Placed, Status
  <2>3. CASE x = "prepare"
    BY <1>8, <1>10, <2>2, <2>3, Zenon DEF PlaceInv, AheadOfRuns, Enters, Engages, Saves, Drives, HandsOff,
       Attaching, Entering, Engaged
  <2>4. CASE x \in {"register", "drive"}
    <3>1. st \notin Ended /\ runStore' = runStore /\ runStore[r].holder = p
      BY <1>3, <1>5, <1>9, <2>4, Zenon
    <3>2. /\ journal'.active = r /\ runStore'[r].epoch = proc[p].epoch /\ runStore'[r].state = c
          /\ runStore'[r].holder = p
      BY <1>2, <1>3, <1>12, <3>1, Zenon
    <3>3. Engages(p)'
      BY <1>2, <1>4, <1>8, <1>10, <1>12, <3>2, Zenon DEF Engages
    <3>4. Drives(p)'
      BY <1>8, <1>10, <1>12, <3>2, Zenon DEF Drives, Checkpoint
    <3>5. (AheadOfRuns(p) /\ Enters(p) /\ Saves(p) /\ HandsOff(p))'
      BY <1>8, <1>10, <2>4, Zenon DEF AheadOfRuns, Enters, Saves, HandsOff, Attaching, Entering
    <3> QED
      BY <2>2, <3>3, <3>4, <3>5, Zenon DEF PlaceInv
  <2> QED
    BY <1>9, <2>1, <2>3, <2>4, Zenon
<1>14. new.pc # "off" /\ proc[p].pc # "off"
    BY <1>1, <1>9, <1>10, Zenon
<1> QED
    BY <1>5, <1>8, <1>10, <1>11, <1>12, <1>13, <1>14, CommittingStep, Zenon

\* The handoff in the journal: the source is handed over, its target starts.
WithTransition(r, u) ==
    [journal EXCEPT !.seq = @ + 1, !.transition[r] = "committed", !.active = u,
                    !.attempt[r].status = "handed_off", !.attempt[u].status = "starting"]

HandedOver(r, u) ==
    /\ journal' \in JournalRec /\ journal'.seq # 0 /\ journal'.active = u
    /\ journal'.closed = journal.closed /\ journal'.transition[r] = "committed"
    /\ journal'.attempt[r].status = "handed_off" /\ journal'.attempt[u].status = "starting"
    /\ \A w \in CoordRun : journal'.attempt[w].checkpoint = journal.attempt[w].checkpoint
    /\ \A w \in CoordRun : w # r => journal'.transition[w] = journal.transition[w]
    /\ \A w \in CoordRun : w # r /\ w # u => journal'.attempt[w] = journal.attempt[w]

\* What a committed handoff does to the journal.
LEMMA TransitionJournal ==
    ASSUME journal \in JournalRec, NEW r \in CoordRun, NEW u \in CoordRun, u # r, u \in 0..Runs,
           journal' = WithTransition(r, u)
    PROVE  HandedOver(r, u)
<1>1. /\ journal.seq \in Nat /\ journal.attempt \in Attempts
      /\ journal.transition \in [CoordRun -> {"none", "prepared", "committed"}]
    BY Zenon DEF JournalRec
<1>2. journal.seq + 1 \in Nat /\ journal.seq + 1 # 0
    BY <1>1, SMT
<1>3. PICK t : t = [journal.transition EXCEPT ![r] = "committed"]
    BY Zenon
<1>4. /\ t \in [CoordRun -> {"none", "prepared", "committed"}] /\ t[r] = "committed"
      /\ \A w \in CoordRun : w # r => t[w] = journal.transition[w]
    BY <1>1, <1>3, Zenon
<1>5. PICK e : e = [journal.attempt[r] EXCEPT !.status = "handed_off"]
    BY Zenon
<1>6. PICK a : a = [journal.attempt EXCEPT ![r] = e]
    BY Zenon
<1>7. PICK f : f = [a[u] EXCEPT !.status = "starting"]
    BY Zenon
<1>8. PICK b : b = [a EXCEPT ![u] = f]
    BY Zenon
<1> DEFINE A == [status : AttemptStatus, checkpoint : Seq(SavedState)]
<1>9. "handed_off" \in AttemptStatus /\ "starting" \in AttemptStatus
    BY Zenon DEF AttemptStatus, Working
<1>10. e \in A /\ e.status = "handed_off" /\ e.checkpoint = journal.attempt[r].checkpoint
  <2>1. journal.attempt[r] \in A
    BY <1>1, Zenon DEF Attempts
  <2> QED
    BY <1>5, <1>9, <2>1, Zenon
<1>11. a \in [CoordRun -> A] /\ a[r] = e /\ \A w \in CoordRun : w # r => a[w] = journal.attempt[w]
  <2>1. journal.attempt \in [CoordRun -> A]
    BY <1>1, Zenon DEF Attempts
  <2> HIDE DEF A
  <2> QED
    BY <1>6, <1>10, <2>1, Zenon
<1>12. f \in A /\ f.status = "starting" /\ f.checkpoint = journal.attempt[u].checkpoint
  <2>1. a[u] \in A /\ a[u] = journal.attempt[u]
    BY <1>11, Zenon
  <2> QED
    BY <1>7, <1>9, <2>1, Zenon
<1>13. b \in [CoordRun -> A] /\ b[u] = f /\ \A w \in CoordRun : w # u => b[w] = a[w]
  <2> HIDE DEF A
  <2> QED
    BY <1>8, <1>11, <1>12, Zenon
<1>14. PICK J1 : J1 = [journal EXCEPT !.seq = journal.seq + 1]
    BY Zenon
<1>15. J1 \in JournalRec /\ J1.seq # 0 /\ J1.closed = journal.closed /\ J1.transition = journal.transition
       /\ J1.attempt = journal.attempt
    BY <1>2, <1>14, Zenon DEF JournalRec
<1>16. PICK J2 : J2 = [J1 EXCEPT !.transition = t]
    BY Zenon
<1>17. J2 \in JournalRec /\ J2.seq # 0 /\ J2.closed = journal.closed /\ J2.transition = t
       /\ J2.attempt = journal.attempt
    BY <1>4, <1>15, <1>16, Zenon DEF JournalRec
<1>18. PICK J3 : J3 = [J2 EXCEPT !.active = u]
    BY Zenon
<1>19. J3 \in JournalRec /\ J3.seq # 0 /\ J3.closed = journal.closed /\ J3.transition = t
       /\ J3.attempt = journal.attempt /\ J3.active = u
    BY <1>17, <1>18, Zenon DEF JournalRec
<1>20. a \in Attempts /\ b \in Attempts
    BY <1>11, <1>13, Zenon DEF Attempts
<1>21. PICK J4 : J4 = [J3 EXCEPT !.attempt = a]
    BY Zenon
<1>22. J4 \in JournalRec /\ J4.seq # 0 /\ J4.closed = journal.closed /\ J4.transition = t
       /\ J4.attempt = a /\ J4.active = u
    BY <1>19, <1>20, <1>21, Zenon DEF JournalRec
<1>23. PICK J5 : J5 = [J4 EXCEPT !.attempt = b]
    BY Zenon
<1>24. J5 \in JournalRec /\ J5.seq # 0 /\ J5.closed = journal.closed /\ J5.transition = t
       /\ J5.attempt = b /\ J5.active = u
    BY <1>20, <1>22, <1>23, Zenon DEF JournalRec
<1>25. journal' = J5
  <2>1. J2 = [J1 EXCEPT !.transition = [J1.transition EXCEPT ![r] = "committed"]]
    BY <1>3, <1>15, <1>16, Zenon
  <2>2. J4 = [J3 EXCEPT !.attempt = [J3.attempt EXCEPT ![r] = [J3.attempt[r] EXCEPT !.status = "handed_off"]]]
    BY <1>5, <1>6, <1>19, <1>21, Zenon
  <2>3. J5 = [J4 EXCEPT !.attempt = [J4.attempt EXCEPT ![u] = [J4.attempt[u] EXCEPT !.status = "starting"]]]
    BY <1>7, <1>8, <1>22, <1>23, Zenon
  <2> QED
    BY <1>14, <1>18, <2>1, <2>2, <2>3, Zenon DEF WithTransition
<1>26. b[r].status = "handed_off" /\ b[u].status = "starting"
    BY <1>10, <1>11, <1>12, <1>13, Zenon
<1>27. ASSUME NEW w \in CoordRun
       PROVE  /\ b[w].checkpoint = journal.attempt[w].checkpoint
              /\ w # r /\ w # u => b[w] = journal.attempt[w]
  <2>1. CASE w = u
    BY <1>12, <1>13, <2>1, Zenon
  <2>2. CASE w = r
    BY <1>10, <1>11, <1>13, <2>2, Zenon
  <2>3. CASE w # u /\ w # r
    BY <1>11, <1>13, <2>3, Zenon
  <2> QED
    BY <2>1, <2>2, <2>3, Zenon
<1> QED
  <2>1. journal'.attempt = b /\ journal'.transition = t
    BY <1>24, <1>25, Zenon
  <2>2. /\ journal' \in JournalRec /\ journal'.seq # 0 /\ journal'.active = u
        /\ journal'.closed = journal.closed
    BY <1>24, <1>25, Zenon
  <2>3. /\ journal'.transition[r] = "committed"
        /\ \A w \in CoordRun : w # r => journal'.transition[w] = journal.transition[w]
    BY <1>4, <2>1, Zenon
  <2>4. /\ journal'.attempt[r].status = "handed_off" /\ journal'.attempt[u].status = "starting"
        /\ \A w \in CoordRun : journal'.attempt[w].checkpoint = journal.attempt[w].checkpoint
        /\ \A w \in CoordRun : w # r /\ w # u => journal'.attempt[w] = journal.attempt[w]
    BY <1>26, <1>27, <2>1, Zenon
  <2> QED
    BY <2>2, <2>3, <2>4, Zenon DEF HandedOver

\* CommitTransition: the target has no trace when it becomes the active run.
LEMMA CommitTransitionInv ==
    ASSUME CoordIInv, NEW p \in Process, CommitTransition(p) PROVE CoordIInv'
<1>0. PICK r, u, n : r = proc[p].run /\ u = proc[p].run + 1 /\ n = journal'.seq
    BY Zenon
<1>1. /\ proc[p] \in ProcRec /\ journal \in JournalRec /\ runStore \in [CoordRun -> RunRec]
      /\ CoordConstants /\ JournalInv
    BY Zenon DEF CoordIInv, TypeOK
<1>2. /\ proc[p].pc = "commit" /\ journal.transition[r] = "prepared"
      /\ sessionLease' = sessionLease /\ runStore' = runStore
    BY <1>0, Zenon DEF CommitTransition
<1>3. r \in CoordRun /\ journal.active = r /\ Status(r) = "handoff" /\ AttemptInv(r)
    BY <1>0, <1>1, <1>2, Zenon DEF CoordIInv, PlaceInv, Placed, HandsOff, Handing, JournalInv
<1>4. r # Runs /\ u \in CoordRun /\ u # r /\ u \in 0..Runs /\ u # 1 /\ u = r + 1
    BY <1>0, <1>1, <1>3, ChainFacts, Zenon DEF AttemptInv
<1>5. Status(u) = "absent" /\ AttemptInv(u) /\ Checkpoint(u) = <<>> /\ runStore[u].epoch = 0
  <2>1. Status(u) = "absent" /\ AttemptInv(u)
    BY <1>1, <1>2, <1>3, <1>4, Zenon DEF AttemptInv, JournalInv
  <2> QED
    BY <2>1, Zenon DEF AttemptInv
<1>6. ~ journal.closed
    BY <1>1, <1>3, ChainFacts, Zenon DEF JournalInv
<1>7. journal' = WithTransition(r, u)
    BY <1>0, Zenon DEF CommitTransition, WithTransition
<1>8. /\ journal' \in JournalRec /\ journal'.seq # 0 /\ journal'.active = u
      /\ journal'.closed = journal.closed /\ journal'.transition[r] = "committed"
      /\ journal'.attempt[r].status = "handed_off" /\ journal'.attempt[u].status = "starting"
      /\ \A w \in CoordRun : journal'.attempt[w].checkpoint = journal.attempt[w].checkpoint
      /\ \A w \in CoordRun : w # r => journal'.transition[w] = journal.transition[w]
      /\ \A w \in CoordRun : w # r /\ w # u => journal'.attempt[w] = journal.attempt[w]
  <2>1. journal \in JournalRec /\ r \in CoordRun /\ u \in CoordRun /\ u # r /\ u \in 0..Runs
    BY <1>1, <1>3, <1>4, Zenon
  <2>2. HandedOver(r, u)
    BY <1>7, <2>1, TransitionJournal, SMT
  <2> QED
    BY <2>2, Zenon DEF HandedOver
<1>9. /\ Status(r)' = "handed_off" /\ Status(u)' = "starting"
      /\ \A w \in CoordRun : Checkpoint(w)' = Checkpoint(w)
      /\ \A w \in CoordRun : w # r /\ w # u => Status(w)' = Status(w)
    BY <1>8, Zenon DEF Status, Checkpoint
<1>10. ASSUME NEW w \in CoordRun PROVE AttemptInv(w)'
  <2>1. AttemptInv(w) /\ Checkpoint(w)' = Checkpoint(w)
    BY <1>1, <1>9, Zenon DEF JournalInv
  <2>2. Over(Checkpoint(w)') <=> Over(Checkpoint(w))
    BY <2>1, Zenon
  <2>3. CASE w = r
    <3>1. Status(w)' = "handed_off" /\ journal'.transition[w] = "committed" /\ Checkpoint(w) # <<>>
          /\ Newest(Checkpoint(w)).st = "handoff"
      BY <1>2, <1>3, <1>8, <1>9, <2>3, Zenon DEF AttemptInv
    <3>2. Over(Checkpoint(w))
      BY <3>1, Zenon DEF Over
    <3> QED
      BY <2>1, <2>2, <3>1, <3>2, Zenon DEF AttemptInv, Working
  <2>4. w # r /\ w # Runs /\ journal'.transition[w] # "committed" => Status(w + 1)' = "absent"
    <3>1. w # r /\ w # Runs => w + 1 \in CoordRun /\ w + 1 # u
      BY <1>1, <1>3, <1>4, ChainFacts, Zenon
    <3>2. w # Runs /\ journal.transition[w] # "committed" => Status(w + 1) = "absent"
      BY <2>1, Zenon DEF AttemptInv
    <3> QED
      BY <1>3, <1>8, <1>9, <3>1, <3>2, Zenon
  <2>5. CASE w = u
    <3>1. journal.transition[w] = "none" /\ Status(w)' = "starting" /\ journal'.active = w
      BY <1>5, <1>8, <1>9, <2>5, Zenon DEF AttemptInv
    <3>2. journal'.transition[w] = "none"
      BY <1>4, <1>8, <2>5, <3>1, Zenon
    <3> QED
      BY <1>4, <2>4, <2>5, <3>1, <3>2, Zenon DEF AttemptInv
  <2>6. CASE w # r /\ w # u
    <3>1. Status(w)' = Status(w) /\ journal'.transition[w] = journal.transition[w]
      BY <1>8, <1>9, <2>6, Zenon
    <3>2. Status(w) \notin Working /\ (Status(w) # "absent" => Over(Checkpoint(w)))
      BY <1>3, <1>6, <2>1, <2>6, Zenon DEF AttemptInv
    <3> QED
      BY <1>2, <2>1, <2>2, <2>4, <2>6, <3>1, <3>2, Zenon DEF AttemptInv
  <2> QED
    BY <2>3, <2>5, <2>6, Zenon
<1>11. JournalInv'
  <2>1. Status(1)' # "absent"
    <3>1. Status(1) # "absent" /\ 1 \in CoordRun
      <4>1. journal.seq # 0
        BY <1>2, Zenon DEF CoordIInv, HoldsLease
      <4> QED
        BY <1>1, <4>1, ChainFacts, Zenon DEF JournalInv
    <3> QED
      BY <1>4, <1>9, <3>1, Zenon
  <2> QED
    BY <1>6, <1>8, <1>10, <2>1, Zenon DEF JournalInv
<1>12. PICK v : v = IF proc[p].handle = NoRun THEN proc[p].via ELSE "target"
    BY Zenon
<1>13. PICK c : c = <<>>
    BY Zenon
<1>14. PICK new : new = [proc[p] EXCEPT !.pc = "restore", !.run = u, !.mem = c, !.seq = n, !.via = v]
    BY Zenon
<1>15. new \in ProcRec /\ new.pc = "restore" /\ new.run = u /\ new.epoch = proc[p].epoch
  <2>1. "restore" \in Place /\ v \in Entry /\ n \in Nat
    BY <1>0, <1>1, <1>8, <1>12, Zenon DEF Place, Entry, ProcRec, JournalRec
  <2>2. c \in Seq(SavedState)
    BY <1>13, SMT
  <2> QED
    BY <1>1, <1>4, <1>14, <2>1, <2>2, Zenon DEF ProcRec
<1>16. proc' = [proc EXCEPT ![p] = new] /\ proc'[p] = new
  <2>1. [[[[proc[p] EXCEPT !.pc = "restore"] EXCEPT !.run = u] EXCEPT !.mem = c] EXCEPT !.seq = n].via = proc[p].via
    BY <1>1, Zenon DEF ProcRec
  <2>2. proc' = [proc EXCEPT ![p] = new]
    BY <1>0, <1>12, <1>13, <1>14, <2>1, Zenon DEF CommitTransition
  <2> QED
    BY <2>2, Zenon DEF CoordIInv, TypeOK
<1>17. runStore'[u].epoch < proc[p].epoch
  <2>1. proc[p].epoch # 0 /\ proc[p].epoch \in Nat
    BY <1>1, <1>2, Zenon DEF CoordIInv, HoldsLease, ProcRec
  <2>2. runStore'[u].epoch = 0
    BY <1>2, <1>5, Zenon
  <2> QED
    BY <2>1, <2>2, SMT
<1>18. Placed(p)' /\ Enters(p)'
    BY <1>4, <1>8, <1>15, <1>16, <1>17, Zenon DEF Placed, Enters, Status
<1>19. (AheadOfRuns(p) /\ Engages(p) /\ Saves(p) /\ Drives(p) /\ HandsOff(p))'
    BY <1>15, <1>16, Zenon DEF AheadOfRuns, Engages, Saves, Drives, HandsOff, Attaching, Engaged
<1>20. PlaceInv(p)'
    BY <1>18, <1>19, Zenon DEF PlaceInv
<1>21. new.pc # "off" /\ proc[p].pc # "off"
    BY <1>2, <1>15, Zenon
<1> QED
    BY <1>1, <1>2, <1>8, <1>11, <1>15, <1>16, <1>20, <1>21, CommittingStep, Zenon

----------------------------------------------------------------------------
(* The theorems. *)

\* Every step of a coordinator preserves the invariant.
LEMMA CoordNext == CoordIInv /\ [Next]_vars => CoordIInv'
<1> SUFFICES ASSUME CoordIInv, [Next]_vars PROVE CoordIInv'
    BY Zenon
<1>1. CASE UNCHANGED vars
  <2>1. journal' = journal /\ sessionLease' = sessionLease /\ runStore' = runStore /\ proc' = proc
    BY <1>1, Zenon DEF vars
  <2>2. JournalInv' /\ RunEpochs' /\ TypeOK'
    BY <2>1, JournalKept, Zenon DEF CoordIInv, RunEpochs, TypeOK
  <2>3. ASSUME NEW p \in Process PROVE (HoldsLease(p) /\ PlaceInv(p))'
    <3>1. HoldsLease(p) /\ PlaceInv(p)
      BY Zenon DEF CoordIInv
    <3>2. (HoldsLease(p) /\ AheadOfRuns(p) /\ Placed(p) /\ HandsOff(p))'
      BY <2>1, <3>1, Zenon DEF HoldsLease, Current, PlaceInv, AheadOfRuns, Placed, HandsOff, Status
    <3>3. (Enters(p) /\ Engages(p))'
      BY <2>1, <3>1, Zenon DEF PlaceInv, Enters, Engages, Checkpoint
    <3>4. (Saves(p) /\ Drives(p))'
      BY <2>1, <3>1, Zenon DEF PlaceInv, Saves, Drives, Checkpoint
    <3> QED
      BY <3>2, <3>3, <3>4, Zenon DEF PlaceInv
  <2> QED
    BY <2>2, <2>3, Zenon DEF CoordIInv, CoordConstants
<1>2. CASE Next
  <2>1. PICK p \in Process : ProcessStep(p)
    BY <1>2, Zenon DEF Next
  <2>2. CASE \/ AcquireSession(p) \/ Release(p) \/ Crash(p)
             \/ StartSession(p) \/ ReconcileAttached(p) \/ ClientResume(p)
    BY <2>2, AcquireSessionInv, ReleaseInv, StartSessionInv, ReconcileAttachedInv, ClientResumeInv, Zenon
  <2>3. CASE \/ \E ack \in BOOLEAN : resumeWithLease(p, ack)
             \/ DiscardProjection(p) \/ RestoreRunProjection(p) \/ loadHandoffSource(p)
    BY <2>3, resumeWithLeaseInv, DiscardProjectionInv, RestoreRunProjectionInv, loadHandoffSourceInv, Zenon
  <2>4. CASE \/ LeaseRefused(p) \/ \E refence \in BOOLEAN : EngineRuns(p, refence)
             \/ Refused(p)
    BY <2>4, LeaseRefusedInv, EngineRunsInv, RefusedInv, Zenon
  <2>5. CASE \/ WriteCheckpoint(p) \/ CommitExecutionMutation(p) \/ SaveFails(p)
             \/ RegisterRun(p) \/ RegisterFails(p)
    BY <2>5, WriteCheckpointInv, CommitExecutionMutationInv, SaveFailsInv, RegisterRunInv,
       RegisterFailsInv, Zenon
  <2>6. CASE \/ \E st \in {"running", "dispatch", "completed", "handoff"} : Step(p, st)
             \/ CancelCommand(p)
    BY <2>6, StepInv, CancelCommandInv, Zenon
  <2>7. CASE \/ PrepareTransition(p) \/ CommitTransition(p) \/ HandoffFails(p)
             \/ PauseSession(p) \/ CloseSession(p)
    BY <2>7, PrepareTransitionInv, CommitTransitionInv, HandoffFailsInv, PauseSessionInv,
       CloseSessionInv, Zenon
  <2>8. CASE \/ DetachBegins(p) \/ DetachEngine(p) \/ DetachAgain(p) \/ DetachStopped(p)
    BY <2>8, DetachBeginsInv, DetachEngineInv, DetachAgainInv, DetachStoppedInv, Zenon
  <2> QED
    BY <2>1, <2>2, <2>3, <2>4, <2>5, <2>6, <2>7, <2>8, Zenon DEF ProcessStep
<1> QED
    BY <1>1, <1>2, Zenon

\* CoordIInv holds in every state of every behaviour of the coordinators.
THEOREM CoordInductive == CoordConstants /\ Spec => []CoordIInv
    BY CoordInit, CoordNext, PTL DEF Spec

\* Whatever failed, crashed or was refused before, a run is driven by the process that holds
\* both leases, and from the checkpoint that the journal has (startOrResumeRun, SaveState).
THEOREM DrivesCommittedAlways == CoordConstants /\ Spec => []DrivesCommitted
<1>1. CoordIInv => DrivesCommitted
  <2> SUFFICES ASSUME CoordIInv, NEW p \in Process, proc[p].pc = "drive"
               PROVE  LET r == proc[p].run IN
                      /\ Current(p) /\ runStore[r].holder = p /\ runStore[r].epoch = proc[p].epoch
                      /\ journal.active = r \/ journal.closed
                      /\ proc[p].mem = Checkpoint(r) /\ runStore[r].state = Checkpoint(r)
    BY Zenon DEF DrivesCommitted
  <2>1. HoldsLease(p) /\ Engages(p) /\ Drives(p)
    BY Zenon DEF CoordIInv, PlaceInv
  <2> QED
    BY <2>1, Zenon DEF HoldsLease, Engages, Drives, Engaged
<1> QED
    BY <1>1, CoordInductive, PTL

\* A handoff takes effect once, for a chain of any length: no trace of the target before
\* CommitTransition, a final source after PrepareTransition, one attempt at work.
THEOREM HandoffOnceAlways == CoordConstants /\ Spec => []HandoffOnce
<1>1. CoordIInv => HandoffOnce
  <2> SUFFICES ASSUME CoordIInv PROVE HandoffOnce
    BY Zenon
  <2>1. CoordConstants /\ \A r \in CoordRun : AttemptInv(r)
    BY Zenon DEF CoordIInv, JournalInv
  <2>2. ASSUME NEW r \in CoordRun \ {Runs}
        PROVE  /\ journal.transition[r] # "committed" =>
                    runStore[r + 1].epoch = 0 /\ Checkpoint(r + 1) = <<>>
               /\ journal.transition[r] # "none" =>
                    Newest(Checkpoint(r)).st = "handoff" /\ Status(r) \in {"handoff", "handed_off"}
    <3>1. r \in CoordRun /\ r # Runs /\ r + 1 \in CoordRun
      BY <2>1, ChainFacts, Zenon
    <3>2. AttemptInv(r) /\ AttemptInv(r + 1)
      BY <2>1, <3>1, Zenon
    <3> QED
      BY <3>1, <3>2, Zenon DEF AttemptInv
  <2>3. ASSUME NEW r \in CoordRun, Status(r) \in Working PROVE journal.active = r
    BY <2>1, <2>3, Zenon DEF AttemptInv
  <2> QED
    BY <2>2, <2>3, Zenon DEF HandoffOnce
<1> QED
    BY <1>1, CoordInductive, PTL

\* The writer epoch of a run is always behind that of the coordinator which enters it, so
\* that AcquireRunLease of sessionRunStore never finds its epoch taken.
THEOREM RunLeaseAlwaysObtainable == CoordConstants /\ Spec => []RunLeaseObtainable
<1>1. CoordIInv => RunLeaseObtainable
    BY EpochFree, Zenon DEF RunLeaseObtainable
<1> QED
    BY <1>1, CoordInductive, PTL
=============================================================================
