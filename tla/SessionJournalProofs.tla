------------------------ MODULE SessionJournalProofs ------------------------
(***************************************************************************)
(* Proofs about SessionJournal, for every set of writers, readers and      *)
(* commands and every bound on epochs.  First the steps of the inductive   *)
(* invariant: the initial state, leases, failures and commands, then       *)
(* appendEvent and the readers, and the theorems that follow from it.      *)
(* Then what the steps do to the log: the action properties, and the proof *)
(* that SessionJournal implements SessionLog.  Last, what holds when the   *)
(* machine may lose power.                                                 *)
(***************************************************************************)
EXTENDS SessionJournal, SessionJournalRefinement, TLAPS

CacheType == [epoch : Nat, events : Seq(Event)]

\* The idle values have their types.
LEMMA IdleTypes ==
    /\ NoEvent \in Event
    /\ NoCache \in CacheType
    /\ [seq |-> 0, event |-> NoEvent] \in JournalHead
    /\ NoCache.epoch = 0
<1>1. NoEvent \in Event
    BY Zenon DEF NoEvent, Event
<1>2. <<>> \in Seq(Event)
    OBVIOUS
<1> QED
    BY <1>1, <1>2, Zenon DEF NoCache, CacheType, JournalHead

\* An empty session directory satisfies the invariant.
LEMMA InitInv == Init => JournalIInv
<1> SUFFICES ASSUME Init PROVE JournalIInv
    BY Zenon
<1> USE NoneAssumption DEF Init
<1>1. TypeOK
    <2>1. journal \in Seq(Event) /\ projection \in Seq(Event) /\ synced \in 0 .. Len(journal)
        OBVIOUS
    <2>2. /\ cache \in [Writers -> [epoch : Nat, events : Seq(Event)]]
          /\ op \in [Writers -> Event]
        BY IdleTypes, Zenon DEF CacheType
    <2>3. rhead \in [Readers -> JournalHead]
        BY IdleTypes, Zenon
    <2>4. rsnap \in [Readers -> Seq(Event)]
        OBVIOUS
    <2> QED
        BY Zenon, <2>1, <2>2, <2>3, <2>4 DEF TypeOK
<1>2. LeaseInv
    BY Zenon DEF LeaseInv, NoCache
<1>3. JournalInv
    BY DEF JournalInv, WellFormed
<1>4. CacheInv
    BY Zenon DEF CacheInv, CacheAgrees, CacheValid, NoCache
<1>5. OpInv
    BY Zenon DEF OpInv, OpFits
<1>6. HistoryInv
    BY DEF HistoryInv, IsPrefixOf, Commands
<1> QED
    BY <1>1, <1>2, <1>3, <1>4, <1>5, <1>6, Zenon DEF JournalIInv, CoreInv

\* What JournalInv says depends on the disk, and a higher epoch does not disturb it.
LEMMA JournalFrame ==
    ASSUME JournalInv, TypeOK, highest' \in Nat, highest' >= highest,
           UNCHANGED <<journal, heads>>
    PROVE  JournalInv'
<1>1. \A i \in DOMAIN journal : journal[i].epoch \in 1 .. highest'
    <2> SUFFICES ASSUME NEW i \in DOMAIN journal PROVE journal[i].epoch \in 1 .. highest'
        BY Zenon
    <2>1. journal[i].epoch \in 1 .. highest
        BY Zenon DEF JournalInv
    <2> QED
        BY <2>1 DEF TypeOK
<1>2. WellFormed(journal)' /\ \A h \in heads' : AnchoredIn(h, journal')
    BY DEF JournalInv, WellFormed, AnchoredIn
<1> QED
    BY <1>1, <1>2, Zenon DEF JournalInv

\* A step that leaves the journal, the heads and the epochs alone keeps JournalInv.
LEMMA JournalSame ==
    ASSUME JournalInv, TypeOK, UNCHANGED <<journal, heads, highest>>
    PROVE  JournalInv'
BY JournalFrame DEF TypeOK

-----------------------------------------------------------------------------
(* Frames: what a conjunct of the invariant depends on. *)

\* A step that assigns the entry of p leaves those of the other writers.
LEMMA PcAt ==
    ASSUME TypeOK, NEW p \in Writers, NEW v, pc' = [pc EXCEPT ![p] = v]
    PROVE  pc'[p] = v /\ \A q \in Writers : q # p => pc'[q] = pc[q]
BY Zenon DEF TypeOK

LEMMA OpAt ==
    ASSUME TypeOK, NEW p \in Writers, NEW v, op' = [op EXCEPT ![p] = v]
    PROVE  op'[p] = v
BY Zenon DEF TypeOK

LEMMA CacheAt ==
    ASSUME TypeOK, NEW p \in Writers, NEW v, cache' = [cache EXCEPT ![p] = v]
    PROVE  cache'[p] = v /\ \A q \in Writers : q # p => cache'[q] = cache[q]
BY Zenon DEF TypeOK

\* While p holds the lock, every other writer is idle, without lease and cache.
LEMMA OthersIdle ==
    ASSUME LeaseInv, TypeOK, NEW p \in Writers, flock = p, NEW q \in Writers, q # p
    PROVE  pc[q] = "idle" /\ epoch[q] = 0 /\ cache[q].epoch = 0
BY NoneAssumption, Zenon DEF LeaseInv, TypeOK

\* When the lock is free, no writer has a lease, a cache or a commit in flight.
LEMMA AllIdle ==
    ASSUME LeaseInv, TypeOK, flock = None, NEW q \in Writers
    PROVE  pc[q] = "idle" /\ epoch[q] = 0 /\ cache[q].epoch = 0
BY NoneAssumption, Zenon DEF LeaseInv, TypeOK

\* What was acknowledged, committed, projected and read stays true of an unchanged disk.
LEMMA HistoryFrame ==
    ASSUME HistoryInv, UNCHANGED <<journal, heads, projection, acked, committed, rpc, rhead, rsnap>>
    PROVE  HistoryInv'
BY Zenon DEF HistoryInv, IsPrefixOf, Commands

\* A writer that ends up idle and without a cache has nothing left to say about.
LEMMA QuietWriters ==
    ASSUME TypeOK', \A q \in Writers : pc'[q] = "idle" /\ cache'[q].epoch = 0
    PROVE  CacheInv' /\ OpInv'
BY Zenon DEF CacheInv, CacheAgrees, OpInv, OpFits, CacheValid

\* AcquireSessionLease: the new holder has the newest epoch and no cache.
LEMMA AcquireInv ==
    ASSUME CoreInv, NEW p \in Writers, AcquireSessionLease(p)
    PROVE  CoreInv' /\ (HistoryInv => HistoryInv')
<1> USE NoneAssumption, EpochAssumption DEF CoreInv, AcquireSessionLease, disk, reading
<1>0. PICK m \in 0 .. MaxEpoch :
         /\ HeadEpoch(m)
         /\ highest' = NextEpoch(m)
         /\ epoch' = [epoch EXCEPT ![p] = NextEpoch(m)]
    BY Zenon
<1>h. highest' \in Nat \ {0} /\ highest' >= highest /\ epoch'[p] = highest' /\ \A q \in Writers : q # p => epoch'[q] = epoch[q]
    BY <1>0 DEF NextEpoch, TypeOK
<1>1. TypeOK'
    BY <1>0, <1>h, IdleTypes, Zenon DEF TypeOK, CacheType
<1>2. LeaseInv'
    BY <1>0, <1>h, IdleTypes DEF LeaseInv, TypeOK
<1>3. JournalInv'
    BY <1>h, JournalFrame, Zenon
<1>i. \A q \in Writers : pc[q] = "idle" /\ cache'[q].epoch = 0
    BY DEF LeaseInv, NoCache, TypeOK
<1>4. CacheInv' /\ OpInv'
    BY <1>1, <1>i, QuietWriters, Zenon
<1>6. HistoryInv => HistoryInv'
    BY HistoryFrame, Zenon
<1> QED
    BY <1>1, <1>2, <1>3, <1>4, <1>6, Zenon DEF CoreInv

\* Advance: the holder moves to a newer epoch and drops its cache.
LEMMA AdvanceInv ==
    ASSUME CoreInv, NEW p \in Writers, Advance(p)
    PROVE  CoreInv' /\ (HistoryInv => HistoryInv')
<1> USE NoneAssumption, EpochAssumption DEF CoreInv, Advance, disk, reading
<1>0. flock = p /\ epoch[p] = highest
    BY Zenon DEF LeaseInv
<1>h. highest' \in Nat \ {0} /\ highest' >= highest /\ highest' = NextEpoch(epoch[p])
    BY <1>0 DEF NextEpoch, TypeOK
<1>1. TypeOK'
    BY <1>h, IdleTypes, Zenon DEF TypeOK, CacheType
<1>q. \A q \in Writers : pc'[q] = "idle" /\ cache'[q].epoch = 0
    BY <1>0, OthersIdle, IdleTypes, Zenon DEF TypeOK
<1>2. LeaseInv'
    <2> SUFFICES ASSUME NEW q \in Writers
                 PROVE  /\ epoch'[q] # 0 <=> flock' = q
                        /\ epoch'[q] # 0 => epoch'[q] = highest'
                        /\ pc'[q] # "idle" => flock' = q
                        /\ cache'[q].epoch # 0 => cache'[q].epoch = epoch'[q]
        BY Zenon DEF LeaseInv
    <2>1. CASE q = p
        BY <2>1, <1>0, <1>h, <1>q, Zenon DEF TypeOK
    <2>2. CASE q # p
        BY <2>2, <1>0, <1>h, <1>q, OthersIdle, Zenon DEF TypeOK
    <2> QED
        BY <2>1, <2>2, Zenon
<1>3. JournalInv'
    BY <1>h, JournalFrame, Zenon
<1>6. HistoryInv => HistoryInv'
    BY HistoryFrame, Zenon
<1> QED
    BY <1>1, <1>2, <1>3, <1>q, <1>6, QuietWriters, Zenon DEF CoreInv

\* Release: no commit is in flight, so nobody is left mid-commit without the lock.
LEMMA ReleaseInv ==
    ASSUME CoreInv, NEW p \in Writers, Release(p)
    PROVE  CoreInv' /\ (HistoryInv => HistoryInv')
<1> USE NoneAssumption DEF CoreInv, Release, disk, reading
<1>1. TypeOK'
    BY IdleTypes, Zenon DEF TypeOK, CacheType
<1>q. \A q \in Writers : pc'[q] = "idle" /\ cache'[q].epoch = 0 /\ epoch'[q] = 0
    BY OthersIdle, IdleTypes, Zenon DEF TypeOK
<1>2. LeaseInv'
    BY <1>q, Zenon DEF LeaseInv, TypeOK
<1>3. JournalInv'
    BY JournalSame, Zenon
<1>6. HistoryInv => HistoryInv'
    BY HistoryFrame, Zenon
<1> QED
    BY <1>1, <1>2, <1>3, <1>q, <1>6, QuietWriters, Zenon DEF CoreInv

\* Crash: a dead process leaves at most an unheaded line and a torn tail behind.
LEMMA CrashInv ==
    ASSUME CoreInv, NEW p \in Writers, Crash(p)
    PROVE  CoreInv' /\ (HistoryInv => HistoryInv')
<1> USE NoneAssumption DEF CoreInv, Crash, reading
<1>1. TypeOK'
    BY Zenon, IdleTypes DEF TypeOK, CacheType
<1>q. \A q \in Writers : pc'[q] = "idle" /\ cache'[q].epoch = 0 /\ epoch'[q] = 0
    BY OthersIdle, IdleTypes, Zenon DEF TypeOK
<1>2. LeaseInv'
    BY <1>q, Zenon DEF LeaseInv, TypeOK
<1>3. JournalInv'
    BY JournalSame, Zenon
<1>6. HistoryInv => HistoryInv'
    BY HistoryFrame, Zenon
<1> QED
    BY <1>1, <1>2, <1>3, <1>q, <1>6, QuietWriters, Zenon DEF CoreInv

-----------------------------------------------------------------------------
(* Failures that leave the process alive. *)

\* The lease conjunct survives a step of the lock holder that keeps its lease and
\* changes at most its own cache and program counter.
LEMMA LeaseFrame ==
    ASSUME LeaseInv, TypeOK, NEW p \in Writers, flock = p,
           UNCHANGED <<flock, highest, epoch>>,
           \A q \in Writers : q # p => cache'[q] = cache[q] /\ pc'[q] = pc[q],
           cache'[p].epoch \in {0, epoch[p]}
    PROVE  LeaseInv'
<1> SUFFICES ASSUME NEW q \in Writers
             PROVE  /\ epoch'[q] # 0 <=> flock' = q
                    /\ epoch'[q] # 0 => epoch'[q] = highest'
                    /\ pc'[q] # "idle" => flock' = q
                    /\ cache'[q].epoch # 0 => cache'[q].epoch = epoch'[q]
    BY Zenon DEF LeaseInv
<1>1. CASE q = p
    BY <1>1, Zenon DEF LeaseInv
<1>2. CASE q # p
    BY <1>2, Zenon DEF LeaseInv
<1> QED
    BY <1>1, <1>2, Zenon

\* The error return of appendEvent leaves its process idle and without a cache.
LEMMA GiveUpFacts ==
    ASSUME CoreInv, NEW p \in Writers, GiveUp(p), pc[p] # "idle",
           torn' \in BOOLEAN, heads' \subseteq JournalHead
    PROVE  TypeOK' /\ LeaseInv' /\ CacheInv' /\ OpInv'
<1> USE NoneAssumption DEF CoreInv, GiveUp, reading
<1>0. flock = p
    BY Zenon DEF LeaseInv
<1>1. TypeOK'
    BY IdleTypes, Zenon DEF TypeOK, CacheType
<1>q. \A q \in Writers : pc'[q] = "idle" /\ cache'[q].epoch = 0
    BY <1>0, OthersIdle, IdleTypes, Zenon DEF TypeOK
<1>2. LeaseInv'
    BY <1>0, <1>q, LeaseFrame, Zenon DEF TypeOK
<1> QED
    BY <1>1, <1>2, <1>q, QuietWriters, Zenon

\* An append that fails before its head leaves a journal any process can continue.
LEMMA FailAppendInv ==
    ASSUME CoreInv, NEW p \in Writers, FailAppend(p)
    PROVE  CoreInv' /\ (HistoryInv => HistoryInv')
<1> USE DEF FailAppend
<1>1. TypeOK' /\ LeaseInv' /\ CacheInv' /\ OpInv'
    BY Zenon, GiveUpFacts DEF CoreInv, TypeOK
<1>2. JournalInv'
    BY JournalSame, Zenon DEF GiveUp, CoreInv
<1>3. HistoryInv => HistoryInv'
    BY HistoryFrame, Zenon DEF GiveUp, CoreInv, reading
<1> QED
    BY <1>1, <1>2, <1>3, Zenon DEF CoreInv

\* A short write leaves the complete lines as they were.
LEMMA FailShortWriteInv ==
    ASSUME CoreInv, NEW p \in Writers, FailShortWrite(p)
    PROVE  CoreInv' /\ (HistoryInv => HistoryInv')
<1> USE DEF FailShortWrite
<1>1. TypeOK' /\ LeaseInv' /\ CacheInv' /\ OpInv'
    BY Zenon, GiveUpFacts DEF CoreInv, TypeOK
<1>2. JournalInv'
    BY JournalSame, Zenon DEF GiveUp, CoreInv
<1>3. HistoryInv => HistoryInv'
    BY HistoryFrame, Zenon DEF GiveUp, CoreInv, reading
<1> QED
    BY <1>1, <1>2, <1>3, Zenon DEF CoreInv

\* A commit that reached its head has its event on the last line of the journal.
LEMMA HeadedEvent ==
    ASSUME CoreInv, NEW p \in Writers, pc[p] = "head"
    PROVE  /\ op[p].seq = Len(journal) /\ op[p].seq \in DOMAIN journal
           /\ journal[op[p].seq] = op[p]
           /\ op[p] \in Event /\ NewHead(p) \in JournalHead
           /\ AnchoredIn(NewHead(p), journal)
<1> USE DEF CoreInv
<1>0. op[p] \in Event /\ cache[p].events \in Seq(Event) /\ NewHead(p) \in JournalHead
    BY Zenon DEF TypeOK, NewHead, JournalHead, Event
<1>1. CASE CacheValid(p)
    <2>1. journal = Append(cache[p].events, op[p]) /\ op[p].seq = Len(cache[p].events) + 1
        BY <1>1, Zenon DEF CacheInv, CacheAgrees, OpInv, OpFits, Continues, Creates
    <2> QED
        BY <1>0, <2>1 DEF AnchoredIn, NewHead
<1>2. CASE ~CacheValid(p)
    <2>1. journal = <<op[p]>> /\ op[p].seq = 1
        BY <1>2, Zenon DEF OpInv, OpFits, Continues, Creates
    <2> QED
        BY <1>0, <2>1 DEF AnchoredIn, NewHead
<1> QED
    BY <1>1, <1>2, Zenon

\* Publishing the head of that event keeps every head anchored.
LEMMA NewHeadAnchored ==
    ASSUME CoreInv, NEW p \in Writers, pc[p] = "head",
           heads' = heads \cup {NewHead(p)}, UNCHANGED <<journal, highest>>
    PROVE  JournalInv'
<1>1. AnchoredIn(NewHead(p), journal)
    BY HeadedEvent, Zenon
<1>2. \A h \in heads' : AnchoredIn(h, journal)
    BY <1>1, Zenon DEF CoreInv, JournalInv
<1>3. WellFormed(journal')
    BY Zenon DEF CoreInv, JournalInv
<1> QED
    BY <1>2, <1>3, Zenon DEF CoreInv, JournalInv

\* An append whose head is linked and then fails has committed its event.
LEMMA FailAfterHeadInv ==
    ASSUME CoreInv, NEW p \in Writers, FailAfterHead(p)
    PROVE  CoreInv' /\ (HistoryInv => HistoryInv')
<1> USE DEF FailAfterHead
<1>0. NewHead(p) \in JournalHead
    BY HeadedEvent, Zenon
<1>1. TypeOK' /\ LeaseInv' /\ CacheInv' /\ OpInv'
    BY Zenon, <1>0, GiveUpFacts DEF CoreInv, TypeOK
<1>2. JournalInv'
    BY NewHeadAnchored, Zenon DEF GiveUp
<1>3. HistoryInv => HistoryInv'
    BY DEF GiveUp, CoreInv, reading, HistoryInv, IsPrefixOf, Commands
<1> QED
    BY <1>1, <1>2, <1>3, Zenon DEF CoreInv

-----------------------------------------------------------------------------
(* Commands and the steps of a commit. *)

\* Only the lock holder has anything to say in the lease, cache and commit conjuncts:
\* a step in which it keeps its lease has to be looked at for this process alone.
LEMMA HolderStep ==
    ASSUME LeaseInv, TypeOK, NEW p \in Writers, flock = p,
           UNCHANGED <<flock, highest, epoch>>,
           \A q \in Writers : q # p => cache'[q] = cache[q] /\ pc'[q] = pc[q],
           cache'[p].epoch \in {0, epoch[p], cache[p].epoch},
           CacheAgrees(p)', OpFits(p)'
    PROVE  LeaseInv' /\ CacheInv' /\ OpInv'
<1>0. cache'[p].epoch \in {0, epoch[p]}
    BY Zenon DEF LeaseInv
<1>1. LeaseInv'
    BY <1>0, LeaseFrame, Zenon
<1>2. \A q \in Writers : q # p => pc'[q] = "idle" /\ cache'[q].epoch = 0
    BY OthersIdle, Zenon
<1>3. \A q \in Writers : q # p => CacheAgrees(q)' /\ OpFits(q)'
    BY <1>2, Zenon DEF CacheAgrees, OpFits, CacheValid
<1> QED
    BY <1>1, <1>3, Zenon DEF CacheInv, OpInv

\* ErrProjection: the event is committed and the cache stays right.
LEMMA FailManifestInv ==
    ASSUME CoreInv, NEW p \in Writers, FailManifest(p)
    PROVE  CoreInv' /\ (HistoryInv => HistoryInv')
<1> USE DEF CoreInv
<1>0. /\ flock = p /\ pc[p] = "project"
      /\ UNCHANGED <<flock, highest, epoch, cache, journal, torn, heads>>
    BY Zenon DEF FailManifest, LeaseInv, disk
<1>e. pc'[p] = "idle" /\ \A q \in Writers : q # p => pc'[q] = pc[q]
    BY PcAt, Zenon DEF FailManifest
<1>1. TypeOK'
    BY IdleTypes, Zenon DEF FailManifest, disk, reading, TypeOK
<1>2. CacheAgrees(p)' /\ OpFits(p)'
    BY <1>0, <1>e, Zenon DEF CacheInv, CacheAgrees, OpFits, CacheValid
<1>3. LeaseInv' /\ CacheInv' /\ OpInv'
    BY <1>0, <1>e, <1>2, HolderStep, Zenon
<1>4. JournalInv'
    BY <1>0, JournalSame, Zenon
<1>5. HistoryInv => HistoryInv'
    BY HistoryFrame, Zenon DEF FailManifest, disk, reading
<1> QED
    BY <1>1, <1>3, <1>4, <1>5, Zenon

\* CreateSession starts from a session that has no head.
LEMMA StartCreateInv ==
    ASSUME CoreInv, NEW p \in Writers, NEW c \in Cmd, StartCreate(p, c)
    PROVE  CoreInv' /\ (HistoryInv => HistoryInv')
<1> USE DEF CoreInv
<1>0. /\ flock = p /\ c \in CreateCmd /\ ~CacheValid(p) /\ heads = {}
      /\ UNCHANGED <<flock, highest, epoch, cache, journal, torn, heads>>
    BY Zenon DEF StartCreate, LeaseInv, ValidWriterEpoch, NotExist, disk
<1>e. /\ pc'[p] = "truncate" /\ op'[p] = NewEvent(p, c, <<>>)
      /\ \A q \in Writers : q # p => pc'[q] = pc[q]
    BY PcAt, OpAt, Zenon DEF StartCreate
<1>1. TypeOK'
    <2>1. NewEvent(p, c, <<>>) \in Event
        BY DEF NewEvent, Event, TypeOK
    <2> QED
        BY <2>1, Zenon DEF StartCreate, disk, reading, TypeOK
<1>2. CacheAgrees(p)' /\ OpFits(p)'
    <2>1. op'[p].seq = 1 /\ op'[p].cmd = c /\ op'[p].epoch = epoch[p]
        BY <1>e DEF NewEvent
    <2>2. ~CacheValid(p)'
        BY <1>0, Zenon DEF CacheValid
    <2> QED
        BY <1>0, <1>e, <2>1, <2>2, Zenon DEF CacheAgrees, OpFits, Creates
<1>3. LeaseInv' /\ CacheInv' /\ OpInv'
    BY <1>0, <1>e, <1>2, HolderStep, Zenon
<1>4. JournalInv'
    BY <1>0, JournalSame, Zenon
<1>5. HistoryInv => HistoryInv'
    BY HistoryFrame, Zenon DEF StartCreate, disk, reading
<1> QED
    BY <1>1, <1>3, <1>4, <1>5, Zenon

\* Loading between commits returns the journal, from the cache or from the disk, and
\* the session then exists.
LEMMA LoadsJournal ==
    ASSUME CoreInv, NEW p \in Writers, pc[p] = "idle", Loadable(p)
    PROVE  LoadEvents(p) = journal /\ heads # {}
BY Zenon DEF CoreInv, CacheInv, CacheAgrees, Loadable, LoadEvents, ScanOK

\* The entry of a cache primed with the journal, and its type.
LEMMA PrimedEntry ==
    ASSUME TypeOK, NEW p \in Writers,
           cache' = [cache EXCEPT ![p] = [epoch |-> epoch[p], events |-> journal]]
    PROVE  /\ cache' \in [Writers -> [epoch : Nat, events : Seq(Event)]]
           /\ cache'[p].epoch = epoch[p] /\ cache'[p].events = journal
           /\ \A q \in Writers : q # p => cache'[q] = cache[q]
<1>1. [epoch |-> epoch[p], events |-> journal] \in [epoch : Nat, events : Seq(Event)]
    BY Zenon DEF TypeOK
<1>2. cache' \in [Writers -> [epoch : Nat, events : Seq(Event)]]
    BY <1>1, Zenon DEF TypeOK
<1>3. /\ cache'[p] = [epoch |-> epoch[p], events |-> journal]
      /\ \A q \in Writers : q # p => cache'[q] = cache[q]
    BY CacheAt, Zenon
<1> QED
    BY <1>2, <1>3, Zenon

\* Such a cache belongs to the lease.
LEMMA PrimedCache ==
    ASSUME TypeOK, NEW p \in Writers, epoch[p] # 0, UNCHANGED epoch,
           cache' = [cache EXCEPT ![p] = [epoch |-> epoch[p], events |-> journal]]
    PROVE  /\ cache' \in [Writers -> [epoch : Nat, events : Seq(Event)]]
           /\ cache'[p].epoch = epoch[p] /\ cache'[p].events = journal /\ CacheValid(p)'
           /\ \A q \in Writers : q # p => cache'[q] = cache[q]
BY PrimedEntry, Zenon DEF CacheValid

\* A command starts from the scanned or cached journal, and is not in it.
LEMMA StartCommandInv ==
    ASSUME CoreInv, NEW p \in Writers, NEW c \in Cmd, StartCommand(p, c)
    PROVE  CoreInv' /\ (HistoryInv => HistoryInv')
<1> USE DEF CoreInv
<1>l. LoadEvents(p) = journal /\ heads # {}
    BY LoadsJournal, Zenon DEF StartCommand
<1>0. /\ flock = p /\ epoch[p] # 0 /\ c \notin CreateCmd /\ c \notin Commands(journal)
      /\ UNCHANGED <<flock, highest, epoch, journal, torn, heads>>
    BY <1>l, Zenon DEF StartCommand, LeaseInv, ValidWriterEpoch, disk
<1>e. /\ pc'[p] = "truncate" /\ op'[p] = NewEvent(p, c, journal)
      /\ \A q \in Writers : q # p => pc'[q] = pc[q]
    BY <1>l, PcAt, OpAt, Zenon DEF StartCommand
<1>c. /\ cache' \in [Writers -> [epoch : Nat, events : Seq(Event)]]
      /\ cache'[p].epoch = epoch[p] /\ cache'[p].events = journal /\ CacheValid(p)'
      /\ \A q \in Writers : q # p => cache'[q] = cache[q]
    BY <1>0, <1>l, PrimedCache, Zenon DEF StartCommand, Primed
<1>1. TypeOK'
    <2>1. NewEvent(p, c, journal) \in Event
        BY DEF NewEvent, Event, TypeOK
    <2> QED
        BY <1>c, <1>l, <2>1, Zenon DEF StartCommand, disk, reading, TypeOK
<1>2. CacheAgrees(p)' /\ OpFits(p)'
    <2>1. op'[p].seq = Len(journal) + 1 /\ op'[p].cmd = c /\ op'[p].epoch = epoch[p]
        BY <1>e DEF NewEvent
    <2> QED
        BY Zenon, <1>0, <1>c, <1>e, <1>l, <2>1 DEF CacheAgrees, OpFits, Continues
<1>3. LeaseInv' /\ CacheInv' /\ OpInv'
    BY <1>0, <1>c, <1>e, <1>2, HolderStep, Zenon
<1>4. JournalInv'
    BY <1>0, JournalSame, Zenon
<1>5. HistoryInv => HistoryInv'
    BY HistoryFrame, Zenon DEF StartCommand, disk, reading
<1> QED
    BY <1>1, <1>3, <1>4, <1>5, Zenon

\* HistoryInv after a step that writes the manifest and may acknowledge a command.
LEMMA HistoryProjected ==
    ASSUME HistoryInv, heads # {}, IsPrefixOf(projection', journal),
           acked' \subseteq Commands(journal),
           UNCHANGED <<journal, heads, committed, rpc, rhead, rsnap>>
    PROVE  HistoryInv'
BY DEF HistoryInv, IsPrefixOf, Commands

\* A retry is acknowledged only for a command of the journal.
LEMMA ReplayCommandInv ==
    ASSUME CoreInv, NEW p \in Writers, NEW c \in Cmd, ReplayCommand(p, c)
    PROVE  CoreInv' /\ (HistoryInv => HistoryInv')
<1> USE DEF CoreInv
<1>l. LoadEvents(p) = journal /\ heads # {}
    BY LoadsJournal, Zenon DEF ReplayCommand
<1>0. /\ flock = p /\ epoch[p] # 0 /\ c \in Commands(journal) /\ pc[p] = "idle"
      /\ acked' = acked \cup {c}
      /\ UNCHANGED <<flock, highest, epoch, journal, torn, heads, pc>>
      /\ UNCHANGED <<projection, committed, rpc, rhead, rsnap>>
    BY <1>l, Zenon DEF ReplayCommand, LeaseInv, ValidWriterEpoch, disk, reading
<1>c. /\ cache' \in [Writers -> [epoch : Nat, events : Seq(Event)]]
      /\ cache'[p].epoch = epoch[p] /\ cache'[p].events = journal /\ CacheValid(p)'
      /\ \A q \in Writers : q # p => cache'[q] = cache[q]
    BY <1>0, <1>l, PrimedCache, Zenon DEF ReplayCommand, Primed
<1>1. TypeOK'
    BY <1>c, Zenon DEF ReplayCommand, disk, reading, TypeOK
<1>2. CacheAgrees(p)' /\ OpFits(p)'
    <2>1. pc'[p] = "idle" /\ heads' # {} /\ cache'[p].events = journal'
        BY <1>0, <1>c, <1>l, Zenon
    <2> QED
        BY <2>1, Zenon DEF CacheAgrees, OpFits
<1>3. LeaseInv' /\ CacheInv' /\ OpInv'
    BY <1>0, <1>c, <1>2, HolderStep, Zenon
<1>4. JournalInv'
    BY <1>0, JournalSame, Zenon
<1>5. HistoryInv => HistoryInv'
    <2> HAVE HistoryInv
    <2>1. IsPrefixOf(projection, journal) /\ acked \subseteq Commands(journal)
        BY Zenon DEF HistoryInv
    <2>2. IsPrefixOf(projection', journal)
        BY <1>0, <2>1, Zenon
    <2> QED
        BY <1>0, <1>l, <2>1, <2>2, HistoryProjected, Zenon
<1> QED
    BY <1>1, <1>3, <1>4, <1>5, Zenon

\* A projection of the journal itself.
LEMMA ProjectedJournal ==
    ASSUME CoreInv
    PROVE  /\ Projected(journal) \in Seq(Event)
           /\ HistoryInv => IsPrefixOf(Projected(journal), journal)
<1>1. journal \in Seq(Event) /\ projection \in Seq(Event)
    BY Zenon DEF CoreInv, TypeOK
<1>2. IsPrefixOf(journal, journal)
    BY <1>1 DEF IsPrefixOf
<1> QED
    BY <1>1, <1>2, Zenon DEF Projected, HistoryInv

\* LoadManifest primes the cache with the journal and never lowers the projection.
LEMMA LoadManifestInv ==
    ASSUME CoreInv, NEW p \in Writers, LoadManifest(p)
    PROVE  CoreInv' /\ (HistoryInv => HistoryInv')
<1> USE DEF CoreInv
<1>0. /\ flock = p /\ epoch[p] # 0 /\ heads # {} /\ pc[p] = "idle"
      /\ UNCHANGED <<flock, highest, epoch, journal, torn, heads, pc>>
      /\ UNCHANGED <<acked, committed, rpc, rhead, rsnap>>
    BY Zenon DEF LoadManifest, LeaseInv, ScanOK, disk, reading
<1>p. projection' \in Seq(Event) /\ (HistoryInv => IsPrefixOf(projection', journal))
    BY ProjectedJournal, Zenon DEF LoadManifest
<1>c. /\ cache' \in [Writers -> [epoch : Nat, events : Seq(Event)]]
      /\ cache'[p].epoch = epoch[p] /\ cache'[p].events = journal /\ CacheValid(p)'
      /\ \A q \in Writers : q # p => cache'[q] = cache[q]
    BY <1>0, PrimedCache, Zenon DEF LoadManifest
<1>1. TypeOK'
    BY <1>c, <1>p, Zenon DEF LoadManifest, disk, reading, TypeOK
<1>2. CacheAgrees(p)' /\ OpFits(p)'
    <2>1. pc'[p] = "idle" /\ heads' # {} /\ cache'[p].events = journal'
        BY <1>0, <1>c, Zenon
    <2> QED
        BY <2>1, Zenon DEF CacheAgrees, OpFits
<1>3. LeaseInv' /\ CacheInv' /\ OpInv'
    BY <1>0, <1>c, <1>2, HolderStep, Zenon
<1>4. JournalInv'
    BY <1>0, JournalSame, Zenon
<1>5. HistoryInv => HistoryInv'
    BY <1>0, <1>p, HistoryProjected, Zenon DEF HistoryInv
<1> QED
    BY <1>1, <1>3, <1>4, <1>5, Zenon

-----------------------------------------------------------------------------
(* appendEvent. *)

\* Truncation keeps every line of a session that exists, and empties the journal of
\* one that does not.
LEMMA TruncateKeeps ==
    ASSUME CoreInv, NEW p \in Writers, pc[p] = "truncate"
    PROVE  /\ CacheValid(p) => SubSeq(journal, 1, CommittedLines(p)) = journal
                               /\ CommittedLines(p) = Len(journal)
           /\ ~CacheValid(p) => SubSeq(journal, 1, CommittedLines(p)) = <<>>
                                /\ CommittedLines(p) = 0 /\ heads = {}
<1> USE DEF CoreInv
<1>0. journal \in Seq(Event)
    BY Zenon DEF TypeOK
<1>1. CASE CacheValid(p)
    <2>1. CommittedLines(p) = Len(journal)
        BY <1>1, Zenon DEF CommittedLines, CacheInv, CacheAgrees
    <2> QED
        BY <1>0, <1>1, <2>1
<1>2. CASE ~CacheValid(p)
    <2>1. heads = {} /\ CommittedLines(p) = 0
        BY <1>2, Zenon DEF CommittedLines, NotExist, OpInv, OpFits, Continues, Creates
    <2> QED
        BY <1>0, <1>2, <2>1
<1> QED
    BY <1>1, <1>2, Zenon

\* The empty journal is well formed.
LEMMA EmptyJournalInv ==
    ASSUME TypeOK, journal' = <<>>, heads' = {}
    PROVE  JournalInv'
BY DEF JournalInv, WellFormed

\* Truncate removes the torn tail, and complete lines only of a session without a head.
LEMMA TruncateInv ==
    ASSUME CoreInv, NEW p \in Writers, Truncate(p)
    PROVE  CoreInv' /\ (HistoryInv => HistoryInv')
<1> USE DEF CoreInv
<1>0. /\ flock = p /\ pc[p] = "truncate" /\ ~torn'
      /\ UNCHANGED <<flock, highest, epoch, cache, heads, op>>
      /\ UNCHANGED <<projection, acked, committed, rpc, rhead, rsnap>>
    BY Zenon DEF Truncate, LeaseInv, reading
<1>e. pc'[p] = "write" /\ \A q \in Writers : q # p => pc'[q] = pc[q]
    BY PcAt, Zenon DEF Truncate
<1>k. \/ CacheValid(p) /\ journal' = journal /\ synced' \in 0 .. Len(journal')
      \/ ~CacheValid(p) /\ journal' = <<>> /\ heads = {} /\ synced' = 0
    <2>0. journal \in Seq(Event) /\ synced \in 0 .. Len(journal)
        BY Zenon DEF TypeOK
    <2>1. CASE CacheValid(p)
        BY <1>0, <2>0, <2>1, TruncateKeeps DEF Truncate
    <2>2. CASE ~CacheValid(p)
        BY <1>0, <2>0, <2>2, TruncateKeeps DEF Truncate
    <2> QED
        BY Zenon, <2>1, <2>2
<1>1. TypeOK'
    <2>1. <<>> \in Seq(Event) /\ Len(<<>>) = 0 /\ 0 \in 0 .. 0
        OBVIOUS
    <2>2. journal' \in Seq(Event)
        BY Zenon, <1>k, <2>1 DEF TypeOK
    <2>3. synced' \in 0 .. Len(journal')
        BY Zenon, <1>k, <2>1
    <2> QED
        BY Zenon, <2>2, <2>3 DEF Truncate, reading, TypeOK
<1>2. CacheAgrees(p)' /\ OpFits(p)'
    <2>1. CacheValid(p)' = CacheValid(p) /\ OpFits(p) /\ CacheAgrees(p)
        BY <1>0, Zenon DEF CacheValid, OpInv, CacheInv
    <2>2. CASE CacheValid(p)
        BY Zenon, <1>0, <1>e, <1>k, <2>1, <2>2 DEF CacheAgrees, OpFits, Continues, Creates
    <2>3. CASE ~CacheValid(p)
        BY Zenon, <1>0, <1>e, <1>k, <2>1, <2>3 DEF CacheAgrees, OpFits, Continues, Creates
    <2> QED
        BY <2>2, <2>3, Zenon
<1>3. LeaseInv' /\ CacheInv' /\ OpInv'
    BY <1>0, <1>e, <1>2, HolderStep, Zenon
<1>4. JournalInv'
    BY <1>0, <1>k, JournalSame, EmptyJournalInv, Zenon
<1>5. HistoryInv => HistoryInv'
    <2> HAVE HistoryInv
    <2>1. CASE journal' = journal
        BY <1>0, <2>1, HistoryFrame, Zenon
    <2>2. CASE journal' = <<>> /\ heads = {}
        BY <1>0, <2>2 DEF HistoryInv, IsPrefixOf, Commands
    <2> QED
        BY <1>k, <2>1, <2>2, Zenon
<1> QED
    BY <1>1, <1>3, <1>4, <1>5, Zenon

\* Appending an event that continues a well-formed journal keeps it well formed.
LEMMA AppendWellFormed ==
    ASSUME JournalInv, TypeOK, NEW e \in Event, e.seq = Len(journal) + 1,
           e.cmd \in Cmd, e.cmd \notin Commands(journal), e.epoch = highest, highest # 0,
           e.cmd \in CreateCmd <=> journal = <<>>,
           heads = {} => journal = <<>>,
           journal' = Append(journal, e), UNCHANGED <<heads, highest>>
    PROVE  JournalInv'
<1> USE DEF JournalInv, TypeOK
<1>0. /\ Len(journal') = Len(journal) + 1
      /\ DOMAIN journal' = 1 .. Len(journal) + 1
      /\ DOMAIN journal = 1 .. Len(journal)
      /\ \A i \in DOMAIN journal : journal'[i] = journal[i]
      /\ journal'[Len(journal) + 1] = e
    OBVIOUS
<1>1. \A i \in DOMAIN journal' : journal'[i].seq = i
    BY <1>0 DEF WellFormed
<1>2. \A i, j \in DOMAIN journal' : i < j => journal'[i].epoch <= journal'[j].epoch
    <2> SUFFICES ASSUME NEW i \in DOMAIN journal', NEW j \in DOMAIN journal', i < j
                 PROVE  journal'[i].epoch <= journal'[j].epoch
        BY Zenon
    <2>1. i \in DOMAIN journal /\ journal[i].epoch \in 1 .. highest
        BY <1>0
    <2>2. CASE j \in DOMAIN journal
        BY <1>0, <2>1, <2>2 DEF WellFormed
    <2>3. CASE j = Len(journal) + 1
        BY <1>0, <2>1, <2>3
    <2> QED
        BY <1>0, <2>2, <2>3
<1>3. \A i, j \in DOMAIN journal' : i # j => journal'[i].cmd # journal'[j].cmd
    BY <1>0 DEF WellFormed, Commands
<1>4. WellFormed(journal')
    BY <1>1, <1>2, <1>3, Zenon DEF WellFormed
<1>5. \A i \in DOMAIN journal' : journal'[i].cmd \in Cmd /\ journal'[i].epoch \in 1 .. highest'
    BY <1>0 DEF Event
<1>6. \A i \in DOMAIN journal' : journal'[i].cmd \in CreateCmd <=> i = 1
    <2> SUFFICES ASSUME NEW i \in DOMAIN journal'
                 PROVE  journal'[i].cmd \in CreateCmd <=> i = 1
        BY Zenon
    <2>1. CASE i \in DOMAIN journal
        BY <1>0, <2>1, Zenon
    <2>2. CASE i = Len(journal) + 1
        <3>1. journal = <<>> <=> Len(journal) = 0
            OBVIOUS
        <3> QED
            BY <1>0, <2>2, <3>1
    <2> QED
        BY <1>0, <2>1, <2>2
<1>7. \A h \in heads' : AnchoredIn(h, journal')
    BY <1>0 DEF AnchoredIn
<1>8. heads' = {} => Len(journal') <= 1
    BY <1>0
<1> QED
    BY <1>4, <1>5, <1>6, <1>7, <1>8, Zenon

\* Appending to the empty journal.
LEMMA AppendEmpty == \A e : Append(<<>>, e) = <<e>>
OBVIOUS

\* Writing the line keeps the journal well formed: its event continues it.
LEMMA WriteLineInv ==
    ASSUME CoreInv, NEW p \in Writers, WriteLine(p)
    PROVE  CoreInv' /\ (HistoryInv => HistoryInv')
<1> USE DEF CoreInv
<1>f. OpFits(p) /\ CacheAgrees(p)
    BY Zenon DEF OpInv, CacheInv
<1>0. /\ flock = p /\ pc[p] = "write" /\ journal' = Append(journal, op[p])
      /\ UNCHANGED <<flock, highest, epoch, cache, heads, op>>
      /\ UNCHANGED <<projection, acked, committed, rpc, rhead, rsnap>>
    BY <1>f, Zenon DEF WriteLine, WrittenLine, OpFits, LeaseInv, reading
<1>e. pc'[p] = "sync" /\ \A q \in Writers : q # p => pc'[q] = pc[q]
    BY PcAt, Zenon DEF WriteLine
<1>t. op[p] \in Event /\ journal \in Seq(Event) /\ epoch[p] = highest /\ highest # 0
    BY <1>0, NoneAssumption, Zenon DEF TypeOK, LeaseInv
<1>v. CacheValid(p) => JournalInv' /\ CacheAgrees(p)' /\ OpFits(p)'
    <2>0. HAVE CacheValid(p)
    <2>1. cache[p].events = journal /\ Continues(p) /\ heads # {}
        BY <1>0, <1>f, <2>0, Zenon DEF OpFits, CacheAgrees, Creates
    <2>2. journal # <<>>
        <3>1. PICK h \in heads : TRUE
            BY <2>1, Zenon
        <3> QED
            BY <3>1 DEF JournalInv, AnchoredIn
    <2>j. /\ op[p].seq = Len(journal) + 1 /\ op[p].cmd \in Cmd /\ op[p].epoch = highest
          /\ op[p].cmd \notin Commands(journal)
          /\ op[p].cmd \in CreateCmd <=> journal = <<>>
          /\ heads = {} => journal = <<>>
        BY <1>0, <1>f, <1>t, <2>1, <2>2, Zenon DEF OpFits, Continues
    <2>3. JournalInv'
        BY <1>0, <1>t, <2>j, AppendWellFormed, Zenon
    <2>4. CacheAgrees(p)' /\ OpFits(p)'
        BY Zenon, <1>0, <1>e, <1>f, <2>0, <2>1 DEF CacheAgrees, OpFits, Continues, CacheValid
    <2> QED
        BY <2>3, <2>4, Zenon
<1>n. ~CacheValid(p) => JournalInv' /\ CacheAgrees(p)' /\ OpFits(p)'
    <2>0. HAVE ~CacheValid(p)
    <2>1. Creates(p) /\ journal = <<>>
        BY <1>0, <1>f, <2>0, Zenon DEF OpFits, Continues, Creates
    <2>j. /\ op[p].seq = Len(journal) + 1 /\ op[p].cmd \in Cmd /\ op[p].epoch = highest
          /\ op[p].cmd \notin Commands(journal)
          /\ op[p].cmd \in CreateCmd <=> journal = <<>>
          /\ heads = {} => journal = <<>>
        BY <1>0, <1>f, <1>t, <2>1 DEF OpFits, Creates, Commands
    <2>3. JournalInv'
        BY <1>0, <1>t, <2>j, AppendWellFormed, Zenon
    <2>w. journal' = <<op[p]>>
        BY Zenon, <1>0, <2>1, AppendEmpty
    <2>4. CacheAgrees(p)' /\ OpFits(p)'
        BY Zenon, <1>0, <1>e, <1>f, <2>0, <2>1, <2>w DEF CacheAgrees, OpFits, Creates, CacheValid
    <2> QED
        BY <2>3, <2>4, Zenon
<1>1. TypeOK'
    <2>1. journal' \in Seq(Event) /\ Len(journal') = Len(journal) + 1
        BY <1>0, <1>t
    <2>2. synced' \in 0 .. Len(journal')
        BY <2>1 DEF TypeOK, WriteLine
    <2> QED
        BY Zenon, <2>1, <2>2 DEF WriteLine, reading, TypeOK
<1>3. LeaseInv' /\ CacheInv' /\ OpInv'
    BY <1>0, <1>e, <1>v, <1>n, HolderStep, Zenon
<1>5. HistoryInv => HistoryInv'
    <2> HAVE HistoryInv
    <2>1. Len(journal') = Len(journal) + 1 /\ \A i \in DOMAIN journal : i \in DOMAIN journal' /\ journal'[i] = journal[i]
        BY <1>0, <1>t
    <2>2. Commands(journal) \subseteq Commands(journal')
        BY <2>1, Zenon DEF Commands
    <2>3. \A s \in Seq(Event) : IsPrefixOf(s, journal) => IsPrefixOf(s, journal')
        <3> SUFFICES ASSUME NEW s \in Seq(Event), IsPrefixOf(s, journal)
                     PROVE  IsPrefixOf(s, journal')
            BY Zenon
        <3>1. \A i \in DOMAIN s : i \in DOMAIN journal
            BY <1>t DEF IsPrefixOf
        <3> QED
            BY <1>t, <2>1, <3>1 DEF IsPrefixOf
    <2>4. projection \in Seq(Event) /\ \A r \in Readers : rsnap[r] \in Seq(Event)
        BY Zenon DEF TypeOK
    <2> QED
        BY <1>0, <2>2, <2>3, <2>4, Zenon DEF HistoryInv
<1> QED
    BY <1>1, <1>v, <1>n, <1>3, <1>5, Zenon

\* The fsync changes nothing that a scan sees.
LEMMA SyncLineInv ==
    ASSUME CoreInv, NEW p \in Writers, SyncLine(p)
    PROVE  CoreInv' /\ (HistoryInv => HistoryInv')
<1> USE DEF CoreInv
<1>0. /\ flock = p /\ pc[p] = "sync" /\ CacheAgrees(p) /\ OpFits(p)
      /\ UNCHANGED <<flock, highest, epoch, cache, journal, torn, heads, op>>
    BY Zenon DEF SyncLine, LeaseInv, CacheInv, OpInv
<1>e. pc'[p] = "head" /\ \A q \in Writers : q # p => pc'[q] = pc[q]
    BY PcAt, Zenon DEF SyncLine
<1>1. TypeOK'
    BY DEF SyncLine, reading, TypeOK
<1>2. CacheAgrees(p)' /\ OpFits(p)'
    <2>1. CacheValid(p)' = CacheValid(p)
        BY <1>0, Zenon DEF CacheValid
    <2> QED
        BY <1>0, <1>e, <2>1, Zenon DEF CacheAgrees, OpFits, Continues, Creates
<1>3. LeaseInv' /\ CacheInv' /\ OpInv'
    BY <1>0, <1>e, <1>2, HolderStep, Zenon
<1>4. JournalInv'
    BY <1>0, JournalSame, Zenon
<1>5. HistoryInv => HistoryInv'
    BY HistoryFrame, Zenon DEF SyncLine, reading
<1> QED
    BY <1>1, <1>3, <1>4, <1>5, Zenon

\* Replacing the events of a cache leaves its epoch.
LEMMA CacheUpdate ==
    ASSUME NEW c \in [epoch : Nat, events : Seq(Event)], NEW j
    PROVE  [c EXCEPT !.events = j] = [epoch |-> c.epoch, events |-> j]
OBVIOUS

\* Once its head is published, the event of a commit is the last one of its cache.
LEMMA PublishedCache ==
    ASSUME CoreInv, NEW p \in Writers, PublishHead(p)
    PROVE  cache' = [cache EXCEPT ![p] = [epoch |-> epoch[p], events |-> journal]]
<1> USE DEF CoreInv, PublishHead
<1>0. cache \in [Writers -> [epoch : Nat, events : Seq(Event)]] /\ op[p] \in Event
    BY Zenon DEF TypeOK
<1>1. CASE CacheValid(p)
    <2>1. cache' = [cache EXCEPT ![p].events = Append(@, op[p])]
        BY <1>1, Zenon DEF AdvancedCache
    <2>2. journal = Append(cache[p].events, op[p]) /\ cache[p].epoch = epoch[p]
        BY Zenon, <1>1 DEF CacheInv, CacheAgrees, CacheValid
    <2>3. [cache[p] EXCEPT !.events = journal] = [epoch |-> epoch[p], events |-> journal]
        <3>1. cache[p] \in [epoch : Nat, events : Seq(Event)]
            BY <1>0, Zenon
        <3>2. [cache[p] EXCEPT !.events = journal] = [epoch |-> cache[p].epoch, events |-> journal]
            BY <3>1, CacheUpdate, Zenon
        <3> QED
            BY <2>2, <3>2, Zenon
    <2>4. cache' = [cache EXCEPT ![p] = [cache[p] EXCEPT !.events = journal]]
        BY <1>0, <2>1, <2>2, Zenon
    <2> QED
        BY Zenon, <2>3, <2>4
<1>2. CASE ~CacheValid(p)
    <2>1. op[p].seq = 1 /\ journal = <<op[p]>>
        BY <1>2, Zenon DEF OpInv, OpFits, Continues, Creates
    <2> QED
        BY <1>2, <2>1, Zenon DEF AdvancedCache
<1> QED
    BY <1>1, <1>2, Zenon

\* Publishing the head anchors it on the line just written.
LEMMA PublishHeadInv ==
    ASSUME CoreInv, NEW p \in Writers, PublishHead(p)
    PROVE  CoreInv' /\ (HistoryInv => HistoryInv')
<1> USE DEF CoreInv
<1>0. /\ flock = p /\ pc[p] = "head" /\ heads' = heads \cup {NewHead(p)}
      /\ committed' = committed \cup {op[p].cmd}
      /\ UNCHANGED <<flock, highest, epoch, journal, torn, op>>
      /\ UNCHANGED <<projection, acked, rpc, rhead, rsnap>>
    BY Zenon DEF PublishHead, LeaseInv, reading
<1>z. epoch[p] # 0 /\ heads' # {}
    BY <1>0, Zenon DEF LeaseInv
<1>e. pc'[p] = "project" /\ \A q \in Writers : q # p => pc'[q] = pc[q]
    BY PcAt, Zenon DEF PublishHead
<1>h. NewHead(p) \in JournalHead /\ op[p].seq \in DOMAIN journal /\ journal[op[p].seq] = op[p]
    BY <1>0, HeadedEvent, Zenon
<1>o. op[p].cmd \in Cmd /\ op[p].cmd \in Commands(journal)
    BY <1>0, <1>h, Zenon DEF OpInv, OpFits, Commands
<1>c. cache' = [cache EXCEPT ![p] = [epoch |-> epoch[p], events |-> journal]]
    BY Zenon, PublishedCache
<1>d. /\ cache' \in [Writers -> [epoch : Nat, events : Seq(Event)]]
      /\ cache'[p].epoch = epoch[p] /\ cache'[p].events = journal
      /\ \A q \in Writers : q # p => cache'[q] = cache[q]
    BY <1>c, PrimedEntry, Zenon
<1>1. TypeOK'
    BY Zenon, <1>h, <1>o, <1>d DEF PublishHead, reading, TypeOK
<1>2. CacheAgrees(p)' /\ OpFits(p)'
    <2>1. CacheValid(p)'
        BY <1>0, <1>d, <1>z, Zenon DEF CacheValid
    <2> QED
        BY <1>0, <1>d, <1>e, <1>o, <1>z, <2>1, Zenon DEF CacheAgrees, OpFits
<1>3. LeaseInv' /\ CacheInv' /\ OpInv'
    BY <1>0, <1>d, <1>e, <1>2, HolderStep, Zenon
<1>4. JournalInv'
    BY <1>0, NewHeadAnchored, Zenon
<1>5. HistoryInv => HistoryInv'
    BY <1>0, <1>o, Zenon DEF HistoryInv
<1> QED
    BY <1>1, <1>3, <1>4, <1>5, Zenon

\* The manifest is written from the journal and the command is acknowledged.
LEMMA WriteManifestInv ==
    ASSUME CoreInv, NEW p \in Writers, WriteManifest(p)
    PROVE  CoreInv' /\ (HistoryInv => HistoryInv')
<1> USE DEF CoreInv
<1>0. /\ flock = p /\ pc[p] = "project" /\ CacheAgrees(p) /\ OpFits(p)
      /\ acked' = acked \cup {op[p].cmd} /\ projection' = Projected(LoadEvents(p))
      /\ UNCHANGED <<flock, highest, epoch, cache, journal, torn, heads>>
      /\ UNCHANGED <<committed, rpc, rhead, rsnap>>
    BY Zenon DEF WriteManifest, LeaseInv, OpInv, CacheInv, disk, reading
<1>e. pc'[p] = "idle" /\ \A q \in Writers : q # p => pc'[q] = pc[q]
    BY PcAt, Zenon DEF WriteManifest
<1>v. /\ CacheValid(p) /\ op[p].cmd \in Commands(journal)
      /\ heads # {} /\ cache[p].events = journal
    BY <1>0, Zenon DEF OpFits, CacheAgrees
<1>p. projection' \in Seq(Event) /\ (HistoryInv => IsPrefixOf(projection', journal))
    <2>1. LoadEvents(p) = journal
        BY <1>v, Zenon DEF LoadEvents
    <2> QED
        BY <1>0, <2>1, ProjectedJournal, Zenon
<1>o. op[p].cmd \in Cmd
    BY <1>v, Zenon DEF Commands, JournalInv
<1>1. TypeOK'
    BY <1>p, <1>o, IdleTypes, Zenon DEF WriteManifest, disk, reading, TypeOK
<1>2. CacheAgrees(p)' /\ OpFits(p)'
    <2>1. heads' # {} /\ cache'[p].events = journal'
        BY <1>0, <1>v, Zenon
    <2> QED
        BY <1>e, <2>1, Zenon DEF CacheAgrees, OpFits
<1>3. LeaseInv' /\ CacheInv' /\ OpInv'
    BY <1>0, <1>e, <1>2, HolderStep, Zenon
<1>4. JournalInv'
    BY <1>0, JournalSame, Zenon
<1>5. HistoryInv => HistoryInv'
    <2> HAVE HistoryInv
    <2>1. acked' \subseteq Commands(journal)
        BY <1>0, <1>v, Zenon DEF HistoryInv
    <2> QED
        BY <1>0, <1>p, <1>v, <2>1, HistoryProjected, Zenon
<1> QED
    BY <1>1, <1>3, <1>4, <1>5, Zenon

-----------------------------------------------------------------------------
(* Readers. *)

\* No conjunct about writers looks at what a reader does or at the projection.
LEMMA WritersFrame ==
    ASSUME CoreInv,
           UNCHANGED <<flock, highest, journal, torn, heads, epoch, cache, pc, op>>
    PROVE  LeaseInv' /\ JournalInv' /\ CacheInv' /\ OpInv'
<1> USE DEF CoreInv
<1>1. LeaseInv'
    BY Zenon DEF LeaseInv
<1>2. JournalInv'
    BY DEF JournalInv, WellFormed, AnchoredIn
<1>3. CacheInv'
    BY Zenon DEF CacheInv, CacheAgrees, CacheValid
<1>4. OpInv'
    BY DEF OpInv, OpFits, Continues, Creates, CacheValid, Commands
<1> QED
    BY <1>1, <1>2, <1>3, <1>4, Zenon

\* A reader only ever projects a prefix of the journal.
LEMMA ReaderInv ==
    ASSUME CoreInv, NEW r \in Readers, ReaderStep(r)
    PROVE  CoreInv' /\ (HistoryInv => HistoryInv')
<1> USE DEF CoreInv
<1>0. /\ rsnap \in [Readers -> Seq(Event)] /\ rpc \in [Readers -> {"idle", "scan", "project"}]
      /\ rhead \in [Readers -> JournalHead] /\ journal \in Seq(Event)
    BY Zenon DEF TypeOK
<1>w. LeaseInv' /\ JournalInv' /\ CacheInv' /\ OpInv'
    BY WritersFrame, Zenon DEF ReaderStep, ReadHead, ReadJournal, WriteReadManifest, disk
<1>u. UNCHANGED <<journal, heads, acked, committed>>
    BY Zenon DEF ReaderStep, ReadHead, ReadJournal, WriteReadManifest, disk
<1>1. CASE ReadHead(r)
    <2>1. PICK h \in heads : rhead' = [rhead EXCEPT ![r] = h]
        BY <1>1, Zenon DEF ReadHead
    <2>2. TypeOK'
        BY <1>1, <2>1, Zenon DEF ReadHead, disk, TypeOK
    <2>3. UNCHANGED <<projection, rsnap>> /\ rpc' = [rpc EXCEPT ![r] = "scan"]
        BY <1>1, Zenon DEF ReadHead
    <2>4. HistoryInv => \A q \in Readers : rpc'[q] = "scan" => rhead'[q] \in heads
        BY <1>0, <2>1, <2>3, Zenon DEF HistoryInv
    <2>5. HistoryInv => HistoryInv'
        BY <1>u, <2>3, <2>4, Zenon DEF HistoryInv
    <2> QED
        BY <1>w, <2>2, <2>5, Zenon
<1>2. CASE ReadJournal(r)
    <2>1. /\ rpc[r] = "scan" /\ rsnap' = [rsnap EXCEPT ![r] = journal]
          /\ rpc' = [rpc EXCEPT ![r] = "project"] /\ UNCHANGED <<projection, rhead>>
        BY <1>2, Zenon DEF ReadJournal
    <2>2. TypeOK'
        BY <1>2, Zenon DEF ReadJournal, disk, TypeOK
    <2>3. HistoryInv => \A q \in Readers : IsPrefixOf(rsnap'[q], journal)
        <3>1. IsPrefixOf(journal, journal)
            BY <1>0 DEF IsPrefixOf
        <3> QED
            BY <1>0, <2>1, <3>1, Zenon DEF HistoryInv
    <2>4. HistoryInv => heads # {} /\ \A q \in Readers : rpc'[q] = "scan" => rhead'[q] \in heads
        BY <1>0, <2>1, Zenon DEF HistoryInv
    <2>5. HistoryInv => HistoryInv'
        BY <1>u, <2>1, <2>3, <2>4, Zenon DEF HistoryInv
    <2> QED
        BY <1>w, <2>2, <2>5, Zenon
<1>3. CASE WriteReadManifest(r)
    <2>1. /\ rsnap' = [rsnap EXCEPT ![r] = <<>>] /\ rpc' = [rpc EXCEPT ![r] = "idle"]
          /\ rhead' = [rhead EXCEPT ![r] = [seq |-> 0, event |-> NoEvent]]
          /\ projection' = Projected(rsnap[r])
        BY <1>3, Zenon DEF WriteReadManifest
    <2>2. /\ projection' \in Seq(Event) /\ (HistoryInv => IsPrefixOf(projection', journal))
          /\ <<>> \in Seq(Event) /\ IsPrefixOf(<<>>, journal)
        <3>1. projection \in Seq(Event) /\ rsnap[r] \in Seq(Event)
            BY Zenon DEF TypeOK
        <3>2. <<>> \in Seq(Event) /\ IsPrefixOf(<<>>, journal)
            BY <1>0 DEF IsPrefixOf
        <3> QED
            BY <1>0, <2>1, <3>1, <3>2, Zenon DEF Projected, HistoryInv
    <2>3. TypeOK'
        BY <1>3, <2>2, IdleTypes, Zenon DEF WriteReadManifest, disk, TypeOK
    <2>4. HistoryInv =>
          /\ \A q \in Readers : IsPrefixOf(rsnap'[q], journal)
          /\ \A q \in Readers : rpc'[q] = "scan" => rhead'[q] \in heads
        BY <1>0, <2>1, <2>2, Zenon DEF HistoryInv
    <2>5. HistoryInv /\ heads = {} => projection' = <<>> /\ \A q \in Readers : rsnap'[q] = <<>>
        BY <1>0, <2>1, Zenon DEF HistoryInv, Projected
    <2>6. HistoryInv => HistoryInv'
        BY <1>u, <2>2, <2>4, <2>5, Zenon DEF HistoryInv
    <2> QED
        BY <1>w, <2>3, <2>6, Zenon
<1> QED
    BY <1>1, <1>2, <1>3, Zenon DEF ReaderStep

-----------------------------------------------------------------------------

\* The invariant is inductive.
LEMMA CoreNext == ASSUME CoreInv, [Next]_vars PROVE CoreInv' /\ (HistoryInv => HistoryInv')
<1>1. ASSUME NEW p \in Writers, LeaseStep(p) PROVE CoreInv' /\ (HistoryInv => HistoryInv')
    BY <1>1, AcquireInv, AdvanceInv, ReleaseInv, Zenon DEF LeaseStep
<1>2. ASSUME NEW p \in Writers, CommandStep(p) PROVE CoreInv' /\ (HistoryInv => HistoryInv')
    BY <1>2, StartCreateInv, StartCommandInv, ReplayCommandInv, LoadManifestInv, Zenon DEF CommandStep
<1>3. ASSUME NEW p \in Writers, AppendStep(p) PROVE CoreInv' /\ (HistoryInv => HistoryInv')
    BY <1>3, TruncateInv, WriteLineInv, SyncLineInv, PublishHeadInv, WriteManifestInv, Zenon DEF AppendStep
<1>4. ASSUME NEW p \in Writers, Failure(p) PROVE CoreInv' /\ (HistoryInv => HistoryInv')
    BY <1>4, FailAppendInv, FailShortWriteInv, FailAfterHeadInv, FailManifestInv, CrashInv, Zenon DEF Failure
<1>5. CASE UNCHANGED vars
    <2>1. TypeOK' /\ (HistoryInv => HistoryInv')
        BY <1>5, HistoryFrame, Zenon DEF CoreInv, TypeOK, vars
    <2> QED
        BY <1>5, <2>1, WritersFrame, Zenon DEF CoreInv, vars
<1> QED
    BY <1>1, <1>2, <1>3, <1>4, <1>5, ReaderInv, Zenon DEF Next, WriterStep

LEMMA NextInv == JournalIInv /\ [Next]_vars => JournalIInv'
BY CoreNext, Zenon DEF JournalIInv

\* The inductive invariant holds in every reachable state of the journal, for any
\* number of writers, readers and commands (lease.go and appendEvent of dir_store.go).
THEOREM JournalInvariant == Spec => []JournalIInv
    BY InitInv, NextInv, PTL DEF Spec

\* A session that was created can always be loaded (scanJournal never fails on what
\* the store itself wrote), across crashes, failed calls and changes of writer.
THEOREM JournalAlwaysLoads == Spec => []JournalLoads
<1>1. JournalIInv => JournalLoads
    BY Zenon DEF JournalIInv, CoreInv, JournalInv, JournalLoads, ScanOK
<1> QED
    BY <1>1, JournalInvariant, PTL

\* Every command the store ever reported as accepted is in the journal.
THEOREM AckedAlwaysRecorded == Spec => []AckedRecorded
<1>1. JournalIInv => AckedRecorded
    BY Zenon DEF JournalIInv, CoreInv, HistoryInv, AckedRecorded
<1> QED
    BY <1>1, JournalInvariant, PTL

\* The cache of a lease holder between commits is the journal.
THEOREM CacheAlwaysCoherent == Spec => []CacheCoherent
<1>1. JournalIInv => CacheCoherent
    BY Zenon DEF JournalIInv, CoreInv, CacheInv, CacheAgrees, CacheCoherent
<1> QED
    BY <1>1, JournalInvariant, PTL

\* A reader without a lease never fails on a session that other processes write.
THEOREM ReaderAlwaysSucceeds == Spec => []ReaderNeverFails
<1>1. JournalIInv => ReaderNeverFails
    BY Zenon DEF JournalIInv, CoreInv, JournalInv, HistoryInv, ReaderNeverFails, ReaderScanOK
<1> QED
    BY <1>1, JournalInvariant, PTL

\* manifest.json is the rebuild of a prefix of the journal.
THEOREM ProjectionAlwaysPrefix == Spec => []ProjectionIsPrefix
<1>1. JournalIInv => ProjectionIsPrefix
    BY Zenon DEF JournalIInv, CoreInv, HistoryInv, ProjectionIsPrefix
<1> QED
    BY <1>1, JournalInvariant, PTL

-----------------------------------------------------------------------------
(* Action properties. *)

\* A step adds a complete line only in WriteLine, and removes one only in Truncate.
LEMMA JournalSteps ==
    ASSUME JournalIInv, [Next]_vars
    PROVE  \/ journal' = journal
           \/ \E p \in Writers : Truncate(p) \/ WriteLine(p)
<1>1. ASSUME NEW p \in Writers, LeaseStep(p) PROVE journal' = journal
    BY <1>1, Zenon DEF LeaseStep, AcquireSessionLease, Advance, Release, disk
<1>2. ASSUME NEW p \in Writers, CommandStep(p) PROVE journal' = journal
    BY <1>2, Zenon DEF CommandStep, StartCreate, StartCommand, ReplayCommand, LoadManifest, disk
<1>3. ASSUME NEW p \in Writers, AppendStep(p)
      PROVE  journal' = journal \/ Truncate(p) \/ WriteLine(p)
    BY <1>3, Zenon DEF AppendStep, SyncLine, PublishHead, WriteManifest, disk
<1>4. ASSUME NEW p \in Writers, Failure(p) PROVE journal' = journal
    BY <1>4, Zenon DEF Failure, FailAppend, FailShortWrite, FailAfterHead, FailManifest, Crash, GiveUp, disk
<1>5. ASSUME NEW r \in Readers, ReaderStep(r) PROVE journal' = journal
    BY <1>5, Zenon DEF ReaderStep, ReadHead, ReadJournal, WriteReadManifest, disk
<1>6. CASE UNCHANGED vars
    BY <1>6, Zenon DEF vars
<1> QED
    BY <1>1, <1>2, <1>3, <1>4, <1>5, <1>6, Zenon DEF Next, WriterStep

\* Once the session exists, truncating removes no complete line.
LEMMA TruncateExisting ==
    ASSUME JournalIInv, NEW p \in Writers, Truncate(p), heads # {}
    PROVE  journal' = journal
<1>1. journal \in Seq(Event) /\ CacheValid(p) /\ cache[p].events = journal
    BY Zenon DEF JournalIInv, CoreInv, TypeOK, OpInv, OpFits, Continues, Creates, CacheInv, CacheAgrees, Truncate
<1>2. journal' = SubSeq(journal, 1, Len(journal))
    BY <1>1, Zenon DEF Truncate, CommittedLines
<1> QED
    BY <1>1, <1>2

\* A writer's line carries its own event, under the newest epoch.
LEMMA WrittenEvent ==
    ASSUME JournalIInv, NEW p \in Writers, WriteLine(p)
    PROVE  /\ journal' = Append(journal, op[p]) /\ op[p] \in Event
           /\ flock = p /\ op[p].epoch = highest /\ highest # 0
BY Zenon DEF JournalIInv, CoreInv, TypeOK, LeaseInv, OpInv, OpFits, WriteLine, WrittenLine

\* Whatever the interleaving, complete lines of an existing session are never removed or
\* changed, and every new one is written under the lock and the newest epoch (appendEvent).
THEOREM JournalFenced == Spec => FencedAppendOnly
<1> DEFINE Step == /\ heads # {} => IsPrefixOf(journal, journal')
                   /\ Len(journal') > Len(journal) =>
                         flock # None /\ journal'[Len(journal')].epoch = highest
<1>1. JournalIInv /\ [Next]_vars => [Step]_vars
    <2> SUFFICES ASSUME JournalIInv, [Next]_vars PROVE Step
        BY Zenon
    <2>0. journal \in Seq(Event)
        BY Zenon DEF JournalIInv, CoreInv, TypeOK
    <2>1. CASE journal' = journal
        BY <2>0, <2>1 DEF IsPrefixOf
    <2>2. ASSUME NEW p \in Writers, Truncate(p) PROVE Step
        <3>1. heads # {} => IsPrefixOf(journal, journal')
            BY <2>0, <2>2, TruncateExisting DEF IsPrefixOf
        <3>2. Len(journal') <= Len(journal)
            <4>1. journal' = journal \/ journal' = <<>>
                BY <2>2, TruncateKeeps, Zenon DEF Truncate, JournalIInv
            <4> QED
                BY <2>0, <4>1
        <3> QED
            BY <2>0, <3>1, <3>2
    <2>3. ASSUME NEW p \in Writers, WriteLine(p) PROVE Step
        <3>1. /\ journal' = Append(journal, op[p]) /\ op[p] \in Event
              /\ flock # None /\ op[p].epoch = highest
            BY <2>3, WrittenEvent, NoneAssumption, Zenon
        <3>2. Len(journal') = Len(journal) + 1 /\ journal'[Len(journal) + 1] = op[p]
            BY <2>0, <3>1
        <3>3. IsPrefixOf(journal, journal')
            BY <2>0, <3>1 DEF IsPrefixOf
        <3> QED
            BY <3>1, <3>2, <3>3, Zenon
    <2> QED
        BY <2>1, <2>2, <2>3, JournalSteps, Zenon
<1> QED
    BY <1>1, JournalInvariant, PTL DEF Spec, FencedAppendOnly

\* manifest.json never goes back to an earlier sequence (writeManifest's comparison).
THEOREM ProjectionNeverFalls == Spec => ProjectionMonotone
<1> DEFINE Step == Len(projection') >= Len(projection)
<1>0. ASSUME JournalIInv, NEW e \in Seq(Event), projection' = Projected(e) PROVE Step
    BY <1>0 DEF Projected, JournalIInv, CoreInv, TypeOK
<1>1. JournalIInv /\ [Next]_vars => [Step]_vars
    <2> SUFFICES ASSUME JournalIInv, [Next]_vars PROVE Step
        BY Zenon
    <2>0. ASSUME projection' = projection PROVE Step
        BY <2>0 DEF JournalIInv, CoreInv, TypeOK
    <2>1. ASSUME NEW p \in Writers, LeaseStep(p) PROVE Step
        BY <2>0, <2>1, Zenon DEF LeaseStep, AcquireSessionLease, Advance, Release
    <2>2. ASSUME NEW p \in Writers, CommandStep(p) PROVE Step
        BY <1>0, <2>0, <2>2, Zenon DEF CommandStep, StartCreate, StartCommand, ReplayCommand, LoadManifest, JournalIInv, CoreInv, TypeOK
    <2>3. ASSUME NEW p \in Writers, AppendStep(p) PROVE Step
        <3>1. LoadEvents(p) \in Seq(Event)
            BY Zenon DEF LoadEvents, JournalIInv, CoreInv, TypeOK
        <3> QED
            BY <1>0, <2>0, <2>3, <3>1, Zenon DEF AppendStep, Truncate, WriteLine, SyncLine, PublishHead, WriteManifest
    <2>4. ASSUME NEW p \in Writers, Failure(p) PROVE Step
        BY <2>0, <2>4, Zenon DEF Failure, FailAppend, FailShortWrite, FailAfterHead, FailManifest, Crash, GiveUp
    <2>5. ASSUME NEW r \in Readers, ReaderStep(r) PROVE Step
        BY <1>0, <2>0, <2>5, Zenon DEF ReaderStep, ReadHead, ReadJournal, WriteReadManifest, JournalIInv, CoreInv, TypeOK
    <2>6. CASE UNCHANGED vars
        BY <2>0, <2>6, Zenon DEF vars
    <2> QED
        BY <2>1, <2>2, <2>3, <2>4, <2>5, <2>6, Zenon DEF Next, WriterStep
<1> QED
    BY <1>1, JournalInvariant, PTL DEF Spec, ProjectionMonotone

-----------------------------------------------------------------------------
(* Refinement. *)

\* No epoch above MaxEpoch is ever published (nextSessionWriterEpoch's exhaustion check).
LEMMA EpochBounded == Spec => [](highest <= MaxEpoch)
<1> DEFINE Bound == highest <= MaxEpoch
<1>1. Init => Bound
    BY EpochAssumption DEF Init
<1>2. Bound /\ [Next]_vars => Bound'
    <2> SUFFICES ASSUME highest <= MaxEpoch, [Next]_vars PROVE highest' <= MaxEpoch
        BY Zenon
    <2>1. ASSUME NEW p \in Writers, LeaseStep(p) PROVE highest' <= MaxEpoch
        BY <2>1, Zenon DEF LeaseStep, AcquireSessionLease, Advance, Release
    <2>2. ASSUME NEW p \in Writers, CommandStep(p) PROVE highest' = highest
        BY <2>2, Zenon DEF CommandStep, StartCreate, StartCommand, ReplayCommand, LoadManifest
    <2>3. ASSUME NEW p \in Writers, AppendStep(p) PROVE highest' = highest
        BY <2>3, Zenon DEF AppendStep, Truncate, WriteLine, SyncLine, PublishHead, WriteManifest
    <2>4. ASSUME NEW p \in Writers, Failure(p) PROVE highest' = highest
        BY <2>4, Zenon DEF Failure, FailAppend, FailShortWrite, FailAfterHead, FailManifest, Crash, GiveUp
    <2>5. ASSUME NEW r \in Readers, ReaderStep(r) PROVE highest' = highest
        BY <2>5, Zenon DEF ReaderStep, ReadHead, ReadJournal, WriteReadManifest
    <2>6. CASE UNCHANGED vars
        BY <2>6, Zenon DEF vars
    <2> QED
        BY <2>1, <2>2, <2>3, <2>4, <2>5, <2>6, Zenon DEF Next, WriterStep
<1> HIDE DEF Bound
<1>3. Spec => []Bound
    BY <1>1, <1>2, PTL DEF Spec
<1> QED
    BY <1>3, Zenon DEF Bound

\* What a scan returns: the log of the refinement.
Scanned == IF NotExist THEN <<>> ELSE journal

\* A step that keeps the heads, the journal and the acknowledgements is a stutter.
LEMMA LogStutter ==
    ASSUME UNCHANGED <<journal, heads, acked>>
    PROVE  UNCHANGED Log!logVars
BY Zenon DEF Log!logVars, NotExist

\* Acknowledging a command of the journal is a step of the log.
LEMMA LogAcknowledge ==
    ASSUME heads # {}, NEW c \in Cmd, c \in Commands(journal),
           acked' = acked \cup {c}, UNCHANGED <<journal, heads>>
    PROVE  Log!LogNext
<1>1. Log!Acknowledge(c)
    BY Zenon DEF Log!Acknowledge, Log!Recorded, Commands, NotExist
<1> QED
    BY <1>1, Zenon DEF Log!LogNext

\* Extending what a scan returns by a fresh event of the newest epoch is a step of the log.
LEMMA LogRecord ==
    ASSUME JournalIInv, highest <= MaxEpoch, NEW p \in Writers,
           op[p] \in Event, op[p].cmd \in Cmd, op[p].cmd \notin Commands(Scanned),
           op[p].cmd \in CreateCmd <=> Scanned = <<>>,
           op[p].epoch = highest, highest # 0, op[p].seq = Len(Scanned) + 1,
           Scanned' = Append(Scanned, op[p]), UNCHANGED acked
    PROVE  Log!LogNext
<1>1. op[p] = [seq |-> Len(Scanned) + 1, cmd |-> op[p].cmd, epoch |-> op[p].epoch]
    BY Zenon DEF Event
<1>2. \A i \in DOMAIN Scanned : Scanned[i].epoch <= op[p].epoch
    <2>1. \A i \in DOMAIN journal : journal[i].epoch <= highest
        BY DEF JournalIInv, CoreInv, TypeOK, JournalInv
    <2>2. DOMAIN <<>> = {}
        OBVIOUS
    <2> QED
        BY <2>1, <2>2, Zenon DEF Scanned
<1>3. Log!Record(op[p].cmd, op[p].epoch)
    BY <1>1, <1>2, Zenon DEF Log!Record, Log!Recorded, Log!Admissible, Scanned, Commands
<1>4. op[p].epoch \in 1 .. MaxEpoch
    BY EpochAssumption DEF JournalIInv, CoreInv, TypeOK
<1> QED
    BY <1>3, <1>4, Zenon DEF Log!LogNext

\* Publishing a head records the creation in the log, and is a stutter after it.
LEMMA LogPublish ==
    ASSUME JournalIInv, highest <= MaxEpoch, NEW p \in Writers, pc[p] = "head",
           heads' = heads \cup {NewHead(p)}, UNCHANGED <<journal, acked>>
    PROVE  [Log!LogNext]_(Log!logVars)
<1>1. CASE heads # {}
    BY <1>1, Zenon DEF Log!logVars, NotExist
<1>2. CASE heads = {}
    <2>1. /\ journal = <<op[p]>> /\ op[p].seq = 1 /\ op[p].cmd \in CreateCmd
          /\ op[p].epoch = epoch[p] /\ op[p].cmd \in Cmd
        BY <1>2, Zenon DEF JournalIInv, CoreInv, OpInv, OpFits, Continues, Creates, CacheInv, CacheAgrees
    <2>2. op[p].epoch = highest /\ highest # 0 /\ op[p] \in Event
        BY <2>1, Zenon DEF JournalIInv, CoreInv, LeaseInv, TypeOK
    <2>3. Scanned = <<>> /\ Scanned' = Append(Scanned, op[p]) /\ Commands(Scanned) = {}
        BY <1>2, <2>1 DEF Scanned, NotExist, Commands
    <2> QED
        BY <2>1, <2>2, <2>3, LogRecord
<1> QED
    BY <1>1, <1>2, Zenon

\* Completing a line records its command in the log of an existing session.
LEMMA LogWriteLine ==
    ASSUME JournalIInv, highest <= MaxEpoch, NEW p \in Writers, WriteLine(p)
    PROVE  [Log!LogNext]_(Log!logVars)
<1>0. UNCHANGED <<heads, acked>> /\ pc[p] = "write"
    BY Zenon DEF WriteLine
<1>1. CASE heads = {}
    BY <1>0, <1>1, Zenon DEF Log!logVars, NotExist
<1>2. CASE heads # {}
    <2>1. /\ op[p].seq = Len(journal) + 1 /\ op[p].cmd \in Cmd
          /\ op[p].cmd \notin Commands(journal) /\ op[p].cmd \notin CreateCmd
        BY <1>0, <1>2, Zenon DEF JournalIInv, CoreInv, OpInv, OpFits, Continues, Creates, CacheInv, CacheAgrees
    <2>2. journal # <<>>
        BY <1>2 DEF JournalIInv, CoreInv, JournalInv, AnchoredIn
    <2>3. Scanned = journal /\ Scanned' = Append(Scanned, op[p])
        BY <1>0, <1>2, WrittenEvent, Zenon DEF Scanned, NotExist
    <2> QED
        BY <1>0, <2>1, <2>2, <2>3, WrittenEvent, LogRecord, Zenon
<1> QED
    BY <1>1, <1>2, Zenon

\* Truncation is invisible to the log.
LEMMA LogTruncate ==
    ASSUME JournalIInv, NEW p \in Writers, Truncate(p)
    PROVE  UNCHANGED Log!logVars
BY Zenon, TruncateExisting DEF Log!logVars, NotExist, Truncate

\* The lease, the files, the crashes and the readers implement one growing log: every
\* step of the store is a step of SessionLog or leaves it alone, for every number of
\* processes and commands (lease.go, appendEvent and scanJournal of dir_store.go).
THEOREM JournalImplementsLog == Spec => ImplementsLog
<1>1. Init => Log!LogInit
    BY Zenon DEF Init, Log!LogInit, NotExist
<1>2. JournalIInv /\ highest <= MaxEpoch /\ [Next]_vars => [Log!LogNext]_(Log!logVars)
    <2> SUFFICES ASSUME JournalIInv, highest <= MaxEpoch, [Next]_vars
                 PROVE  [Log!LogNext]_(Log!logVars)
        BY Zenon
    <2>1. ASSUME NEW p \in Writers, LeaseStep(p) PROVE UNCHANGED <<journal, heads, acked>>
        BY <2>1, Zenon DEF LeaseStep, AcquireSessionLease, Advance, Release, disk
    <2>2. ASSUME NEW p \in Writers, CommandStep(p) PROVE [Log!LogNext]_(Log!logVars)
        <3>1. ASSUME NEW c \in Cmd, ReplayCommand(p, c) PROVE Log!LogNext
            <4>1. heads # {} /\ c \in Commands(journal)
                BY <3>1, Zenon DEF ReplayCommand, Loadable, LoadEvents, ScanOK, JournalIInv, CoreInv, CacheInv, CacheAgrees
            <4> QED
                BY <3>1, <4>1, LogAcknowledge, Zenon DEF ReplayCommand, disk
        <3> QED
            BY <2>2, <3>1, LogStutter, Zenon DEF CommandStep, StartCreate, StartCommand, LoadManifest, disk
    <2>3. ASSUME NEW p \in Writers, AppendStep(p) PROVE [Log!LogNext]_(Log!logVars)
        <3>1. CASE WriteManifest(p)
            <4>1. heads # {} /\ op[p].cmd \in Commands(journal) /\ op[p].cmd \in Cmd
                BY <3>1, Zenon DEF WriteManifest, JournalIInv, CoreInv, JournalInv, OpInv, OpFits, CacheInv, CacheAgrees, Commands
            <4> QED
                BY <3>1, <4>1, LogAcknowledge, Zenon DEF WriteManifest, disk
        <3>2. CASE PublishHead(p)
            BY <3>2, LogPublish, Zenon DEF PublishHead
        <3>3. CASE SyncLine(p)
            BY <3>3, LogStutter, Zenon DEF SyncLine
        <3> QED
            BY <2>3, <3>1, <3>2, <3>3, LogTruncate, LogWriteLine, Zenon DEF AppendStep
    <2>4. ASSUME NEW p \in Writers, Failure(p) PROVE [Log!LogNext]_(Log!logVars)
        <3>1. CASE FailAfterHead(p)
            BY <3>1, LogPublish, Zenon DEF FailAfterHead, GiveUp
        <3> QED
            BY <2>4, <3>1, LogStutter, Zenon DEF Failure, FailAppend, FailShortWrite, FailManifest, Crash, GiveUp, disk
    <2>5. ASSUME NEW r \in Readers, ReaderStep(r) PROVE UNCHANGED <<journal, heads, acked>>
        BY <2>5, Zenon DEF ReaderStep, ReadHead, ReadJournal, WriteReadManifest, disk
    <2>6. CASE UNCHANGED vars
        BY <2>6, LogStutter, Zenon DEF vars
    <2> QED
        BY <2>1, <2>2, <2>3, <2>4, <2>5, <2>6, LogStutter, Zenon DEF Next, WriterStep
<1> QED
    BY <1>1, <1>2, JournalInvariant, EpochBounded, PTL DEF Spec, ImplementsLog, Log!LogSpec

-----------------------------------------------------------------------------
(* A machine that loses power. *)

\* Most steps change neither the file, nor what is synced, headed or committed.
LEMMA DurableFrame ==
    ASSUME DurableInv, UNCHANGED <<journal, synced, heads, committed>>,
           \A p \in Writers : pc'[p] = "head" => pc[p] = "head"
    PROVE  DurableInv'
BY Zenon DEF DurableInv

\* The same for a step of the lock holder that does not bring it to its head.
LEMMA DurableQuiet ==
    ASSUME TypeOK, DurableInv, NEW p \in Writers, NEW to, pc' = [pc EXCEPT ![p] = to], to # "head",
           UNCHANGED <<journal, synced, heads, committed>>
    PROVE  DurableInv'
<1>1. \A q \in Writers : pc'[q] = "head" => pc[q] = "head"
    BY PcAt, Zenon
<1> QED
    BY <1>1, DurableFrame, Zenon

\* Truncation removes a synced line only from a session that has no head.
LEMMA TruncateDurable ==
    ASSUME CoreInv, DurableInv, NEW p \in Writers, Truncate(p)
    PROVE  DurableInv'
<1>0. /\ journal \in Seq(Event) /\ synced \in 0 .. Len(journal) /\ pc[p] = "truncate" /\ TypeOK
      /\ journal' = SubSeq(journal, 1, CommittedLines(p)) /\ pc' = [pc EXCEPT ![p] = "write"]
      /\ synced' = IF synced > CommittedLines(p) THEN CommittedLines(p) ELSE synced
      /\ UNCHANGED <<heads, committed>>
    BY Zenon DEF CoreInv, TypeOK, Truncate
<1>1. CASE CacheValid(p)
    <2>1. journal' = journal /\ synced' = synced
        BY <1>0, <1>1, TruncateKeeps
    <2> QED
        BY <1>0, <2>1, DurableQuiet, Zenon
<1>2. CASE ~CacheValid(p)
    <2>1. heads' = {} /\ committed' = {}
        BY <1>0, <1>2, TruncateKeeps, Zenon DEF DurableInv
    <2>2. \A q \in Writers : pc'[q] # "head"
        <3>1. flock = p
            BY <1>0, Zenon DEF CoreInv, LeaseInv
        <3> QED
            BY <1>0, <3>1, OthersIdle, PcAt, Zenon DEF CoreInv
    <2> QED
        BY <2>1, <2>2, Zenon DEF DurableInv
<1> QED
    BY <1>1, <1>2, Zenon

\* A line that is written and not yet synced is behind all that are.
LEMMA WriteLineDurable ==
    ASSUME CoreInv, DurableInv, NEW p \in Writers, WriteLine(p)
    PROVE  DurableInv'
<1>0. /\ journal \in Seq(Event) /\ synced \in 0 .. Len(journal) /\ pc[p] = "write" /\ TypeOK
      /\ journal' = Append(journal, WrittenLine(p)) /\ pc' = [pc EXCEPT ![p] = "sync"]
      /\ UNCHANGED <<synced, heads, committed>>
    BY Zenon DEF CoreInv, TypeOK, WriteLine
<1>1. \A q \in Writers : pc'[q] # "head"
    <2>1. flock = p
        BY <1>0, Zenon DEF CoreInv, LeaseInv
    <2> QED
        BY <1>0, <2>1, OthersIdle, PcAt, Zenon DEF CoreInv
<1>2. \A i \in 1 .. synced : journal'[i] = journal[i]
    BY <1>0
<1>3. \A c \in committed : \E i \in 1 .. synced : journal'[i].cmd = c
    BY <1>2, Zenon DEF DurableInv
<1>4. UNCHANGED <<synced, heads, committed>>
    BY <1>0, Zenon
<1> QED
    BY <1>1, <1>3, <1>4, Zenon DEF DurableInv

\* The fsync covers the whole file.
LEMMA SyncLineDurable ==
    ASSUME CoreInv, DurableInv, NEW p \in Writers, SyncLine(p)
    PROVE  DurableInv'
<1>0. /\ synced \in 0 .. Len(journal) /\ journal \in Seq(Event) /\ heads \subseteq JournalHead
      /\ synced' = Len(journal) /\ UNCHANGED <<journal, heads, committed>>
    BY Zenon DEF CoreInv, TypeOK, SyncLine
<1>1. \A h \in heads : h.seq <= synced'
    BY <1>0 DEF DurableInv, JournalHead
<1>2. \A i \in 1 .. synced : i \in 1 .. synced'
    BY <1>0
<1> QED
    BY <1>0, <1>1, <1>2, Zenon DEF DurableInv

\* A head is published for a line that is synced, whether its directory is or not.
LEMMA HeadDurable ==
    ASSUME CoreInv, DurableInv, NEW p \in Writers, pc[p] = "head", NEW to, to # "head",
           pc' = [pc EXCEPT ![p] = to], heads' = heads \cup {NewHead(p)},
           UNCHANGED <<journal, synced>>, committed' \in {committed, committed \cup {op[p].cmd}}
    PROVE  DurableInv'
<1>0. journal \in Seq(Event) /\ TypeOK
    BY Zenon DEF CoreInv, TypeOK
<1>1. op[p].seq = Len(journal) /\ op[p].seq \in DOMAIN journal /\ journal[op[p].seq] = op[p] /\ op[p] \in Event
    BY HeadedEvent, Zenon
<1>2. synced = Len(journal)
    BY Zenon DEF DurableInv
<1>3. \A h \in heads' : h.seq <= synced'
    BY <1>1, <1>2 DEF DurableInv, NewHead, Event
<1>4. \A c \in committed' : \E i \in 1 .. synced' : journal'[i].cmd = c
    <2>1. op[p].seq \in 1 .. synced
        BY <1>0, <1>1, <1>2
    <2>2. \A c \in committed : \E i \in 1 .. synced : journal[i].cmd = c
        BY Zenon DEF DurableInv
    <2>3. \E i \in 1 .. synced : journal[i].cmd = op[p].cmd
        BY <1>1, <2>1, Zenon
    <2>4. \A c \in committed' : c \in committed \/ c = op[p].cmd
        BY Zenon
    <2> QED
        BY <2>2, <2>3, <2>4, Zenon
<1>5. \A q \in Writers : pc'[q] = "head" => pc[q] = "head"
    BY <1>0, PcAt, Zenon
<1> QED
    BY <1>3, <1>4, <1>5, Zenon DEF DurableInv

\* Every step without a power loss.
LEMMA DurableNext == ASSUME CoreInv, DurableInv, [Next]_vars PROVE DurableInv'
<1>0. TypeOK
    BY Zenon DEF CoreInv
<1>1. ASSUME NEW p \in Writers, LeaseStep(p) PROVE DurableInv'
    BY <1>1, DurableFrame, Zenon DEF LeaseStep, AcquireSessionLease, Advance, Release, disk
<1>2. ASSUME NEW p \in Writers, CommandStep(p) PROVE DurableInv'
    <2>1. CASE \E c \in Cmd : StartCreate(p, c) \/ StartCommand(p, c)
        <3>1. pc' = [pc EXCEPT ![p] = "truncate"] /\ UNCHANGED <<journal, synced, heads, committed>>
            BY <2>1, Zenon DEF StartCreate, StartCommand, disk
        <3> QED
            BY <1>0, <3>1, DurableQuiet, Zenon
    <2>2. CASE (\E c \in Cmd : ReplayCommand(p, c)) \/ LoadManifest(p)
        BY <2>2, DurableFrame, Zenon DEF ReplayCommand, LoadManifest, disk
    <2> QED
        BY <1>2, <2>1, <2>2, Zenon DEF CommandStep
<1>3. ASSUME NEW p \in Writers, AppendStep(p) PROVE DurableInv'
    <2>1. CASE PublishHead(p)
        BY <2>1, HeadDurable, Zenon DEF PublishHead
    <2>2. CASE WriteManifest(p)
        <3>1. pc' = [pc EXCEPT ![p] = "idle"] /\ UNCHANGED <<journal, synced, heads, committed>>
            BY <2>2, Zenon DEF WriteManifest, disk
        <3> QED
            BY <1>0, <3>1, DurableQuiet, Zenon
    <2> QED
        BY <1>3, <2>1, <2>2, TruncateDurable, WriteLineDurable, SyncLineDurable, Zenon DEF AppendStep
<1>4. ASSUME NEW p \in Writers, Failure(p) PROVE DurableInv'
    <2>1. CASE FailAfterHead(p)
        BY <2>1, HeadDurable, Zenon DEF FailAfterHead, GiveUp
    <2>2. CASE FailAppend(p) \/ FailShortWrite(p) \/ FailManifest(p) \/ Crash(p)
        <3>1. pc' = [pc EXCEPT ![p] = "idle"] /\ UNCHANGED <<journal, synced, heads, committed>>
            BY <2>2, Zenon DEF FailAppend, FailShortWrite, FailManifest, Crash, GiveUp, disk
        <3> QED
            BY <1>0, <3>1, DurableQuiet, Zenon
    <2> QED
        BY <1>4, <2>1, <2>2, Zenon DEF Failure
<1>5. ASSUME NEW r \in Readers, ReaderStep(r) PROVE DurableInv'
    BY <1>5, DurableFrame, Zenon DEF ReaderStep, ReadHead, ReadJournal, WriteReadManifest, disk
<1>6. CASE UNCHANGED vars
    BY <1>6, DurableFrame, Zenon DEF vars
<1> QED
    BY <1>1, <1>2, <1>3, <1>4, <1>5, <1>6, Zenon DEF Next, WriterStep

\* The lines that are left are a well-formed journal in which every head has its event.
LEMMA PowerLossDurable ==
    ASSUME PowerIInv, PowerLoss
    PROVE  PowerIInv'
<1>0. PICK n \in synced .. Len(journal) :
          /\ journal' = SubSeq(journal, 1, n) /\ synced' = n
          /\ torn' \in (IF n < Len(journal) THEN BOOLEAN ELSE {torn})
    BY Zenon DEF PowerLoss
<1>u. /\ UNCHANGED <<highest, heads, projection, committed, acked>> /\ flock' = None
      /\ epoch' = [p \in Writers |-> 0] /\ cache' = [p \in Writers |-> NoCache]
      /\ pc' = [p \in Writers |-> "idle"] /\ op' = [p \in Writers |-> NoEvent]
      /\ rpc' = [r \in Readers |-> "idle"] /\ rsnap' = [r \in Readers |-> <<>>]
      /\ rhead' = [r \in Readers |-> [seq |-> 0, event |-> NoEvent]]
    BY Zenon DEF PowerLoss
<1>t. TypeOK /\ JournalInv /\ DurableInv /\ journal \in Seq(Event) /\ synced \in 0 .. Len(journal)
      /\ heads \subseteq JournalHead
    BY Zenon DEF PowerIInv, CoreInv, TypeOK
<1>j. /\ journal' \in Seq(Event) /\ Len(journal') = n /\ n \in Nat /\ synced <= n /\ n <= Len(journal)
      /\ DOMAIN journal' = 1 .. n /\ DOMAIN journal = 1 .. Len(journal)
      /\ \A i \in 1 .. n : i \in 1 .. Len(journal) /\ journal'[i] = journal[i]
    BY <1>0, <1>t
<1>1. TypeOK'
    <2>1. synced' \in 0 .. Len(journal') /\ <<>> \in Seq(Event)
        BY <1>0, <1>j
    <2>2. torn' \in BOOLEAN /\ 0 \in Nat
        BY <1>0, <1>t, Zenon DEF TypeOK
    <2>3. /\ cache' \in [Writers -> [epoch : Nat, events : Seq(Event)]] /\ op' \in [Writers -> Event]
          /\ rhead' \in [Readers -> JournalHead] /\ rsnap' \in [Readers -> Seq(Event)]
        BY <1>u, <2>1, IdleTypes, Zenon DEF CacheType
    <2> QED
        BY <1>j, <1>t, <1>u, <2>1, <2>2, <2>3, Zenon DEF TypeOK
<1>q. \A p \in Writers : pc'[p] = "idle" /\ cache'[p].epoch = 0 /\ epoch'[p] = 0
    BY <1>u, IdleTypes, Zenon
<1>2. LeaseInv'
    BY <1>u, <1>q, NoneAssumption, Zenon DEF LeaseInv
<1>3. CacheInv' /\ OpInv'
    BY <1>1, <1>q, QuietWriters, Zenon
<1>4. JournalInv'
    <2>1. WellFormed(journal')
        <3>1. WellFormed(journal) /\ \A i \in DOMAIN journal' : i \in DOMAIN journal /\ journal'[i] = journal[i]
            BY <1>j, <1>t, Zenon DEF JournalInv
        <3> QED
            BY <3>1 DEF WellFormed
    <2>2. \A i \in DOMAIN journal' :
             journal'[i].cmd \in Cmd /\ journal'[i].epoch \in 1 .. highest' /\ (journal'[i].cmd \in CreateCmd <=> i = 1)
        BY <1>j, <1>t, <1>u, Zenon DEF JournalInv
    <2>3. \A h \in heads' : AnchoredIn(h, journal')
        <3> SUFFICES ASSUME NEW h \in heads PROVE AnchoredIn(h, journal')
            BY <1>u, Zenon
        <3>1. h.seq \in Nat /\ h.seq <= synced /\ h.seq \in DOMAIN journal /\ journal[h.seq] = h.event
            BY <1>t, Zenon DEF JournalHead, DurableInv, JournalInv, AnchoredIn
        <3>2. h.seq \in 1 .. n
            BY <1>t, <1>j, <3>1
        <3> QED
            BY <1>j, <3>1, <3>2, Zenon DEF AnchoredIn
    <2>4. heads' = {} => Len(journal') <= 1
        BY <1>j, <1>t, <1>u DEF JournalInv
    <2> QED
        BY <2>1, <2>2, <2>3, <2>4, Zenon DEF JournalInv
<1>5. DurableInv'
    <2>1. \A h \in heads' : h.seq <= synced'
        <3>1. \A h \in heads : h.seq \in Nat /\ h.seq <= synced
            BY <1>t, Zenon DEF DurableInv, JournalHead
        <3>2. synced' = n /\ synced \in Nat /\ n \in Nat /\ synced <= n /\ heads' = heads
            BY <1>0, <1>j, <1>t, <1>u
        <3> QED
            BY <3>1, <3>2
    <2>2. \A i \in 1 .. synced : i \in 1 .. synced' /\ journal'[i] = journal[i]
        BY <1>0, <1>j, <1>t
    <2> QED
        BY <1>q, <1>t, <1>u, <2>1, <2>2, Zenon DEF DurableInv
<1> QED
    BY <1>1, <1>2, <1>3, <1>4, <1>5, Zenon DEF PowerIInv, CoreInv

\* What survives crashes and power losses alike: the journal and the leases as without
\* them, heads and committed commands on synced lines.
THEOREM PowerInvariant == PowerLossSpec => []PowerIInv
<1>1. Init => PowerIInv
    <2>1. Init => DurableInv
        BY Zenon DEF Init, DurableInv
    <2> QED
        BY <2>1, InitInv, Zenon DEF PowerIInv, JournalIInv
<1>2. PowerIInv /\ [Next \/ PowerLoss]_vars => PowerIInv'
    <2>1. PowerIInv /\ [Next]_vars => PowerIInv'
        BY CoreNext, DurableNext, Zenon DEF PowerIInv
    <2> QED
        BY <2>1, PowerLossDurable, Zenon
<1> QED
    BY <1>1, <1>2, PTL DEF PowerLossSpec

\* For any number of writers: a command whose appendEvent returned no error is in the
\* journal for ever, whatever processes crash and however often the machine loses power.
THEOREM CommittedAlwaysSurvives == PowerLossSpec => []CommittedSurvives
<1>1. PowerIInv => CommittedSurvives
    <2> SUFFICES ASSUME PowerIInv, NEW c \in committed PROVE c \in Commands(journal)
        BY Zenon DEF CommittedSurvives
    <2>0. journal \in Seq(Event) /\ synced \in 0 .. Len(journal)
        BY Zenon DEF PowerIInv, CoreInv, TypeOK
    <2>1. PICK i \in 1 .. synced : journal[i].cmd = c
        BY Zenon DEF PowerIInv, DurableInv
    <2>2. i \in DOMAIN journal
        BY <2>0
    <2> QED
        BY <2>1, <2>2, Zenon DEF Commands
<1> QED
    BY <1>1, PowerInvariant, PTL

\* For any number of writers: scanJournal accepts a session that was created also after
\* a power loss, since no head ever names a line that could be lost.
THEOREM LoadsAfterPowerLoss == PowerLossSpec => []JournalLoads
<1>1. PowerIInv => JournalLoads
    BY Zenon DEF PowerIInv, CoreInv, JournalInv, JournalLoads, ScanOK
<1> QED
    BY <1>1, PowerInvariant, PTL
=============================================================================
