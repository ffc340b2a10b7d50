--------------------------- MODULE SessionJournal ---------------------------
(***************************************************************************)
(* The durable half of runtime/internal/sessionstore: the journal of one   *)
(* investigation session, its committed-head files, the writer lease with  *)
(* its epoch files, the per-process journal cache and the manifest         *)
(* projection.  What a command means is left to SessionManifest: here a    *)
(* command is an identifier, and the question is whether it is recorded    *)
(* once, in order, and for good, when processes crash between the steps of *)
(* appendEvent, calls fail half-way, clients retry and other processes     *)
(* read.                                                                   *)
(*                                                                         *)
(* A process stands for one DirStore.  Writers take the lease before they  *)
(* touch the session, as every caller of the store does; readers are       *)
(* processes that only load the manifest and never take the lease.         *)
(***************************************************************************)
EXTENDS Naturals, Sequences

CONSTANTS
    Writers,      \* processes that acquire the session lease
    Readers,      \* processes that load the manifest without a lease
    Cmd,          \* command identifiers
    CreateCmd,    \* the commands that are CreateSession requests
    None,         \* no process / no command
    MaxEpoch      \* the last epoch number: nextSessionWriterEpoch refuses to go on

ASSUME NoneAssumption == None \notin Writers /\ None \notin Cmd
ASSUME CreateAssumption == CreateCmd \subseteq Cmd
ASSUME EpochAssumption == MaxEpoch \in Nat

VARIABLES
    flock,        \* the process that holds the writer lock file
    highest,      \* the highest epoch file published
    journal,      \* the complete lines of events.jsonl
    torn,         \* an incomplete last line follows them
    synced,       \* how many of the complete lines an fsync has covered
    heads,        \* the immutable files under heads/
    projection,   \* the events manifest.json was rebuilt from
    epoch,        \* leaseEpochs of each process, 0 without a lease
    cache,        \* journalCaches of each process; epoch 0 means no cache
    pc, op,       \* how far the commit of each process is, and its event
    rpc, rhead,   \* how far the scan of each reader is, and the head it read
    rsnap,        \* the events that scan returned
    committed,    \* history: commands whose appendEvent returned no error
    acked         \* history: commands reported to the client as accepted

disk == <<journal, torn, synced, heads>>
reading == <<rpc, rhead, rsnap>>
vars == <<flock, highest, journal, torn, synced, heads, projection, epoch,
          cache, pc, op, rpc, rhead, rsnap, committed, acked>>

Event == [seq : Nat, cmd : Cmd \cup {None}, epoch : Nat]
NoEvent == [seq |-> 0, cmd |-> None, epoch |-> 0]
JournalHead == [seq : Nat, event : Event]
NoCache == [epoch |-> 0, events |-> <<>>]

Commands(events) == {events[i].cmd : i \in DOMAIN events}

-----------------------------------------------------------------------------
(* Scanning the journal. *)

Latest(h) == h \in heads /\ \A g \in heads : g.seq <= h.seq

\* The event a head names is on its line of the journal.
AnchoredIn(h, events) == h.seq \in DOMAIN events /\ events[h.seq] = h.event

\* What rebuildManifest demands of the envelope of the events.
WellFormed(events) ==
    /\ \A i \in DOMAIN events : events[i].seq = i
    /\ \A i, j \in DOMAIN events : i < j => events[i].epoch <= events[j].epoch
    /\ \A i, j \in DOMAIN events : i # j => events[i].cmd # events[j].cmd

\* scanJournal: a missing head is ErrNotExist, whatever events.jsonl holds; complete
\* lines that no head names yet are part of the result, an incomplete tail is not.
NotExist == heads = {}
ScanOK ==
    /\ heads # {}
    /\ \A h \in heads : Latest(h) => AnchoredIn(h, journal)
    /\ WellFormed(journal)

-----------------------------------------------------------------------------
(* Leases. *)

ValidWriterEpoch(p) == epoch[p] # 0 /\ highest = epoch[p]

CacheValid(p) == cache[p].epoch # 0 /\ cache[p].epoch = epoch[p]

NextEpoch(minimum) == (IF minimum > highest THEN minimum ELSE highest) + 1

HeadEpoch(e) ==
    \/ NotExist /\ e = 0
    \/ \E h \in heads : Latest(h) /\ e = h.event.epoch

AcquireSessionLease(p) ==
    /\ flock = None
    /\ \E minimum \in 0 .. MaxEpoch :
          /\ HeadEpoch(minimum)
          /\ NextEpoch(minimum) <= MaxEpoch
          /\ highest' = NextEpoch(minimum)
          /\ epoch' = [epoch EXCEPT ![p] = NextEpoch(minimum)]
    /\ flock' = p
    /\ cache' = [cache EXCEPT ![p] = NoCache]
    /\ UNCHANGED <<disk, projection, pc, op, reading, committed, acked>>

\* Advance takes a fresh epoch under a lease that is still the registered one.
Advance(p) ==
    /\ pc[p] = "idle" /\ epoch[p] # 0
    /\ NextEpoch(epoch[p]) <= MaxEpoch
    /\ highest' = NextEpoch(epoch[p])
    /\ epoch' = [epoch EXCEPT ![p] = NextEpoch(epoch[p])]
    /\ cache' = [cache EXCEPT ![p] = NoCache]
    /\ UNCHANGED <<flock, disk, projection, pc, op, reading, committed, acked>>

\* Mutant: Release does not wait for the commit in flight.
ReleaseMidCommit(p) ==
    /\ flock = p
    /\ flock' = None
    /\ cache' = [cache EXCEPT ![p] = NoCache]
    /\ UNCHANGED <<highest, disk, projection, epoch, pc, op, reading, committed, acked>>

\* Release waits for mutationMu, so no commit of this process is in flight.
Release(p) ==
    /\ pc[p] = "idle" /\ flock = p
    /\ flock' = None
    /\ epoch' = [epoch EXCEPT ![p] = 0]
    /\ cache' = [cache EXCEPT ![p] = NoCache]
    /\ UNCHANGED <<highest, disk, projection, pc, op, reading, committed, acked>>

-----------------------------------------------------------------------------
(* Commands: load, answer a retry from its receipt, or start an append. *)

LoadEvents(p) == IF CacheValid(p) THEN cache[p].events ELSE journal

Loadable(p) == CacheValid(p) \/ ScanOK

Primed(p) == [cache EXCEPT ![p] = [epoch |-> epoch[p], events |-> LoadEvents(p)]]

NewEvent(p, c, events) == [seq |-> Len(events) + 1, cmd |-> c, epoch |-> epoch[p]]

\* CreateSession on a session that no head vouches for.
StartCreate(p, c) ==
    /\ pc[p] = "idle" /\ ValidWriterEpoch(p)
    /\ c \in CreateCmd
    /\ ~CacheValid(p) /\ NotExist
    /\ pc' = [pc EXCEPT ![p] = "truncate"]
    /\ op' = [op EXCEPT ![p] = NewEvent(p, c, <<>>)]
    /\ UNCHANGED <<flock, highest, disk, projection, epoch, cache, reading, committed, acked>>

\* Mutant: the receipt of an earlier attempt is not looked up.
StartUnchecked(p, c) ==
    /\ pc[p] = "idle" /\ ValidWriterEpoch(p)
    /\ c \notin CreateCmd
    /\ Loadable(p)
    /\ cache' = Primed(p)
    /\ pc' = [pc EXCEPT ![p] = "truncate"]
    /\ op' = [op EXCEPT ![p] = NewEvent(p, c, LoadEvents(p))]
    /\ UNCHANGED <<flock, highest, disk, projection, epoch, reading, committed, acked>>

\* Any other mutator: a command that has no receipt yet and passed its checks.
StartCommand(p, c) ==
    /\ pc[p] = "idle" /\ ValidWriterEpoch(p)
    /\ c \notin CreateCmd
    /\ Loadable(p)
    /\ c \notin Commands(LoadEvents(p))
    /\ cache' = Primed(p)
    /\ pc' = [pc EXCEPT ![p] = "truncate"]
    /\ op' = [op EXCEPT ![p] = NewEvent(p, c, LoadEvents(p))]
    /\ UNCHANGED <<flock, highest, disk, projection, epoch, reading, committed, acked>>

\* A retry is answered from the receipt in the journal, and writes nothing.
ReplayCommand(p, c) ==
    /\ pc[p] = "idle" /\ ValidWriterEpoch(p)
    /\ Loadable(p)
    /\ c \in Commands(LoadEvents(p))
    /\ cache' = Primed(p)
    /\ acked' = acked \cup {c}
    /\ UNCHANGED <<flock, highest, disk, projection, epoch, pc, op, reading, committed>>

-----------------------------------------------------------------------------
(* appendEvent, step by step. *)

\* Mutant: lines that no head names are dropped, although a scan accepted them.
HeadedLines(p) ==
    IF NotExist THEN 0 ELSE (CHOOSE h \in heads : Latest(h)).seq

\* How many lines truncateJournalToCommittedHead keeps: the cached offset, or what a
\* scan accepts; with no head that is nothing at all.
CommittedLines(p) ==
    IF CacheValid(p) THEN Len(cache[p].events)
    ELSE IF NotExist THEN 0 ELSE Len(journal)

\* Mutant: the incomplete tail stays where it is.
TruncateNothing(p) ==
    /\ pc[p] = "truncate"
    /\ pc' = [pc EXCEPT ![p] = "write"]
    /\ UNCHANGED <<flock, highest, disk, projection, epoch, cache, op, reading, committed, acked>>

Truncate(p) ==
    /\ pc[p] = "truncate"
    /\ CacheValid(p) \/ NotExist \/ ScanOK
    /\ CommittedLines(p) <= Len(journal)
    /\ journal' = SubSeq(journal, 1, CommittedLines(p))
    /\ torn' = FALSE
    /\ synced' = IF synced > CommittedLines(p) THEN CommittedLines(p) ELSE synced
    /\ pc' = [pc EXCEPT ![p] = "write"]
    /\ UNCHANGED <<flock, highest, heads, projection, epoch, cache, op, reading, committed, acked>>

\* A line written behind an incomplete one runs into it and can no longer be decoded.
WrittenLine(p) == IF torn THEN NoEvent ELSE op[p]

WriteLine(p) ==
    /\ pc[p] = "write"
    /\ journal' = Append(journal, WrittenLine(p))
    /\ torn' = FALSE
    /\ pc' = [pc EXCEPT ![p] = "sync"]
    /\ UNCHANGED <<flock, highest, synced, heads, projection, epoch, cache, op, reading, committed, acked>>

\* Mutant: the head is published without an fsync of the line.
SkipSync(p) ==
    /\ pc[p] = "sync"
    /\ pc' = [pc EXCEPT ![p] = "head"]
    /\ UNCHANGED <<flock, highest, disk, projection, epoch, cache, op, reading, committed, acked>>

SyncLine(p) ==
    /\ pc[p] = "sync"
    /\ synced' = Len(journal)
    /\ pc' = [pc EXCEPT ![p] = "head"]
    /\ UNCHANGED <<flock, highest, journal, torn, heads, projection, epoch, cache, op, reading, committed, acked>>

NewHead(p) == [seq |-> op[p].seq, event |-> op[p]]

\* publishImmutableFile accepts an identical file and refuses a different one.
HeadFree(p) == \A h \in heads : h.seq = op[p].seq => h = NewHead(p)

\* advanceJournalCache: extends the cache, or starts it with the creation event.
AdvancedCache(p) ==
    IF CacheValid(p)
    THEN [cache EXCEPT ![p].events = Append(@, op[p])]
    ELSE IF op[p].seq = 1
         THEN [cache EXCEPT ![p] = [epoch |-> epoch[p], events |-> <<op[p]>>]]
         ELSE cache

PublishHead(p) ==
    /\ pc[p] = "head"
    /\ HeadFree(p)
    /\ heads' = heads \cup {NewHead(p)}
    /\ cache' = AdvancedCache(p)
    /\ committed' = committed \cup {op[p].cmd}
    /\ pc' = [pc EXCEPT ![p] = "project"]
    /\ UNCHANGED <<flock, highest, journal, torn, synced, projection, epoch, op, reading, acked>>

\* Mutant: the last writer wins.
ProjectedBlindly(events) == events

\* writeManifest, under the projection lock: never replaces a later manifest.
Projected(events) == IF Len(projection) > Len(events) THEN projection ELSE events

WriteManifest(p) ==
    /\ pc[p] = "project"
    /\ projection' = Projected(LoadEvents(p))
    /\ acked' = acked \cup {op[p].cmd}
    /\ pc' = [pc EXCEPT ![p] = "idle"]
    /\ op' = [op EXCEPT ![p] = NoEvent]
    /\ UNCHANGED <<flock, highest, disk, epoch, cache, reading, committed>>

\* LoadManifest of the lease holder rescans, whatever it had cached.
LoadManifest(p) ==
    /\ pc[p] = "idle" /\ epoch[p] # 0
    /\ ScanOK
    /\ cache' = [cache EXCEPT ![p] = [epoch |-> epoch[p], events |-> journal]]
    /\ projection' = Projected(journal)
    /\ UNCHANGED <<flock, highest, disk, epoch, pc, op, reading, committed, acked>>

-----------------------------------------------------------------------------
(* Failures. *)

\* Mutant: the cache outlives a failed append.
GiveUpKeepingCache(p) ==
    /\ pc' = [pc EXCEPT ![p] = "idle"]
    /\ op' = [op EXCEPT ![p] = NoEvent]
    /\ UNCHANGED <<flock, highest, journal, synced, projection, epoch, cache, reading, committed, acked>>

\* The error return of appendEvent invalidates the cache; the client sees an error.
GiveUp(p) ==
    /\ pc' = [pc EXCEPT ![p] = "idle"]
    /\ op' = [op EXCEPT ![p] = NoEvent]
    /\ cache' = [cache EXCEPT ![p] = NoCache]
    /\ UNCHANGED <<flock, highest, journal, synced, projection, epoch, reading, committed, acked>>

\* A call fails before it changed anything, among them the fsync of a written line
\* and the publication of its head.
FailAppend(p) ==
    /\ pc[p] \in {"truncate", "write", "sync", "head"}
    /\ GiveUp(p)
    /\ UNCHANGED <<torn, heads>>

\* A short write leaves an incomplete last line.
FailShortWrite(p) ==
    /\ pc[p] = "write"
    /\ GiveUp(p)
    /\ torn' = TRUE
    /\ UNCHANGED heads

\* The head is linked and the fsync of its directory fails.
FailAfterHead(p) ==
    /\ pc[p] = "head"
    /\ HeadFree(p)
    /\ GiveUp(p)
    /\ heads' = heads \cup {NewHead(p)}
    /\ UNCHANGED torn

\* The manifest is not written: ErrProjection, with the event committed.
FailManifest(p) ==
    /\ pc[p] = "project"
    /\ pc' = [pc EXCEPT ![p] = "idle"]
    /\ op' = [op EXCEPT ![p] = NoEvent]
    /\ UNCHANGED <<flock, highest, disk, projection, epoch, cache, reading, committed, acked>>

\* The process dies: the kernel drops its lock, its memory is gone, and a line it was
\* writing may be cut short.
Crash(p) ==
    /\ flock = p
    /\ flock' = None
    /\ epoch' = [epoch EXCEPT ![p] = 0]
    /\ cache' = [cache EXCEPT ![p] = NoCache]
    /\ pc' = [pc EXCEPT ![p] = "idle"]
    /\ op' = [op EXCEPT ![p] = NoEvent]
    /\ torn' \in {torn, torn \/ pc[p] = "write"}
    /\ UNCHANGED <<highest, journal, synced, heads, projection, reading, committed, acked>>

-----------------------------------------------------------------------------
(* Readers: LoadManifest in a process that holds no lease.  The head is read *)
(* first, the journal after it, and a writer may be at work in between.      *)

ReadHead(r) ==
    /\ rpc[r] = "idle"
    /\ \E h \in heads : Latest(h) /\ rhead' = [rhead EXCEPT ![r] = h]
    /\ rpc' = [rpc EXCEPT ![r] = "scan"]
    /\ UNCHANGED <<flock, highest, disk, projection, epoch, cache, pc, op, rsnap, committed, acked>>

\* The reader's scan succeeds on what it finds.
ReaderScanOK(r) == AnchoredIn(rhead[r], journal) /\ WellFormed(journal)

ReadJournal(r) ==
    /\ rpc[r] = "scan"
    /\ ReaderScanOK(r)
    /\ rsnap' = [rsnap EXCEPT ![r] = journal]
    /\ rpc' = [rpc EXCEPT ![r] = "project"]
    /\ UNCHANGED <<flock, highest, disk, projection, epoch, cache, pc, op, rhead, committed, acked>>

WriteReadManifest(r) ==
    /\ rpc[r] = "project"
    /\ projection' = Projected(rsnap[r])
    /\ rpc' = [rpc EXCEPT ![r] = "idle"]
    /\ rsnap' = [rsnap EXCEPT ![r] = <<>>]
    /\ rhead' = [rhead EXCEPT ![r] = [seq |-> 0, event |-> NoEvent]]
    /\ UNCHANGED <<flock, highest, disk, epoch, cache, pc, op, committed, acked>>

-----------------------------------------------------------------------------

Init ==
    /\ flock = None /\ highest = 0
    /\ journal = <<>> /\ torn = FALSE /\ synced = 0 /\ heads = {}
    /\ projection = <<>>
    /\ epoch = [p \in Writers |-> 0]
    /\ cache = [p \in Writers |-> NoCache]
    /\ pc = [p \in Writers |-> "idle"]
    /\ op = [p \in Writers |-> NoEvent]
    /\ rpc = [r \in Readers |-> "idle"]
    /\ rhead = [r \in Readers |-> [seq |-> 0, event |-> NoEvent]]
    /\ rsnap = [r \in Readers |-> <<>>]
    /\ committed = {} /\ acked = {}

LeaseStep(p) == AcquireSessionLease(p) \/ Advance(p) \/ Release(p)

CommandStep(p) ==
    \/ \E c \in Cmd : StartCreate(p, c) \/ StartCommand(p, c) \/ ReplayCommand(p, c)
    \/ LoadManifest(p)

AppendStep(p) ==
    Truncate(p) \/ WriteLine(p) \/ SyncLine(p) \/ PublishHead(p) \/ WriteManifest(p)

Failure(p) ==
    \/ FailAppend(p) \/ FailShortWrite(p) \/ FailAfterHead(p)
    \/ FailManifest(p) \/ Crash(p)

WriterStep(p) == LeaseStep(p) \/ CommandStep(p) \/ AppendStep(p) \/ Failure(p)

ReaderStep(r) == ReadHead(r) \/ ReadJournal(r) \/ WriteReadManifest(r)

Next == (\E p \in Writers : WriterStep(p)) \/ (\E r \in Readers : ReaderStep(r))

Spec == Init /\ [][Next]_vars

-----------------------------------------------------------------------------
(* The machine loses power: every process dies and the lines that no fsync has *)
(* covered may be missing, or cut short, when it comes back.  Heads and epochs *)
(* are fsynced with their directory before they are used.                      *)

PowerLoss ==
    /\ \E n \in synced .. Len(journal) :
          /\ journal' = SubSeq(journal, 1, n)
          /\ torn' \in (IF n < Len(journal) THEN BOOLEAN ELSE {torn})
          /\ synced' = n
    /\ flock' = None
    /\ epoch' = [p \in Writers |-> 0]
    /\ cache' = [p \in Writers |-> NoCache]
    /\ pc' = [p \in Writers |-> "idle"]
    /\ op' = [p \in Writers |-> NoEvent]
    /\ rpc' = [r \in Readers |-> "idle"]
    /\ rhead' = [r \in Readers |-> [seq |-> 0, event |-> NoEvent]]
    /\ rsnap' = [r \in Readers |-> <<>>]
    /\ UNCHANGED <<highest, heads, projection, committed, acked>>

PowerLossSpec == Init /\ [][Next \/ PowerLoss]_vars

-----------------------------------------------------------------------------
(* Properties. *)

TypeOK ==
    /\ flock \in Writers \cup {None}
    /\ highest \in Nat
    /\ journal \in Seq(Event) /\ torn \in BOOLEAN
    /\ synced \in 0 .. Len(journal)
    /\ heads \subseteq JournalHead
    /\ projection \in Seq(Event)
    /\ epoch \in [Writers -> Nat]
    /\ cache \in [Writers -> [epoch : Nat, events : Seq(Event)]]
    /\ pc \in [Writers -> {"idle", "truncate", "write", "sync", "head", "project"}]
    /\ op \in [Writers -> Event]
    /\ rpc \in [Readers -> {"idle", "scan", "project"}]
    /\ rhead \in [Readers -> JournalHead]
    /\ rsnap \in [Readers -> Seq(Event)]
    /\ committed \subseteq Cmd /\ acked \subseteq Cmd

\* Every session that was ever created can be loaded: the latest head is anchored in
\* the journal, and the journal is contiguous, its epochs never fall and no command
\* occurs in it twice (scanJournal and the envelope checks of rebuildManifest).
JournalLoads == heads # {} => ScanOK

\* A command reported to the client as accepted is in the journal, whoever crashed or
\* took over since, and whether it was appended or answered from its receipt.
AckedRecorded == acked \subseteq Commands(journal)

\* A command whose append succeeded stays in the journal even when the machine loses
\* power: its line was fsynced before its head was published.
CommittedSurvives == committed \subseteq Commands(journal)

\* Between commits, the cache that a lease holder answers from is exactly the journal:
\* a stale one would truncate committed lines or renumber the next event.
CacheCoherent ==
    \A p \in Writers : CacheValid(p) /\ pc[p] = "idle" => cache[p].events = journal

\* A reader without a lease never reports a healthy session as damaged: what it reads
\* after the head still contains the event of that head.
ReaderNeverFails == \A r \in Readers : rpc[r] = "scan" => ReaderScanOK(r)

IsPrefixOf(s, t) == Len(s) <= Len(t) /\ \A i \in DOMAIN s : t[i] = s[i]

\* manifest.json always describes a prefix of the journal, also when a reader projects
\* an event whose head is not published yet.
ProjectionIsPrefix == IsPrefixOf(projection, journal)

\* Once a session exists no step removes or changes a complete line of its journal,
\* and a line is only ever added by the lock holder under the newest epoch.
FencedAppendOnly ==
    [][/\ heads # {} => IsPrefixOf(journal, journal')
       /\ Len(journal') > Len(journal) =>
             flock # None /\ journal'[Len(journal')].epoch = highest]_vars

\* The manifest on disk never goes back, whichever of two processes writes last.
ProjectionMonotone == [][Len(projection') >= Len(projection)]_vars

-----------------------------------------------------------------------------
(* The inductive invariant behind these properties. *)

\* The lock, the registered epoch and the newest epoch file belong to one process, and
\* only it has a commit in flight or a cache.
LeaseInv ==
    \A p \in Writers :
        /\ epoch[p] # 0 <=> flock = p
        /\ epoch[p] # 0 => epoch[p] = highest
        /\ pc[p] # "idle" => flock = p
        /\ cache[p].epoch # 0 => cache[p].epoch = epoch[p]

\* The journal is well formed at every moment, starts with the creation, and carries no
\* epoch that was not published.
JournalInv ==
    /\ WellFormed(journal)
    /\ \A i \in DOMAIN journal :
          /\ journal[i].cmd \in Cmd
          /\ journal[i].epoch \in 1 .. highest
          /\ journal[i].cmd \in CreateCmd <=> i = 1
    /\ \A h \in heads : AnchoredIn(h, journal)
    /\ heads = {} => Len(journal) <= 1

\* A valid cache is the journal without the line being committed.
CacheAgrees(p) ==
    CacheValid(p) =>
        /\ heads # {}
        /\ pc[p] \in {"idle", "truncate", "write", "project"} => cache[p].events = journal
        /\ pc[p] \in {"sync", "head"} => journal = Append(cache[p].events, op[p])

CacheInv == \A p \in Writers : CacheAgrees(p)

\* The event of a commit in flight continues the journal, or is the creation event of a
\* session that does not exist yet.
Continues(p) ==
    /\ CacheValid(p)
    /\ op[p].seq = Len(cache[p].events) + 1
    /\ op[p].cmd \notin Commands(cache[p].events)
    /\ op[p].cmd \notin CreateCmd

Creates(p) ==
    /\ ~CacheValid(p) /\ heads = {}
    /\ op[p].seq = 1
    /\ op[p].cmd \in CreateCmd
    /\ pc[p] = "write" => journal = <<>>
    /\ pc[p] \in {"sync", "head"} => journal = <<op[p]>>

OpFits(p) ==
    /\ pc[p] \in {"truncate", "write", "sync", "head"} =>
          /\ op[p].epoch = epoch[p]
          /\ op[p].cmd \in Cmd
          /\ Continues(p) \/ Creates(p)
    /\ pc[p] = "write" => ~torn
    /\ pc[p] = "project" => CacheValid(p) /\ op[p].cmd \in Commands(journal)

OpInv == \A p \in Writers : OpFits(p)

\* What was acknowledged, committed, projected or read is in the journal of a session
\* that exists.
HistoryInv ==
    /\ acked \subseteq Commands(journal) /\ committed \subseteq Commands(journal)
    /\ IsPrefixOf(projection, journal)
    /\ \A r \in Readers : IsPrefixOf(rsnap[r], journal)
    /\ \A r \in Readers : rpc[r] = "scan" => rhead[r] \in heads
    /\ heads = {} =>
          /\ acked = {} /\ committed = {} /\ projection = <<>>
          /\ \A r \in Readers : rsnap[r] = <<>>

CoreInv == TypeOK /\ LeaseInv /\ JournalInv /\ CacheInv /\ OpInv

JournalIInv == CoreInv /\ HistoryInv

\* What a power loss leaves of it: every head names a line that an fsync has covered,
\* and every committed command is on such a line.
DurableInv ==
    /\ \A h \in heads : h.seq <= synced
    /\ \A p \in Writers : pc[p] = "head" => synced = Len(journal)
    /\ \A c \in committed : \E i \in 1 .. synced : journal[i].cmd = c
    /\ heads = {} => committed = {}

PowerIInv == CoreInv /\ DurableInv

=============================================================================
