------------------------------ MODULE MCSessions ------------------------------
(***************************************************************************)
(* The parts of a session around its journal, each on a small instance: a   *)
(* behaviour picks one of them and runs it.  Only that one moves, so that   *)
(* the parts share the variables x1 .. x17.                                 *)
(***************************************************************************)
EXTENDS Naturals, Sequences, TLC

CONSTANTS m1, m2, n1, n2, t1, c1, c2, c3, None

VARIABLES part, x1, x2, x3, x4, x5, x6, x7, x8, x9, x10, x11, x12, x13, x14, x15, x16, x17

\* One process after another attaches to a session of two runs.
C == INSTANCE SessionCoordinator WITH
       Process <- {1}, Runs <- 2, MaxEpoch <- 3, MaxSteps <- 2,
       journal <- x1, sessionLease <- x2, runStore <- x3, proc <- x4

\* Two commands of a client, each sent as often as it likes, to two processes.
T == INSTANCE SessionStdio WITH
       CommandID <- {1, 2}, MaxRun <- 2, MaxSeq <- 2, MaxEpoch <- 2,
       Types <- <<{"detach", "cancel", "close"}, {"resume", "configure"}>>,
       jr <- x1, srv <- x2, rt <- x3, drv <- x4, fol <- x5, broker <- x6, out <- x7, in <- x8,
       client <- x9, sent <- x10

\* Two segments, the handoff between them and two revisions of a graph.
V == INSTANCE SessionView WITH
       Segment <- {m1, m2}, Transition <- {t1}, MaxCheckpoint <- 0, MaxTrace <- 1,
       MaxRevision <- 2, MaxLog <- 4,
       status <- x1, activeSegment <- x2, activeRun <- x3, segment <- x4, ordinal <- x5,
       revision <- x6, attempt <- x7, checkpoint <- x8, committedTrace <- x9,
       journaledTrace <- x10, transition <- x11, damaged <- x12, log <- x13, filter <- x14,
       view <- x15, writer <- x16, disk <- x17

\* Two waiters, and three events of which two have the same id.
Events == {[key |-> 1, id |-> "a", source |-> "s"], [key |-> 2, id |-> "a", source |-> "t"],
           [key |-> 3, id |-> "b", source |-> "s"]}
D == INSTANCE EventDispatcher WITH
       WaitCall <- {1, 2}, WaitRun <- {"run"}, EventID <- {"a", "b"}, EventSource <- {"s", "t"},
       InboundEvent <- Events,
       waiters <- x1, pendingEvents <- x2, waitCall <- x3, arrived <- x4

\* Three turns, a queue that remembers three frames, and a channel with room for one more.
I == INSTANCE InteractionStream WITH
       Turn <- 1..3, Client <- {1}, BufSize <- 3, Slack <- 1, MaxConnect <- 3,
       pending <- x1, asked <- x2, nextID <- x3, history <- x4, closed <- x5, stream <- x6,
       shown <- x7, last <- x8, lost <- x9, connects <- x10

\* Two writers of one session whose machine may lose power.
J == INSTANCE SessionJournal WITH
       Writers <- {n1, n2}, Readers <- {}, Cmd <- {c1, c2, c3}, CreateCmd <- {c1}, MaxEpoch <- 3,
       flock <- x1, highest <- x2, journal <- x3, torn <- x4, synced <- x5, heads <- x6,
       projection <- x7, epoch <- x8, cache <- x9, pc <- x10, op <- x11, rpc <- x12, rhead <- x13,
       rsnap <- x14, committed <- x15, acked <- x16

x == <<x1, x2, x3, x4, x5, x6, x7, x8, x9, x10, x11, x12, x13, x14, x15, x16, x17>>
from5 == <<x5, x6, x7, x8, x9, x10, x11, x12, x13, x14, x15, x16, x17>>
from11 == <<x11, x12, x13, x14, x15, x16, x17>>
from17 == <<x17>>

\* The variables from the n-th on are not used.
Idle(n) ==
    /\ (n <= 1 => x1 = 0) /\ (n <= 2 => x2 = 0) /\ (n <= 3 => x3 = 0) /\ (n <= 4 => x4 = 0)
    /\ (n <= 5 => x5 = 0) /\ (n <= 6 => x6 = 0) /\ (n <= 7 => x7 = 0) /\ (n <= 8 => x8 = 0)
    /\ (n <= 9 => x9 = 0) /\ (n <= 10 => x10 = 0) /\ (n <= 11 => x11 = 0) /\ (n <= 12 => x12 = 0)
    /\ (n <= 13 => x13 = 0) /\ (n <= 14 => x14 = 0) /\ (n <= 15 => x15 = 0) /\ (n <= 16 => x16 = 0)
    /\ (n <= 17 => x17 = 0)

Init ==
    \/ part = "coordinator" /\ C!Init /\ Idle(5)
    \/ part = "stdio" /\ T!Init /\ Idle(11)
    \/ part = "view" /\ V!Init
    \/ part = "events" /\ D!Init /\ Idle(5)
    \/ part = "interactions" /\ I!Init /\ Idle(11)
    \/ part = "power" /\ J!Init /\ Idle(17)

Next ==
    /\ UNCHANGED part
    /\ \/ part = "coordinator" /\ C!Next /\ UNCHANGED from5
       \/ part = "stdio" /\ T!Next /\ UNCHANGED from11
       \/ part = "view" /\ V!Next
       \/ part = "events" /\ D!Next /\ UNCHANGED from5
       \/ part = "interactions" /\ I!Next /\ UNCHANGED from11
       \/ part = "power" /\ (J!Next \/ J!PowerLoss) /\ UNCHANGED from17

Spec == Init /\ [][Next]_<<part, x>>

Symmetry == Permutations({m1, m2}) \cup Permutations({n1, n2})

----------------------------------------------------------------------------

\* Whatever failed before, a run goes on from a checkpoint that the journal has.
DrivesCommitted == part = "coordinator" => C!DrivesCommitted

\* A handoff takes effect once, wherever it was interrupted.
HandoffOnce == part = "coordinator" => C!HandoffOnce

\* The client receives every group of frames whole, once and in order.
StreamUnbroken == part = "stdio" => T!StreamUnbroken

\* A process that reports success leaves no run behind that the journal calls
\* running; the run that is driven has a queue, and no queue outlives a stopped
\* runtime.
OrderlyExit == part = "stdio" => T!OrderlyExit /\ T!QueueFollowsRun

\* After group n the editor believes what the manifest said after event n, and
\* it refuses nothing that the runtime sends and nothing that it cached itself.
ViewAgrees == part = "view" => V!ViewAgrees /\ V!ViewNeverRefuses

\* An event is pending or with one step that wants it.
EventsConserved == part = "events" => D!EventsConserved

\* A client of the interactions stream that has read everything shows the open turns.
StreamFaithful == part = "interactions" => I!StreamFaithful

\* A command whose append succeeded stays in the journal even when the machine
\* loses power.
CommittedSurvives == part = "power" => J!CommittedSurvives
=============================================================================
