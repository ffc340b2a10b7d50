---------------------------- MODULE SessionStdio -----------------------------
(***************************************************************************)
(* A session attached to a client over stdin and stdout: the command loop   *)
(* (sessionstdio/command.go), the replay of the journal as frames           *)
(* (attachment.go), the goroutine that drives the run and the one that      *)
(* follows the journal (coordinator_runtime.go), the end of the process     *)
(* (cmd/yawr/session.go) and the client that puts frames together           *)
(* (sessionStdioClient.ts).  Process and client may die at any time, which  *)
(* cuts the stream in the middle of a group of frames; the next process     *)
(* starts from the sequence the client has kept.                            *)
(*                                                                         *)
(* Every journal event is one group of frames.  What the coordinator does   *)
(* is one step here (SessionCoordinator has the steps), what a frame says   *)
(* is SessionView's.                                                        *)
(***************************************************************************)
EXTENDS Naturals, Sequences

CONSTANTS CommandID,
          Types,                       \* what a client may send under each id
          MaxRun, MaxSeq, MaxEpoch     \* bounds: handoffs, driven events, attachments

VARIABLES
    jr,       \* the journal: sequence, active run (0: none), its status, receipts
    srv,      \* the process: command loop and attachment
    rt,       \* CoordinatorRuntime
    drv,      \* its drive goroutine
    fol,      \* its followJournal goroutine: "off", "on"
    broker,   \* runs with an interaction queue
    out, in,  \* the pipes: frames to the client, commands from it
    client,   \* SessionStdioClient
    sent      \* what each id was first used for: the client repeats the same command

vars == <<jr, srv, rt, drv, fol, broker, out, in, client, sent>>

Nil == 0
NoCommand == [id |-> Nil, type |-> "none", epoch |-> 0, expect |-> 0]
Detach == "detach"
Terminal == {"cancel", Detach, "close"}
Idle == [handle |-> FALSE, run |-> Nil, started |-> FALSE, driving |-> FALSE, stopped |-> FALSE,
         configure |-> FALSE, done |-> "none"]
Off == [pc |-> "off", last |-> 0, epoch |-> 0, held |-> FALSE, cmd |-> NoCommand,
        err |-> FALSE, final |-> FALSE, code |-> "none"]

----------------------------------------------------------------------------
(* Frames. *)

\* A group of frames, or a frame on its own; a group may be cut off.
Item(type, n, epoch) == [type |-> type, seq |-> n, epoch |-> epoch, whole |-> TRUE]
Groups(lo, hi, epoch) == [i \in 1..(hi - lo) |-> Item("group", lo + i, epoch)]
Single(type, n, epoch) == << Item(type, n, epoch) >>

Reading == client.st = "open"

\* Mutant: the position is the one the caller read, not the one under the lock.
ReplayFromCommand(j) ==
    LET from == IF srv.cmd.id = Nil THEN srv.last ELSE srv.cmd.expect IN
    IF Reading THEN out \o Groups(from, j.seq, srv.epoch) ELSE out

\* Attachment.Replay, under replayMu and writeMu: everything after lastSequence.
Replayed(j) == IF Reading THEN out \o Groups(srv.last, j.seq, srv.epoch) ELSE out

----------------------------------------------------------------------------
(* The coordinator, and the engine below it. *)

Receipt(j, id) == [j EXCEPT !.rec = [c \in DOMAIN @ |-> IF c = id THEN j.seq ELSE @[c]]]
Committed(n, run, st) == [jr EXCEPT !.seq = @ + n, !.run = run, !.st = st]

\* detachCommand: the run pauses at its boundary, or a call in flight makes it indeterminate.
\* Without the session lease, and without an active run, nothing is committed.
CoordinatorDetaches(id, j) ==
    /\ srv.held
    /\ \/ jr.st = "running" /\ j \in {Receipt(Committed(2, jr.run, "paused"), id),
                                      Receipt(Committed(2, jr.run, "indeterminate"), id)}
       \/ jr.st \in {"paused", "handoff", "indeterminate"} /\ j = Receipt(Committed(1, jr.run, jr.st), id)
       \/ jr.run = Nil /\ ~rt.handle /\ j = Receipt(Committed(1, Nil, jr.st), id)

\* CancelCommand: a run that has ended leaves no receipt.
CoordinatorCancels(id, j) ==
    /\ srv.held /\ jr.st = "running"
    /\ j \in {Receipt(Committed(1, Nil, "cancelled"), id),
              Receipt(Committed(1, jr.run, "indeterminate"), id)}

\* CloseInvestigationCommand, CloseAttached.
CoordinatorCloses(id, j) ==
    /\ srv.held /\ jr.st \notin {"running", "indeterminate", "closed"}
    /\ j = Receipt(Committed(1, Nil, "closed"), id)

\* ResumeAttached: a paused run runs again, a pending handoff is committed first.
CoordinatorResumes(id, j) ==
    /\ srv.held
    /\ \/ jr.st \in {"paused", "running"} /\ j = Receipt(Committed(1, jr.run, "running"), id)
       \/ jr.st = "handoff" /\ jr.run < MaxRun /\ j = Receipt(Committed(2, jr.run + 1, "running"), id)

----------------------------------------------------------------------------
(* The process begins. *)

\* sessionStartMain, Adopt and StartAttached.
StartSession(configure) ==
    /\ jr.seq = 0 /\ srv.pc = "off" /\ client.st = "new"
    /\ jr' = [jr EXCEPT !.seq = 1, !.run = 1, !.st = "running"]
    /\ srv' = [Off EXCEPT !.pc = "read", !.last = 1, !.epoch = 1, !.held = TRUE]
    /\ rt' = [Idle EXCEPT !.handle = TRUE, !.run = 1, !.started = TRUE, !.driving = ~configure,
                          !.configure = configure]
    /\ drv' = [pc |-> IF configure THEN "off" ELSE "next", run |-> Nil, eof |-> FALSE]
    /\ fol' = "on" /\ broker' = {1}
    /\ out' = Groups(0, 1, 1) \o Single("hello", 1, 1)
    /\ client' = [client EXCEPT !.st = "open"] /\ UNCHANGED in

\* ReconcileAttached: a run left running by a dead process is resumed and paused, or found
\* indeterminate, and the epoch moves on; AttachReconciled then replays, or greets.
AttachReconciled ==
    /\ jr.seq > 0 /\ srv.pc = "off" /\ client.st = "new"
    /\ srv.epoch + 1 < MaxEpoch
    /\ \E st \in IF jr.st = "running" THEN {"paused", "indeterminate"} ELSE {jr.st} :
         LET orphan == jr.st = "running"
             j == [jr EXCEPT !.st = st, !.seq = IF orphan THEN @ + 2 ELSE @]
             epoch == srv.epoch + (IF orphan THEN 2 ELSE 1) IN
         /\ jr' = j
         /\ srv' = [Off EXCEPT !.pc = "read", !.last = j.seq, !.epoch = epoch, !.held = TRUE]
         /\ out' = IF client.accepted = j.seq THEN Single("hello", j.seq, epoch)
                   ELSE Groups(client.accepted, j.seq, epoch)
    /\ rt' = Idle /\ drv' = [pc |-> "off", run |-> Nil, eof |-> FALSE] /\ fol' = "off" /\ broker' = {}
    /\ client' = [client EXCEPT !.st = "open"] /\ UNCHANGED in

----------------------------------------------------------------------------
(* Serve: one command after another. *)

Fails(s) == [s EXCEPT !.pc = "finish", !.err = TRUE, !.cmd = NoCommand]
Exits(s, code) == [s EXCEPT !.pc = "gone", !.code = code, !.held = FALSE]
EndsDetached(s) == Exits(s, "success")

Superseded(id) == \E c \in CommandID : jr.rec[c] > jr.rec[id]
NeedsRecovery == jr.run # Nil /\ jr.st \in {"running", "paused", "handoff"}

\* The protocol error carries the position the attachment has reached.
Refusal ==
    /\ srv' = Fails(srv)
    /\ out' = IF Reading THEN out \o Single("error", srv.last, srv.epoch) ELSE out
    /\ UNCHANGED <<jr, rt, drv, fol>>

ServeRefuses == Refusal /\ UNCHANGED broker

\* HandleCommand refuses what was decided on an older state of the session.
ExpectsOther(cmd) == cmd.expect # jr.seq

\* A command whose receipt is in the journal is not executed again; only a resume, or a
\* configuration, finds its runtime again.
ServeRepeats(cmd) ==
    /\ jr.rec[cmd.id] > 0
    /\ IF \/ cmd.type = "resume" /\ ~Superseded(cmd.id) /\ NeedsRecovery
          \/ cmd.type = "configure"
       THEN srv' = [srv EXCEPT !.pc = "op", !.cmd = cmd] /\ UNCHANGED out
       ELSE /\ out' = Replayed(jr)
            /\ srv' = LET s == [srv EXCEPT !.last = jr.seq] IN
                      IF ~Reading THEN Fails(srv)
                      ELSE IF cmd.type \in Terminal /\ ~Superseded(cmd.id) THEN EndsDetached(s) ELSE s
    /\ UNCHANGED <<jr, rt, drv, fol, broker>>

ServeReads ==
    /\ srv.pc = "read" /\ in # <<>>
    /\ in' = Tail(in)
    /\ LET cmd == Head(in) IN
       \/ cmd.epoch # srv.epoch /\ ServeRefuses
       \/ cmd.epoch = srv.epoch /\ ServeRepeats(cmd)
       \/ /\ cmd.epoch = srv.epoch /\ jr.rec[cmd.id] = 0
          /\ IF ExpectsOther(cmd) THEN ServeRefuses
             ELSE srv' = [srv EXCEPT !.pc = "op", !.cmd = cmd]
                  /\ UNCHANGED <<jr, rt, drv, fol, broker, out>>
    /\ UNCHANGED client

\* The input is at its end, or the process was told to stop.
ServeEnds ==
    /\ srv.pc = "read" /\ in = <<>> /\ ~Reading
    /\ srv' = [srv EXCEPT !.pc = "finish", !.cmd = NoCommand]
    /\ UNCHANGED <<jr, rt, drv, fol, broker, out, in, client>>

\* answer, and configure, whose receipt starts the drive however it came about.
OpCommits ==
    /\ srv.pc = "op" /\ srv.cmd.type \in {"answer", "configure"}
    /\ LET first == jr.rec[srv.cmd.id] = 0
           allowed == /\ rt.handle /\ ~rt.stopped /\ jr.st = "running" /\ srv.held
                      /\ srv.cmd.type = "configure" => rt.configure /\ rt.started /\ ~rt.driving
           starts == srv.cmd.type = "configure" /\ ~rt.driving /\ ~rt.stopped IN
       IF (first /\ ~allowed) \/ (~first /\ starts /\ ~rt.started) THEN ServeRefuses
       ELSE /\ jr' = IF first THEN Receipt(Committed(1, jr.run, jr.st), srv.cmd.id) ELSE jr
            /\ rt' = [rt EXCEPT !.driving = @ \/ starts]
            /\ drv' = IF starts THEN [drv EXCEPT !.pc = "next"] ELSE drv
            /\ srv' = [srv EXCEPT !.pc = "reply"]
            /\ UNCHANGED <<fol, broker, out>>
    /\ UNCHANGED <<in, client>>

\* resume holds the runtime's mutex throughout.  The run it found has a queue before the
\* coordinator is called, and none when the coordinator refuses or hands off; a drive that
\* has failed and still has to say so does.
OpResumes ==
    /\ srv.pc = "op" /\ srv.cmd.type = "resume"
    /\ IF rt.started /\ ~rt.stopped
       THEN IF jr.rec[srv.cmd.id] > 0
            THEN srv' = [srv EXCEPT !.pc = "reply"] /\ UNCHANGED <<jr, rt, drv, fol, broker, out>>
            ELSE ServeRefuses
       ELSE \/ /\ jr.run # Nil
               /\ \E j \in {Receipt(Committed(1, jr.run, "running"), srv.cmd.id),
                            Receipt(Committed(2, jr.run + 1, "running"), srv.cmd.id)} :
                    /\ CoordinatorResumes(srv.cmd.id, j)
                    /\ jr' = j /\ broker' = (broker \ {jr.run}) \cup {j.run}
                    /\ rt' = [rt EXCEPT !.handle = TRUE, !.run = j.run, !.started = TRUE,
                                        !.driving = TRUE, !.stopped = FALSE,
                                        !.done = IF drv.pc = "failed" THEN "error" ELSE @]
                    /\ drv' = [pc |-> "next", run |-> Nil, eof |-> FALSE] /\ fol' = "on"
               /\ srv' = [srv EXCEPT !.pc = "reply"]
               /\ UNCHANGED out
            \/ /\ jr.run = Nil \/ jr.st = "indeterminate" \/ ~srv.held
               /\ Refusal /\ broker' = broker \ {jr.run}
    /\ UNCHANGED <<in, client>>

\* detach and cancelSession say first that the runtime stops ...
OpStops ==
    /\ srv.pc = "op" /\ srv.cmd.type \in {Detach, "cancel"}
    /\ IF srv.cmd.type = "cancel" /\ ~rt.handle THEN ServeRefuses
       ELSE /\ rt' = [rt EXCEPT !.stopped = TRUE]
            /\ srv' = [srv EXCEPT !.pc = "settle"]
            /\ UNCHANGED <<jr, drv, fol, broker, out>>
    /\ UNCHANGED <<in, client>>

\* ... and unregister the run once the coordinator is done; a failed cancel leaves that to
\* the drive.
OpSettles ==
    /\ srv.pc = "settle"
    /\ LET id == srv.cmd.id
           settles(j) == IF srv.cmd.type = Detach THEN CoordinatorDetaches(id, j)
                         ELSE CoordinatorCancels(id, j)
           outcomes == {j \in {Receipt(Committed(n, run, st), id) : n \in 1..2, run \in {Nil, jr.run},
                                st \in {"paused", "handoff", "indeterminate", "cancelled", jr.st}} : settles(j)} IN
       IF outcomes = {}
       THEN /\ broker' = IF srv.cmd.type = Detach THEN broker \ {rt.run} ELSE broker
            /\ fol' = IF srv.cmd.type = Detach THEN "off" ELSE fol
            /\ srv' = Fails(srv) /\ UNCHANGED jr
       ELSE /\ jr' \in outcomes
            /\ broker' = broker \ {rt.run} /\ fol' = "off"
            /\ srv' = [srv EXCEPT !.pc = "reply"]
    /\ UNCHANGED <<rt, drv, out, in, client>>

OpCloses ==
    /\ srv.pc = "op" /\ srv.cmd.type = "close"
    /\ LET j == Receipt(Committed(1, Nil, "closed"), srv.cmd.id) IN
       IF CoordinatorCloses(srv.cmd.id, j)
       THEN jr' = j /\ srv' = [srv EXCEPT !.pc = "reply"]
       ELSE srv' = Fails(srv) /\ UNCHANGED jr
    /\ UNCHANGED <<rt, drv, fol, broker, out, in, client>>

\* The receipt is looked up, the journal replayed, and a terminal command ends the attachment.
ServeReplies ==
    /\ srv.pc = "reply"
    /\ out' = Replayed(jr)
    /\ LET s == [srv EXCEPT !.last = jr.seq, !.cmd = NoCommand, !.pc = "read"]
           ended == srv.cmd.type \in Terminal IN
       srv' = IF srv.final THEN Exits(srv, IF srv.err \/ ~Reading THEN "runtime" ELSE "success")
              ELSE IF ~Reading THEN Fails([srv EXCEPT !.held = @ /\ ~ended])
              ELSE IF ended THEN EndsDetached(s) ELSE s
    /\ UNCHANGED <<jr, rt, drv, fol, broker, in, client>>

\* Mutant: the process ends as soon as its input does.
ExitAtOnce ==
    /\ srv.pc = "finish" /\ ~srv.final
    /\ srv' = Exits(srv, IF srv.err THEN "runtime" ELSE "success")
    /\ UNCHANGED <<jr, rt, drv, fol, broker, out, in, client>>

\* finishSessionAttachment: a run still active is detached, as often as the journal moves
\* on between the look at it and the command.
finishSessionAttachment ==
    /\ srv.pc = "finish" /\ ~srv.final
    /\ srv' = IF jr.run = Nil THEN Exits(srv, IF srv.err THEN "runtime" ELSE "success")
              ELSE [srv EXCEPT !.pc = "op", !.final = TRUE,
                               !.cmd = [id |-> Nil, type |-> Detach, epoch |-> srv.epoch, expect |-> jr.seq]]
    /\ UNCHANGED <<jr, rt, drv, fol, broker, out, in, client>>

\* The last detach failed, or the runtime reported an error: the process gives up.
ServeGivesUp ==
    /\ \/ srv.pc = "finish" /\ srv.final
       \/ srv.pc \in {"read", "finish"} /\ rt.done = "error"
    /\ srv' = Exits(srv, "runtime")
    /\ UNCHANGED <<jr, rt, drv, fol, broker, out, in, client>>

----------------------------------------------------------------------------
(* The goroutines of the runtime. *)

Alive == srv.pc \notin {"off", "gone"}

\* Handle.Next commits a step, hands off to the next run, or finds that the run has stopped.
DriveNext ==
    /\ Alive /\ drv.pc = "next"
    /\ \/ /\ jr.st = "running" /\ srv.held /\ jr.seq < MaxSeq
          /\ \/ jr' = Committed(1, jr.run, "running") /\ drv' = [drv EXCEPT !.pc = "sync"]
             \/ jr.run < MaxRun /\ jr' = Committed(2, jr.run + 1, "running") /\ drv' = [drv EXCEPT !.pc = "sync"]
             \/ jr' = Committed(1, jr.run, "handoff") /\ drv' = [drv EXCEPT !.pc = "fail"]
             \/ jr' = Committed(1, Nil, "done") /\ drv' = [drv EXCEPT !.pc = "sync", !.eof = TRUE]
             \/ jr' = Committed(1, jr.run, "indeterminate") /\ drv' = [drv EXCEPT !.pc = "fail"]
       \/ /\ jr.st # "running" \/ ~srv.held
          /\ UNCHANGED jr
          /\ \/ drv' = [drv EXCEPT !.pc = "sync", !.eof = TRUE]
             \/ drv' = [drv EXCEPT !.pc = "fail"]
    /\ UNCHANGED <<srv, rt, fol, broker, out, in, client>>

\* synchronizeActiveRun: the queue of the new run is there before the runtime names it.
DriveRegisters ==
    /\ Alive /\ drv.pc = "sync"
    /\ IF jr.run = Nil \/ rt.stopped \/ jr.run = rt.run
       THEN drv' = [drv EXCEPT !.pc = "replay"] /\ UNCHANGED broker
       ELSE broker' = broker \cup {jr.run} /\ drv' = [drv EXCEPT !.pc = "bind", !.run = jr.run]
    /\ UNCHANGED <<jr, srv, rt, fol, out, in, client>>

\* Mutant: whether the runtime was stopped meanwhile is not looked at again.
DriveBindsAnyway ==
    /\ Alive /\ drv.pc = "bind"
    /\ rt' = [rt EXCEPT !.run = drv.run] /\ broker' = broker \ {rt.run}
    /\ drv' = [drv EXCEPT !.pc = "replay"]
    /\ UNCHANGED <<jr, srv, fol, out, in, client>>

DriveBinds ==
    /\ Alive /\ drv.pc = "bind"
    /\ IF rt.stopped
       THEN broker' = broker \ {drv.run} /\ drv' = [drv EXCEPT !.pc = "fail"] /\ UNCHANGED rt
       ELSE /\ rt' = [rt EXCEPT !.run = drv.run] /\ broker' = broker \ {rt.run}
            /\ drv' = [drv EXCEPT !.pc = "replay"]
    /\ UNCHANGED <<jr, srv, fol, out, in, client>>

DriveReplays ==
    /\ Alive /\ drv.pc = "replay"
    /\ out' = Replayed(jr)
    /\ srv' = IF Reading THEN [srv EXCEPT !.last = jr.seq] ELSE srv
    /\ drv' = [drv EXCEPT !.pc = IF ~Reading THEN "lost" ELSE IF drv.eof THEN "end" ELSE "next"]
    /\ UNCHANGED <<jr, rt, fol, broker, in, client>>

\* The end of drive: an error ends the process, an ended run leaves it serving.
DriveStops ==
    /\ Alive /\ drv.pc \in {"end", "fail"}
    /\ drv' = [drv EXCEPT !.pc = IF rt.stopped THEN "quiet" ELSE IF drv.pc = "end" THEN "ended" ELSE "failed", !.run = rt.run]
    /\ rt' = [rt EXCEPT !.stopped = TRUE]
    /\ UNCHANGED <<jr, srv, fol, broker, out, in, client>>

DriveUnregisters ==
    /\ Alive /\ drv.pc \in {"ended", "failed", "quiet"}
    /\ broker' = broker \ {drv.run}
    /\ drv' = [drv EXCEPT !.pc = "off"]
    /\ rt' = [rt EXCEPT !.done = IF drv.pc = "failed" THEN "error" ELSE @]
    /\ fol' = IF drv.pc = "quiet" THEN fol ELSE "off"
    /\ UNCHANGED <<jr, srv, out, in, client>>

\* failTransport, from drive or from followJournal: detach, unregister, release.
FailTransport ==
    /\ drv' = IF drv.pc = "lost" THEN [drv EXCEPT !.pc = "off"] ELSE drv
    /\ fol' = "off"
    /\ IF rt.stopped THEN UNCHANGED <<jr, srv, rt, broker>>
       ELSE /\ rt' = [rt EXCEPT !.stopped = TRUE, !.done = "error"]
            /\ jr' = IF rt.handle /\ srv.held /\ jr.st = "running" THEN Committed(2, jr.run, "paused") ELSE jr
            /\ broker' = broker \ {rt.run}
            /\ srv' = [srv EXCEPT !.held = FALSE]
    /\ UNCHANGED <<out, in, client>>

DriveLosesTransport == Alive /\ drv.pc = "lost" /\ FailTransport

Follow ==
    /\ Alive /\ fol = "on" /\ jr.seq > srv.last
    /\ IF Reading
       THEN /\ out' = Replayed(jr) /\ srv' = [srv EXCEPT !.last = jr.seq]
            /\ UNCHANGED <<jr, rt, drv, fol, broker, in, client>>
       ELSE FailTransport

\* The process dies, or is gone: what it had not written, and a part of what it had, is lost.
ProcessEnds ==
    /\ srv.pc # "off"
    /\ srv' = [Off EXCEPT !.epoch = srv.epoch]
    /\ rt' = Idle /\ drv' = [pc |-> "off", run |-> Nil, eof |-> FALSE] /\ fol' = "off" /\ broker' = {}
    /\ IF srv.pc = "gone" \/ out = <<>> THEN UNCHANGED out
       ELSE \E n \in 1..Len(out), whole \in BOOLEAN :
              out' = Append(SubSeq(out, 1, n - 1), [out[n] EXCEPT !.whole = whole])
    /\ in' = <<>> /\ UNCHANGED <<jr, client>>

----------------------------------------------------------------------------
(* The client. *)

ClientFails(why) == client' = [client EXCEPT !.st = "off", !.fault = why, !.epoch = 0]

\* acceptFrame; a group that is cut off ends with the stream.
ClientReads ==
    /\ Reading /\ out # <<>>
    /\ out' = Tail(out)
    /\ LET f == Head(out) IN
       \/ ~f.whole /\ ClientFails("ended")
       \/ f.type = "error" /\ f.whole /\ ClientFails("refused")
       \/ /\ f.type = "hello" /\ f.whole
          /\ IF f.seq = client.accepted
             THEN client' = [client EXCEPT !.epoch = f.epoch]
             ELSE ClientFails("broken")
       \/ /\ f.type = "group" /\ f.whole
          /\ IF f.seq # client.accepted + 1
             THEN ClientFails("broken")
             ELSE client' = [client EXCEPT !.accepted = f.seq, !.epoch = f.epoch]
    /\ UNCHANGED <<jr, srv, rt, drv, fol, broker, in>>

\* The stream ended, with or without a group half received.
ClientSeesEnd ==
    /\ Reading /\ out = <<>> /\ srv.pc = "off"
    /\ ClientFails("ended")
    /\ UNCHANGED <<jr, srv, rt, drv, fol, broker, out, in>>

\* send: a new command, or an old one once more, on what the client has accepted.
ClientSends(id) ==
    /\ Reading /\ client.epoch > 0 /\ client.accepted > 0 /\ Len(in) < 1
    /\ \E type \in IF sent[id] = "none" THEN Types[id] ELSE {sent[id]} :
         /\ sent' = [sent EXCEPT ![id] = type]
         /\ in' = Append(in, [id |-> id, type |-> type, epoch |-> client.epoch,
                              expect |-> client.accepted])
    /\ UNCHANGED <<jr, srv, rt, drv, fol, broker, out, client>>

\* dispose.
ClientCloses ==
    /\ Reading
    /\ ClientFails("closed")
    /\ UNCHANGED <<jr, srv, rt, drv, fol, broker, out, in>>

\* A new client, from the sequence the cache holds.
Reopen ==
    /\ client.st = "off" /\ srv.pc = "off"
    /\ \E after \in {0, client.accepted} :
         client' = [st |-> "new", accepted |-> after, epoch |-> 0, fault |-> "none"]
    /\ out' = <<>>
    /\ UNCHANGED <<jr, srv, rt, drv, fol, broker, in>>

----------------------------------------------------------------------------

Init ==
    /\ jr = [seq |-> 0, run |-> Nil, st |-> "none", rec |-> [c \in CommandID |-> 0]]
    /\ srv = Off /\ rt = Idle /\ drv = [pc |-> "off", run |-> Nil, eof |-> FALSE] /\ fol = "off"
    /\ broker = {} /\ out = <<>> /\ in = <<>>
    /\ sent = [c \in CommandID |-> "none"]
    /\ client = [st |-> "new", accepted |-> 0, epoch |-> 0, fault |-> "none"]

ServerNext ==
    \/ \E configure \in BOOLEAN : StartSession(configure)
    \/ AttachReconciled \/ ServeReads \/ ServeEnds \/ OpCommits \/ OpResumes \/ OpStops \/ OpSettles
    \/ OpCloses \/ ServeReplies \/ finishSessionAttachment \/ ServeGivesUp
    \/ DriveNext \/ DriveRegisters \/ DriveBinds \/ DriveReplays \/ DriveStops \/ DriveUnregisters
    \/ DriveLosesTransport \/ Follow \/ ProcessEnds

ClientNext ==
    ClientReads \/ ClientSeesEnd \/ ClientCloses \/ Reopen

Next ==
    \/ (ServerNext \/ ClientNext) /\ UNCHANGED sent
    \/ \E id \in CommandID : ClientSends(id)

Spec == Init /\ [][Next]_vars

----------------------------------------------------------------------------

\* However the goroutines interleave and the process is replaced, the client receives every
\* group whole, once and in order: it never gives up because of the stream itself.
StreamUnbroken == client.fault # "broken"

\* A process that reports success leaves no run behind that the journal still calls running.
OrderlyExit == srv.pc = "gone" /\ srv.code = "success" => jr.st # "running"

\* The run that is driven has a queue to ask its operator with, and no queue outlives a
\* runtime that has stopped with all its goroutines.
QueueFollowsRun ==
    Alive => /\ rt.started /\ ~rt.stopped => rt.run \in broker
             /\ rt.stopped /\ drv.pc = "off" /\ srv.pc = "read" /\ rt.started => broker = {}
=============================================================================
