----------------------------- MODULE ServedRuns -----------------------------
(***************************************************************************)
(* One run behind the HTTP server: the requests that start, step, cancel,   *)
(* resume and delete it, the pump that moves its engine events into the     *)
(* event bridge, the bridge's replay buffer and subscribers, the clients    *)
(* that follow the run over /events, /ws and /runs/{id}/state, and the      *)
(* server's shutdown.  The prompts of a run are in PromptBroker.            *)
(*                                                                          *)
(* The engine is the sequence of step events Script, cut into calls of Next *)
(* at the events that end a step.  A broadcast takes the bridge's lock three*)
(* times, and every stream subscribes and replays in two critical sections. *)
(***************************************************************************)
EXTENDS Integers, Sequences, SequencesExt

CONSTANTS
    Script,         \* the step events of the run: [kind, step, index]
    Clients,        \* the streams that follow it
    HistorySize,    \* bound: events kept for replay
    BufferSize,     \* bound: events that wait for one client
    EngineBuffer,   \* bound: events that wait for the pump
    Kinds,          \* streams: "sse" for /events, "ws", "state" for /runs/{id}/state
    Requests,       \* what else happens to the run: "cancel", "delete", "gc", "stop"
    Modes,          \* "rpc": stepped by run.next, "auto": advanced by POST /runs
    MaxConnects,    \* bound: connections of one client
    MaxStarts       \* bound: handles of the run

VARIABLES
    engine,     \* the run's handle: status, position in Script, sequence, event channel
    disk,       \* the status of the run in the store, "none" without a directory
    entry,      \* the registry's entry
    ctx,        \* the context of the pump and the advancer is live
    driver,     \* the call of Next: of run.next, or of the goroutine that advances the run
    pump,       \* the pump and the event it holds
    bridge,     \* replay buffer, every event ever added to it, and whether it is closed
    conn,       \* client -> its connection
    request,    \* the requests that start or resume, cancel and delete the run
    server      \* the shutdown of the server

vars == <<engine, disk, entry, ctx, driver, pump, bridge, conn, request, server>>

Terminal == {"completed", "failed", "cancelled"}
\* isStoppedState; a served run never pauses at a route-test boundary.
Stopped == Terminal \cup {"indeterminate"}
TerminalEvent == {"run/completed", "run/failed", "run/cancelled"}
EndsStep == {"step/completed", "step/skipped"}

NoEvent == [seq |-> 0, kind |-> "none", step |-> 0, index |-> 0]
NoEntry == [present |-> FALSE, state |-> "none", completed |-> FALSE]
Serving == server \in {"up", "close"}

----------------------------------------------------------------------------
(* The overlay that follows a run: runstate.State                           *)

EmptyState == [status |-> "pending", sequence |-> 0, current |-> 0, nodes |-> << >>]

NewNode == [status |-> "pending", attempt |-> 0, iteration |-> 0, records |-> << >>]
nodeOrNew(s, id) == IF id \in DOMAIN s.nodes THEN s.nodes[id] ELSE NewNode
SetNode(s, id, n) == [s EXCEPT !.nodes = [i \in DOMAIN @ \cup {id} |-> IF i = id THEN n ELSE @[i]]]
Finished(s, id) == [s EXCEPT !.current = IF @ = id THEN 0 ELSE @]

\* One record for each iteration, in the order in which the iterations were first seen.
upsertIterationRecord(records, rec) ==
    IF \E i \in DOMAIN records : records[i].index = rec.index
    THEN [i \in DOMAIN records |-> IF records[i].index = rec.index THEN rec ELSE records[i]]
    ELSE Append(records, rec)

ApplyRun(s, ev) ==
    CASE ev.kind = "run/started" -> [s EXCEPT !.status = "running"]
      [] ev.kind = "run/completed" -> [s EXCEPT !.status = "completed", !.current = 0]
      [] ev.kind = "run/failed" -> [s EXCEPT !.status = "failed", !.current = 0]
      [] ev.kind = "run/cancelled" -> [s EXCEPT !.status = "cancelled", !.current = 0]
      [] OTHER -> s

ApplyStep(s, ev) ==
    LET n == nodeOrNew(s, ev.step)
        Begun(m) == [SetNode(s, ev.step, m) EXCEPT !.current = ev.step]
    IN  CASE ev.kind = "step/started" -> Begun([n EXCEPT !.status = "running", !.attempt = @ + 1])
          [] ev.kind = "step/resumed" -> Begun([n EXCEPT !.status = "running"])
          [] ev.kind = "step/delaying" -> Begun([n EXCEPT !.status = "delaying"])
          [] ev.kind = "step/completed" -> Finished(SetNode(s, ev.step, [n EXCEPT !.status = "completed"]), ev.step)
          [] ev.kind = "step/failed" -> Finished(SetNode(s, ev.step, [n EXCEPT !.status = "failed"]), ev.step)
          [] ev.kind = "step/skipped" -> SetNode(s, ev.step, [n EXCEPT !.status = "skipped"])
          [] OTHER -> s

ApplyIteration(s, ev) ==
    LET n == nodeOrNew(s, ev.step)
        Record(status) == SetNode(s, ev.step,
            [n EXCEPT !.iteration = ev.index,
                      !.records = upsertIterationRecord(@, [index |-> ev.index, status |-> status])])
    IN  CASE ev.kind = "iterate/iteration_started" -> Record("running")
          [] ev.kind = "iterate/iteration_completed" -> Record("completed")
          [] OTHER -> s

Apply(state, ev) ==
    LET s == [state EXCEPT !.sequence = IF ev.seq > @ THEN ev.seq ELSE @]
    IN  ApplyIteration(ApplyStep(ApplyRun(s, ev), ev), ev)

Reduce(events) == FoldLeft(Apply, EmptyState, events)

----------------------------------------------------------------------------
(* The engine: one handle at a time                                         *)

\* emitEventLocked: an event that finds the channel full is dropped.
Emit(e, kind, step, index) ==
    LET ev == [seq |-> e.seq + 1, kind |-> kind, step |-> step, index |-> index]
    IN  [e EXCEPT !.seq = @ + 1,
                  !.queue = IF Len(@) < EngineBuffer THEN Append(@, ev) ELSE @,
                  !.dropped = @ \/ Len(e.queue) >= EngineBuffer]

\* The handle ends: the final event, the closed channel and the lease given back.
Ended(e, kind, status) == [Emit(e, kind, 0, 0) EXCEPT !.status = status, !.open = FALSE, !.lease = FALSE]

\* Next runs to the end of a step, emitting the step's events on the way.
EngineStep ==
    /\ driver.pc = "stepping" /\ engine.status = "running" /\ engine.at < Len(Script)
    /\ LET ev == Script[engine.at + 1]
       IN  /\ \/ engine' = [Emit(engine, ev.kind, ev.step, ev.index) EXCEPT !.at = @ + 1] /\ UNCHANGED disk
              \/ /\ ev.kind = "step/completed"
                 /\ engine' = Ended(Emit(engine, "step/failed", ev.step, 0), "run/failed", "failed")
                 /\ disk' = "failed"
           /\ driver' = [driver EXCEPT !.pc = IF ev.kind \in EndsStep THEN "returned" ELSE @]
    /\ UNCHANGED <<entry, ctx, pump, bridge, conn, request, server>>

\* The step asks for a handoff to another runbook.
EngineHandoff ==
    /\ driver.pc = "stepping" /\ engine.status = "running" /\ engine.at < Len(Script)
    /\ Script[engine.at + 1].kind = "step/completed"
    /\ engine' = Ended(engine, "handoff/requested", "handoff_pending")
    /\ disk' = "handoff_pending"
    /\ driver' = [driver EXCEPT !.pc = "returned"]
    /\ UNCHANGED <<entry, ctx, pump, bridge, conn, request, server>>

EngineCompletes ==
    /\ driver.pc = "stepping" /\ engine.status = "running" /\ engine.at = Len(Script)
    /\ engine' = Ended(engine, "run/completed", "completed")
    /\ disk' = "completed"
    /\ driver' = [driver EXCEPT !.pc = "returned"]
    /\ UNCHANGED <<entry, ctx, pump, bridge, conn, request, server>>

\* A handle that is done answers Next at once.
EngineDone ==
    /\ driver.pc = "stepping" /\ engine.status # "running"
    /\ driver' = [driver EXCEPT !.pc = "returned"]
    /\ UNCHANGED <<engine, disk, entry, ctx, pump, bridge, conn, request, server>>

\* Handle.Cancel: cancelled, or indeterminate when a dispatch was in flight.
Cancelled(e, unsettled) ==
    IF e.status # "running" THEN e
    ELSE IF unsettled THEN Ended(e, "run/indeterminate", "indeterminate")
    ELSE Ended(e, "run/cancelled", "cancelled")

----------------------------------------------------------------------------
(* run.start, POST /runs and run.resume                                     *)

\* When the registry has forgotten a run, MaxRunAge after its end, its goroutines are gone.
StartRequest(mode) ==
    /\ Serving /\ request.start = "idle" /\ engine.starts < MaxStarts
    /\ engine.starts = 0 \/ ~entry.present   \* run.resume refuses an attached run
    /\ pump.pc = "off" /\ driver.pc \in {"off", "idle"}
    /\ request' = [request EXCEPT !.start = mode]
    /\ UNCHANGED <<engine, disk, entry, ctx, driver, pump, bridge, conn, server>>

\* loadPlanAndSeed, contextWithPerRunCatalog or the engine refuses; resume finds no
\* directory, a run that has ended, or a lease that is held.
StartRefused ==
    /\ request.start \in {"rpc", "auto"}
    /\ request' = [request EXCEPT !.start = "idle"]
    /\ UNCHANGED <<engine, disk, entry, ctx, driver, pump, bridge, conn, server>>

EngineStart ==
    /\ request.start \in {"rpc", "auto"} /\ ~engine.lease
    /\ engine.starts = 0 \/ (disk \notin Terminal \cup {"none"} /\ request.start = "rpc")
    /\ engine' = [Emit([engine EXCEPT !.queue = << >>, !.open = TRUE],
                       IF engine.starts = 0 THEN "run/started" ELSE "run/resumed", 0, 0)
                  EXCEPT !.status = "running", !.lease = TRUE, !.starts = @ + 1]
    /\ disk' = "running"
    /\ driver' = [pc |-> "off", mode |-> request.start]
    /\ request' = [request EXCEPT !.start = "started"]
    /\ UNCHANGED <<entry, ctx, pump, bridge, conn, server>>

\* registry.Add, and the goroutines that pump the events and advance the run.
Register ==
    /\ request.start = "started"
    /\ entry' = [present |-> TRUE, state |-> engine.status, completed |-> FALSE]
    /\ ctx' = TRUE
    /\ pump' = [pc |-> "select", ev |-> NoEvent]
    /\ driver' = [driver EXCEPT !.pc = IF driver.mode = "auto" THEN "check" ELSE "idle"]
    /\ request' = [request EXCEPT !.start = "idle"]
    /\ UNCHANGED <<engine, disk, bridge, conn, server>>

----------------------------------------------------------------------------
(* run.next and advanceRun                                                  *)

syncRunEntryState(en) ==
    IF en.present THEN [en EXCEPT !.state = engine.status, !.completed = engine.status \in Stopped] ELSE en

handleRunNext ==
    /\ Serving /\ driver.pc = "idle" /\ entry.present
    /\ engine.status \notin Stopped
    /\ driver' = [driver EXCEPT !.pc = "stepping"]
    /\ UNCHANGED <<engine, disk, entry, ctx, pump, bridge, conn, request, server>>

\* Next has returned: at the end of the run the entry gets its completion time, after a
\* step the status alone, and after an error nothing.
NextReturns ==
    /\ driver.pc = "returned" /\ driver.mode = "rpc"
    /\ \/ engine.status # "running" /\ entry' = syncRunEntryState(entry)
       \/ engine.status \notin {"running", "completed"} /\ UNCHANGED entry
       \/ engine.status = "running" /\ entry' = IF entry.present THEN [entry EXCEPT !.state = "running"] ELSE entry
    /\ driver' = [driver EXCEPT !.pc = "idle"]
    /\ UNCHANGED <<engine, disk, ctx, pump, bridge, conn, request, server>>

advanceRun ==
    /\ driver.mode = "auto"
    /\ \/ /\ driver.pc = "check"
          /\ driver' = [driver EXCEPT !.pc = IF ~ctx \/ engine.status \in Stopped THEN "off" ELSE "stepping"]
          /\ UNCHANGED entry
       \/ /\ driver.pc = "returned"
          /\ driver' = [driver EXCEPT !.pc = IF engine.status = "running" THEN "check" ELSE "off"]
          /\ entry' = IF engine.status = "running" THEN entry ELSE syncRunEntryState(entry)
    /\ UNCHANGED <<engine, disk, ctx, pump, bridge, conn, request, server>>

----------------------------------------------------------------------------
(* run.cancel, DELETE /runs/{id}, run.delete and the registry's GC          *)

\* run.cancel refuses a run that has ended, DELETE cancels it again.  One request is enough.
CancelEngine(unsettled) ==
    /\ "cancel" \in Requests /\ Serving /\ request.cancel = "idle" /\ entry.present
    /\ engine.status = "running" \/ ~unsettled
    /\ engine' = Cancelled(engine, unsettled)
    /\ disk' = IF engine.status = "running" THEN engine'.status ELSE disk
    /\ request' = [request EXCEPT !.cancel = "context"]
    /\ UNCHANGED <<entry, ctx, driver, pump, bridge, conn, server>>

CancelContext ==
    /\ request.cancel = "context"
    /\ ctx' = FALSE
    /\ request' = [request EXCEPT !.cancel = "entry"]
    /\ UNCHANGED <<engine, disk, entry, driver, pump, bridge, conn, server>>

CancelEntry ==
    /\ request.cancel = "entry"
    /\ entry' = IF entry.present THEN [entry EXCEPT !.state = "cancelled", !.completed = TRUE] ELSE entry
    /\ request' = [request EXCEPT !.cancel = "done"]
    /\ UNCHANGED <<engine, disk, ctx, driver, pump, bridge, conn, server>>

\* A completed entry older than maxAge is removed; the replay buffer is not.
GC ==
    /\ "gc" \in Requests /\ entry.present /\ entry.completed /\ server = "up"
    /\ entry' = NoEntry
    /\ UNCHANGED <<engine, disk, ctx, driver, pump, bridge, conn, request, server>>

\* Neither the handle nor the store may say that the run is running.
DeleteCheck ==
    /\ "delete" \in Requests /\ Serving /\ request.delete = "idle"
    /\ ~(entry.present /\ engine.status = "running")
    /\ disk \notin {"none", "running"}
    /\ request' = [request EXCEPT !.delete = "checked"]
    /\ UNCHANGED <<engine, disk, entry, ctx, driver, pump, bridge, conn, server>>

\* Mutant: the directory is removed without trying the writer's lock.
DeleteRunUnlocked ==
    /\ request.delete = "checked"
    /\ disk' = "none"
    /\ request' = [request EXCEPT !.delete = "idle"]
    /\ UNCHANGED <<engine, entry, ctx, driver, pump, bridge, conn, server>>

DeleteRun ==
    /\ request.delete = "checked"
    /\ disk' = IF engine.lease THEN disk ELSE "none"
    /\ request' = [request EXCEPT !.delete = "idle"]
    /\ UNCHANGED <<engine, entry, ctx, driver, pump, bridge, conn, server>>

----------------------------------------------------------------------------
(* The event pump and the bridge                                            *)

\* select takes any case that is ready: a cancelled context also wins over an event.
PumpTakes ==
    /\ pump.pc = "select" /\ engine.queue # << >>
    /\ pump' = [pc |-> "closed?", ev |-> Head(engine.queue)]
    /\ engine' = [engine EXCEPT !.queue = Tail(@)]
    /\ UNCHANGED <<disk, entry, ctx, driver, bridge, conn, request, server>>

PumpEnds ==
    /\ pump.pc = "select"
    /\ \/ ~ctx /\ UNCHANGED entry
       \/ engine.queue = << >> /\ ~engine.open /\ entry' = syncRunEntryState(entry)
    /\ pump' = [pc |-> "off", ev |-> NoEvent]
    /\ UNCHANGED <<engine, disk, ctx, driver, bridge, conn, request, server>>

\* After the broadcast the pump goes on, or ends with the run.
PumpGoesOn ==
    IF pump.ev.kind \in TerminalEvent
    THEN pump' = [pc |-> "off", ev |-> NoEvent] /\ entry' = syncRunEntryState(entry)
    ELSE pump' = [pc |-> "select", ev |-> NoEvent] /\ UNCHANGED entry

BroadcastClosed ==
    /\ pump.pc = "closed?" /\ bridge.closed
    /\ PumpGoesOn
    /\ UNCHANGED <<engine, disk, ctx, driver, bridge, conn, request, server>>

BroadcastOpen ==
    /\ pump.pc = "closed?" /\ ~bridge.closed
    /\ pump' = [pump EXCEPT !.pc = "add"]
    /\ UNCHANGED <<engine, disk, entry, ctx, driver, bridge, conn, request, server>>

\* eventHistory.add keeps the last HistorySize events.
add(history, ev) ==
    LET all == Append(history, ev)
    IN  IF Len(all) > HistorySize THEN SubSeq(all, Len(all) - HistorySize + 1, Len(all)) ELSE all

BroadcastAdd ==
    /\ pump.pc = "add"
    /\ bridge' = [bridge EXCEPT !.history = add(@, pump.ev), !.log = Append(@, pump.ev)]
    /\ pump' = [pump EXCEPT !.pc = "send"]
    /\ UNCHANGED <<engine, disk, entry, ctx, driver, conn, request, server>>

\* A client whose buffer is full loses the event.
BroadcastSend ==
    /\ pump.pc = "send"
    /\ conn' = [c \in Clients |->
                  IF ~conn[c].sub THEN conn[c]
                  ELSE IF Len(conn[c].buffer) < BufferSize THEN [conn[c] EXCEPT !.buffer = Append(@, pump.ev)]
                  ELSE [conn[c] EXCEPT !.lost = @ \cup {pump.ev.seq}]]
    /\ PumpGoesOn
    /\ UNCHANGED <<engine, disk, ctx, driver, bridge, request, server>>

since(history, seq) == SelectSeq(history, LAMBDA ev : ev.seq > seq)

----------------------------------------------------------------------------
(* The streams: /events, /ws and /runs/{id}/state                           *)

Sequences(events) == {events[i].seq : i \in DOMAIN events}
NewestAdded == IF bridge.log = << >> THEN 0 ELSE bridge.log[Len(bridge.log)].seq

Offline == [pc |-> "off", kind |-> "none", sub |-> FALSE, buffer |-> << >>, todo |-> << >>,
            last |-> 0, from |-> 0, got |-> {}, lost |-> {}, gone |-> {}, view |-> EmptyState, connects |-> 0]

\* Mutant: an event stream reads the replay buffer before it subscribes.
PhaseReplayFirst(kind, last, pc) ==
    CASE pc = "off" -> IF kind = "state" \/ (kind = "sse" /\ last > 0) THEN "replay" ELSE "subscribe"
      [] pc = "replay" -> "subscribe"
      [] OTHER -> "live"

\* /events subscribes and then replays after Last-Event-ID, /ws only subscribes, and
\* /runs/{id}/state replays and then subscribes.
Phase(kind, last, pc) ==
    CASE pc = "off" -> IF kind = "state" THEN "replay" ELSE "subscribe"
      [] pc = "replay" -> IF kind = "state" THEN "subscribe" ELSE "live"
      [] OTHER -> IF kind = "sse" /\ last > 0 THEN "replay" ELSE "live"

\* The browser sends the id of the last event it saw; a first connection has none.
\* /runs/{id}/state needs a registered run, /ws sends no Last-Event-ID.
Connect(c, kind) ==
    /\ Serving /\ conn[c].pc = "off" /\ conn[c].connects < MaxConnects
    /\ conn[c].kind \in {"none", kind}
    /\ kind = "state" => entry.present
    /\ conn' = [conn EXCEPT ![c] = [Offline EXCEPT
                  !.pc = Phase(kind, IF kind = "ws" THEN 0 ELSE conn[c].last, "off"),
                  !.kind = kind, !.connects = conn[c].connects + 1,
                  !.last = IF kind = "ws" THEN 0 ELSE conn[c].last]]
    /\ UNCHANGED <<engine, disk, entry, ctx, driver, pump, bridge, request, server>>

\* A stream of a closed bridge gets a closed channel.  After Last-Event-ID the client is
\* owed every later event, without it those that are added from now on.
Subscribe(c) ==
    /\ conn[c].pc = "subscribe"
    /\ conn' = [conn EXCEPT ![c].sub = ~bridge.closed,
                            ![c].pc = Phase(conn[c].kind, conn[c].last, @),
                            ![c].from = IF conn[c].kind = "sse" /\ conn[c].last > 0 THEN conn[c].last ELSE NewestAdded]
    /\ UNCHANGED <<engine, disk, entry, ctx, driver, pump, bridge, request, server>>

Replay(c) ==
    /\ conn[c].pc = "replay" /\ conn[c].kind = "sse"
    /\ conn' = [conn EXCEPT ![c].todo = since(bridge.history, conn[c].last),
                            ![c].gone = Sequences(since(bridge.log, conn[c].last))
                                          \ Sequences(bridge.history),
                            ![c].pc = Phase("sse", conn[c].last, @)]
    /\ UNCHANGED <<engine, disk, entry, ctx, driver, pump, bridge, request, server>>

\* handleRunState folds the replay buffer, writes the first frame and then subscribes.
ReplayState(c) ==
    /\ conn[c].pc = "replay" /\ conn[c].kind = "state"
    /\ conn' = [conn EXCEPT ![c].view = Reduce(bridge.history),
                            ![c].gone = Sequences(bridge.log) \ Sequences(bridge.history),
                            ![c].pc = Phase("state", 0, @)]
    /\ UNCHANGED <<engine, disk, entry, ctx, driver, pump, bridge, request, server>>

\* writeSSE of one event, or one state frame.
Write(c) ==
    /\ conn[c].pc = "live" /\ conn[c].todo \o conn[c].buffer # << >>
    /\ LET ev == Head(conn[c].todo \o conn[c].buffer)
       IN  conn' = [conn EXCEPT
             ![c].todo = IF @ = << >> THEN @ ELSE Tail(@),
             ![c].buffer = IF conn[c].todo = << >> THEN Tail(@) ELSE @,
             ![c].got = @ \cup {ev.seq},
             ![c].last = ev.seq,
             ![c].view = IF conn[c].kind = "state" THEN Apply(@, ev) ELSE @]
    /\ UNCHANGED <<engine, disk, entry, ctx, driver, pump, bridge, request, server>>

\* The client goes away, or the handler finds its channel closed and drained.
Disconnect(c) ==
    /\ conn[c].pc # "off"
    /\ conn' = [conn EXCEPT ![c] = [Offline EXCEPT !.kind = conn[c].kind, !.connects = conn[c].connects,
                                                   !.last = conn[c].last]]
    /\ UNCHANGED <<engine, disk, entry, ctx, driver, pump, bridge, request, server>>

----------------------------------------------------------------------------
(* Server.Stop                                                              *)

cancelActiveRuns ==
    /\ "stop" \in Requests /\ server = "up"
    /\ server' = "close"
    /\ IF entry.present /\ engine.status \notin Stopped
       THEN /\ engine' = Cancelled(engine, FALSE)
            /\ disk' = engine'.status
            /\ ctx' = FALSE
            /\ entry' = [entry EXCEPT !.state = "cancelled", !.completed = TRUE]
       ELSE UNCHANGED <<engine, disk, ctx, entry>>
    /\ UNCHANGED <<driver, pump, bridge, conn, request>>

\* Close closes every channel; what is buffered is still delivered.
Close ==
    /\ server = "close"
    /\ bridge' = [bridge EXCEPT !.closed = TRUE]
    /\ conn' = [c \in Clients |-> [conn[c] EXCEPT !.sub = FALSE]]
    /\ server' = "drain"
    /\ UNCHANGED <<engine, disk, entry, ctx, driver, pump, request>>

\* Shutdown waits for the handlers, or for its deadline; then wg.Wait.
Shutdown ==
    /\ server = "drain"
    /\ server' = "wait"
    /\ UNCHANGED <<engine, disk, entry, ctx, driver, pump, bridge, conn, request>>

StopReturns ==
    /\ server = "wait" /\ pump.pc = "off"
    /\ driver.mode = "auto" => driver.pc = "off"
    /\ server' = "down"
    /\ UNCHANGED <<engine, disk, entry, ctx, driver, pump, bridge, conn, request>>

----------------------------------------------------------------------------

Init ==
    /\ engine = [status |-> "none", at |-> 0, seq |-> 0, queue |-> << >>, open |-> FALSE,
                 lease |-> FALSE, dropped |-> FALSE, starts |-> 0]
    /\ disk = "none" /\ entry = NoEntry /\ ctx = TRUE
    /\ driver = [pc |-> "off", mode |-> "rpc"]
    /\ pump = [pc |-> "off", ev |-> NoEvent]
    /\ bridge = [history |-> << >>, log |-> << >>, closed |-> FALSE]
    /\ conn = [c \in Clients |-> Offline]
    /\ request = [start |-> "idle", cancel |-> "idle", delete |-> "idle"]
    /\ server = "up"

Next ==
    \/ EngineStep \/ EngineHandoff \/ EngineCompletes \/ EngineDone
    \/ \E mode \in Modes : StartRequest(mode)
    \/ StartRefused \/ EngineStart \/ Register
    \/ handleRunNext \/ NextReturns \/ advanceRun
    \/ \E unsettled \in BOOLEAN : CancelEngine(unsettled)
    \/ CancelContext \/ CancelEntry \/ GC \/ DeleteCheck \/ DeleteRun
    \/ PumpTakes \/ PumpEnds \/ BroadcastClosed \/ BroadcastOpen \/ BroadcastAdd \/ BroadcastSend
    \/ \E c \in Clients :
         \/ \E kind \in Kinds : Connect(c, kind)
         \/ Subscribe(c) \/ Replay(c) \/ ReplayState(c) \/ Write(c) \/ Disconnect(c)
    \/ cancelActiveRuns \/ Close \/ Shutdown \/ StopReturns

Spec == Init /\ [][Next]_vars

----------------------------------------------------------------------------

\* The event the pump is about to hand to the subscribers.
Sending == IF pump.pc = "send" THEN {pump.ev.seq} ELSE {}

\* An event stream loses no event in silence.  A client that comes back with the id of the
\* last event it saw gets every later one, and a client without an id every event from its
\* subscription on: each is written, waits to be written, or is being handed out; the
\* exceptions are the events the replay buffer had already forgotten and those that found
\* the client's own buffer full (internal/serve/sse.go: subscribe first, replay second).
StreamsOweNothing ==
    \A c \in Clients :
        conn[c].pc = "live" /\ conn[c].sub /\ conn[c].kind # "state" =>
            \A i \in DOMAIN bridge.log :
                bridge.log[i].seq > conn[c].from =>
                    bridge.log[i].seq \in conn[c].got \cup Sequences(conn[c].todo) \cup Sequences(conn[c].buffer)
                                            \cup conn[c].lost \cup conn[c].gone \cup Sending

\* run.delete checks the status first and removes the directory later; whatever happens in
\* between, a run that executes keeps its directory (internal/serve/rpc.go, handleRunDelete).
LiveRunOnDisk == engine.lease => disk # "none"
=============================================================================
