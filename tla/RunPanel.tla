---- MODULE RunPanel ----
(***************************************************************************)
(* A direct run in the VS Code preview: the webview (graph.tsx), the panel *)
(* of the extension (extension.ts, directRunSession.ts, hostActionBridge.ts*)
(* and the external view handler) and the `yawr run --stdio` processes it  *)
(* starts (stdio_protocol.go), with the host actions a run asks the editor *)
(* to perform.                                                             *)
(*                                                                         *)
(* The k-th start is the run k.  A turn is <<k, n>>: the n-th interaction  *)
(* of run k, a host action of the capability Asks[k][n] or an "input".     *)
(* The panel handles one message, frame or settled promise at a time;      *)
(* messages between the webview and the panel arrive in order, late.       *)
(* Route tests, investigation sessions, the graph and its reloading are    *)
(* left out: for a start they are a refusal that may happen.               *)
(***************************************************************************)
EXTENDS Naturals, Sequences, SequencesExt

CONSTANTS
  Asks,        \* per run: the capabilities its turns ask for; bound: one start each
  MaxLoads,    \* bound: saved runs loaded
  QueueSize,   \* bound: messages in flight when the operator acts
  PipeSize     \* bound: frames a process writes ahead of the panel

VARIABLES
  view,       \* the refs of the webview
  toPanel,    \* messages posted by the webview
  toView,     \* messages posted by the panel
  panel,      \* the variables of the panel
  start,      \* per start: how far startRun is
  bridges,    \* the starts whose MCP bridge is listening
  session,    \* per run: its DirectRunSession
  child,      \* per run: its process, as the panel sees it
  proc,       \* per run: the process itself
  stdin,      \* per run: commands written and not yet read
  stdout,     \* per run: frames written and not yet read
  requests,   \* HostActionBridge: pending and settled requests
  confirmed,  \* confirmedHostActionRequests
  handler,    \* per turn: how far the handler of its request is
  seen        \* history: views opened, clicks, verifications, answers

vars == <<view, toPanel, toView, panel, start, bridges, session, child, proc, stdin, stdout,
          requests, confirmed, handler, seen>>
viewVars == <<view>>
procVars == <<child, proc, stdin, stdout>>
hostVars == <<requests, confirmed, handler>>
runVars == <<start, bridges, session>>

MaxStarts == Len(Asks)
Starts == 1..MaxStarts
Turns == UNION {{<<k, n>> : n \in DOMAIN Asks[k]} : k \in Starts}
Capability(t) == Asks[t[1]][t[2]]
NoTurn == <<0, 0>>
Loaded == MaxStarts + 1          \* the id of a saved run

Msg(type, run, turn, status) == [type |-> type, run |-> run, turn |-> turn, status |-> status]
Plain(type) == Msg(type, 0, NoTurn, "")

PanelTypeOK ==
  /\ view.run \in 0..MaxStarts /\ view.pending \in Turns \cup {NoTurn} /\ view.request \in Turns \cup {NoTurn}
  /\ panel.session \in 0..MaxStarts /\ panel.active \in 0..Loaded /\ panel.bridge \in 0..MaxStarts
  /\ start \in [Starts -> {"none", "preparing", "bridging", "over"}] /\ panel.revision \in 0..MaxStarts
  /\ child \in [Starts -> {"none", "running", "killed", "exited", "closed"}]
  /\ requests.pending \cup requests.settled \cup confirmed \subseteq Turns
  /\ handler \in [Turns -> {"none", "activating", "opening", "verifying", "done"}]

Init ==
  /\ view = [run |-> 0, scope |-> 0, finished |-> FALSE, starting |-> FALSE, status |-> "idle",
             pending |-> NoTurn, request |-> NoTurn, check |-> NoTurn, resolved |-> {}]
  /\ toPanel = <<>> /\ toView = <<>>
  /\ panel = [disposed |-> FALSE, starting |-> FALSE, revision |-> 0, session |-> 0, active |-> 0, bridge |-> 0, loads |-> 0, loading |-> FALSE]
  /\ start = [k \in Starts |-> "none"]
  /\ bridges = {}
  /\ session = [k \in Starts |-> [terminal |-> FALSE, terminalEvent |-> FALSE, disposed |-> FALSE]]
  /\ child = [k \in Starts |-> "none"]
  /\ proc = [k \in Starts |-> [pc |-> "off", asked |-> 0]]
  /\ stdin = [k \in Starts |-> <<>>] /\ stdout = [k \in Starts |-> <<>>]
  /\ requests = [pending |-> {}, settled |-> {}]
  /\ confirmed = {}
  /\ handler = [t \in Turns |-> "none"]
  /\ seen = [opened |-> [t \in Turns |-> 0], clicked |-> {}, verified |-> {}, answers |-> [t \in Turns |-> <<>>]]

(***************************************************************************)
(* The webview.                                                            *)
(***************************************************************************)
\* clearActiveRun.
clearActiveRun(v) == [v EXCEPT !.run = 0, !.pending = NoTurn, !.request = NoTurn, !.check = NoTurn]

isTerminalRunStatus(status) == status \in {"completed", "failed"}
runActive == view.starting \/ (view.run # 0 /\ ~isTerminalRunStatus(view.status))

Post(msgs) == toPanel' = toPanel \o msgs

\* The messages dispatchHostAction posts, and the request it remembers.  A
\* request is named by its turn.
dispatchHostAction(t, panelConfirmed) ==
  (IF panelConfirmed THEN <<Msg("confirmed-request", t[1], t, "")>> ELSE <<>>)
    \o <<Msg("request", t[1], t, "")>>

\* run.starting.
RunStarting ==
  [clearActiveRun(view) EXCEPT !.scope = 0, !.resolved = {}, !.finished = FALSE, !.starting = TRUE, !.status = "starting"]

\* The frame run.started.
FrameStarted(k) ==
  IF view.finished \/ view.run \notin {0, k} THEN view
  ELSE [view EXCEPT !.run = k, !.scope = k, !.starting = FALSE,
                    !.status = IF view.pending = NoTurn THEN "running" ELSE @]

\* The frame interaction.pending; a capability that needs no confirmation is
\* dispatched as soon as it is shown.
Shown(t) ==
  ~view.finished /\ view.run # 0 /\ t[1] = view.run /\ t \notin view.resolved /\ view.pending \in {NoTurn, t}
Automatic(t) == Capability(t) \notin {"input", "external-view.open"} /\ view.request # t
FramePending(t) ==
  IF ~Shown(t) THEN view
  ELSE [view EXCEPT !.pending = t, !.status = "waiting", !.request = IF Automatic(t) THEN t ELSE @]

\* The frame interaction.resolved.
FrameResolved(t) ==
  IF view.pending # t \/ view.finished \/ t[1] # view.run THEN view
  ELSE [view EXCEPT !.resolved = @ \cup {t}, !.pending = NoTurn,
                    !.request = IF @ = t THEN NoTurn ELSE @,
                    !.status = IF isTerminalRunStatus(@) THEN @ ELSE "running"]

\* The terminal run event, and run.finished.
FrameEnded(k) ==
  IF view.scope \notin {0, k} THEN view
  ELSE [clearActiveRun(view) EXCEPT !.finished = TRUE, !.status = "completed"]
FrameFinished(k) ==
  IF view.scope \notin {0, k} THEN view
  ELSE [clearActiveRun(view) EXCEPT !.finished = TRUE, !.starting = FALSE, !.status = "completed"]

\* run.error, run.exit and run.loaded.
RunError == [clearActiveRun(view) EXCEPT !.starting = FALSE, !.status = "failed"]
RunExit == [clearActiveRun(view) EXCEPT !.starting = FALSE, !.status = IF view.finished THEN @ ELSE "failed"]
RunLoaded(status) ==
  [clearActiveRun(view) EXCEPT !.scope = Loaded, !.finished = TRUE, !.starting = FALSE, !.status = status]

\* An ack or a cancel of the request in progress for the turn that is shown.
Answers(m) == view.pending # NoTurn /\ view.request = view.pending /\ m.turn = view.request /\ view.run = m.turn[1]

\* The webview handles the next message.
ViewReceives ==
  /\ toView # <<>> /\ ~panel.disposed
  /\ toView' = Tail(toView)
  /\ LET m == Head(toView) IN
     /\ view' = CASE m.type = "run.starting" -> RunStarting
                  [] m.type = "started" -> FrameStarted(m.run)
                  [] m.type = "pending" -> FramePending(m.turn)
                  [] m.type = "resolved" -> FrameResolved(m.turn)
                  [] m.type = "ended" -> FrameEnded(m.run)
                  [] m.type = "finished" -> FrameFinished(m.run)
                  [] m.type = "protocol.error" -> clearActiveRun(view)
                  [] m.type = "run.error" -> RunError
                  [] m.type = "run.exit" -> RunExit
                  [] m.type = "run.loaded" -> RunLoaded(m.status)
                  [] m.type = "verify-view" ->
                       IF view.request = m.turn /\ view.pending = m.turn /\ view.run = m.turn[1]
                       THEN [view EXCEPT !.check = m.turn] ELSE view
                  [] m.type \in {"ack", "cancel"} ->
                       IF Answers(m) THEN [view EXCEPT !.check = NoTurn, !.request = NoTurn] ELSE view
     /\ Post(CASE m.type = "pending" /\ Shown(m.turn) /\ Automatic(m.turn) -> dispatchHostAction(m.turn, FALSE)
               [] m.type \in {"ack", "cancel"} /\ Answers(m) -> <<Msg("answer", m.turn[1], m.turn, m.status)>>
               [] OTHER -> <<>>)
  /\ UNCHANGED <<panel, procVars, hostVars, runVars, seen>>

(***************************************************************************)
(* The operator.                                                           *)
(***************************************************************************)
InFlight == Len(toPanel) + Len(toView) + FoldFunction(+, 0, [k \in Starts |-> Len(stdin[k])])
Operates == ~panel.disposed /\ InFlight < QueueSize
OperatorOnly == UNCHANGED <<toView, panel, procVars, hostVars, runVars>>

\* The Run button.
ClickRun ==
  /\ Operates /\ ~runActive
  /\ view' = [view EXCEPT !.run = 0, !.pending = NoTurn, !.request = NoTurn]
  /\ Post(<<Plain("run.start")>>)
  /\ OperatorOnly /\ UNCHANGED seen

\* The Reset button.
ClickReset ==
  /\ Operates /\ ~view.starting /\ isTerminalRunStatus(view.status)
  /\ view' = [clearActiveRun(view) EXCEPT !.finished = TRUE, !.status = "idle"]
  /\ Post(<<Plain("run.reset")>>)
  /\ OperatorOnly /\ UNCHANGED seen

\* The Cancel button.
ClickCancel ==
  /\ Operates /\ view.run # 0 /\ runActive
  /\ view' = [view EXCEPT !.request = NoTurn]
  /\ Post((IF view.request # NoTurn THEN <<Msg("cancel", 0, view.request, "")>> ELSE <<>>)
          \o <<Msg("run.cancel", view.run, NoTurn, "")>>)
  /\ OperatorOnly /\ UNCHANGED seen

\* The Load button.
ClickLoad ==
  /\ Operates /\ ~view.starting /\ ~(view.run # 0 /\ ~isTerminalRunStatus(view.status))
  /\ panel.loads < MaxLoads
  /\ Post(<<Plain("run.load-request")>>)
  /\ OperatorOnly /\ UNCHANGED <<view, seen>>

\* "Open external view", once per pane; "External view is ready" or "failed".
ClickOpen ==
  LET t == view.pending IN
  /\ Operates /\ t # NoTurn /\ t \notin seen.clicked
  /\ Capability(t) = "external-view.open" /\ view.run = t[1] /\ view.request # t
  /\ seen' = [seen EXCEPT !.clicked = @ \cup {t}]
  /\ view' = [view EXCEPT !.request = t]
  /\ Post(dispatchHostAction(t, TRUE))
  /\ OperatorOnly

\* submitInteraction: the operator answers a turn that is no host action.
ClickAnswer ==
  LET t == view.pending IN
  /\ Operates /\ t # NoTurn /\ view.run # 0 /\ t \notin seen.clicked
  /\ Capability(t) = "input"
  /\ seen' = [seen EXCEPT !.clicked = @ \cup {t}]
  /\ Post(<<Msg("answer", view.run, t, "answered")>>)
  /\ OperatorOnly /\ UNCHANGED view

ClickVerified(status) ==
  LET t == view.check IN
  /\ Operates /\ t # NoTurn
  /\ t[1] = view.run /\ t = view.pending /\ t = view.request
  /\ view' = [view EXCEPT !.check = NoTurn]
  /\ Post(<<Msg("view-verified", t[1], t, status)>>)
  /\ seen' = [seen EXCEPT !.verified = IF status = "opened" THEN @ \cup {t} ELSE @]
  /\ OperatorOnly

(***************************************************************************)
(* The process: yawr run --stdio.                                          *)
(***************************************************************************)
Write(k, frames) == stdout' = [stdout EXCEPT ![k] = @ \o frames]
Living(k) == child[k] = "running" /\ Len(stdout[k]) < PipeSize
ProcOnly == UNCHANGED <<view, toPanel, toView, panel, runVars, hostVars>>

\* The run is planned and started: run.started comes first; or the process
\* exits without a frame.
Boot(k) ==
  /\ Living(k) /\ proc[k].pc = "booting"
  /\ \/ /\ proc' = [proc EXCEPT ![k].pc = "running"]
        /\ Write(k, <<Msg("started", k, NoTurn, "")>>)
        /\ UNCHANGED child
     \/ /\ proc' = [proc EXCEPT ![k].pc = "done"]
        /\ child' = [child EXCEPT ![k] = "exited"]
        /\ UNCHANGED stdout
  /\ UNCHANGED <<stdin, seen>> /\ ProcOnly

\* A step asks for a host action (forwardInteractions).
Ask(k) ==
  /\ Living(k) /\ proc[k].pc = "running" /\ proc[k].asked < Len(Asks[k])
  /\ proc' = [proc EXCEPT ![k] = [pc |-> "waiting", asked |-> @.asked + 1]]
  /\ Write(k, <<Msg("pending", k, <<k, proc[k].asked + 1>>, "")>>)
  /\ UNCHANGED <<child, stdin, seen>> /\ ProcOnly

\* dispatchCommand: an answer settles the turn it is for while the step waits,
\* anything else is rejected; a cancellation ends the run.
ReadCommand(k) ==
  /\ Living(k) /\ proc[k].pc \in {"running", "waiting", "ended"} /\ stdin[k] # <<>>
  /\ stdin' = [stdin EXCEPT ![k] = Tail(@)]
  /\ LET c == Head(stdin[k]) IN
     \/ /\ c.type = "answer" /\ proc[k].pc = "waiting" /\ c.turn = <<k, proc[k].asked>>
        /\ proc' = [proc EXCEPT ![k].pc = "running"]
        /\ seen' = [seen EXCEPT !.answers[c.turn] = Append(@, c.status)]
        /\ Write(k, <<Msg("resolved", k, c.turn, "")>>)
     \/ /\ c.type = "answer" /\ ~(proc[k].pc = "waiting" /\ c.turn = <<k, proc[k].asked>>)
        /\ Write(k, <<Msg("protocol.error", k, NoTurn, "")>>)
        /\ UNCHANGED <<proc, seen>>
     \/ /\ c.type = "run.cancel"
        /\ IF proc[k].pc = "ended" THEN UNCHANGED <<proc, stdout>>
           ELSE proc' = [proc EXCEPT ![k].pc = "ended"] /\ Write(k, <<Msg("ended", k, NoTurn, "")>>)
        /\ UNCHANGED seen
  /\ UNCHANGED child /\ ProcOnly

\* The run ends, by itself or because a step gave up waiting: a terminal event.
EndRun(k) ==
  /\ Living(k) /\ proc[k].pc \in {"running", "waiting"}
  /\ proc' = [proc EXCEPT ![k].pc = "ended"]
  /\ Write(k, <<Msg("ended", k, NoTurn, "")>>)
  /\ UNCHANGED <<child, stdin, seen>> /\ ProcOnly

\* run.finished, after every event and interaction is written; or no more than
\* the exit.
Finish(k) ==
  /\ Living(k) /\ proc[k].pc = "ended"
  /\ proc' = [proc EXCEPT ![k].pc = "done"]
  /\ child' = [child EXCEPT ![k] = "exited"]
  /\ \/ Write(k, <<Msg("finished", k, NoTurn, "")>>)
     \/ UNCHANGED stdout
  /\ UNCHANGED <<stdin, seen>> /\ ProcOnly

(***************************************************************************)
(* The panel: host actions.                                                *)
(***************************************************************************)
\* webviewPanelTransport: nothing is posted by a disposed panel.
Posted(msgs) == IF panel.disposed THEN toView ELSE toView \o msgs

CancelOf(t) == Msg("cancel", 0, t, "execution-not-started")

\* Mutant: the confirmations are dropped, but no request is cancelled.
cancelAllPendingKept == requests

\* cancelAllPending: what is left of the requests.
cancelAllPending == [pending |-> {}, settled |-> requests.settled \cup requests.pending]

\* invalidateHostActionRun, with what the caller posts before and after it.
Invalidate(before, after) ==
  /\ confirmed' = {}
  /\ requests' = cancelAllPending
  /\ toView' = Posted(before \o SetToSeq({CancelOf(t) : t \in requests.pending \ cancelAllPending.pending}) \o after)

\* The request is settled with an ack.
Ack(t, status) ==
  /\ requests' = [pending |-> requests.pending \ {t}, settled |-> requests.settled \cup {t}]
  /\ toView' = Posted(<<Msg("ack", t[1], t, status)>>)

Opens(t) == seen' = [seen EXCEPT !.opened[t] = @ + 1]
HandlerAt(t, at) == handler' = [handler EXCEPT ![t] = at]

\* The open command is run at once, or after the extension that has it is
\* activated.
Launch(t) ==
  /\ requests' = [requests EXCEPT !.pending = @ \cup {t}]
  /\ UNCHANGED toView
  /\ \/ HandlerAt(t, "opening") /\ Opens(t)
     \/ HandlerAt(t, "activating") /\ UNCHANGED seen

\* HostActionBridge.receive of a request, with the synchronous part of its
\* handler.
ReceiveRequest(t) ==
  LET capability == Capability(t) IN
  IF panel.active # t[1] \/ t \in requests.settled \cup requests.pending
  THEN UNCHANGED <<requests, toView, confirmed, handler, seen>>
  ELSE CASE capability = "test.echo" ->
              HandlerAt(t, "done") /\ Ack(t, "completed") /\ UNCHANGED <<confirmed, seen>>
         [] capability = "external-view.open" ->
              \/ /\ \E status \in {"failed"} \cup (IF t \in confirmed THEN {} ELSE {"execution-not-started"}) :
                      Ack(t, status)                     \* the request is invalid, or not confirmed
                 /\ UNCHANGED <<confirmed, handler, seen>>
              \/ /\ t \in confirmed
                 /\ confirmed' = confirmed \ {t}
                 /\ Launch(t)
         [] OTHER -> Ack(t, "unsupported") /\ UNCHANGED <<confirmed, handler, seen>>

\* receive of a cancel: the request is settled without an ack.
ReceiveCancel(t) ==
  /\ requests' = IF t \in requests.pending
                 THEN [pending |-> requests.pending \ {t}, settled |-> requests.settled \cup {t}]
                 ELSE requests
  /\ UNCHANGED <<toView, confirmed, handler, seen>>

HandlerOnly == UNCHANGED <<view, toPanel, panel, procVars, runVars, confirmed>>

\* Mutant: the open command is run without another look at the token.
ActivatedUnchecked(t) == Opens(t) /\ HandlerAt(t, "opening") /\ UNCHANGED <<requests, toView>>

\* ext.activate settled: the command is run unless the request was cancelled
\* meanwhile; a failure is a failed ack if the request is still pending.
Activated(t) ==
  IF t \in requests.pending THEN Opens(t) /\ HandlerAt(t, "opening") /\ UNCHANGED <<requests, toView>>
  ELSE HandlerAt(t, "done") /\ UNCHANGED <<requests, toView, seen>>

HandlerFails(t) ==
  /\ HandlerAt(t, "done")
  /\ IF t \in requests.pending THEN Ack(t, "failed") ELSE UNCHANGED <<requests, toView>>
  /\ UNCHANGED seen

ActivationSettles(t) ==
  /\ handler[t] = "activating"
  /\ Activated(t) \/ HandlerFails(t)
  /\ HandlerOnly

\* The open command settled: the operator is asked whether the view is there.
CommandSettles(t) ==
  /\ handler[t] = "opening"
  /\ \/ HandlerFails(t)
     \/ /\ t \in requests.pending /\ ~panel.disposed
        /\ HandlerAt(t, "verifying")
        /\ toView' = Posted(<<Msg("verify-view", t[1], t, "")>>)
        /\ UNCHANGED <<requests, seen>>
  /\ HandlerOnly

\* A handler that waits for the operator ends with its cancellation, or because
\* the question could not be posted.
VerificationEnds(t) == handler[t] = "verifying" /\ HandlerFails(t) /\ HandlerOnly

\* The deadline of raceWithDeadline: the token is cancelled and the request
\* settled; what the handler still does is not heard of.
Deadline(t) ==
  /\ t \in requests.pending
  /\ Ack(t, "timed-out")
  /\ UNCHANGED <<handler, seen>> /\ HandlerOnly

\* The operator's verdict reaches waitForExternalViewVerification.
ReceiveVerified(t, status) ==
  IF handler[t] = "verifying" /\ t \in requests.pending
  THEN /\ HandlerAt(t, "done")
       /\ Ack(t, IF status = "opened" THEN "completed" ELSE "failed")
       /\ UNCHANGED <<confirmed, seen>>
  ELSE UNCHANGED <<requests, toView, confirmed, handler, seen>>

(***************************************************************************)
(* The panel: runs.                                                        *)
(***************************************************************************)
\* DirectRunSession.isFinished, and dispose: the process is killed.
isFinished(k) ==
  session[k].terminal \/ session[k].terminalEvent \/ session[k].disposed \/ child[k] # "running"
DisposeSession(k) ==
  IF k = 0 THEN UNCHANGED <<session, procVars>>
  ELSE /\ session' = [session EXCEPT ![k].disposed = TRUE]
       /\ child' = [child EXCEPT ![k] = IF @ = "running" THEN "killed" ELSE @]
       /\ proc' = [proc EXCEPT ![k].pc = "done"]
       /\ stdin' = [stdin EXCEPT ![k] = <<>>] /\ stdout' = [stdout EXCEPT ![k] = <<>>]

Finished == panel.session # 0 /\ isFinished(panel.session)

\* The revision of a start is its number; every other change of the revision
\* (a reset, the closing of the panel) belongs to no start.
startupIsActive(k) == ~panel.disposed /\ panel.revision = k

\* startRun and loadSavedRun first dispose a session that is finished, and
\* its bridge.
Discard ==
  IF Finished
  THEN DisposeSession(panel.session) /\ bridges' = bridges \ {panel.bridge}
  ELSE UNCHANGED <<session, procVars, bridges>>

\* startRun up to its first await.
StartRun ==
  LET k == CHOOSE j \in Starts : start[j] = "none" /\ \A i \in 1..(j - 1) : start[i] # "none"
      kept == IF Finished THEN [panel EXCEPT !.session = 0, !.bridge = 0] ELSE panel
  IN
  /\ \E j \in Starts : start[j] = "none"
  /\ Discard
  /\ \/ /\ panel.starting \/ kept.session # 0         \* a run is already active
        /\ toView' = Posted(<<Plain("run.error")>>)
        /\ panel' = kept
        /\ UNCHANGED <<start, confirmed, requests>>
     \/ /\ ~panel.starting /\ kept.session = 0
        /\ toView' = Posted(<<Plain("run.error")>>)    \* no graph, or invalid inputs
        /\ panel' = kept
        /\ UNCHANGED <<start, confirmed, requests>>
     \/ /\ ~panel.starting /\ kept.session = 0
        /\ panel' = [kept EXCEPT !.starting = TRUE, !.revision = k, !.active = 0]
        /\ start' = [start EXCEPT ![k] = "preparing"]
        /\ Invalidate(<<>>, <<Plain("run.starting")>>)
  /\ UNCHANGED <<handler, seen>>

\* The finally of startRun.
Ended(k) == IF panel.revision = k THEN FALSE ELSE panel.starting

\* startRun fails: the panel is invalidated whether or not it is still this
\* start's.
StartFails(k) ==
  /\ bridges' = bridges \ {panel.bridge}
  /\ panel' = [panel EXCEPT !.active = 0, !.bridge = 0, !.starting = Ended(k)]
  /\ start' = [start EXCEPT ![k] = "over"]
  /\ Invalidate(<<>>, IF startupIsActive(k) THEN <<Plain("run.error")>> ELSE <<>>)
  /\ UNCHANGED <<session, child, proc, handler, seen>>

\* The binary is found and compatible; a bridge is asked for next.
Prepared(k) ==
  /\ start[k] = "preparing"
  /\ \/ /\ start' = [start EXCEPT ![k] = "bridging"]
        /\ UNCHANGED <<bridges, panel, session, child, proc, confirmed, requests, toView, handler, seen>>
     \/ StartFails(k)
  /\ UNCHANGED <<view, toPanel, stdin, stdout>>

\* The bridge listens (or none is needed): the process is spawned, unless the
\* start was superseded.
Bridged(k) ==
  /\ start[k] = "bridging"
  /\ \/ \E b \in {0, k} :
          /\ start' = [start EXCEPT ![k] = "over"]
          /\ IF startupIsActive(k)
             THEN /\ panel' = [panel EXCEPT !.bridge = b, !.session = k, !.starting = Ended(k)]
                  /\ bridges' = bridges \cup ({b} \ {0})
                  /\ child' = [child EXCEPT ![k] = "running"]
                  /\ proc' = [proc EXCEPT ![k].pc = "booting"]
             ELSE /\ panel' = [panel EXCEPT !.bridge = 0, !.starting = Ended(k)]
                  /\ UNCHANGED <<bridges, child, proc>>
          /\ UNCHANGED <<session, confirmed, requests, toView, handler, seen>>
     \/ StartFails(k)
  /\ UNCHANGED <<view, toPanel, stdin, stdout>>

\* run.reset.
Reset ==
  /\ panel' = [panel EXCEPT !.active = 0, !.revision = 0, !.starting = FALSE, !.session = 0, !.bridge = 0]
  /\ DisposeSession(panel.session)
  /\ bridges' = bridges \ {panel.bridge}
  /\ Invalidate(<<>>, <<>>)
  /\ UNCHANGED <<start, handler, seen>>

\* run.command: passed on to the process of the run that is active.
Command(m) ==
  /\ stdin' = IF m.run = panel.active /\ panel.session # 0 /\ ~session[panel.session].disposed
                 /\ ~session[panel.session].terminal /\ child[panel.session] = "running"
              THEN [stdin EXCEPT ![panel.session] = Append(@, m)] ELSE stdin
  /\ UNCHANGED <<toView, panel, runVars, child, proc, stdout, hostVars, seen>>

\* loadSavedRun up to its first await.
LoadBegins ==
  /\ IF panel.starting \/ (panel.session # 0 /\ ~isFinished(panel.session)) \/ panel.loads = MaxLoads
     THEN UNCHANGED <<panel, session, procVars, bridges>>
     ELSE /\ Discard
          /\ panel' = [panel EXCEPT !.loading = TRUE, !.loads = @ + 1,
                                    !.session = IF Finished THEN 0 ELSE @, !.bridge = IF Finished THEN 0 ELSE @]
  /\ UNCHANGED <<toView, start, hostVars, seen>>

\* The saved run is read: it becomes what the panel shows.
LoadEnds ==
  /\ panel.loading
  /\ \/ /\ panel' = [panel EXCEPT !.loading = FALSE]            \* nothing chosen, or an error
        /\ UNCHANGED <<confirmed, requests, toView>>
     \/ /\ ~panel.disposed
        /\ panel' = [panel EXCEPT !.loading = FALSE, !.starting = FALSE, !.active = Loaded]
        /\ \E status \in {"completed", "waiting"} : Invalidate(<<>>, <<Msg("run.loaded", Loaded, NoTurn, status)>>)
  /\ UNCHANGED <<view, toPanel, procVars, runVars, handler, seen>>

\* The panel handles the next message of the webview.
PanelReceives ==
  /\ toPanel # <<>> /\ ~panel.disposed
  /\ toPanel' = Tail(toPanel)
  /\ LET m == Head(toPanel) IN
     \/ m.type = "run.start" /\ StartRun
     \/ m.type = "run.reset" /\ Reset
     \/ m.type = "run.load-request" /\ LoadBegins
     \/ m.type \in {"answer", "run.cancel"} /\ Command(m)
     \/ /\ m.type = "confirmed-request"
        /\ confirmed' = IF m.run = panel.active THEN confirmed \cup {m.turn} ELSE confirmed
        /\ UNCHANGED <<toView, panel, procVars, runVars, requests, handler, seen>>
     \/ m.type = "request" /\ ReceiveRequest(m.turn) /\ UNCHANGED <<panel, procVars, runVars>>
     \/ m.type = "cancel" /\ ReceiveCancel(m.turn) /\ UNCHANGED <<panel, procVars, runVars>>
     \/ m.type = "view-verified" /\ ReceiveVerified(m.turn, m.status) /\ UNCHANGED <<panel, procVars, runVars>>
  /\ UNCHANGED view

\* What a frame tells the session.
parseLine(k, type) ==
  [session EXCEPT ![k].terminal = @ \/ type = "finished",
                  ![k].terminalEvent = @ \/ type \in {"ended", "finished", "protocol.error"}]

\* The panel reads the next frame of a process (onFrame).
OnFrame(k) ==
  /\ stdout[k] # <<>> /\ ~session[k].disposed /\ ~session[k].terminal
  /\ stdout' = [stdout EXCEPT ![k] = Tail(@)]
  /\ LET m == Head(stdout[k]) IN
     /\ session' = parseLine(k, m.type)
     /\ IF ~startupIsActive(k)
        THEN UNCHANGED <<panel, bridges, confirmed, requests, toView>>
        ELSE CASE m.type = "started" ->
                    /\ panel' = [panel EXCEPT !.active = k]
                    /\ Invalidate(<<>>, <<m>>)
                    /\ UNCHANGED bridges
               [] m.type \in {"ended", "finished", "protocol.error"} ->
                    /\ LET drops == m.type = "finished" /\ panel.bridge = k IN
                       /\ panel' = [panel EXCEPT !.active = 0, !.bridge = IF drops THEN 0 ELSE @]
                       /\ bridges' = IF drops THEN bridges \ {k} ELSE bridges
                    /\ Invalidate(<<>>, <<m>>)
               [] OTHER ->
                    /\ toView' = Posted(<<m>>)
                    /\ UNCHANGED <<panel, bridges, confirmed, requests>>
  /\ UNCHANGED <<view, toPanel, start, child, proc, stdin, handler, seen>>

\* protocolFailure: a frame that is no frame, or a broken pipe.
ProtocolFails(k) ==
  /\ child[k] \in {"running", "exited"} /\ ~session[k].disposed
  /\ DisposeSession(k)
  /\ IF startupIsActive(k)
     THEN panel' = [panel EXCEPT !.active = 0] /\ Invalidate(<<>>, <<Plain("run.error")>>)
     ELSE UNCHANGED <<panel, confirmed, requests, toView>>
  /\ UNCHANGED <<view, toPanel, start, bridges, handler, seen>>

\* The process is gone and its output read: finalize and onExit.
OnExit(k) ==
  /\ child[k] \in {"killed", "exited"}
  /\ stdout[k] = <<>> \/ session[k].disposed \/ session[k].terminal
  /\ child' = [child EXCEPT ![k] = "closed"]
  /\ session' = [session EXCEPT ![k].disposed = TRUE]
  /\ IF startupIsActive(k)
     THEN LET drops == panel.bridge = k IN
          /\ panel' = [panel EXCEPT !.active = 0, !.session = IF @ = k THEN 0 ELSE @, !.bridge = IF drops THEN 0 ELSE @]
          /\ bridges' = IF drops THEN bridges \ {k} ELSE bridges
          /\ Invalidate(<<>>, <<Plain("run.exit")>>)
     ELSE UNCHANGED <<panel, bridges, confirmed, requests, toView>>
  /\ UNCHANGED <<view, toPanel, start, proc, stdin, stdout, handler, seen>>

\* The panel is closed.
Dispose ==
  /\ ~panel.disposed
  /\ panel' = [panel EXCEPT !.disposed = TRUE, !.revision = 0]
  /\ DisposeSession(panel.session)
  /\ bridges' = bridges \ {panel.bridge}
  /\ requests' = cancelAllPending
  /\ confirmed' = {}
  /\ toPanel' = <<>> /\ toView' = <<>> /\ view' = clearActiveRun(view)
  /\ UNCHANGED <<start, handler, seen>>

Next ==
  \/ ViewReceives \/ PanelReceives
  \/ ClickRun \/ ClickReset \/ ClickCancel \/ ClickLoad \/ ClickOpen \/ ClickAnswer
  \/ \E status \in {"opened", "failed"} : ClickVerified(status)
  \/ \E k \in Starts : Boot(k) \/ Ask(k) \/ ReadCommand(k) \/ EndRun(k) \/ Finish(k)
  \/ \E k \in Starts : Prepared(k) \/ Bridged(k) \/ OnFrame(k) \/ ProtocolFails(k) \/ OnExit(k)
  \/ \E t \in Turns : ActivationSettles(t) \/ CommandSettles(t) \/ VerificationEnds(t) \/ Deadline(t)
  \/ LoadEnds \/ Dispose

Spec == Init /\ [][Next]_vars

(***************************************************************************)
(* Properties.                                                             *)
(***************************************************************************)
\* The panel runs one process at a time: a process that runs and is not killed
\* is its session's, and none outlives the panel (startRun, run.reset, dispose).
OneProcess ==
  \A k \in Starts : child[k] = "running" => panel.session = k /\ ~panel.disposed

\* A view is opened at most once per turn and only for a turn the operator
\* confirmed; a run is answered at most once per turn, and is told that a view
\* was opened only if the operator said so (receive, consumePanelConfirmation,
\* waitForExternalViewVerification).
HostActionsExact ==
  \A t \in Turns :
    /\ seen.opened[t] <= 1
    /\ seen.opened[t] = 1 => t \in seen.clicked
    /\ Len(seen.answers[t]) <= 1
    /\ Capability(t) = "external-view.open" /\ seen.answers[t] = <<"completed">>
         => seen.opened[t] = 1 /\ t \in seen.verified

\* No view is opened for a run that has ended, was replaced or whose panel is
\* closed, however late its handler gets to it (invalidateHostActionRun).
OpensForActiveRun ==
  \A t \in Turns : seen'.opened[t] # seen.opened[t] => panel.active = t[1] /\ ~panel.disposed

PanelSafe == []OneProcess /\ []HostActionsExact /\ [][OpensForActiveRun]_vars
====
