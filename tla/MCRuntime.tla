------------------------------ MODULE MCRuntime ------------------------------
(***************************************************************************)
(* The parts of the runtime, of the server and of the editor around a run,  *)
(* each on a small instance: a behaviour picks one of them and runs it.     *)
(* Only that one moves, so that the parts share the variables x1 .. x15.    *)
(***************************************************************************)
EXTENDS Naturals, Sequences, TLC, MCRunbookCases, MCRunCases

VARIABLES part, x1, x2, x3, x4, x5, x6, x7, x8, x9, x10, x11, x12, x13, x14, x15

Steps == <<[kind |-> "step/started", step |-> 1, index |-> 0], [kind |-> "step/completed", step |-> 1, index |-> 0]>>
Extension(n) == [name |-> n, signature |-> "s", capabilities |-> {"tool", "policy"}, grants |-> {"tool", "provider"}]

\* Up to three processes execute one run, with two catalogs of tools.
F == INSTANCE ExecutionFrames WITH
       Plans <- FramePlans, MaxEpoch <- 3, MaxVersion <- 2,
       plan <- x1, run <- x2, disk <- x3, root <- x4, thread <- x5, catalog <- x6, log <- x7

\* A run is recorded and replayed.
R == INSTANCE Replay WITH
       Programs <- ReplayPrograms, Values <- {1, 2}, Fields <- {"plan", "tools"}, None <- 0,
       program <- x1, phase <- x2, lane <- x3, count <- x4, includes <- x5, ran <- x6, trace <- x7,
       pins <- x8, lock <- x9, current <- x10, scenario <- x11, consumed <- x12

\* A scenario test of one route.
T == INSTANCE RouteTest WITH
       Plans <- RoutePlans, Commands <- RouteCommands,
       plan <- x1, command <- x2, phase <- x3, pos <- x4, at <- x5, count <- x6, asked <- x7,
       consumed <- x8, reached <- x9, dispatched <- x10, took <- x11, run <- x12, exit <- x13

\* One file of the closure is edited while it is built or used.
L == INSTANCE PackageClosure WITH
       Contents <- ClosureFiles, Entrypoint <- ClosureEntry, Scanned <- ClosureScanned,
       ProjectRequires <- ClosureRequires, Builtins <- {"cli"}, MaxIncludeDepth <- 2,
       MaxDocuments <- 6, MaxPackages <- 2, MaxEdits <- 1, None <- Absent,
       disk <- x1, edits <- x2, captured <- x3, docs <- x4, catalog <- x5, bindings <- x6,
       scoped <- x7, loaded <- x8, pc <- x9, errs <- x10

\* One include per runbook is expanded eagerly, two levels deep.
N == INSTANCE FlowPlanner WITH
       Cases <- PlannerCases, Threshold <- 1, MaxIncludeDepth <- 2, Tools <- PlannerTools,
       None <- Absent,
       input <- x1, stack <- x2, depth <- x3, lazyAt <- x4, dynamicAt <- x5, seen <- x6,
       sites <- x7, steps <- x8, snapshot <- x9, phase <- x10

\* Three materialisations of dynamic includes, one loop back and one restart.
D == INSTANCE DynamicRevision WITH
       Runbooks <- RevisionBooks, Scoped <- TRUE, Items <- 2, MaxPins <- 3, MaxRepeats <- 1,
       MaxRestarts <- 1, QueueSize <- 2,
       runbook <- x1, plan <- x2, pins <- x3, finished <- x4, lanes <- x5, opened <- x6,
       segment <- x7, queue <- x8, view <- x9, shown <- x10, refused <- x11, repeats <- x12,
       restarts <- x13

\* Substitutions, static, lazy and dynamic includes, three calls deep.
G == INSTANCE CallGovernance WITH
       Books <- CallBooks, Flows <- CallFlows, Actions <- CallActions, Children <- CallChildren,
       MaxDepth <- 3, MaxIncludeDepth <- 2,
       book <- x1, phase <- x2, roots <- x3, tools <- x4, frozen <- x5, stack <- x6, asked <- x7,
       ran <- x8, refused <- x9

\* A client of the event stream that reconnects once.
S1 == INSTANCE ServedRuns WITH
       Script <- Steps, Clients <- {"c"}, HistorySize <- 2, BufferSize <- 1, EngineBuffer <- 3,
       Kinds <- {"sse"}, Requests <- {}, Modes <- {"auto"}, MaxConnects <- 2, MaxStarts <- 1,
       engine <- x1, disk <- x2, entry <- x3, ctx <- x4, driver <- x5, pump <- x6, bridge <- x7,
       conn <- x8, request <- x9, server <- x10

\* A client of the socket or of the state stream.
S2 == INSTANCE ServedRuns WITH
       Script <- Steps, Clients <- {"c"}, HistorySize <- 2, BufferSize <- 1, EngineBuffer <- 3,
       Kinds <- {"ws", "state"}, Requests <- {}, Modes <- {"auto"}, MaxConnects <- 1,
       MaxStarts <- 1,
       engine <- x1, disk <- x2, entry <- x3, ctx <- x4, driver <- x5, pump <- x6, bridge <- x7,
       conn <- x8, request <- x9, server <- x10

\* A run that is cancelled, deleted and collected while it is driven.
S3 == INSTANCE ServedRuns WITH
       Script <- Tail(Steps), Clients <- {}, HistorySize <- 2, BufferSize <- 1, EngineBuffer <- 2,
       Kinds <- {}, Requests <- {"cancel", "delete", "gc"}, Modes <- {"rpc", "auto"},
       MaxConnects <- 0, MaxStarts <- 2,
       engine <- x1, disk <- x2, entry <- x3, ctx <- x4, driver <- x5, pump <- x6, bridge <- x7,
       conn <- x8, request <- x9, server <- x10

\* A run that is cancelled while the server stops.
S4 == INSTANCE ServedRuns WITH
       Script <- Tail(Steps), Clients <- {}, HistorySize <- 2, BufferSize <- 1, EngineBuffer <- 2,
       Kinds <- {}, Requests <- {"cancel", "stop"}, Modes <- {"rpc", "auto"}, MaxConnects <- 0,
       MaxStarts <- 1,
       engine <- x1, disk <- x2, entry <- x3, ctx <- x4, driver <- x5, pump <- x6, bridge <- x7,
       conn <- x8, request <- x9, server <- x10

\* Two calls share a tool process.
O == INSTANCE StdioTransport WITH
       Calls <- {"p", "q"}, Kinds <- {"jsonrpc", "mcp"}, MaxNotes <- 1, MaxCloses <- 1,
       kind <- x1, mu <- x2, call <- x3, ended <- x4, proc <- x5, alive <- x6, inbox <- x7,
       out <- x8, notes <- x9, closes <- x10

\* Two calls share an HTTP transport.
H == INSTANCE McpHttp WITH
       Calls <- {"p", "q"}, Gated <- TRUE, MaxEvents <- 3, MaxSessions <- 2, MaxTokens <- 2,
       mu <- x1, call <- x2, t <- x3, cache <- x4, wire <- x5, server <- x6, issued <- x7,
       executed <- x8

\* Three calls of two requests reach the editor.
B == INSTANCE McpBridge WITH
       Request <- BridgeRequests, Projects <- BridgeProjects, Overrides <- BridgeOverrides,
       LmTools <- BridgeTools, Results <- BridgeResults, Failures <- BridgeFailures,
       MaxTokens <- 1, MaxCloses <- 1,
       call <- x1, pending <- x2, http <- x3, response <- x4, bridge <- x5, handling <- x6,
       token <- x7, closes <- x8, panicked <- x9, invoked <- x10

\* A run that asks for a view, and a run that replaces it.
P1 == INSTANCE RunPanel WITH
       Asks <- <<<<"external-view.open">>, <<>>>>, MaxLoads <- 0, QueueSize <- 1, PipeSize <- 1,
       view <- x1, toPanel <- x2, toView <- x3, panel <- x4, start <- x5, bridges <- x6,
       session <- x7, child <- x8, proc <- x9, stdin <- x10, stdout <- x11, requests <- x12,
       confirmed <- x13, handler <- x14, seen <- x15

\* A run that asks for an input, and a saved run.
P2 == INSTANCE RunPanel WITH
       Asks <- <<<<"input">>>>, MaxLoads <- 1, QueueSize <- 2, PipeSize <- 1,
       view <- x1, toPanel <- x2, toView <- x3, panel <- x4, start <- x5, bridges <- x6,
       session <- x7, child <- x8, proc <- x9, stdin <- x10, stdout <- x11, requests <- x12,
       confirmed <- x13, handler <- x14, seen <- x15

\* A run that asks for two actions that nobody confirms.
P3 == INSTANCE RunPanel WITH
       Asks <- <<<<"test.echo", "other">>>>, MaxLoads <- 0, QueueSize <- 1, PipeSize <- 1,
       view <- x1, toPanel <- x2, toView <- x3, panel <- x4, start <- x5, bridges <- x6,
       session <- x7, child <- x8, proc <- x9, stdin <- x10, stdout <- x11, requests <- x12,
       confirmed <- x13, handler <- x14, seen <- x15

\* Two runs, started one after the other, with longer queues.
P4 == INSTANCE RunPanel WITH
       Asks <- <<<<>>, <<>>>>, MaxLoads <- 0, QueueSize <- 2, PipeSize <- 1,
       view <- x1, toPanel <- x2, toView <- x3, panel <- x4, start <- x5, bridges <- x6,
       session <- x7, child <- x8, proc <- x9, stdin <- x10, stdout <- x11, requests <- x12,
       confirmed <- x13, handler <- x14, seen <- x15

\* An extension declared twice, with health checks and two shutdowns.
X1 == INSTANCE ExtensionHost WITH
       Decls <- <<Extension("a"), Extension("a")>>, MaxPings <- 1, MaxShutdowns <- 2,
       loader <- x1, host <- x2, context <- x3, proc <- x4, codec <- x5, pipe <- x6, job <- x7,
       procs <- x8, contributed <- x9, status <- x10

\* Two extensions.
X2 == INSTANCE ExtensionHost WITH
       Decls <- <<Extension("a"), Extension("b")>>, MaxPings <- 0, MaxShutdowns <- 1,
       loader <- x1, host <- x2, context <- x3, proc <- x4, codec <- x5, pipe <- x6, job <- x7,
       procs <- x8, contributed <- x9, status <- x10

x == <<x1, x2, x3, x4, x5, x6, x7, x8, x9, x10, x11, x12, x13, x14, x15>>
from8 == <<x8, x9, x10, x11, x12, x13, x14, x15>>
from9 == <<x9, x10, x11, x12, x13, x14, x15>>
from10 == <<x10, x11, x12, x13, x14, x15>>
from11 == <<x11, x12, x13, x14, x15>>
from13 == <<x13, x14, x15>>
from14 == <<x14, x15>>

\* The variables from the n-th on are not used.
Idle(n) ==
    /\ (n <= 1 => x1 = 0) /\ (n <= 2 => x2 = 0) /\ (n <= 3 => x3 = 0) /\ (n <= 4 => x4 = 0)
    /\ (n <= 5 => x5 = 0) /\ (n <= 6 => x6 = 0) /\ (n <= 7 => x7 = 0) /\ (n <= 8 => x8 = 0)
    /\ (n <= 9 => x9 = 0) /\ (n <= 10 => x10 = 0) /\ (n <= 11 => x11 = 0) /\ (n <= 12 => x12 = 0)
    /\ (n <= 13 => x13 = 0) /\ (n <= 14 => x14 = 0) /\ (n <= 15 => x15 = 0)

Init ==
    \/ part = "frames" /\ F!Init /\ Idle(8)
    \/ part = "replay" /\ R!Init /\ Idle(13)
    \/ part = "route" /\ T!Init /\ Idle(14)
    \/ part = "closure" /\ L!Init /\ Idle(11)
    \/ part = "planner" /\ N!Init /\ Idle(11)
    \/ part = "revision" /\ D!Init /\ Idle(14)
    \/ part = "calls" /\ G!Init /\ Idle(10)
    \/ part = "replayed" /\ S1!Init /\ Idle(11)
    \/ part = "followed" /\ S2!Init /\ Idle(11)
    \/ part = "managed" /\ S3!Init /\ Idle(11)
    \/ part = "stopped" /\ S4!Init /\ Idle(11)
    \/ part = "stdio" /\ O!Init /\ Idle(11)
    \/ part = "http" /\ H!Init /\ Idle(9)
    \/ part = "bridge" /\ B!Init /\ Idle(11)
    \/ part = "panel" /\ P1!Init
    \/ part = "loads" /\ P2!Init
    \/ part = "actions" /\ P3!Init
    \/ part = "starts" /\ P4!Init
    \/ part = "extensions" /\ X1!Init /\ Idle(11)
    \/ part = "two" /\ X2!Init /\ Idle(11)

Next ==
    /\ UNCHANGED part
    /\ \/ part = "frames" /\ F!Next /\ UNCHANGED from8
       \/ part = "replay" /\ R!Next /\ UNCHANGED from13
       \/ part = "route" /\ T!Next /\ UNCHANGED from14
       \/ part = "closure" /\ L!Next /\ UNCHANGED from11
       \/ part = "planner" /\ N!Next /\ UNCHANGED from11
       \/ part = "revision" /\ D!Next /\ UNCHANGED from14
       \/ part = "calls" /\ G!Next /\ UNCHANGED from10
       \/ part = "replayed" /\ S1!Next /\ UNCHANGED from11
       \/ part = "followed" /\ S2!Next /\ UNCHANGED from11
       \/ part = "managed" /\ S3!Next /\ UNCHANGED from11
       \/ part = "stopped" /\ S4!Next /\ UNCHANGED from11
       \/ part = "stdio" /\ O!Next /\ UNCHANGED from11
       \/ part = "http" /\ H!Next /\ UNCHANGED from9
       \/ part = "bridge" /\ B!Next /\ UNCHANGED from11
       \/ part = "panel" /\ P1!Next
       \/ part = "loads" /\ P2!Next
       \/ part = "actions" /\ P3!Next
       \/ part = "starts" /\ P4!Next
       \/ part = "extensions" /\ X1!Next /\ UNCHANGED from11
       \/ part = "two" /\ X2!Next /\ UNCHANGED from11

Spec == Init /\ [][Next]_<<part, x>>

----------------------------------------------------------------------------

\* A step that settled is never dispatched again, whichever process resumes the
\* run; what had been done is undone when the run fails; and the frames on disk
\* say where to go on.
FramesSound == part = "frames" => F!EffectsOnce /\ F!Compensated /\ F!FramesResume

\* A replay gives every step what the recording gave it, or refuses.
ReplayedAsRecorded == part = "replay" => R!ReplayedAsRecorded

\* A scenario test that exits with zero followed its route to the target.
ExitZeroMeans == part = "route" => T!ExitZeroMeans

\* What a run loads from its packages is what was resolved, whoever edits the files.
ClosureFrozen == part = "closure" => L!ClosureFrozen

\* A plan lists the steps of a runbook as a tree, and what it marks as safe to
\* run concurrently is.
PlanSound == part = "planner" => N!PlanIsTree /\ N!ConcurrencySafe

\* Every occurrence of a dynamic include has its place in the graph that the
\* editor shows, and a revision of the graph only adds to it.
RevisionSound ==
    /\ [](part = "revision" => D!OccurrencesExact)
    /\ [][part = "revision" => D!GraphExtends]_<<part, x>>

\* A call runs what was frozen for it, as deep as allowed, and under restrictions
\* no weaker than its caller's.
CallsContained == part = "calls" => G!CallsTypeOK /\ G!CallsContained

\* A client of a served run is owed nothing that it was not sent, and a run that
\* executes keeps its directory.
ServedSound ==
    /\ part = "replayed" => S1!StreamsOweNothing /\ S1!LiveRunOnDisk
    /\ part = "followed" => S2!StreamsOweNothing /\ S2!LiveRunOnDisk
    /\ part = "managed" => S3!StreamsOweNothing /\ S3!LiveRunOnDisk
    /\ part = "stopped" => S4!StreamsOweNothing /\ S4!LiveRunOnDisk

\* A call of a tool, over any transport, returns the answer to its own request,
\* and is executed once.
ToolCallsExact ==
    /\ [](part = "stdio" => O!StdioTypeOK /\ O!StdioAnswersMatch)
    /\ [](part = "http" => H!HttpTypeOK /\ H!HttpCallsExact)
    /\ [](part = "bridge" => B!BridgeTypeOK /\ B!OneInvocation /\ B!ResultsEarned)
    /\ [][part = "bridge" => B!StoppedIsStopped]_<<part, x>>

\* The panel drives one process, and does what the operator confirmed once, for
\* the run that asked.
PanelSafe ==
    /\ [](part = "panel" => P1!PanelTypeOK /\ P1!OneProcess /\ P1!HostActionsExact)
    /\ [](part = "loads" => P2!PanelTypeOK /\ P2!OneProcess /\ P2!HostActionsExact)
    /\ [](part = "actions" => P3!PanelTypeOK /\ P3!OneProcess /\ P3!HostActionsExact)
    /\ [](part = "starts" => P4!PanelTypeOK /\ P4!OneProcess /\ P4!HostActionsExact)
    /\ [][/\ part = "panel" => P1!OpensForActiveRun
          /\ part = "loads" => P2!OpensForActiveRun
          /\ part = "actions" => P3!OpensForActiveRun
          /\ part = "starts" => P4!OpensForActiveRun]_<<part, x>>

\* An extension contributes what it was granted while it runs, and none is left behind.
ExtensionsContained ==
    /\ part = "extensions" => X1!HostTypeOK /\ X1!ExtensionsContained
    /\ part = "two" => X2!HostTypeOK /\ X2!ExtensionsContained
==============================================================================
