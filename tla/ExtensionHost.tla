---- MODULE ExtensionHost ----
(***************************************************************************)
(* The extension host: Load starts the process of every extension that is  *)
(* declared, shakes hands with it over JSON-RPC and registers what it      *)
(* contributes; a health loop per extension pings it; Shutdown stops them  *)
(* (runtime/internal/extension: host.go, process.go, proto.go, health.go,  *)
(* handshake.go, discovery.go).                                            *)
(*                                                                         *)
(* Three goroutines may use the codec of one process: the one of Load,     *)
(* its health loop and the one of Shutdown.  Each is a job: a call in      *)
(* flight, or a stop that waits for the process.  A run calls Load and,    *)
(* when Load succeeds, Shutdown when it ends (engine.go).                  *)
(***************************************************************************)
EXTENDS Naturals, Sequences, SequencesExt

CONSTANTS
  Decls,        \* the declarations: name, signature, capabilities, grants
  MaxPings,     \* bound: pings per extension
  MaxShutdowns  \* bound: calls of Shutdown

VARIABLES
  loader,       \* Load: where it is, the declaration it is at, whether one failed
  host,         \* Shutdown: where it is, the process it stops, calls so far
  context,      \* contexts that have ended: "load", "health"
  proc,         \* per extension: its process, and whether it was waited for
  codec,        \* per extension: pending ids, the channel of every call, the read loop
  pipe,         \* per extension: requests and responses in the pipes
  job,          \* per extension and goroutine: what it does
  procs,        \* concreteHost.procs
  contributed,  \* what was registered
  status        \* concreteHost.statuses

vars == <<loader, host, context, proc, codec, pipe, job, procs, contributed, status>>

Jobs == {"load", "health", "host"}
Calls == {"initialize", "list", "ping", "shutdown"}
Kinds == {"tool", "provider", "policy"}

\* discover: each name once, or none when two declarations of a name differ.
discover ==
  LET Add(found, d) == IF \E e \in Range(found) : e.name = d.name THEN found ELSE Append(found, d) IN
  IF \E c, d \in Range(Decls) : c.name = d.name /\ c.signature # d.signature THEN <<>>
  ELSE FoldLeft(Add, <<>>, Decls)

Exts == DOMAIN discover

\* intersectGrants.
intersectGrants(e) == discover[e].capabilities \cap discover[e].grants

HostTypeOK ==
  /\ loader.at \in {"begin", "start", "handshake", "contributions", "stop", "end"} /\ loader.next \in 1..(Len(discover) + 1)
  /\ host.at \in {"idle", "stop"} /\ host.calls \in 0..MaxShutdowns
  /\ proc \in [Exts -> [at : {"none", "alive", "exited"}, reaped : BOOLEAN]]
  /\ \A e \in Exts : codec[e].pending \subseteq DOMAIN codec[e].chan
  /\ \A e \in Exts, w \in Jobs : job[e][w].at \in Calls \cup {"off", "stop", "wait", "hung", "over", "idle"}
  /\ status \in [Exts -> {"none", "discovered", "starting", "handshaking", "loaded", "failed", "shutdown"}]

Init ==
  /\ loader = [at |-> "begin", next |-> 1, failed |-> FALSE]
  /\ host = [at |-> "idle", next |-> 1, calls |-> 0]
  /\ context = {}
  /\ proc = [e \in Exts |-> [at |-> "none", reaped |-> FALSE]]
  /\ codec = [e \in Exts |-> [pending |-> {}, chan |-> <<>>, reader |-> "reading"]]
  /\ pipe = [e \in Exts |-> [in |-> <<>>, out |-> <<>>]]
  /\ job = [e \in Exts |-> [w \in Jobs |-> [at |-> "off", id |-> 0, pings |-> 0]]]
  /\ procs = <<>>
  /\ contributed = {}
  /\ status = [e \in Exts |-> "none"]

(***************************************************************************)
(* The codec.                                                              *)
(***************************************************************************)
At(e, w, at) == job' = [job EXCEPT ![e][w].at = at, ![e][w].id = 0]

\* rpcCodec.call up to its select: a codec whose read loop ended, or a closed
\* pipe, refuses the call (id 0).
Call(e, w, method) ==
  IF codec[e].reader = "reading" /\ proc[e].at = "alive"
  THEN LET id == Len(codec[e].chan) + 1 IN
       /\ codec' = [codec EXCEPT ![e].pending = @ \cup {id}, ![e].chan = Append(@, "empty")]
       /\ pipe' = [pipe EXCEPT ![e].in = Append(@, id)]
       /\ job' = [job EXCEPT ![e][w] = [at |-> method, id |-> id, pings |-> @.pings + (IF method = "ping" THEN 1 ELSE 0)]]
  ELSE /\ job' = [job EXCEPT ![e][w].at = method, ![e][w].id = 0]
       /\ UNCHANGED <<codec, pipe>>

\* Mutant: a call whose context ends leaves its id behind.
forgetKept(e, id) == codec

\* The case of ctx.Done: the id is forgotten.
forget(e, id) == [codec EXCEPT ![e].pending = @ \ {id}, ![e].chan[id] = "taken"]

\* The select of a call: what it returns.  The context of a call always has a
\* deadline, so it may end at any time; any case that is ready may be taken.
Returns(e, w, result) ==
  LET id == job[e][w].id IN
  \/ id = 0 /\ result = "error" /\ UNCHANGED codec
  \/ /\ id # 0
     /\ \/ codec[e].chan[id] \in {"ok", "error"} /\ result = codec[e].chan[id]
        \/ codec[e].chan[id] = "closed" /\ result = "error"
        \/ codec[e].reader = "done" /\ result = "error"
     /\ codec' = [codec EXCEPT ![e].chan[id] = "taken"]
  \/ id # 0 /\ result = "error" /\ codec' = forget(e, id)

\* readLoop: a response goes to the call that waits for it, or to nobody.
ReadResponse(e) ==
  /\ codec[e].reader = "reading" /\ pipe[e].out # <<>>
  /\ LET r == Head(pipe[e].out) IN
     codec' = IF r.id \in codec[e].pending
              THEN [codec EXCEPT ![e].pending = @ \ {r.id}, ![e].chan[r.id] = r.kind]
              ELSE codec
  /\ pipe' = [pipe EXCEPT ![e].out = Tail(@)]
  /\ UNCHANGED <<loader, host, context, proc, job, procs, contributed, status>>

\* The pipe ends, or Wait closed it: every call that waits is woken.
ReadFails(e) ==
  /\ codec[e].reader = "reading" /\ proc[e].at = "exited"
  /\ pipe[e].out = <<>> \/ proc[e].reaped
  /\ codec' = [codec EXCEPT ![e] = [pending |-> {}, reader |-> "failed",
                 chan |-> [i \in DOMAIN @.chan |-> IF i \in @.pending THEN "closed" ELSE @.chan[i]]]]
  /\ UNCHANGED <<loader, host, context, proc, pipe, job, procs, contributed, status>>

ReadLoopEnds(e) ==
  /\ codec[e].reader = "failed"
  /\ codec' = [codec EXCEPT ![e].reader = "done"]
  /\ pipe' = [pipe EXCEPT ![e] = [in |-> <<>>, out |-> <<>>]]
  /\ UNCHANGED <<loader, host, context, proc, job, procs, contributed, status>>

(***************************************************************************)
(* An extension process.                                                   *)
(***************************************************************************)
Respond(e) ==
  /\ proc[e].at = "alive" /\ pipe[e].in # <<>>
  /\ \E kind \in {"ok", "error"} :
       pipe' = [pipe EXCEPT ![e] = [in |-> Tail(@.in), out |-> Append(@.out, [id |-> Head(@.in), kind |-> kind])]]
  /\ UNCHANGED <<loader, host, context, proc, codec, job, procs, contributed, status>>

Exit(e) ==
  /\ proc[e].at = "alive"
  /\ proc' = [proc EXCEPT ![e].at = "exited"]
  /\ UNCHANGED <<loader, host, context, codec, pipe, job, procs, contributed, status>>

\* The context of Load ends: the command of every process it started is killed.
LoadContextEnds ==
  /\ "load" \notin context
  /\ context' = context \cup {"load"}
  /\ proc' = [e \in Exts |-> IF proc[e].at = "alive" THEN [proc[e] EXCEPT !.at = "exited"] ELSE proc[e]]
  /\ UNCHANGED <<loader, host, codec, pipe, job, procs, contributed, status>>

(***************************************************************************)
(* extensionProcess.stop.                                                  *)
(***************************************************************************)
\* The process is asked to shut down; whatever comes of it, it is waited for.
StopAsks(e, w) ==
  /\ job[e][w].at = "stop"
  /\ Call(e, w, "shutdown")
  /\ UNCHANGED <<loader, host, context, proc, procs, contributed, status>>

StopAsked(e, w) ==
  /\ job[e][w].at = "shutdown"
  /\ \E result \in {"ok", "error"} : Returns(e, w, result)
  /\ At(e, w, "wait")
  /\ UNCHANGED <<loader, host, context, proc, pipe, procs, contributed, status>>

\* Mutant: when the time is over the stop returns and the process is left.
StopTimesOutLeft(e, w) ==
  /\ job[e][w].at = "wait" /\ proc[e].at = "alive"
  /\ At(e, w, "over")
  /\ UNCHANGED <<loader, host, context, proc, codec, pipe, procs, contributed, status>>

\* The time is over: the process is killed.
StopTimesOut(e, w) ==
  /\ job[e][w].at = "wait" /\ proc[e].at = "alive"
  /\ proc' = [proc EXCEPT ![e].at = "exited"]
  /\ UNCHANGED <<loader, host, context, codec, pipe, job, procs, contributed, status>>

\* cmd.Wait: the first to see the exit reaps the process; a Wait called after
\* that returns an error; one that was waiting at the same time gets an error
\* or never returns.
Waited(e, w) ==
  /\ job[e][w].at = "wait" /\ proc[e].at = "exited"
  /\ proc' = [proc EXCEPT ![e].reaped = TRUE]
  /\ At(e, w, "over") \/ (proc[e].reaped /\ At(e, w, "hung"))
  /\ UNCHANGED <<loader, host, context, codec, pipe, procs, contributed, status>>

(***************************************************************************)
(* Load.                                                                   *)
(***************************************************************************)
Cur == loader.next
LoaderTo(at) == loader' = [loader EXCEPT !.at = at]
LoadOnly == UNCHANGED <<host, context>>

\* One extension is done with: the next, or the end.
Proceed(failed) ==
  loader' = [at |-> IF Cur = Len(discover) THEN "end" ELSE "start", next |-> Cur + 1, failed |-> loader.failed \/ failed]

LoadBegins ==
  /\ loader.at = "begin"
  /\ LoaderTo(IF discover = <<>> THEN "end" ELSE "start")
  /\ LoadOnly /\ UNCHANGED <<proc, codec, pipe, job, procs, contributed, status>>

\* startProcess; the manifest is read again.
StartProcess ==
  /\ loader.at = "start"
  /\ \/ /\ Proceed(TRUE)                                         \* the process does not start
        /\ status' = [status EXCEPT ![Cur] = "failed"]
        /\ UNCHANGED <<proc, codec, pipe, job>>
     \/ /\ "load" \notin context
        /\ proc' = [proc EXCEPT ![Cur].at = "alive"]
        /\ \/ /\ LoaderTo("handshake")
              /\ status' = [status EXCEPT ![Cur] = "handshaking"]
              /\ At(Cur, "load", "idle")
           \/ /\ LoaderTo("stop")                                \* the manifest is gone
              /\ status' = [status EXCEPT ![Cur] = "starting"]
              /\ At(Cur, "load", "stop")
        /\ UNCHANGED <<codec, pipe>>
  /\ LoadOnly /\ UNCHANGED <<procs, contributed>>

\* performHandshake: initialize, then the list of contributions.
Initialize ==
  /\ loader.at = "handshake" /\ job[Cur]["load"].at = "idle"
  /\ Call(Cur, "load", "initialize")
  /\ LoadOnly /\ UNCHANGED <<loader, proc, procs, contributed, status>>

Initialized ==
  /\ loader.at = "handshake" /\ job[Cur]["load"].at = "initialize"
  /\ \/ Returns(Cur, "load", "ok") /\ LoaderTo("contributions") /\ At(Cur, "load", "idle")
     \/ \E result \in {"ok", "error"} :                          \* no identity, or a capability not granted
          Returns(Cur, "load", result) /\ LoaderTo("stop") /\ At(Cur, "load", "stop")
  /\ LoadOnly /\ UNCHANGED <<proc, pipe, procs, contributed, status>>

ListContributions ==
  /\ loader.at = "contributions" /\ job[Cur]["load"].at = "idle"
  /\ Call(Cur, "load", "list")
  /\ LoadOnly /\ UNCHANGED <<loader, proc, procs, contributed, status>>

Offer(S) == {<<Cur, kind>> : kind \in S}

\* Mutant: what an extension offers is registered whatever was granted.
registerContributionsUngranted(S) == contributed' = contributed \cup Offer(S)

\* registerContributions takes everything the extension offers, all granted.
registerContributions(S) == S \subseteq intersectGrants(Cur) /\ contributed' = contributed \cup Offer(S)

\* It takes them kind by kind and fails at the first kind that is not granted,
\* or at a tool the registry refuses; what it took stays.
Before(kind) == CASE kind = "tool" -> {} [] kind = "provider" -> {"tool"} [] kind = "policy" -> {"tool", "provider"}
registerSome(S) ==
  \E kind \in S :
    /\ S \cap Before(kind) \subseteq intersectGrants(Cur)
    /\ \/ kind \notin intersectGrants(Cur) /\ contributed' = contributed \cup Offer(S \cap Before(kind))
       \/ kind = "tool" /\ kind \in intersectGrants(Cur) /\ \E T \in SUBSET {kind} : contributed' = contributed \cup Offer(T)

Loaded ==
  /\ loader.at = "contributions" /\ job[Cur]["load"].at = "list"
  /\ \/ /\ Returns(Cur, "load", "ok")
        /\ \E S \in SUBSET Kinds : registerContributions(S)
        /\ Proceed(FALSE)
        /\ procs' = Append(procs, Cur)
        /\ status' = [status EXCEPT ![Cur] = "loaded"]
        /\ job' = [job EXCEPT ![Cur]["load"].at = "over", ![Cur]["load"].id = 0, ![Cur]["health"].at = "idle"]
     \/ /\ \/ Returns(Cur, "load", "ok") /\ \E S \in SUBSET Kinds : registerSome(S)
           \/ Returns(Cur, "load", "error") /\ UNCHANGED contributed
        /\ LoaderTo("stop") /\ At(Cur, "load", "stop")
        /\ UNCHANGED <<procs, status>>
  /\ LoadOnly /\ UNCHANGED <<proc, pipe>>

\* The process of an extension that failed has been stopped.
LoadFailed ==
  /\ loader.at = "stop" /\ job[Cur]["load"].at = "over"
  /\ Proceed(TRUE)
  /\ status' = [status EXCEPT ![Cur] = "failed"]
  /\ LoadOnly /\ UNCHANGED <<proc, codec, pipe, job, procs, contributed>>

(***************************************************************************)
(* The health loop.                                                        *)
(***************************************************************************)
Ping(e) ==
  /\ job[e]["health"].at = "idle" /\ job[e]["health"].pings < MaxPings
  /\ Call(e, "health", "ping")
  /\ UNCHANGED <<loader, host, context, proc, procs, contributed, status>>

\* A ping that failed, or whose context Shutdown cancelled, stops the process.
Pinged(e) ==
  /\ job[e]["health"].at = "ping"
  /\ \/ /\ Returns(e, "health", "ok") /\ At(e, "health", "idle")
        /\ UNCHANGED status
     \/ /\ \E result \in {"ok", "error"} : Returns(e, "health", result)      \* not "pong"
        /\ At(e, "health", "stop")
        /\ status' = [status EXCEPT ![e] = "failed"]
  /\ UNCHANGED <<loader, host, context, proc, pipe, procs, contributed>>

HealthLoopEnds(e) ==
  /\ job[e]["health"].at = "idle" /\ "health" \in context
  /\ At(e, "health", "over")
  /\ UNCHANGED <<loader, host, context, proc, codec, pipe, procs, contributed, status>>

(***************************************************************************)
(* Shutdown.                                                               *)
(***************************************************************************)
Shutdown ==
  /\ loader.at = "end" /\ ~loader.failed
  /\ host.at = "idle" /\ host.calls < MaxShutdowns
  /\ context' = context \cup {"health"}
  /\ host' = [at |-> IF procs = <<>> THEN "idle" ELSE "stop", next |-> 1, calls |-> host.calls + 1]
  /\ job' = IF procs = <<>> THEN job ELSE [job EXCEPT ![procs[1]]["host"].at = "stop"]
  /\ UNCHANGED <<loader, proc, codec, pipe, procs, contributed, status>>

\* The next process is stopped.
ShutdownNext ==
  LET e == procs[host.next] IN
  /\ host.at = "stop" /\ job[e]["host"].at = "over"
  /\ status' = [status EXCEPT ![e] = "shutdown"]
  /\ host' = IF host.next = Len(procs) THEN [host EXCEPT !.at = "idle"] ELSE [host EXCEPT !.next = @ + 1]
  /\ job' = IF host.next = Len(procs) THEN job ELSE [job EXCEPT ![procs[host.next + 1]]["host"].at = "stop"]
  /\ UNCHANGED <<loader, context, proc, codec, pipe, procs, contributed>>

Next ==
  \/ LoadBegins \/ StartProcess \/ Initialize \/ Initialized \/ ListContributions \/ Loaded \/ LoadFailed
  \/ Shutdown \/ ShutdownNext \/ LoadContextEnds
  \/ \E e \in Exts : ReadResponse(e) \/ ReadFails(e) \/ ReadLoopEnds(e) \/ Respond(e) \/ Exit(e)
  \/ \E e \in Exts : Ping(e) \/ Pinged(e) \/ HealthLoopEnds(e)
  \/ \E e \in Exts, w \in Jobs : StopAsks(e, w) \/ StopAsked(e, w) \/ StopTimesOut(e, w) \/ Waited(e, w)

Spec == Init /\ [][Next]_vars

(***************************************************************************)
(* Properties.                                                             *)
(***************************************************************************)
\* Once Shutdown has returned, no process of an extension that was loaded runs,
\* though its health loop may be stopping the same process (Shutdown, stop); a
\* process that is not one of those is being loaded or stopped by Load.
NoneLeftRunning ==
  \A e \in Exts : proc[e].at = "alive" =>
    IF e \in Range(procs) THEN host.calls = 0 \/ host.at = "stop"
    ELSE e = Cur /\ loader.at # "end"

\* A codec waits only for calls in progress: an id that is pending belongs to a
\* call that has not returned, and no call waits for a codec that stopped
\* reading (call, readLoop).
PendingIsWaited ==
  \A e \in Exts :
    /\ \A id \in codec[e].pending : \E w \in Jobs : job[e][w].at \in Calls /\ job[e][w].id = id
    /\ codec[e].reader # "reading" => codec[e].pending = {}

\* Nothing is contributed by an extension that was not granted it or was never
\* shaken hands with (registerContributions).
ContributionsGranted ==
  \A c \in contributed : c[2] \in intersectGrants(c[1]) /\ proc[c[1]].at # "none"

ExtensionsContained == NoneLeftRunning /\ PendingIsWaited /\ ContributionsGranted
====
