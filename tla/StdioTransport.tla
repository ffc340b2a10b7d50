---- MODULE StdioTransport ----
(***************************************************************************)
(* The persistent tool processes spoken to over stdin and stdout:          *)
(* JSONRPCTransport and MCPTransport of runtime/internal/tool.  One         *)
(* transport serves every step that uses the tool; t.mu lets one call at a *)
(* time through, and a call writes one request and takes the next message  *)
(* of the process's stdout for its response.                               *)
(*                                                                         *)
(* A request or a message is named by the call it belongs to; the          *)
(* handshake of MCP is Handshake, and Note is a message of the server's own*)
(* (a notification, or a log line in JSON-RPC form).                       *)
(***************************************************************************)
EXTENDS Naturals, Sequences

CONSTANTS
  Calls,      \* tool calls that share the transport
  Kinds,      \* subset of {"jsonrpc", "mcp"}
  MaxNotes,   \* how many messages the server sends of its own
  MaxCloses   \* how often the runtime closes the transport

VARIABLES
  kind,     \* the transport of this tool
  mu,       \* the call that holds t.mu, or Nobody
  call,     \* per call: where it is, and what it took for its response
  ended,    \* the calls whose context is done
  proc,     \* t.proc: "none", or the call whose context it was started with
  alive,    \* whether that process runs
  inbox,    \* requests written to its stdin and not yet served
  out,      \* messages in its stdout pipe
  notes,    \* messages the server sent of its own
  closes    \* how often Close was called

vars == <<kind, mu, call, ended, proc, alive, inbox, out, notes, closes>>

Nobody == "nobody"
Handshake == "handshake"
Note == "note"
Nothing == "nothing"

StdioTypeOK ==
  /\ kind \in Kinds
  /\ mu \in Calls \cup {Nobody}
  /\ call \in [Calls -> [pc : {"idle", "start", "greeting", "send", "reading", "ok", "failed"},
                         got : Calls \cup {Handshake, Note, Nothing}]]
  /\ ended \subseteq Calls
  /\ proc \in Calls \cup {Nobody}
  /\ alive \in BOOLEAN
  /\ inbox \in Seq(Calls \cup {Handshake})
  /\ out \in Seq(Calls \cup {Handshake, Note})
  /\ notes \in 0..MaxNotes /\ closes \in 0..MaxCloses

Init ==
  /\ kind \in Kinds
  /\ mu = Nobody
  /\ call = [c \in Calls |-> [pc |-> "idle", got |-> Nothing]]
  /\ ended = {}
  /\ proc = Nobody /\ alive = FALSE
  /\ inbox = <<>> /\ out = <<>>
  /\ notes = 0 /\ closes = 0

(***************************************************************************)
(* The process.                                                            *)
(***************************************************************************)
\* ProcessHandle.Kill: the process is gone; what it wrote stays in the pipe.
Kill == alive' = FALSE /\ inbox' = <<>>

\* Mutant: readLine returns on ctx.Done() and leaves the process running.
KillSpared == UNCHANGED <<alive, inbox>>

\* What readLine and readMCPMessage do to the process when the context ends.
AbandonRead == Kill

\* The goroutine of StartProcess: the process dies with the context of the
\* call that started it, whichever call is using it then.  A context ends by
\* itself (the run is cancelled, a concurrent iterate returns) at any time.
ContextEnds(c) ==
  /\ c \notin ended /\ call[c].pc # "idle"
  /\ ended' = ended \cup {c}
  /\ IF proc = c THEN Kill ELSE UNCHANGED <<alive, inbox>>
  /\ UNCHANGED <<kind, mu, call, proc, out, notes, closes>>

\* The tool itself: it serves its requests in order, one response each.
Serve ==
  /\ alive /\ inbox # <<>>
  /\ inbox' = Tail(inbox)
  /\ out' = Append(out, Head(inbox))
  /\ UNCHANGED <<kind, mu, call, ended, proc, alive, notes, closes>>

\* The tool sends a notification.
Notify ==
  /\ alive /\ notes < MaxNotes
  /\ notes' = notes + 1
  /\ out' = Append(out, Note)
  /\ UNCHANGED <<kind, mu, call, ended, proc, alive, inbox, closes>>

\* The tool exits.
Crash ==
  /\ alive /\ Kill
  /\ UNCHANGED <<kind, mu, call, ended, proc, out, notes, closes>>

(***************************************************************************)
(* The calls.                                                              *)
(***************************************************************************)
At(c, pc) == mu = c /\ call[c].pc = pc
Go(c, pc) == call' = [call EXCEPT ![c].pc = pc]

\* Invoke returns: the deferred Unlock frees the transport.
Return(c, pc, got) ==
  /\ call' = [call EXCEPT ![c] = [pc |-> pc, got |-> got]]
  /\ mu' = Nobody

\* Invoke takes t.mu.
Lock(c) ==
  /\ mu = Nobody /\ call[c].pc = "idle"
  /\ mu' = c
  /\ Go(c, IF proc = Nobody THEN "start" ELSE "send")
  /\ UNCHANGED <<kind, ended, proc, alive, inbox, out, notes, closes>>

\* StartProcess with the context of this call; it may fail, and then t.proc
\* stays nil.  A context that is done already kills what it starts.  MCP goes
\* on with the initialize request.
Start(c) ==
  /\ At(c, "start")
  /\ \/ /\ proc' = c
        /\ alive' = (c \notin ended)
        /\ out' = <<>>
        /\ inbox' = (IF kind = "mcp" /\ alive' THEN <<Handshake>> ELSE <<>>)
        /\ Go(c, IF kind = "mcp" THEN "greeting" ELSE "send")
        /\ UNCHANGED mu
     \/ Return(c, "failed", Nothing) /\ UNCHANGED <<proc, alive, inbox, out>>
  /\ UNCHANGED <<kind, ended, notes, closes>>

\* A response is waited for: the next message of the pipe, whatever it is; the
\* end of the pipe; or the end of the context, which kills the process.
\* ensureStarted does not look at the message it takes for the handshake's.
Greet(c) ==
  /\ At(c, "greeting")
  /\ \/ /\ out # <<>>
        /\ out' = Tail(out)
        /\ Go(c, "send")
        /\ UNCHANGED <<mu, alive, inbox>>
     \/ /\ out = <<>> /\ ~alive
        /\ Return(c, "failed", Nothing)
        /\ UNCHANGED <<out, alive, inbox>>
     \/ /\ c \in ended
        /\ AbandonRead
        /\ Return(c, "failed", Nothing)
        /\ UNCHANGED out
  /\ UNCHANGED <<kind, ended, proc, notes, closes>>

\* The tools/call request is written and flushed; writing to a process that is
\* gone fails.
Send(c) ==
  /\ At(c, "send")
  /\ IF alive THEN inbox' = Append(inbox, c) /\ Go(c, "reading") /\ UNCHANGED mu
              ELSE Return(c, "failed", Nothing) /\ UNCHANGED inbox
  /\ UNCHANGED <<kind, ended, proc, alive, out, notes, closes>>

\* What Invoke makes of the message: the id is not compared.  A notification
\* has no result: for JSON-RPC that is an empty success, for MCP a response
\* without content.
Outcome(m) ==
  IF m = Note THEN {IF kind = "jsonrpc" THEN "ok" ELSE "failed"}
  ELSE {"ok", "failed"}

Read(c) ==
  /\ At(c, "reading")
  /\ \/ /\ out # <<>>
        /\ out' = Tail(out)
        /\ \E pc \in Outcome(Head(out)) : Return(c, pc, Head(out))
        /\ UNCHANGED <<alive, inbox>>
     \/ /\ out = <<>> /\ ~alive
        /\ Return(c, "failed", Nothing)
        /\ UNCHANGED <<out, alive, inbox>>
     \/ /\ c \in ended
        /\ AbandonRead
        /\ Return(c, "failed", Nothing)
        /\ UNCHANGED out
  /\ UNCHANGED <<kind, ended, proc, notes, closes>>

\* Close: a shutdown request nobody waits for, then the process is killed and
\* t.proc is nil again, so the next call starts another one.
Close ==
  /\ mu = Nobody /\ proc # Nobody /\ closes < MaxCloses
  /\ closes' = closes + 1
  /\ Kill
  /\ proc' = Nobody
  /\ UNCHANGED <<kind, mu, call, ended, out, notes>>

Next ==
  \/ \E c \in Calls : Lock(c) \/ Start(c) \/ Greet(c) \/ Send(c) \/ Read(c) \/ ContextEnds(c)
  \/ Serve \/ Notify \/ Crash \/ Close

Spec == Init /\ [][Next]_vars

(***************************************************************************)
(* Properties.                                                             *)
(***************************************************************************)
\* Invoke "waits for the response" (jsonrpc.go, mcp.go): a call that succeeds
\* returns the response to its own request.
InvokeReturnsResponse ==
  \A c \in Calls : call[c].pc = "ok" => call[c].got = c

\* As long as the tool writes nothing but responses, a call that succeeds
\* returns the response to its own request, never the late response to a call
\* that was given up, nor one of an earlier process.  Neither transport
\* compares ids: what keeps a late response from the next call is that giving a
\* call up kills the process (readLine, readMCPMessage).
StdioAnswersMatch == notes = 0 => InvokeReturnsResponse
====
