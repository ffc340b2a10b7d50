---- MODULE McpBridge ----
(***************************************************************************)
(* MCP tools of the editor, called by a run: the vscode-mcp transport of   *)
(* the runtime (vscode_mcp_bridge.go), the bridge the extension listens    *)
(* with (mcpBridge.ts) and the invocation token it keeps (toolTokenStore). *)
(*                                                                         *)
(* A call is one Invoke of the transport, with a request id; calls may     *)
(* share an id.  A value is abstracted to its JSON type.  A request of     *)
(* this transport is well formed and carries the secret of the bridge.     *)
(***************************************************************************)
EXTENDS Naturals, FiniteSets, Sequences, SequencesExt

CONSTANTS
  Request,    \* per call: its request id, tool, action and arguments (name to type)
  Projects,   \* the projects a run may start in: their tool files, in scan order
  Overrides,  \* per tool and action: the registered name the settings give
  LmTools,    \* per registered name: the input schema (name to type, required names)
  Results,    \* what a tool may return: whether it is JSON and an object, and its fields
  Failures,   \* what a failed invocation may say: a set of recognised phrases
  MaxTokens,  \* bound: tokens armed
  MaxCloses   \* bound: Close of the transport

VARIABLES
  call,       \* per call: where it is, and what it returned
  pending,    \* per request id: the entry of the transport, and its result
  http,       \* per call: where its request is in the bridge
  response,   \* per call: the response that is on its way
  bridge,     \* the shared bridge: where it is, its registry, inflight and completed
  handling,   \* per request id: the invocation in progress
  token,      \* the token store: the current token (0: none) and those armed
  closes, panicked,
  invoked     \* history: per request id, the requests that invoked its tool

vars == <<call, pending, http, response, bridge, handling, token, closes, panicked, invoked>>
client == <<call, pending, closes, panicked>>

Calls == DOMAIN Request
Ids == {Request[c].id : c \in Calls}
None == "none"
Codes == {"ok", "tool_not_found", "tool_unavailable", "input_validation_error", "deadline_exceeded",
          "invocation_token_unavailable", "provider_unavailable", "authorization_unavailable",
          "provider_input_rejected", "invocation_error", "result_parse_error", "result_normalization_error",
          "bridge_disconnected"}
Quiet == [at |-> "idle", token |-> 0, cancelled |-> FALSE, outputs |-> <<>>]
Up == bridge.active

BridgeTypeOK ==
  /\ \A c \in Calls : call[c].at \in {"idle", "joined", "sent", "returned"} /\ call[c].result \in Codes \cup {None, "transport"}
  /\ pending \in [Ids -> Codes \cup {None, "open", "transport"}]
  /\ http \in [Calls -> {"none", "sent", "body", "owner", "joined", "over"}]
  /\ response \in [Calls -> Codes \cup {None}]
  /\ bridge.at \in {"none", "starting", "listening", "disposed"} /\ bridge.inflight \subseteq Ids
  /\ bridge.completed \in [Ids -> Codes \cup {None}]
  /\ \A i \in Ids : handling[i].at \in {"idle", "invoking"} /\ handling[i].token \in 0..MaxTokens
  /\ token.current \in 0..MaxTokens /\ token.armed \in 0..MaxTokens

Init ==
  /\ call = [c \in Calls |-> [at |-> "idle", result |-> None]]
  /\ pending = [i \in Ids |-> None]
  /\ http = [c \in Calls |-> "none"]
  /\ response = [c \in Calls |-> None]
  /\ bridge = [at |-> "none", active |-> TRUE, registry |-> <<>>, inflight |-> {}, completed |-> [i \in Ids |-> None]]
  /\ handling = [i \in Ids |-> Quiet]
  /\ token = [current |-> 0, armed |-> 0]
  /\ closes = 0 /\ panicked = FALSE
  /\ invoked = [i \in Ids |-> {}]

(***************************************************************************)
(* The transport of the runtime.                                           *)
(***************************************************************************)
\* registerPending: a request id that is known is waited for, or already done.
Invoke(c) ==
  LET id == Request[c].id IN
  /\ ~panicked /\ call[c].at = "idle" /\ bridge.at \in {"listening", "disposed"}
  /\ IF pending[id] = None
     THEN /\ pending' = [pending EXCEPT ![id] = "open"]
          /\ call' = [call EXCEPT ![c].at = "sent"]
          /\ http' = [http EXCEPT ![c] = "sent"]
     ELSE call' = [call EXCEPT ![c].at = "joined"] /\ UNCHANGED <<pending, http>>
  /\ UNCHANGED <<response, bridge, handling, token, closes, panicked, invoked>>

\* finishPending: the entry of the id is settled.  Close may have dropped it (a
\* nil entry), and another call may have settled it (closed twice).
finishPending(c, result) ==
  LET id == Request[c].id IN
  IF pending[id] = "open"
  THEN /\ pending' = [pending EXCEPT ![id] = result]
       /\ call' = [call EXCEPT ![c] = [at |-> "returned", result |-> result]]
       /\ UNCHANGED panicked
  ELSE panicked' = TRUE /\ UNCHANGED <<pending, call>>

\* The response arrives (invokeBridge).
Answered(c) ==
  /\ ~panicked /\ call[c].at = "sent" /\ response[c] # None
  /\ finishPending(c, response[c])
  /\ UNCHANGED <<http, response, bridge, handling, token, closes, invoked>>

\* The context of the call ends, or the connection is lost: the bridge is not
\* told.
GivesUp(c) ==
  /\ ~panicked /\ call[c].at = "sent"
  /\ finishPending(c, "transport")
  /\ UNCHANGED <<http, response, bridge, handling, token, closes, invoked>>

\* A call that joined another returns what that one returned, or gives up.
JoinedReturns(c) ==
  LET id == Request[c].id IN
  /\ ~panicked /\ call[c].at = "joined"
  /\ \/ /\ pending[id] \notin {None, "open"}
        /\ call' = [call EXCEPT ![c] = [at |-> "returned", result |-> pending[id]]]
     \/ call' = [call EXCEPT ![c] = [at |-> "returned", result |-> "transport"]]
  /\ UNCHANGED <<pending, http, response, bridge, handling, token, closes, panicked, invoked>>

\* Close drops every entry.
Close ==
  /\ ~panicked /\ closes < MaxCloses
  /\ closes' = closes + 1
  /\ pending' = [i \in Ids |-> None]
  /\ UNCHANGED <<call, http, response, bridge, handling, token, panicked, invoked>>

(***************************************************************************)
(* The bridge: pure parts.                                                 *)
(***************************************************************************)
\* checkJsonSchemaType; a parameter without a declared type takes any value.
checkJsonSchemaType(type, value) ==
  \/ type \in {"any", value}
  \/ type = "number" /\ value = "integer"

validateArgsAgainstSchema(args, schema) ==
  /\ schema.required \subseteq DOMAIN args
  /\ DOMAIN args \subseteq DOMAIN schema.properties
  /\ \A p \in DOMAIN args : checkJsonSchemaType(schema.properties[p], args[p])

\* The registered name of an action: its own, its transport's, or the tool's.
RegisteredName(file, action) ==
  IF action.vscodeTool # None THEN action.vscodeTool
  ELSE IF file.vscodeTool # None THEN file.vscodeTool ELSE file.tool

\* buildOutputFields: fields of an unknown type are not declared.
buildOutputFields(outputs) ==
  [f \in {g \in DOMAIN outputs : outputs[g].type \in {"string", "number", "boolean", "object", "array"}} |-> outputs[f]]

\* buildRegistryFromDir: the last file that defines an action of this transport
\* wins.
buildRegistryFromDir(files) ==
  LET Actions(file) == IF file.mode = "vscode-mcp" THEN file.actions ELSE <<>>
      Entries(file) == [i \in DOMAIN Actions(file) |->
        LET a == Actions(file)[i] IN
        [key |-> <<file.tool, a.name>>, name |-> RegisteredName(file, a), outputs |-> buildOutputFields(a.outputs)]]
      all == FlattenSeq([i \in DOMAIN files |-> Entries(files[i])])
  IN [k \in {all[i].key : i \in DOMAIN all} |-> all[SelectLastInSeq(all, LAMBDA e : e.key = k)]]

\* resolveSpec: the settings may name the tool otherwise.
resolveSpec(key) ==
  LET spec == bridge.registry[key] IN
  [name |-> IF key \in DOMAIN Overrides THEN Overrides[key] ELSE spec.name, outputs |-> spec.outputs]

\* normalizeResult: a required field is present, and a declared field that is
\* present has the type typeof gives, which knows no integers.
TypeOf(value) == IF value = "integer" THEN "number" ELSE value
normalizeResult(raw, outputs) ==
  /\ raw.object
  /\ \A f \in DOMAIN outputs :
       /\ outputs[f].required => f \in DOMAIN raw.fields
       /\ f \in DOMAIN raw.fields => TypeOf(raw.fields[f]) = outputs[f].type

\* classifyInvocationError, after isCanceledError: the first phrase that fits.
classify(said) ==
  CASE said \cap {"canceled", "token"} # {} -> "invocation_token_unavailable"
    [] said \cap {"canceled", "token"} = {} /\ "stopped" \in said -> "provider_unavailable"
    [] said \cap {"canceled", "token", "stopped"} = {} /\ "auth" \in said -> "authorization_unavailable"
    [] said \cap {"canceled", "token", "stopped", "auth"} = {} /\ "input" \in said -> "provider_input_rejected"
    [] OTHER -> "invocation_error"

\* What refuses a request before its deadline is looked at, and after (handle).
Key(c) == <<Request[c].tool, Request[c].action>>
Refusal(c) ==
  IF Key(c) \notin DOMAIN bridge.registry THEN "tool_not_found"
  ELSE IF resolveSpec(Key(c)).name \notin DOMAIN LmTools THEN "tool_unavailable"
  ELSE IF ~validateArgsAgainstSchema(Request[c].args, LmTools[resolveSpec(Key(c)).name])
       THEN "input_validation_error"
  ELSE None
Unarmed == IF token.current = 0 THEN "invocation_token_unavailable" ELSE None

(***************************************************************************)
(* The bridge: requests.                                                   *)
(***************************************************************************)
Send(c, code) ==
  /\ http' = [http EXCEPT ![c] = "over"]
  /\ response' = [response EXCEPT ![c] = code]

\* dispatch, up to the body.
Dispatch(c) ==
  /\ http[c] = "sent"
  /\ IF ~Up THEN Send(c, "bridge_disconnected")
     ELSE http' = [http EXCEPT ![c] = "body"] /\ UNCHANGED response
  /\ UNCHANGED <<client, bridge, handling, token, invoked>>

\* Everyone who waits for the id is answered.
Settle(id, owners, code) ==
  /\ http' = [c \in Calls |-> IF c \in owners THEN "over" ELSE http[c]]
  /\ response' = [c \in Calls |-> IF c \in owners THEN code ELSE response[c]]
  /\ bridge' = [bridge EXCEPT !.inflight = @ \ {id}, !.completed[id] = code]

\* handle, up to the invocation of the tool; a result it has at once is cached.
Handle(c) ==
  LET id == Request[c].id
      At(code) == Settle(id, {c}, code) /\ UNCHANGED <<handling, invoked>>
  IN \/ Refusal(c) # None /\ At(Refusal(c))
     \/ Refusal(c) = None /\ At("deadline_exceeded")                 \* it has passed
     \/ Refusal(c) = None /\ Unarmed # None /\ At(Unarmed)
     \/ /\ Refusal(c) = None /\ Unarmed = None
        /\ http' = [http EXCEPT ![c] = "owner"]
        /\ bridge' = [bridge EXCEPT !.inflight = @ \cup {id}]
        /\ handling' = [handling EXCEPT ![id] = [at |-> "invoking", token |-> token.current, cancelled |-> FALSE,
                                                outputs |-> resolveSpec(Key(c)).outputs]]
        /\ invoked' = [invoked EXCEPT ![id] = @ \cup {c}]
        /\ UNCHANGED response

\* What the bridge already knows of a request id.
Known(c) ==
  LET id == Request[c].id IN
  \/ bridge.completed[id] # None /\ Send(c, bridge.completed[id])
  \/ bridge.completed[id] = None /\ id \in bridge.inflight /\ http' = [http EXCEPT ![c] = "joined"] /\ UNCHANGED response

\* Mutant: a request in flight is not looked for.
DispatchBodyAnew(c) ==
  LET id == Request[c].id IN
  /\ http[c] = "body"
  /\ \/ ~Up /\ Send(c, "bridge_disconnected") /\ UNCHANGED <<bridge, handling, invoked>>
     \/ Up /\ bridge.completed[id] # None /\ Send(c, bridge.completed[id]) /\ UNCHANGED <<bridge, handling, invoked>>
     \/ Up /\ bridge.completed[id] = None /\ Handle(c)
  /\ UNCHANGED <<client, token>>

\* dispatch, when the body is read: a request that is completed is answered from
\* the cache, one in flight is waited for, a new one is handled.
DispatchBody(c) ==
  LET id == Request[c].id IN
  /\ http[c] = "body"
  /\ \/ ~Up /\ Send(c, "bridge_disconnected") /\ UNCHANGED <<bridge, handling, invoked>>
     \/ Up /\ Known(c) /\ UNCHANGED <<bridge, handling, invoked>>
     \/ Up /\ bridge.completed[id] = None /\ id \notin bridge.inflight /\ Handle(c)
  /\ UNCHANGED <<client, token>>

\* The deadline of a request passes while its tool runs.
Deadline(id) ==
  /\ handling[id].at = "invoking" /\ ~handling[id].cancelled
  /\ handling' = [handling EXCEPT ![id].cancelled = TRUE]
  /\ UNCHANGED <<client, http, response, bridge, token, invoked>>

\* The invocation is over: everyone who waits for the id is answered.
Waiting(id) == {c \in Calls : Request[c].id = id /\ http[c] \in {"owner", "joined"}}
Over(id, code) ==
  /\ Settle(id, Waiting(id), code)
  /\ handling' = [handling EXCEPT ![id] = Quiet]

\* What a stopped bridge, or a deadline, makes of an invocation.
Stopped(id) ==
  IF ~Up THEN "bridge_disconnected"
  ELSE IF handling[id].cancelled THEN "deadline_exceeded" ELSE None

\* The tool returns.
ResultCode(id, raw) ==
  IF ~raw.json THEN "result_parse_error"
  ELSE IF normalizeResult(raw, handling[id].outputs) THEN "ok" ELSE "result_normalization_error"

\* Mutant: what became of the bridge or the deadline meanwhile is not looked at.
ToolReturnsLate(id) ==
  /\ handling[id].at = "invoking"
  /\ \E raw \in Results : Over(id, ResultCode(id, raw))
  /\ UNCHANGED <<client, token, invoked>>

ToolReturns(id) ==
  /\ handling[id].at = "invoking"
  /\ IF Stopped(id) # None THEN Over(id, Stopped(id))
     ELSE \E raw \in Results : Over(id, ResultCode(id, raw))
  /\ UNCHANGED <<client, token, invoked>>

\* The invocation fails; a rejected token is cleared, whichever one it was.
ToolFails(id) ==
  /\ handling[id].at = "invoking"
  /\ IF Stopped(id) # None THEN Over(id, Stopped(id)) /\ UNCHANGED token
     ELSE \E said \in Failures :
            /\ Over(id, classify(said))
            /\ token' = IF classify(said) = "invocation_token_unavailable" THEN [token EXCEPT !.current = 0] ELSE token
  /\ UNCHANGED <<client, invoked>>

(***************************************************************************)
(* The extension: the shared bridge and the token store.                   *)
(***************************************************************************)
\* /arm-mcp and /run keep the token of the chat request and start the bridge
\* (ensureMcpBridge), once.
Arm ==
  /\ bridge.active /\ token.armed < MaxTokens
  /\ token' = [current |-> token.armed + 1, armed |-> token.armed + 1]
  /\ bridge' = IF bridge.at = "none" THEN [bridge EXCEPT !.at = "starting"] ELSE bridge
  /\ UNCHANGED <<client, http, response, handling, invoked>>

\* The listener is bound, or is not; an extension deactivated meanwhile
\* disposes it (createMcpBridge).
Started ==
  /\ bridge.at = "starting"
  /\ \E bound \in BOOLEAN :
       bridge' = [bridge EXCEPT !.at = IF ~bridge.active THEN "disposed" ELSE IF bound THEN "listening" ELSE "none"]
  /\ UNCHANGED <<client, http, response, handling, token, invoked>>

\* A run starts: the registry is that of its project (refreshBridgeRegistry).
RunStarts(p) ==
  /\ bridge.at = "listening"
  /\ bridge' = [bridge EXCEPT !.registry = buildRegistryFromDir(Projects[p])]
  /\ UNCHANGED <<client, http, response, handling, token, invoked>>

\* deactivate: the token is cleared and the bridge disposed, which cancels what
\* runs.
Deactivate ==
  /\ bridge.active
  /\ bridge' = [bridge EXCEPT !.active = FALSE, !.at = IF @ = "listening" THEN "disposed" ELSE @, !.inflight = {},
                              !.completed = [i \in Ids |-> None]]
  /\ handling' = [i \in Ids |-> [handling[i] EXCEPT !.cancelled = @ \/ handling[i].at = "invoking"]]
  /\ token' = [token EXCEPT !.current = 0]
  /\ UNCHANGED <<client, http, response, invoked>>

Next ==
  \/ \E c \in Calls : Invoke(c) \/ Answered(c) \/ GivesUp(c) \/ JoinedReturns(c) \/ Dispatch(c) \/ DispatchBody(c)
  \/ \E id \in Ids : Deadline(id) \/ ToolReturns(id) \/ ToolFails(id)
  \/ \E p \in DOMAIN Projects : RunStarts(p)
  \/ Close \/ Arm \/ Started \/ Deactivate

Spec == Init /\ [][Next]_vars

\* A tool is invoked at most once for a request id, whichever calls and
\* requests carry it, and everyone who gets an answer to that id gets the same
\* (a bridge that stops answers "disconnected").
OneInvocation ==
  /\ \A id \in Ids : Cardinality(invoked[id]) <= 1
  /\ \A c, d \in Calls :
       /\ Request[c].id = Request[d].id
       /\ {response[c], response[d]} \cap {None, "bridge_disconnected"} = {}
       => response[c] = response[d]

\* A result is handed out only if the tool was invoked for the id, and a call
\* returns what the bridge answered to its id.
ResultsEarned ==
  \A c \in Calls :
    /\ response[c] = "ok" => invoked[Request[c].id] # {}
    /\ call[c].result \in Codes =>
         \E d \in Calls : Request[d].id = Request[c].id /\ response[d] = call[c].result

\* Once the extension is deactivated no tool is invoked any more, and every
\* answer given from then on says that the bridge is gone; an invocation whose
\* deadline has passed yields no result.
StoppedIsStopped ==
  /\ ~bridge.active =>
       /\ invoked' = invoked
       /\ \A c \in Calls : response'[c] # response[c] => response'[c] = "bridge_disconnected"
  /\ \A id \in Ids : handling[id].cancelled =>
       \A c \in Waiting(id) : response'[c] \in {None, "deadline_exceeded", "bridge_disconnected"}

\* The bridge is exact: one invocation and one answer per request id, results
\* only for invocations, and none after the extension or the deadline ended.
BridgeExact == []OneInvocation /\ []ResultsEarned /\ [][StoppedIsStopped]_vars
====
