---- MODULE McpHttp ----
(***************************************************************************)
(* MCPHTTPTransport of runtime/internal/tool: tool calls posted to an MCP  *)
(* server over HTTP, with a session the server may expire (404) and a      *)
(* bearer token it may refuse (401).  t.mu lets one call at a time through.*)
(*                                                                         *)
(* The call that holds the transport is at one of three requests: the      *)
(* initialize of a session, the initialized notification, its tools/call.  *)
(* Post is a request reaching the server (or not), Receive what the        *)
(* transport makes of the answer; in between tokens age and sessions end.  *)
(***************************************************************************)
EXTENDS Naturals, Sequences, FiniteSets

CONSTANTS
  Calls,       \* tool calls that share the transport
  Gated,       \* whether the tool declares auth (t.gate # nil)
  MaxEvents,   \* mcpHTTPMaxEvents
  MaxSessions, \* bound: sessions the server opens
  MaxTokens    \* bound: tokens the provider issues

VARIABLES
  mu,       \* the call that holds t.mu, or Nobody
  call,     \* per call: the request it is at, and how it got there
  t,        \* the transport: initialized, sessionID, nextID
  cache,    \* the provider's cached token and how old it is
  wire,     \* the posted request with the answer to it, or NoWire
  server,   \* the server's live session, sessions opened, tokens refused
  issued,   \* tokens the provider has issued
  executed  \* how often the server ran each call's tool

vars == <<mu, call, t, cache, wire, server, issued, executed>>

Nobody == "nobody"
NoWire == [request |-> "none", id |-> 0, session |-> 0, token |-> 0, status |-> "none", events |-> <<>>]
NoToken == [token |-> 0, age |-> "none"]

Requests == {"initialize", "initialized", "tools/call"}

HttpTypeOK ==
  /\ mu \in Calls \cup {Nobody}
  /\ \A c \in Calls :
       /\ call[c].pc \in Requests \cup {"idle", "ok", "failed"}
       /\ {call[c].reauth, call[c].renewed} \subseteq BOOLEAN
       /\ call[c].refused \subseteq {"token", "session"} \X Nat
  /\ t.initialized \in BOOLEAN /\ t.session \in 0..MaxSessions /\ t.nextID \in Nat
  /\ cache.token \in 0..MaxTokens /\ cache.age \in {"none", "fresh", "ageing", "expired"}
  /\ wire.request \in Requests \cup {"none"}
  /\ server.session \in 0..server.opened /\ server.opened \in 0..MaxSessions
  /\ issued \in 0..MaxTokens
  /\ executed \in [Calls -> Nat]

NewCall == [pc |-> "idle", id |-> 0, initID |-> 0, reauth |-> FALSE, renewed |-> FALSE, refused |-> {}, got |-> 0]

Init ==
  /\ mu = Nobody
  /\ call = [c \in Calls |-> NewCall]
  /\ t = [initialized |-> FALSE, session |-> 0, nextID |-> 0]
  /\ cache = NoToken
  /\ wire = NoWire
  /\ server = [session |-> 0, opened |-> 0, revoked |-> 0]
  /\ issued = 0
  /\ executed = [c \in Calls |-> 0]

(***************************************************************************)
(* The token provider (AzureCLIAuthProvider, ManagedIdentityAuthProvider). *)
(***************************************************************************)
\* acquire: a new token, or an error (0).
Acquire ==
  {[token |-> 0, cache |-> cache]} \cup
  (IF issued < MaxTokens
   THEN {[token |-> issued + 1, cache |-> [token |-> issued + 1, age |-> "fresh"]]}
   ELSE {})

\* Token: the cached token while it is well inside its validity; otherwise a
\* new one.  When that fails a token that has not expired yet still serves.
Token ==
  IF cache.age = "fresh" THEN {[token |-> cache.token, cache |-> cache]}
  ELSE {IF a.token = 0 /\ cache.age = "ageing" THEN [token |-> cache.token, cache |-> cache] ELSE a : a \in Acquire}

\* AttachToken of buildHTTPRequest; without a gate there is no token (and no
\* error, written as token 0 with ok).
AttachToken ==
  IF Gated THEN {[ok |-> k.token # 0, token |-> k.token, cache |-> k.cache] : k \in Token}
  ELSE {[ok |-> TRUE, token |-> 0, cache |-> cache]}

\* Time passes: a fresh token comes within the refresh buffer, then expires.
TokenAges ==
  /\ cache.age \in {"fresh", "ageing"}
  /\ cache' = [cache EXCEPT !.age = IF @ = "fresh" THEN "ageing" ELSE "expired"]
  /\ UNCHANGED <<mu, call, t, wire, server, issued, executed>>

(***************************************************************************)
(* The server.                                                             *)
(***************************************************************************)
\* The server forgets its session.
SessionExpires ==
  /\ server.session # 0
  /\ server' = [server EXCEPT !.session = 0]
  /\ UNCHANGED <<mu, call, t, cache, wire, issued, executed>>

\* The server stops accepting the tokens issued so far.
TokensRevoked ==
  /\ Gated /\ server.revoked < issued
  /\ server' = [server EXCEPT !.revoked = issued]
  /\ UNCHANGED <<mu, call, t, cache, wire, issued, executed>>

\* The responses the server may write to a request it carried out: one JSON
\* body, or a stream of events with notifications (0) and responses to other
\* requests around the one asked for, or without it.
JSONBodies(id) == {[status |-> "json", events |-> <<id>>], [status |-> "json", events |-> <<id - 1>>]}
Streams(id) == {[status |-> "stream", events |-> e] : e \in {<<0, id>>, <<id - 1, id>>, <<0, id - 1, 0, id>>, <<0>>}}

\* What becomes of a posted request: refused for its token or its session,
\* rejected otherwise, lost with or without having been carried out, or
\* carried out and answered.
Refused(token, session) ==
  IF Gated /\ token <= server.revoked THEN {"401"}
  ELSE IF session # 0 /\ session # server.session THEN {"404"}
  ELSE {}

\* buildHTTPRequest and httpClient.Do.
Post(c) ==
  LET r == call[c].pc
      id == IF r = "initialize" THEN call[c].initID ELSE call[c].id
  IN
  /\ mu = c /\ wire = NoWire /\ r \in Requests
  /\ \E a \in AttachToken :
       /\ cache' = a.cache
       /\ issued' = IF a.token > issued THEN a.token ELSE issued
       /\ IF ~a.ok
          THEN /\ call' = [call EXCEPT ![c].pc = "failed"]
               /\ mu' = Nobody
               /\ UNCHANGED <<wire, server, executed>>
          ELSE LET Answered(status, events) ==
                     wire' = [request |-> r, id |-> id, session |-> t.session, token |-> a.token,
                              status |-> status, events |-> events]
                   refusal == Refused(a.token, t.session)
               IN
               /\ UNCHANGED <<call, mu>>
               /\ \/ \E s \in refusal \cup {"404", "4xx", "lost"} :
                       Answered(s, <<>>) /\ UNCHANGED <<server, executed>>
                  \/ /\ refusal = {} /\ r = "initialize" /\ server.opened < MaxSessions
                     /\ server' = [server EXCEPT !.session = server.opened + 1, !.opened = @ + 1]
                     /\ \/ Answered("json", <<id>>)
                        \/ Answered("lost", <<>>)
                     /\ UNCHANGED executed
                  \/ /\ refusal = {} /\ r = "initialized"
                     /\ Answered("202", <<>>)
                     /\ UNCHANGED <<server, executed>>
                  \/ /\ refusal = {} /\ r = "tools/call"
                     /\ executed' = [executed EXCEPT ![c] = @ + 1]
                     /\ \/ Answered("lost", <<>>)
                        \/ \E b \in JSONBodies(id) \cup Streams(id) : Answered(b.status, b.events)
                     /\ UNCHANGED server
  /\ UNCHANGED t

(***************************************************************************)
(* The transport.                                                          *)
(***************************************************************************)
\* Invoke takes t.mu; ensureInitialized comes before the call's own id.
Invoke(c) ==
  /\ mu = Nobody /\ call[c].pc = "idle"
  /\ mu' = c
  /\ t' = [t EXCEPT !.nextID = @ + 1]
  /\ call' = [call EXCEPT ![c] = IF t.initialized THEN [@ EXCEPT !.pc = "tools/call", !.id = t.nextID + 1]
                                 ELSE [@ EXCEPT !.pc = "initialize", !.initID = t.nextID + 1]]
  /\ UNCHANGED <<cache, wire, server, issued, executed>>

\* Invoke returns and frees the transport.
Return(c, pc, got) ==
  /\ call' = [call EXCEPT ![c].pc = pc, ![c].got = got]
  /\ mu' = Nobody

\* Mutant: the first event of the stream that is not a notification is taken,
\* whatever its id.
parseSSEAnyID(events, id) ==
  LET responses == SelectSeq(events, LAMBDA e : e # 0) IN
  IF responses = <<>> THEN 0 ELSE Head(responses)

\* parseBoundedMCPSSE: the event with the id asked for, unless the stream ends
\* before it or it comes after the budget of events (0: an error).
parseSSE(events, id) ==
  IF \E i \in DOMAIN events : events[i] = id /\ i <= MaxEvents THEN id ELSE 0

\* parseJSONResponse: the id must be the request's.
parseJSON(events, id) == IF Head(events) = id THEN id ELSE 0

\* The response send hands back, by its id (0: an error).
Parsed(w) == IF w.status = "json" THEN parseJSON(w.events, w.id) ELSE parseSSE(w.events, w.id)

\* send, on a 401: the cached token is dropped and the same body is posted
\* again, once.
Reauthenticate(c) ==
  /\ wire.request # "initialized" /\ wire.status = "401" /\ Gated /\ ~call[c].reauth
  /\ cache' = NoToken
  /\ call' = [call EXCEPT ![c].reauth = TRUE, ![c].refused = @ \cup {<<"token", wire.token>>}]
  /\ UNCHANGED <<mu, t>>

\* Mutant: the session is only marked uninitialized; initialize carries the
\* session the server has refused.
RenewSessionKept(c) ==
  /\ wire.request = "tools/call" /\ wire.status = "404" /\ t.initialized /\ ~call[c].renewed
  /\ t' = [t EXCEPT !.initialized = FALSE, !.nextID = @ + 1]
  /\ call' = [call EXCEPT ![c].pc = "initialize", ![c].initID = t.nextID + 1, ![c].renewed = TRUE, ![c].reauth = FALSE,
                          ![c].refused = @ \cup {<<"session", wire.session>>}]
  /\ UNCHANGED <<mu, cache>>

\* doRequest, on a 404 while initialized: the session is dropped and opened
\* anew before the same request, with the same id, is sent again, once.
RenewSession(c) ==
  /\ wire.request = "tools/call" /\ wire.status = "404" /\ t.initialized /\ ~call[c].renewed
  /\ t' = [initialized |-> FALSE, session |-> 0, nextID |-> t.nextID + 1]
  /\ call' = [call EXCEPT ![c].pc = "initialize", ![c].initID = t.nextID + 1, ![c].renewed = TRUE, ![c].reauth = FALSE,
                          ![c].refused = @ \cup {<<"session", wire.session>>}]
  /\ UNCHANGED <<mu, cache>>

\* Every other refusal, a redirect of an authenticated request, and a request
\* or an answer that is lost, end the call.  A second refusal is one of them.
GiveUp(c) ==
  /\ wire.status \in {"401", "404", "4xx", "lost"}
  /\ wire.request # "initialized" \/ wire.status = "lost"
  /\ ~(wire.status = "401" /\ Gated /\ ~call[c].reauth)
  /\ ~(wire.request = "tools/call" /\ wire.status = "404" /\ t.initialized /\ ~call[c].renewed)
  /\ Return(c, "failed", 0)
  /\ UNCHANGED <<t, cache>>

\* initialize got its response: the session id is kept from the header, and
\* the notification goes out next.
SessionOpened(c) ==
  /\ wire.request = "initialize" /\ wire.status = "json"
  /\ t' = [t EXCEPT !.session = server.opened]
  /\ \/ Parsed(wire) = wire.id /\ call' = [call EXCEPT ![c].pc = "initialized"] /\ UNCHANGED mu
     \/ Return(c, "failed", 0)       \* the response is an error
  /\ UNCHANGED cache

\* The notification's status is not looked at; the session counts as live, and
\* the call goes on: with an id of its own, or the one it was sent with before.
Initialized(c) ==
  /\ wire.request = "initialized" /\ wire.status # "lost"
  /\ IF call[c].renewed
     THEN t' = [t EXCEPT !.initialized = TRUE] /\ call' = [call EXCEPT ![c].pc = "tools/call", ![c].reauth = FALSE]
     ELSE /\ t' = [t EXCEPT !.initialized = TRUE, !.nextID = @ + 1]
          /\ call' = [call EXCEPT ![c].pc = "tools/call", ![c].id = t.nextID + 1, ![c].reauth = FALSE]
  /\ UNCHANGED <<mu, cache>>

\* The call's response, by the id it was accepted for: toolResult makes a
\* result or an error of it.
Responded(c) ==
  /\ wire.request = "tools/call" /\ wire.status \in {"json", "stream"}
  /\ IF Parsed(wire) = 0 THEN Return(c, "failed", 0)
     ELSE \E pc \in {"ok", "failed"} : Return(c, pc, Parsed(wire))
  /\ UNCHANGED <<t, cache>>

Receive(c) ==
  /\ mu = c /\ wire # NoWire
  /\ Reauthenticate(c) \/ RenewSession(c) \/ GiveUp(c) \/ SessionOpened(c) \/ Initialized(c) \/ Responded(c)
  /\ wire' = NoWire
  /\ UNCHANGED <<server, issued, executed>>

\* Close: a shutdown notification, with a token like every request, whose fate
\* does not matter; the next call opens a session of its own.
Close ==
  /\ mu = Nobody /\ t.initialized
  /\ \E a \in AttachToken : cache' = a.cache /\ issued' = IF a.token > issued THEN a.token ELSE issued
  /\ t' = [t EXCEPT !.initialized = FALSE, !.session = 0]
  /\ UNCHANGED <<mu, call, wire, server, executed>>

Next ==
  \/ \E c \in Calls : Invoke(c) \/ Post(c) \/ Receive(c)
  \/ TokenAges \/ SessionExpires \/ TokensRevoked \/ Close

Spec == Init /\ [][Next]_vars

(***************************************************************************)
(* Properties.                                                             *)
(***************************************************************************)
\* However sessions expire, tokens are refused and answers are lost: the tool
\* runs at most once per call, because send and doRequest post a call again
\* only when the server has refused it; a call that succeeds has run and
\* returns the response to its own request (parseJSONResponse,
\* parseBoundedMCPSSE); and no request of a call carries a token or a session
\* that was refused to that call before.
HttpCallsExact ==
  /\ \A c \in Calls :
       /\ executed[c] <= 1
       /\ call[c].pc = "ok" => executed[c] = 1 /\ call[c].got = call[c].id
  /\ wire # NoWire =>
       /\ <<"token", wire.token>> \notin call[mu].refused
       /\ wire.session # 0 => <<"session", wire.session>> \notin call[mu].refused
====
