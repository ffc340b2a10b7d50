------------------------------- MODULE MCRunCases -------------------------------
(* Small plans, programs and requests for ExecutionFrames, Replay, RouteTest,      *)
(* CallGovernance and McpBridge.                                                   *)
EXTENDS Naturals, Sequences, TLC

------------------------------------------------------------------------------
(* Plans for ExecutionFrames: every kind of container, with failing and ending children. *)

FrTool(e) == [kind |-> "tool", onError |-> e]
FrLoc(e) == [kind |-> "local", onError |-> e]
FrEnd == [kind |-> "end", onError |-> "stop"]
FrStep(k, e, lanes) == [kind |-> k, onError |-> e, lanes |-> lanes, policy |-> "failure", when |-> FALSE, target |-> 0]

FrPl == {
  <<FrStep("compensate", "stop", << <<FrTool("stop"), FrTool("stop")>> >>), FrStep("compensate", "stop", << <<FrTool("stop")>> >>),
    FrStep("task", "stop", <<>>)>>,
  <<FrStep("compensate", "stop", << <<FrTool("stop")>> >>),
    FrStep("include", "continue", << <<FrTool("continue"), FrLoc("stop"), FrTool("stop")>> >>), FrStep("task", "stop", <<>>)>>,
  <<[FrStep("dynamic", "stop", << <<FrTool("stop"), FrTool("stop")>> >>) EXCEPT !.policy = "continue", !.when = TRUE],
    FrStep("branch", "stop", << <<FrTool("continue"), FrEnd, FrTool("stop")>> >>), FrStep("task", "stop", <<>>)>>,
  <<FrStep("iterate", "stop", << <<FrTool("continue"), FrLoc("stop")>>, <<FrTool("stop"), FrEnd>> >>), FrStep("local", "goto", <<>>)>>,
  <<FrStep("parallel", "stop", << <<FrTool("stop"), FrTool("continue")>>, <<FrTool("stop"), FrLoc("stop")>> >>)>>,
  <<FrStep("concurrent", "stop", << <<FrTool("stop"), FrLoc("stop")>>, <<FrTool("stop")>> >>)>>
}

FramePlans == {[i \in DOMAIN p |-> [p[i] EXCEPT !.target = Len(p) + 1]] : p \in FrPl}

------------------------------------------------------------------------------
(* Programs for Replay: lanes that share a node, and each kind of fixture. *)

ReS(n, k) == [node |-> n, kind |-> k]
ReP(ls, h) == [lanes |-> ls, handoff |-> h]

ReplayPrograms == {
   ReP(<< <<ReS("a", "tool")>>, <<ReS("a", "tool"), ReS("b", "choice")>> >>, FALSE),
   ReP(<< <<ReS("a", "cli"), ReS("b", "include"), ReS("a", "cli")>> >>, TRUE),
   ReP(<< <<ReS("a", "approval"), ReS("b", "tool")>>, <<ReS("c", "wait_for_event"), ReS("d", "assert")>> >>, TRUE),
   ReP(<< <<ReS("a", "include"), ReS("b", "host_action")>>, <<ReS("a", "include")>> >>, FALSE)}

------------------------------------------------------------------------------
(* Plans and command lines for RouteTest. *)

RtIt(s, k) == [site |-> s, kind |-> k, onError |-> "stop", governed |-> FALSE, branch |-> FALSE]
RoutePlans == {
  <<[RtIt("a", "tool") EXCEPT !.onError = "continue"], RtIt("a", "tool"), RtIt("t", "cli")>>,
  <<[RtIt("a", "choice") EXCEPT !.onError = "continue"], RtIt("b", "host_action"), RtIt("t", "cli")>>,
  <<[RtIt("a", "cli") EXCEPT !.governed = TRUE], [RtIt("b", "assert") EXCEPT !.branch = TRUE], RtIt("t", "tool"), RtIt("t", "tool")>>,
  <<RtIt("a", "decision"), RtIt("b", "wait_for_event"), RtIt("t", "cli")>>,
  <<[RtIt("b", "wait_for_event") EXCEPT !.branch = TRUE], RtIt("t", "cli")>> }
RtBd(k, s, i, r) == [kind |-> k, site |-> s, inv |-> i, phase |-> "execute", reviewed |-> TRUE, source |-> "manual", response |-> r]
RtGood == [target |-> [site |-> "t", inv |-> 1, phase |-> "before"], bindings |-> <<>>, flaws |-> {},
         last |-> [status |-> "none", reached |-> FALSE, dispatches |-> 0, digest |-> "current"]]
RtResp == {"good", "bad", "foreign"}
RtArt == {[RtGood EXCEPT !.bindings = b, !.target.inv = n] : n \in {1, 2}, b \in
          {<<>>}
          \cup {<<RtBd("tool", "a", 1, r), RtBd("tool", "a", 2, q)>> : r, q \in RtResp}
          \cup {<<RtBd("choice", "a", 1, r), RtBd("host_action", "b", 1, q)>> : r \in RtResp \cup {"skip"}, q \in {"good", "foreign"}}
          \cup {<<RtBd("host_action", "b", 1, "good")>>, <<RtBd("decision", "a", 1, "skip")>>, <<RtBd("decision", "a", 1, "good")>>}
          \cup {<<RtBd("approval", "a", 1, r), RtBd("cli", "a", 1, q)>> : r \in {"good", "bad"}, q \in {"good", "bad"}}
          \cup {<<RtBd("approval", "a", 1, "good"), RtBd("cli", "a", 1, "good"), RtBd("tool", "t", i, "good")>> : i \in {0, 1, 2}}}
       \cup {[RtGood EXCEPT !.bindings = <<b>>] : b \in {[RtBd("cli", "a", 1, "good") EXCEPT !.reviewed = FALSE],
             [RtBd("cli", "a", 1, "good") EXCEPT !.source = "guess"], [RtBd("cli", "a", 1, "good") EXCEPT !.phase = "before"]}}
       \cup {[RtGood EXCEPT !.flaws = {f}] : f \in {"over 1 MiB", "version", "multiline value", "secret input", "plan changed", "ephemeral field"}}
       \cup {[RtGood EXCEPT !.last = [status |-> s, reached |-> x, dispatches |-> d, digest |-> g]] :
               s \in {"reached", "stopped", "odd"}, x \in BOOLEAN, d \in {0, 1}, g \in {"current", "stale"}}
RouteCommands == {[flags |-> {"route-test"}, artifact |-> a] : a \in RtArt}
        \cup {[flags |-> {"route-test", f}, artifact |-> RtGood] : f \in {"var", "resume", "lazy", "stdio"}}
        \cup {[flags |-> f, artifact |-> RtGood] : f \in {{"tty"}, {"profile"}, {"stdio"}, {}, {"dry-run"}, {"debug"}, {"debug", "stdio"},
                {"debug", "stdio", "resume"}, {"tty", "unknown output"}, {"unreadable profile"}}}

------------------------------------------------------------------------------
(* Runbooks, tool actions and included runbooks for CallGovernance. *)

CgN(k, r) == [kind |-> k, ref |-> r]
CgG(ap, al, d) == [approve |-> ap, allow |-> al, deny |-> d]
CgEmpty == [n \in {} |-> 0]
CgIn(req) == "x" :> [type |-> "string", required |-> req, from |-> ""]
CgOut(v, o) == "y" :> [type |-> "string", optional |-> o, values |-> v]
CgArg(req) == "x" :> [type |-> "string", required |-> req]
CgRes(req) == "y" :> [type |-> "string", required |-> req]
CgSub(f, g, v) == [flow |-> f, governance |-> g, inputs |-> CgIn(TRUE), outputs |-> CgOut(v, FALSE)]
CgA(ap, al, s) == [approve |-> ap, allow |-> al, args |-> CgArg(TRUE), outputs |-> CgRes(TRUE), substitute |-> s, execution |-> "runbook"]
CallFlows ==
  "r1" :> <<CgN("tool", "a"), CgN("tool", "p"), CgN("dynamic", "d"), CgN("lazy", "l")>> @@
  "r2" :> <<CgN("body", "b"), CgN("include", "i")>> @@
  "r3" :> <<CgN("tool", "g")>> @@
  "r4" :> <<CgN("dynamic", "e"), CgN("cli", "ls")>> @@
  "r5" :> <<CgN("body", "b"), CgN("include", "i2"), CgN("tool", "k")>> @@
  "sk" :> <<CgN("body", "b"), CgN("dynamic", "d")>> @@
  "r6" :> <<CgN("tool", "v")>> @@
  "r7" :> <<CgN("tool", "m")>> @@
  "sm" :> <<CgN("tool", "z")>> @@
  "l" :> <<CgN("tool", "c")>> @@
  "b" :> <<CgN("tool", "a"), CgN("cli", "rm")>> @@
  "i" :> <<CgN("tool", "c")>> @@
  "sa" :> <<CgN("include", "i2"), CgN("cli", "ls")>> @@
  "i2" :> <<CgN("tool", "h")>> @@
  "sh" :> <<CgN("cli", "cat"), CgN("tool", "p")>> @@
  "sg" :> <<CgN("include", "i3")>> @@
  "i3" :> <<CgN("tool", "a"), CgN("tool", "g")>> @@
  "sc" :> <<CgN("tool", "w")>> @@
  "sw" :> <<CgN("cli", "ls"), CgN("tool", "p")>> @@
  "d1" :> <<CgN("cli", "rm"), CgN("dynamic", "e"), CgN("tool", "k")>> @@
  "e1" :> <<CgN("cli", "rm"), CgN("cli", "cat"), CgN("cli", "du"), CgN("dynamic", "d")>>
CallActions ==
  "p" :> [CgA(FALSE, {}, "") EXCEPT !.execution = "process"] @@
  "a" :> CgA(FALSE, {"ls", "cat"}, CgSub("sa", CgG(FALSE, {}, {"rm"}), 1)) @@
  "h" :> CgA(FALSE, {}, CgSub("sh", CgG(TRUE, {"cat"}, {}), 1)) @@
  "g" :> CgA(FALSE, {}, CgSub("sg", CgG(FALSE, {}, {}), 1)) @@
  "k" :> CgA(FALSE, {}, CgSub("sk", CgG(FALSE, {}, {}), 1)) @@
  "c" :> CgA(TRUE, {"ls"}, CgSub("sc", CgG(FALSE, {}, {}), 1)) @@
  "v" :> CgA(FALSE, {}, CgSub("sw", CgG(FALSE, {}, {}), 0)) @@
  "m" :> CgA(FALSE, {}, CgSub("sm", CgG(TRUE, {"ls"}, {}), 1)) @@
  "z" :> CgA(FALSE, {}, CgSub("sw", CgG(FALSE, {}, {}), 1)) @@
  "w" :> CgA(FALSE, {}, CgSub("sw", CgG(FALSE, {"cat"}, {}), 1))
CallChildren == "d" :> [flow |-> "d1", governance |-> CgG(FALSE, {"ls", "cat", "rm"}, {"rm"})] @@
      "e" :> [flow |-> "e1", governance |-> CgG(TRUE, {"cat"}, {})]

CallBooks == {[flow |-> f, governance |-> g] :
                f \in {"r1", "r2", "r3", "r4", "r5", "r6", "r7"}, g \in {CgG(FALSE, {}, {}), CgG(TRUE, {"ls"}, {"rm"})}}

------------------------------------------------------------------------------
(* Requests, projects and tools for McpBridge. *)

BrArg == "n" :> "integer"
BrRq(i, a, g) == [id |-> i, tool |-> "t", action |-> a, args |-> g]
BrOut(ty, r) == [type |-> ty, required |-> r]
BrFile(mode, acts) == [tool |-> "t", mode |-> mode, vscodeTool |-> "none", actions |-> acts]
BrAct(n, v) == [name |-> n, vscodeTool |-> v, outputs |-> "x" :> BrOut("number", TRUE) @@ "y" :> BrOut("string", FALSE) @@ "z" :> BrOut("date", TRUE)]

\* Two sends of one request, and a request whose tool the settings override.
BridgeRequests == <<BrRq("r", "a", BrArg), BrRq("r", "a", BrArg), BrRq("s", "b", BrArg)>>
BridgeProjects == <<<<BrFile("vscode-mcp", <<BrAct("a", "lm-a")>>), BrFile("stdio", <<BrAct("b", "lm-b")>>)>>>>
BridgeOverrides == <<"t", "b">> :> "lm-b"
BridgeTools == "lm-a" :> [properties |-> "n" :> "number", required |-> {"n"}] @@
               "lm-b" :> [properties |-> "n" :> "string", required |-> {}]
BridgeResults == {[json |-> TRUE, object |-> TRUE, fields |-> "x" :> ty] : ty \in {"integer", "string"}}
BridgeFailures == {{"canceled"}, {"stopped", "auth"}}
==============================================================================
