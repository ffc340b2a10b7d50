----------------------------- MODULE MCRunbookCases -----------------------------
(* Small runbooks and packages for FlowPlanner, DynamicRevision and PackageClosure. *)
EXTENDS Integers, Sequences

CONSTANT Absent

------------------------------------------------------------------------------
(* Runbooks for FlowPlanner: nested and cyclic includes, concurrency, tools and profiles. *)

PlN(id, k) == [id |-> id, kind |-> k, arms |-> <<>>, target |-> Absent, alias |-> FALSE, expand |-> "", writes |-> {}, concurrent |-> FALSE,
             state |-> "none", path |-> Absent, mutable |-> {}]
PlA(l, s) == [label |-> l, steps |-> s]
PlC(id, k, arms) == [PlN(id, k) EXCEPT !.arms = arms]
PlW(id, x) == [PlN(id, "task") EXCEPT !.writes = {x}]
PlI(id, t, e) == [PlN(id, "include") EXCEPT !.target = t, !.expand = e]
PlT(id, t) == [PlN(id, "tool") EXCEPT !.target = t]
PlD(f, e, m) == [flow |-> f, expand |-> e, mutable |-> m]
PlModes == {"", "eager", "lazy", "auto"}
\* nested includes with composites around them
PlSet1 == {[root |-> PlD(<<PlN("s1", "task"), PlC("b", "branch", <<PlA("x", <<PlI("i1", "child", e1)>>), PlA("y", <<PlN("s2", "task")>>)>>),
                      PlI("i2", "child", e2), PlN("s3", "task")>>, "", {}),
          child |-> PlD(<<PlC("it", "iterate", <<PlA("", <<PlI("i3", "leaf", e3), PlN("dyn", "dynamic")>>)>>), PlN("c1", "task")>>, e4, {}),
          leaf |-> PlD(<<PlN("l1", "task"), PlC("cp", "compensate", <<PlA("", <<PlN("l2", "task")>>)>>)>>, "", {})] :
         e1, e2, e3 \in {"", "eager", "lazy"}, e4 \in {"", "eager", "auto"}}
\* cycles, missing files, aliases
PlSet2 == {[root |-> PlD(<<PlI("i1", t1, e1), [PlI("i2", "child", e2) EXCEPT !.alias = al]>>, "", {}),
          child |-> PlD(<<[PlI("i3", t3, e2) EXCEPT !.alias = al], PlN("c1", "task")>>, "eager", {}),
          leaf |-> PlD(<<PlN("l1", "task")>>, "", {})] :
         t1 \in {"child", "gone"}, t3 \in {"leaf", "root", "child"}, e1, e2 \in {"eager", "lazy"}, al \in BOOLEAN}
\* concurrency
PlConc(k, x, y) == CASE k = "parallel" -> PlC("p", "parallel", <<PlA("a", x), PlA("b", y)>>)
                  [] k = "parallelStep" -> PlC("p", "parallelStep", <<PlA("a", x), PlA("b", y)>>)
                  [] k = "iterate" -> [PlC("p", "iterate", <<PlA("", x \o y)>>) EXCEPT !.concurrent = TRUE]
                  [] OTHER -> PlC("p", "iterate", <<PlA("", x \o y)>>)
PlSet3 == {[root |-> PlD(<<PlConc(k, <<PlW("w", "z"), PlI("i1", "child", e)>>, <<st>>), PlN("s3", "task")>>, "", m),
          child |-> PlD(<<PlC("q", "parallel", <<PlA("a", <<PlW("w1", x)>>), PlA("b", <<PlW("w2", y)>>)>>)>>, "", {"u"})] :
         k \in {"parallel", "parallelStep", "iterate", "seq"}, e \in {"eager", "lazy"},
         st \in {PlN("h", "handoff"), PlN("r", "results"), PlN("t", "task"), PlW("t", "v"), PlN("d", "dynamic"),
                 PlC("bb", "branch", <<PlA("", <<PlN("h", "handoff")>>)>>)},
         m \in {{}, {"v"}}, x \in {"u", "v"}, y \in {"u", "z"}}
\* tools and profiles
PlProfiles == {Absent} \cup [context : {"test", "ci", "dev"}, attended : BOOLEAN, subprocess : BOOLEAN, override : {"", "h"}]
PlSet4 == {[root |-> PlD(<<PlT("t1", t), PlN("s", "task")>>, "", {})] : t \in {"mcp", "http", "native", "http2", "gone"}}
PlannerTools == [mcp |-> [environments |-> {}, transport |-> "mcp", hosts |-> {}],
             http |-> [environments |-> {}, transport |-> "mcp-http", hosts |-> {"h"}],
             http2 |-> [environments |-> {"dev"}, transport |-> "mcp-http", hosts |-> {}],
             native |-> [environments |-> {"ci", "test"}, transport |-> "native", hosts |-> {}]]
PlCase(f, d, p) == [files |-> f, root |-> "root", default |-> d, profile |-> p]
PlannerCases == {PlCase(f, d, Absent) : f \in PlSet1, d \in {"", "eager", "auto"}} \cup {PlCase(f, "", Absent) : f \in PlSet2 \cup PlSet3}
            \cup {PlCase(f, "", p) : f \in PlSet4, p \in PlProfiles}

------------------------------------------------------------------------------
(* Runbooks for DynamicRevision: a dynamic include in every kind of container. *)

DrS(i, k) == [id |-> i, kind |-> k, arms |-> <<>>]
DrC(i, k, flow) == [id |-> i, kind |-> k, arms |-> <<[label |-> "", steps |-> flow]>>]
DrA2(i, k, f, g) == [id |-> i, kind |-> k, arms |-> <<[label |-> "x", steps |-> f], [label |-> "y", steps |-> g]>>]

DrFlat == { <<DrS("a", "noop")>> }
DrDeep == DrFlat \cup { <<DrS("d", "dynamic"), DrS("a", "noop")>> }
DrB(f, c) == [flow |-> f, catalog |-> c]
RevisionBooks == { DrB(<<DrS("d", "dynamic"), DrS("z", "again")>>, DrDeep),
        DrB(<<DrC("e", "each", <<DrS("d", "dynamic")>>)>>, {<<DrS("d", "dynamic")>>}),
        DrB(<<DrA2("p", "parallel", <<DrS("d", "dynamic")>>, <<DrS("w", "noop"), DrS("d2", "dynamic")>>)>>, DrFlat),
        DrB(<<DrC("i", "include", <<DrC("e", "iterate", <<DrS("d", "dynamic")>>)>>), DrS("z", "noop")>>, DrDeep),
        DrB(<<DrA2("b", "branch", <<DrC("i", "include", <<DrS("d", "dynamic")>>)>>, <<>>)>>, DrFlat),
        DrB(<<DrC("t", "tool", <<DrS("d", "dynamic"), DrS("z", "noop")>>), DrS("d", "dynamic")>>, DrDeep) }

------------------------------------------------------------------------------
(* The files of a workspace and two packages for PackageClosure. *)

ClV(a, b, c) == [core |-> <<a, b, c>>, pre |-> <<>>]
ClPre(a, b, c) == [core |-> <<a, b, c>>, pre |-> << <<1, 1>> >>]
ClReq(p, op, v, path) == [package |-> p, version |-> {[op |-> op, ver |-> v]}, path |-> path]
ClRef(n, p, path) == [name |-> n, package |-> p, path |-> path, version |-> {}]
ClRunbook(reqs, refs, calls, incl, dyn) ==
  [kind |-> "runbook", requires |-> reqs, refs |-> refs, calls |-> calls, includes |-> incl, dynamic |-> dyn]
ClTool(n, sub) == [kind |-> "tool", name |-> n, version |-> Absent, sub |-> sub]
ClManifest(n, v, tools, rbs) == [kind |-> "manifest", name |-> n, version |-> v, tools |-> tools, runbooks |-> rbs]
ClGone == [kind |-> "missing"]
ClW(f) == <<"ws", f>>
ClA(f) == <<"a", f>>
ClB(f) == <<"b", f>>
ClX(id, p) == [id |-> id, path |-> p]

ClosureFiles == [p \in {ClW("main"), ClW("child"), ClW("t"), ClA("manifest"), ClA("t"), ClA("sub"), ClA("rb"), ClB("manifest"), ClB("u"), ClB("rb")} |->
  CASE p = ClW("main") -> {
         ClRunbook(<<ClReq("a", "^", ClV(1,0,0), "a")>>, {ClRef("t", "a", Absent)}, {<<"t">>}, {ClW("child")}, FALSE),
         ClRunbook(<<ClReq("a", "~", ClV(1,1,0), "a"), ClReq("b", ">=", ClV(1,5,0), Absent)>>, {ClRef("t", Absent, Absent)}, {<<"t">>, <<"cli">>}, {}, FALSE),
         ClRunbook(<<ClReq("a", ">=", ClPre(1,1,0), "a")>>, {ClRef("t", "a", Absent)}, {<<"t">>}, {}, TRUE),
         ClRunbook(<<>>, {}, {<<"cli">>}, {ClW("child")}, TRUE),
         ClRunbook(<<[package |-> "a", version |-> {}, path |-> "a"]>>, {}, {<<"cli">>}, {}, FALSE),
         ClGone}
    [] p = ClW("child") -> {
         ClRunbook(<<ClReq("a", ">=", ClV(1,1,0), "a"), ClReq("b", "<", ClV(2,0,0), Absent)>>, {ClRef("u", "b", Absent)}, {<<"u">>}, {}, FALSE),
         ClRunbook(<<>>, {ClRef("t", Absent, ClW("t"))}, {<<"t">>, <<"cli">>}, {}, FALSE)}
    [] p = ClW("t") -> {ClGone, ClTool("t", Absent)}
    [] p = ClA("manifest") -> {
         ClManifest("a", ClV(1,1,2), <<ClX("t", ClA("t"))>>, {ClX("rb", ClA("rb"))}),
         ClManifest("a", ClPre(1,1,0), <<ClX("t", ClA("t"))>>, {})}
    [] p = ClA("t") -> {ClTool("t", ClA("sub")), ClTool("t", Absent)}
    [] p = ClA("sub") -> {ClRunbook(<<ClReq("b", ">=", ClV(1,0,0), Absent)>>, {}, {<<"b", "u">>}, {}, FALSE),
                        ClRunbook(<<>>, {}, {<<"cli">>}, {ClA("rb")}, FALSE)}
    [] p = ClA("rb") -> {ClRunbook(<<>>, {ClRef("t", "a", Absent)}, {<<"t">>}, {}, FALSE),
                       ClRunbook(<<>>, {}, {<<"cli">>}, {ClA("sub")}, FALSE)}
    [] p = ClB("manifest") -> {ClManifest("b", ClV(1,5,0), <<ClX("u", ClB("u"))>>, {ClX("rb", ClB("rb"))}), ClGone}
    [] p = ClB("u") -> {ClTool("u", Absent)}
    [] p = ClB("rb") -> {ClRunbook(<<>>, {}, {<<"cli">>}, {}, FALSE)}]

ClosureEntry == ClW("main")
ClosureScanned == {ClW("t")}
ClosureRequires == <<ClReq("b", "^", ClV(1, 0, 0), "b")>>
==============================================================================
