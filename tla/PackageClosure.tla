--------------------------- MODULE PackageClosure ---------------------------
(***************************************************************************)
(* Package resolution and the dependency closure of a runbook              *)
(* (runtime/pkg/pkgcatalog, runtime/pkg/semver).  A preflight discovers    *)
(* every document a run may reach: the includes of the entry file, the     *)
(* substitutes of the tools those documents bind, and, when some document  *)
(* includes dynamically, every runbook the required packages export.  Each *)
(* round collects the requirements of the documents found so far, builds   *)
(* the catalog from them, binds every document against it, and visits what *)
(* the bindings bring in; the rounds end when one finds nothing new.       *)
(*                                                                         *)
(* The files may be edited while the preflight runs.  Every read goes      *)
(* through a snapshot that keeps the first answer, so a phase of a round   *)
(* is one action here: a finer interleaving of its first reads with edits  *)
(* only chooses other contents, which the edits before the phase choose.   *)
(*                                                                         *)
(* A path is <<directory, file>>; a document is <<path, owner>> where the  *)
(* owner is the package root its references must stay inside, or None.     *)
(* Files are canonical, links resolved.  A digest is the set of the        *)
(* contents it covers.                                                     *)
(***************************************************************************)
EXTENDS Integers, Sequences, FiniteSets, FiniteSetsExt

CONSTANTS Contents,       \* path -> the contents the file may have
          Entrypoint,     \* the path of the runbook to run
          Scanned,        \* the tool files under tool-paths and <workspace>/tools
          ProjectRequires,\* the requires: of .yawr/config.yaml, a sequence
          Builtins,       \* the names of the built-in tools
          MaxIncludeDepth, MaxDocuments, MaxPackages, MaxEdits,
          None

VARIABLES disk,      \* path -> content now
          edits,     \* how many edits happened
          captured,  \* the snapshot: path -> content, partial
          docs,      \* the documents discovered
          catalog,   \* the catalog of this round
          bindings,  \* document -> its bindings
          scoped,    \* the preflight runs, or the single-file form
          loaded,    \* the file the run last asked for, and what it was given
          pc,        \* the phase of the round, or how the preflight ended
          errs       \* the codes of the errors it ended with

vars == <<disk, edits, captured, docs, catalog, bindings, scoped, loaded, pc, errs>>

Paths == DOMAIN Contents
Missing == [kind |-> "missing"]

\* --------------------------------------------------------------- versions

cmpUint(a, b) == IF a < b THEN -1 ELSE IF a > b THEN 1 ELSE 0

\* An identifier is <<0, n>> when numeric and <<1, n>> otherwise.
compareIdentifier(a, b) ==
    IF a[1] # b[1] THEN cmpUint(a[1], b[1]) ELSE cmpUint(a[2], b[2])

comparePrerelease(a, b) ==
    LET shared == 1 .. (IF Len(a) < Len(b) THEN Len(a) ELSE Len(b))
        differ == {i \in shared : compareIdentifier(a[i], b[i]) # 0}
    IN CASE a = <<>> \/ b = <<>> -> cmpUint(Len(b), Len(a))
         [] a # <<>> /\ b # <<>> /\ differ # {} ->
              LET i == CHOOSE i \in differ : \A j \in differ : i <= j
              IN compareIdentifier(a[i], b[i])
         [] OTHER -> cmpUint(Len(a), Len(b))

\* A version is [core |-> <<major, minor, patch>>, pre |-> identifiers].
Compare(v, w) ==
    LET differ == {i \in 1..3 : v.core[i] # w.core[i]}
    IN IF differ = {} THEN comparePrerelease(v.pre, w.pre)
       ELSE LET i == CHOOSE i \in differ : \A j \in differ : i <= j
            IN cmpUint(v.core[i], w.core[i])

Release(major, minor, patch) == [core |-> <<major, minor, patch>>, pre |-> <<>>]

caretRange(w) ==
    LET c == w.core
    IN CASE c[1] > 0 -> Release(c[1] + 1, 0, 0)
         [] c[1] = 0 /\ c[2] > 0 -> Release(0, c[2] + 1, 0)
         [] OTHER -> Release(0, 0, c[3] + 1)

tildeRange(w) == Release(w.core[1], w.core[2] + 1, 0)

satisfiesOne(v, c) ==
    /\ Compare(v, c.ver) \in (CASE c.op = "=" -> {0}
                               [] c.op \in {">=", "^", "~"} -> {0, 1}
                               [] c.op = "<=" -> {-1, 0}
                               [] c.op = ">" -> {1}
                               [] c.op = "<" -> {-1})
    /\ c.op \in {"^", "~"} =>
         Compare(v, IF c.op = "^" THEN caretRange(c.ver) ELSE tildeRange(c.ver)) = -1

\* A prerelease needs one comparator that names a prerelease of the same core.
anyComparatorSharesPrerelease(v, constraint) ==
    \E c \in constraint : c.ver.pre # <<>> /\ c.ver.core = v.core

\* A constraint is a set of comparators, all of which must hold.
Satisfies(v, constraint) ==
    /\ \A c \in constraint : satisfiesOne(v, c)
    /\ v.pre = <<>> \/ anyComparatorSharesPrerelease(v, constraint)

\* --------------------------------------------------------------- snapshot

\* Mutant: the snapshot forgets, every phase reads the files again.
ViewLive == disk

\* What a read returns: the captured content, else the file as it is now.
View == [p \in Paths |-> IF p \in DOMAIN captured THEN captured[p] ELSE disk[p]]

\* The snapshot after a phase that read the files in ps.
Capture(view, ps) ==
    [p \in DOMAIN captured \cup ps |-> IF p \in DOMAIN captured THEN captured[p] ELSE view[p]]

\* The owner restricts a reference to its package root; without an owner a
\* reference that leaves the workspace is only reported.
Contained(owner, p) == owner = None \/ p[1] = owner

\* ------------------------------------------------------------ requirements

\* Every declaration: the project's, then those of each document.
Declarations(view, ds) ==
    {[file |-> None, owner |-> None, req |-> ProjectRequires[i]] : i \in DOMAIN ProjectRequires}
    \cup UNION {{[file |-> d[1], owner |-> d[2], req |-> view[d[1]].requires[i]] :
                    i \in DOMAIN view[d[1]].requires} : d \in ds}

RepeatsPackage(list) ==
    \E i, j \in DOMAIN list : i < j /\ list[i].package = list[j].package

\* Two declarations of one package that name different sources.
compareRequirementPaths(a, b) == None \notin {a, b} /\ a # b

RequirementErrors(view, ds) ==
    LET all == Declarations(view, ds)
    IN {e \in {"PKG-003", "PKG-005", "PKG-007", "PKG-024", "SCOPE-003"} :
          CASE e = "PKG-003" -> \E d \in all : d.req.version = {}
            [] e = "PKG-005" -> RepeatsPackage(ProjectRequires)
                                \/ \E d \in ds : RepeatsPackage(view[d[1]].requires)
            [] e = "PKG-007" -> \E d \in all : d.req.path # None
                                   /\ ~Contained(d.owner, <<d.req.path>>)
            [] e = "PKG-024" -> \E c, d \in all :
                                   /\ c.req.package = d.req.package
                                   /\ compareRequirementPaths(c.req.path, d.req.path)
            [] e = "SCOPE-003" -> Cardinality({d.req.package : d \in all}) > MaxPackages}

\* One resolution per package: every constraint, and the source some
\* declaration names (None while no discovered document names one).
ResolveRequirements(view, ds) ==
    LET all == Declarations(view, ds)
        of(p) == {d.req : d \in {d \in all : d.req.package = p}}
        root(p) == {r.path : r \in of(p)} \ {None}
    IN {[package |-> p,
         version |-> UNION {r.version : r \in of(p)},
         path |-> IF root(p) = {} THEN None ELSE CHOOSE r \in root(p) : TRUE] :
            p \in {d.req.package : d \in all}}

\* The single-file form: project requirements, then the entry file's.  A
\* package both declare has both constraints and the project's source.
mergeRequirements(view) ==
    LET own == view[Entrypoint].requires
        from(list, p) == {list[i] : i \in {i \in DOMAIN list : list[i].package = p}}
        paths(list, p) == {r.path : r \in from(list, p)} \ {None}
        both(p) == from(ProjectRequires, p) \cup from(own, p)
        path(p) == CASE paths(ProjectRequires, p) # {} -> CHOOSE x \in paths(ProjectRequires, p) : TRUE
                     [] paths(ProjectRequires, p) = {} /\ paths(own, p) # {} -> CHOOSE x \in paths(own, p) : TRUE
                     [] OTHER -> None
        packages == {ProjectRequires[i].package : i \in DOMAIN ProjectRequires}
                    \cup {own[i].package : i \in DOMAIN own}
    IN {[package |-> p, version |-> UNION {r.version : r \in both(p)}, path |-> path(p)] : p \in packages}

mergeErrors(view) ==
    LET own == view[Entrypoint].requires
    IN (IF RepeatsPackage(ProjectRequires) \/ RepeatsPackage(own) THEN {"PKG-005"} ELSE {})
       \cup (IF \E i \in DOMAIN ProjectRequires, j \in DOMAIN own :
                   /\ ProjectRequires[i].package = own[j].package
                   /\ compareRequirementPaths(ProjectRequires[i].path, own[j].path)
             THEN {"PKG-024"} ELSE {})
       \cup (IF \E r \in mergeRequirements(view) : r.version = {} THEN {"PKG-003"} ELSE {})

\* ---------------------------------------------------------------- catalog

\* The files reached from ps along Next within Cardinality(Paths) steps.
Reachable(ps, Next(_)) ==
    LET level[n \in 0 .. Cardinality(Paths)] ==
            IF n = 0 THEN ps
            ELSE LET below == level[n - 1] IN below \cup UNION {Next(p) : p \in below}
    IN level[Cardinality(Paths)]

\* The substitute of an exported tool and every file it includes inside the
\* package: the files the package digest covers besides the exports.
closeIncludeFile(view, root, ps) ==
    LET includes(p) == IF view[p].kind = "runbook"
                       THEN {q \in view[p].includes : q[1] = root} ELSE {}
    IN Reachable(ps, includes)

closureDigestFiles(view, root, tool) ==
    IF view[tool].sub = None THEN {} ELSE closeIncludeFile(view, root, {view[tool].sub})

ManifestOf(root) == <<root, "manifest">>

\* The version against every constraint, and at least one export.
ManifestErrors(m, r) ==
    (IF Satisfies(m.version, r.version) THEN {} ELSE {"PKG-002"})
    \cup (IF m.tools = <<>> /\ m.runbooks = {} THEN {"PKG-004"} ELSE {})

ExportErrors(view, root, m) ==
    LET tools == {m.tools[i] : i \in DOMAIN m.tools}
    IN {e \in {"PKG-004", "PKG-007", "PKG-010", "PKG-023"} :
          CASE e = "PKG-004" -> \E i, j \in DOMAIN m.tools : i < j
                                     /\ (m.tools[i].id = m.tools[j].id \/ m.tools[i].path = m.tools[j].path)
            [] e = "PKG-007" -> \E x \in tools \cup m.runbooks : x.path[1] # root
            [] e = "PKG-010" -> \/ \E x \in tools : view[x.path].kind # "tool"
                                \/ \E x \in m.runbooks : view[x.path] = Missing
            [] e = "PKG-023" -> \E x \in tools : view[x.path].kind = "tool" /\ view[x.path].name # x.id}

\* Loading one resolved package: its errors, and the entries and exported
\* runbooks it adds, each with the package digest.
loadPackage(view, r) ==
    LET root == r.path
        m == view[ManifestOf(root)]
        bad == ExportErrors(view, root, m)
        tools == {m.tools[i] : i \in DOMAIN m.tools}
        files == {ManifestOf(root)} \cup {x.path : x \in tools \cup m.runbooks}
                 \cup UNION {closureDigestFiles(view, root, x.path) : x \in tools}
        digest == {<<p, view[p]>> : p \in files}
    IN CASE root = None \/ (root # None /\ view[ManifestOf(root)] = Missing) ->
              [errs |-> {"PKG-001"}, entries |-> {}, runbooks |-> {}, read |-> {ManifestOf(root)} \cap Paths]
         [] root # None /\ view[ManifestOf(root)] # Missing ->
              IF bad # {}
              THEN [errs |-> bad, entries |-> {}, runbooks |-> {}, read |-> {ManifestOf(root)}]
              ELSE [errs |-> ManifestErrors(m, r),
                    entries |-> {[qualified |-> <<m.name, x.id>>, bare |-> x.id, tier |-> 1,
                                  package |-> m.name, source |-> x.path, root |-> root,
                                  digest |-> digest] : x \in tools},
                    runbooks |-> {[qualified |-> <<m.name, x.id>>, path |-> x.path, root |-> root,
                                   digest |-> digest] : x \in m.runbooks},
                    read |-> files]

\* A project tool is its own containment root; a file that does not parse is
\* skipped.
scanToolDir(view) ==
    {[qualified |-> <<view[p].name>>, bare |-> view[p].name, tier |-> 2, package |-> None,
      source |-> p, root |-> p[1], digest |-> {<<p, view[p]>>}] :
        p \in {q \in Scanned : view[q].kind = "tool"}}

BuiltinEntries ==
    {[qualified |-> <<b>>, bare |-> b, tier |-> 0, package |-> None,
      source |-> None, root |-> None, digest |-> {}] : b \in Builtins}

\* Two entries of one tier that share a bare name.
detectSameTierCollisions(entries) ==
    \E e, f \in entries : e # f /\ e.tier = f.tier /\ e.bare = f.bare

\* The frozen catalog of the packages loaded.  With lexical bindings only a
\* repeated qualified name is refused here, and a bare name two entries share
\* where it is used; a single-file run refuses every collision within a tier
\* at once.
Merge(view, load, lexical) ==
    LET loads == {load[r] : r \in DOMAIN load}
        packaged == UNION {l.entries : l \in loads}
        entries == BuiltinEntries \cup packaged \cup scanToolDir(view)
        names(r) == {e.qualified : e \in load[r].entries}
        repeated == \E r, s \in DOMAIN load : r # s /\ names(r) \cap names(s) # {}
        clash == IF lexical THEN repeated ELSE repeated \/ detectSameTierCollisions(entries)
    IN [entries |-> entries,
        runbooks |-> UNION {l.runbooks : l \in loads},
        errs |-> UNION {l.errs : l \in loads} \cup (IF clash THEN {"PKG-006"} ELSE {}),
        read |-> UNION {l.read : l \in loads} \cup Scanned]

Build(view, resolved, lexical) ==
    Merge(view, [r \in resolved |-> loadPackage(view, r)], lexical)

ByBare(cat, name) == {e \in cat.entries : e.bare = name}

\* ---------------------------------------------------------------- binding

\* A binding's name is a tuple, <<tool>> or <<package, tool>>.
Bound(name, source, root) ==
    [errs |-> {}, binding |-> [name |-> name, source |-> source, root |-> root], implicit |-> FALSE]
Unbound(code) == [errs |-> {code}, binding |-> None, implicit |-> FALSE]

\* toolRefs[].version against the tool's own version, when it declares one.
checkVersionConstraint(ref, content) ==
    \/ ref.version = {}
    \/ content.version = None
    \/ Satisfies(content.version, ref.version)

bindByPath(view, d, ref) ==
    CASE ~Contained(d[2], ref.path) -> Unbound("PKG-007")
      [] Contained(d[2], ref.path) /\ view[ref.path].kind # "tool" -> Unbound("PKG-030 path")
      [] Contained(d[2], ref.path) /\ view[ref.path].kind = "tool" ->
           IF checkVersionConstraint(ref, view[ref.path])
           THEN Bound(<<ref.name>>, ref.path, IF d[2] = None THEN ref.path[1] ELSE d[2])
           ELSE Unbound("PKG-002")

bindByPackage(view, cat, ref) ==
    LET match == {e \in ByBare(cat, ref.name) : e.tier = 1 /\ e.package = ref.package}
    IN IF match = {} THEN Unbound("PKG-011")
       ELSE LET e == CHOOSE e \in match : TRUE
            IN IF checkVersionConstraint(ref, view[e.source])
               THEN Bound(<<ref.name>>, e.source, e.root) ELSE Unbound("PKG-002")

\* A bare name binds only when a single entry of a single tier carries it.
bindByBareName(cat, name) ==
    LET group == ByBare(cat, name)
    IN CASE group = {} -> Unbound("PKG-030")
         [] Cardinality({e.tier : e \in group}) > 1 -> Unbound("PKG-022")
         [] Cardinality({e.tier : e \in group}) = 1 ->
              IF Cardinality(group) > 1 THEN Unbound("PKG-006")
              ELSE LET e == CHOOSE e \in group : TRUE IN Bound(<<name>>, e.source, e.root)

BindFile(view, cat, d, ref) ==
    CASE ref.package # None /\ ref.path # None -> Unbound("PKG-029")
      [] ref.package = None /\ ref.path # None -> bindByPath(view, d, ref)
      [] ref.package # None /\ ref.path = None -> bindByPackage(view, cat, ref)
      [] OTHER -> bindByBareName(cat, ref.name)

\* A call no toolRef names: a qualified name is looked up in the catalog, a
\* bare name binds freely in the entry file and only to a built-in elsewhere.
bindCall(cat, d, name) ==
    LET qualified == {e \in cat.entries : e.qualified = name}
    IN CASE Len(name) = 2 -> IF qualified = {} THEN Unbound("SCOPE-001")
                             ELSE LET e == CHOOSE e \in qualified : TRUE
                                  IN Bound(name, e.source, e.root)
         [] Len(name) = 1 /\ d = <<Entrypoint, None>> ->
              LET b == bindByBareName(cat, name[1])
              IN IF b.errs = {"PKG-030"} THEN Unbound("SCOPE-001") ELSE b
         [] Len(name) = 1 /\ d # <<Entrypoint, None>> ->
              IF name[1] \in Builtins
              THEN [Bound(name, None, None) EXCEPT !.implicit = TRUE]
              ELSE Unbound("SCOPE-001")

\* Every outcome of binding one document.
bindDocument(view, cat, d) ==
    LET rb == view[d[1]]
        refs == {BindFile(view, cat, d, r) : r \in rb.refs}
        calls == {bindCall(cat, d, c) : c \in {c \in rb.calls : c[1] \notin {r.name : r \in rb.refs} \/ Len(c) = 2}}
    IN refs \cup calls

\* These a later round may still repair; the others end the preflight.
Provisional == {"PKG-011", "PKG-030", "SCOPE-001"}

BindingsOf(outcomes) == {b \in outcomes : b.errs = {}}

\* ------------------------------------------------------------- discovery

IncludesOf(view, d) == {<<p, d[2]>> : p \in view[d[1]].includes}

\* The documents n includes away from ds.
IncludeLevel(view, ds, n) ==
    LET runbook(d) == view[d[1]].kind = "runbook"
        level[k \in 0 .. n] ==
            IF k = 0 THEN ds
            ELSE UNION {IncludesOf(view, d) : d \in {d \in level[k - 1] : runbook(d)}}
    IN level[n]

visit(view, ds) == UNION {IncludeLevel(view, ds, n) : n \in 0 .. MaxIncludeDepth}

\* A cycle of includes has a level of every depth.
VisitErrors(view, ds) ==
    LET found == visit(view, ds)
    IN {e \in {"source", "PKG-007", "depth"} :
          CASE e = "source" -> \E d \in found : view[d[1]].kind # "runbook"
            [] e = "PKG-007" -> \E d \in found : view[d[1]].kind = "runbook"
                                  /\ \E p \in view[d[1]].includes : ~Contained(d[2], p)
            [] e = "depth" -> IncludeLevel(view, ds, MaxIncludeDepth + 1) # {}}

\* The substitutes of the tools that are bound, owned by the tool's root.
substitutions(view, bound) ==
    {<<view[b.binding.source].sub, b.binding.root>> :
        b \in {b \in bound : b.binding.source # None /\ view[b.binding.source].sub # None}}

IsDynamic(view, ds) == \E d \in ds : view[d[1]].dynamic
DynamicTargets(view, cat, ds) ==
    IF IsDynamic(view, ds) THEN {<<r.path, r.root>> : r \in cat.runbooks} ELSE {}

AmbiguousTarget(cat) ==
    \E r, s \in cat.runbooks : r.qualified = s.qualified /\ <<r.path, r.root>> # <<s.path, s.root>>

\* A descendant must not fall back to a built-in of a name that one of its
\* ancestors binds to something else.
validateAncestorAliases(view, cat, bound) ==
    LET ds == DOMAIN bound
        next(d) == IncludesOf(view, d) \cup substitutions(view, bound[d])
                   \cup DynamicTargets(view, cat, {d})
        below(a) == LET level[n \in 0 .. Cardinality(ds)] ==
                            IF n = 0 THEN next(a)
                            ELSE LET near == level[n - 1] IN near \cup UNION {next(d) : d \in near}
                    IN level[Cardinality(ds)] \ {a}
        implicit(d) == {b.binding.name : b \in {b \in bound[d] : b.implicit}}
    IN \A a \in ds : \A d \in below(a) : \A b \in bound[a] :
          b.binding.name \in implicit(d) => b.binding.source = None

\* The chains of substitutions the sealed scopes allow, from every bound tool
\* along the calls of the substitutes: a tool substituted inside itself, or a
\* fifth level, refuses the run.
MaxSubstitutionDepth == 4
walkScopedSubstitutions(view, bound, d) ==
    UNION {substitutions(view, {b \in bound[e] : b.binding.name \in view[e[1]].calls}) :
               e \in visit(view, {d})}
SubstitutionErrors(view, bound) ==
    LET level[n \in 1 .. MaxSubstitutionDepth + 1] ==
            IF n = 1 THEN UNION {substitutions(view, bound[d]) : d \in DOMAIN bound}
            ELSE UNION {walkScopedSubstitutions(view, bound, d) : d \in level[n - 1]}
    IN IF level[MaxSubstitutionDepth + 1] # {} THEN {"PKG-028"} ELSE {}

\* The sealed tables are complete: every include edge, every binding's source
\* and every dynamic target is in them.
validate(view, cat, ds, bound) ==
    /\ ds # {} /\ DOMAIN bound = ds
    /\ \A d \in ds : IncludesOf(view, d) \cup substitutions(view, bound[d]) \subseteq ds
    /\ DynamicTargets(view, cat, ds) \subseteq ds

\* ---------------------------------------------------------------- actions

\* Every way the files may be when the command starts.
Worlds == FoldSet(LAMBDA p, ws : {[w EXCEPT ![p] = c] : w \in ws, c \in Contents[p]},
                  {[p \in Paths |-> Missing]}, Paths)

Init ==
    /\ disk \in Worlds
    /\ edits = 0
    /\ captured = << >>
    /\ docs = {}
    /\ catalog = None
    /\ bindings = << >>
    /\ scoped \in BOOLEAN
    /\ loaded = None
    /\ pc = "start"
    /\ errs = {}

Refuse(codes) == pc' = "refused" /\ errs' = codes

\* Someone saves a file while the preflight, or the run after it, proceeds.
Edit(p) ==
    /\ edits < MaxEdits
    /\ edits' = edits + 1
    /\ \E c \in Contents[p] \ {disk[p]} : disk' = [disk EXCEPT ![p] = c]
    /\ UNCHANGED <<captured, docs, catalog, bindings, scoped, loaded, pc, errs>>

\* The entry file and its includes.
VisitEntrypoint ==
    /\ pc = "start" /\ scoped
    /\ LET root == {<<Entrypoint, None>>}
           found == visit(View, root)
           bad == VisitErrors(View, root)
                  \cup (IF Cardinality(found) > MaxDocuments THEN {"SCOPE-003"} ELSE {})
       IN /\ captured' = Capture(View, {d[1] : d \in found})
          /\ docs' = found
          /\ IF bad # {} THEN Refuse(bad) ELSE pc' = "build" /\ UNCHANGED errs
    /\ UNCHANGED <<disk, edits, catalog, bindings, scoped, loaded>>

\* Collect the requirements of the documents found and build the catalog.  A
\* package whose source nobody names yet waits for a later round.
BuildCatalog ==
    /\ pc = "build"
    /\ IF RequirementErrors(View, docs) # {}
       THEN Refuse(RequirementErrors(View, docs)) /\ UNCHANGED <<captured, catalog>>
       ELSE \E cat \in {Build(View, ResolveRequirements(View, docs), TRUE)} :
              /\ captured' = Capture(View, cat.read)
              /\ catalog' = cat
              /\ IF cat.errs \subseteq {"PKG-001"} THEN pc' = "bind" /\ UNCHANGED errs
                 ELSE Refuse(cat.errs)
    /\ UNCHANGED <<disk, edits, docs, bindings, scoped, loaded>>

\* A tool that bound to another source in an earlier round.
SourceChanged(new) ==
    \E d \in DOMAIN bindings : \E b \in bindings[d], c \in new[d] :
        b.binding.name = c.binding.name /\ b.binding.source # c.binding.source

\* The outcomes of binding every document known, and the substitutes visited.
\* A round that finds no new document is the last.
Bind(view, known, outcomes) ==
    LET outcome == UNION {b.errs : b \in UNION {outcomes[d] : d \in known}}
        new == [d \in known |-> BindingsOf(outcomes[d])]
        subs == UNION {substitutions(view, new[d]) : d \in known}
        all == known \cup visit(view, subs)
        fatal == (outcome \ Provisional) \cup VisitErrors(view, subs)
                 \cup (IF SourceChanged(new) THEN {"SCOPE-002"} ELSE {})
                 \cup (IF Cardinality(all) > MaxDocuments THEN {"SCOPE-003"} ELSE {})
        refs == UNION {view[d[1]].refs : d \in known}
        final == catalog.errs \cup outcome
    IN /\ captured' = Capture(view, {d[1] : d \in all} \cup ({r.path : r \in refs} \ {None}))
       /\ docs' = all
       /\ bindings' = new
       /\ CASE fatal # {} -> Refuse(fatal)
            [] fatal = {} /\ all # docs -> pc' = "build" /\ UNCHANGED errs
            [] fatal = {} /\ all = docs /\ final # {} -> Refuse(final)
            [] fatal = {} /\ all = docs /\ final = {} ->
                 IF validateAncestorAliases(view, catalog, new)
                 THEN pc' = "seal" /\ UNCHANGED errs ELSE Refuse({"SCOPE-001"})

\* Visit the dynamic targets, bind every document, visit the substitutes.
BindDocuments ==
    /\ pc = "bind"
    /\ LET targets == DynamicTargets(View, catalog, docs)
           known == docs \cup visit(View, targets)
           early == VisitErrors(View, targets)
                    \cup (IF IsDynamic(View, docs) /\ AmbiguousTarget(catalog) THEN {"SCOPE-002"} ELSE {})
       IN IF early # {}
          THEN Refuse(early) /\ UNCHANGED <<captured, docs, bindings>>
          ELSE \E outcomes \in {[d \in known |-> bindDocument(View, catalog, d)]} : Bind(View, known, outcomes)
    /\ UNCHANGED <<disk, edits, catalog, scoped, loaded>>

\* Every document becomes a scope, every binding a frozen definition; the
\* chains of substitutions are checked over the sealed scopes.
PrepareScopedRun ==
    /\ pc = "seal"
    /\ LET bad == SubstitutionErrors(View, bindings)
                  \cup (IF validate(View, catalog, docs, bindings) THEN {} ELSE {"tables"})
       IN IF bad # {} THEN Refuse(bad) ELSE pc' = "sealed" /\ UNCHANGED errs
    /\ UNCHANGED <<disk, edits, captured, docs, catalog, bindings, scoped, loaded>>

\* The single-file form reads the entry file, freezes the catalog and binds
\* the entry file's toolRefs, once.
BuildPackageCatalog ==
    /\ pc = "start" /\ ~scoped
    /\ IF View[Entrypoint].kind # "runbook"
       THEN Refuse({"source"}) /\ UNCHANGED <<captured, docs, catalog, bindings>>
       ELSE \E cat \in {Build(View, mergeRequirements(View), FALSE)} :
            \E bound \in {{BindFile(View, cat, <<Entrypoint, None>>, r) : r \in View[Entrypoint].refs}} :
            \E bad \in {mergeErrors(View) \cup cat.errs \cup UNION {b.errs : b \in bound}} :
              /\ captured' = Capture(View, cat.read \cup {Entrypoint})
              /\ docs' = {<<Entrypoint, None>>}
              /\ catalog' = cat
              /\ bindings' = [d \in docs' |-> bound]
              /\ IF bad # {} THEN Refuse(bad) ELSE pc' = "sealed" /\ UNCHANGED errs
    /\ UNCHANGED <<disk, edits, scoped, loaded>>

\* A sealed run asks for a document by its scope, for the tool a call binds
\* in its scope, or renders the name of a dynamic target: the snapshot
\* answers, never the file.
Given(p) == loaded' = <<p, captured[p]>> /\ UNCHANGED <<pc, errs>>

LoadScope(d) ==
    /\ pc = "sealed" /\ scoped
    /\ Given(d[1])
    /\ UNCHANGED <<disk, edits, captured, docs, catalog, bindings, scoped>>

ResolveTool(d) ==
    /\ pc = "sealed" /\ scoped
    /\ \E b \in bindings[d] : b.binding.source # None /\ Given(b.binding.source)
    /\ UNCHANGED <<disk, edits, captured, docs, catalog, bindings, scoped>>

ResolveTarget(ref) ==
    /\ pc = "sealed" /\ scoped
    /\ IsDynamic(View, docs)
    /\ LET named(r) == IF Len(ref) = 2 THEN r.qualified = ref ELSE r.qualified[2] = ref[1]
           matches == {r \in catalog.runbooks : named(r)}
       IN CASE matches = {} -> Refuse({"DINC-002"}) /\ UNCHANGED loaded
            [] Cardinality(matches) = 1 -> \E r \in matches : Given(r.path)
            [] OTHER -> Refuse({"DINC-003"}) /\ UNCHANGED loaded
    /\ UNCHANGED <<disk, edits, captured, docs, catalog, bindings, scoped>>

\* Mutant: the digest is not verified when the file is read.
ResolveExportedUnchecked(r) ==
    /\ pc = "sealed" /\ ~scoped
    /\ loaded' = <<r.path, disk[r.path]>>
    /\ UNCHANGED <<disk, edits, captured, docs, catalog, bindings, scoped, pc, errs>>

\* A single-file run renders the name of an exported runbook: the file is
\* read now, and refused when it differs from the frozen digest.
ResolveExported(r) ==
    /\ pc = "sealed" /\ ~scoped
    /\ LET now == <<r.path, disk[r.path]>>
       IN IF now \in r.digest
          THEN loaded' = now /\ UNCHANGED <<pc, errs>>
          ELSE Refuse({"DINC-013"}) /\ UNCHANGED loaded
    /\ UNCHANGED <<disk, edits, captured, docs, catalog, bindings, scoped>>

\* The names a dynamic include may render that are well formed.
Refs == UNION {{r.qualified, <<r.qualified[2]>>} : r \in catalog.runbooks} \cup {<<"unknown">>}

Next ==
    \/ \E p \in Paths : Edit(p)
    \/ VisitEntrypoint \/ BuildCatalog \/ BindDocuments \/ PrepareScopedRun
    \/ BuildPackageCatalog
    \/ \E d \in docs : LoadScope(d) \/ ResolveTool(d)
    \/ pc = "sealed" /\ \E ref \in Refs : ResolveTarget(ref)
    \/ pc = "sealed" /\ \E r \in catalog.runbooks : ResolveExported(r)

Spec == Init /\ [][Next]_vars

\* ------------------------------------------------------------- properties

\* Only what was captured: a file nobody read counts as missing.
Frozen == [p \in Paths |-> IF p \in DOMAIN captured THEN captured[p] ELSE Missing]

\* The closure, defined without rounds: the least set of documents that has
\* the entry file and, with the catalog of its own requirements, its own
\* includes, substitutes and dynamic targets.
LeastClosure ==
    LET grow(ds, cat) == ds \cup UNION {IncludesOf(Frozen, d) : d \in ds}
                    \cup UNION {substitutions(Frozen, BindingsOf(bindDocument(Frozen, cat, d))) : d \in ds}
                    \cup DynamicTargets(Frozen, cat, ds)
        level[n \in 0 .. MaxDocuments + 1] ==
            IF n = 0 THEN {<<Entrypoint, None>>}
            ELSE LET ds == level[n - 1]
                 IN grow(ds, Build(Frozen, ResolveRequirements(Frozen, ds), TRUE))
    IN level[MaxDocuments + 1]

\* Every document is the least closure's, every call is bound the way the
\* catalog of all the requirements binds it, and each package satisfies the
\* constraint of every declaration (a prerelease only all of them together).
ClosureExact ==
    LET resolved == ResolveRequirements(Frozen, docs)
        cat == Build(Frozen, resolved, TRUE)
    IN /\ docs = LeastClosure
       /\ cat.errs = {}
       /\ \A d \in docs : /\ bindings[d] = bindDocument(Frozen, cat, d)
                          /\ \A b \in bindings[d] : b.errs = {}
       /\ \A d \in Declarations(Frozen, docs) : \E r \in resolved :
            /\ r.package = d.req.package
            /\ LET v == Frozen[ManifestOf(r.path)].version
               IN v.pre = <<>> => Satisfies(v, d.req.version)

\* BuildClosure "resolves every eligible file to a fixed point"
\* (closure.go:332), Load "parses the captured bytes, never the current
\* filesystem" (closure.go:84) and an exported runbook read later must have
\* its digest (dynamicloader.go:73): whatever is edited during the preflight or the run,
\* a sealed closure is exactly the closure of the files as captured, and
\* what the run is given to execute is what was captured.
ClosureFrozen ==
    /\ pc = "sealed" /\ scoped /\ loaded = None => ClosureExact
    /\ loaded # None => loaded[1] \in DOMAIN captured /\ loaded[2] = captured[loaded[1]]
=============================================================================
