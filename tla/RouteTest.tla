------------------------------ MODULE RouteTest ------------------------------
(***************************************************************************)
(* `yawr run`, and the route test it may run: a reviewed artifact binds a  *)
(* response to every external boundary on the way to a target step, the    *)
(* run takes those responses instead of dispatching anything, stops before *)
(* the target, and passes when the target was reached with every binding   *)
(* used.                                                                   *)
(*                                                                         *)
(* Data: a site is a call path with a step id; a plan is the sequence of   *)
(* sites the run would visit if nothing diverted it (an iterate repeats    *)
(* its sites).  A response is good, bad (the step fails), foreign (it does *)
(* not fit the step's contract) or a label that skips the next item.       *)
(***************************************************************************)
EXTENDS Integers, Sequences, SequencesExt, FiniteSets

CONSTANTS Plans,      \* sequences of [site, kind, onError, governed, branch]
          Commands    \* command lines: [flags |-> the set of flags given, artifact]

VARIABLES plan,       \* the frozen plan
          command,    \* the command line
          phase,      \* "args", "planning", "running", "done"
          pos,        \* the item the run is at
          at,         \* within the item: "before", "approval", "execute"
          count,      \* DebugInvocationTracker.counts
          asked,      \* Scheduler.invocations, per kind and site
          consumed,   \* Scheduler.consumed
          reached,    \* Scheduler.targetReached
          dispatched, \* Scheduler.externalDispatchCount, or real effects
          took,       \* the items that returned, with what answered them
          run,        \* [status, failure, hadFailure]
          exit        \* [code, passed, status]
vars == <<plan, command, phase, pos, at, count, asked, consumed, reached, dispatched, took, run, exit>>

Interactions == {"choice", "decision", "collector"}
Stepped == {"cli", "tool"}
Blocked == {"wait_for_event", "extension", "prompt"}
Kinds == Interactions \cup Stepped \cup {"host_action", "approval"}
Sites == UNION {{p[i].site : i \in DOMAIN p} : p \in Plans}
Artifact == command.artifact
Flag(f) == f \in command.flags
RouteTesting == Flag("route-test")
Item == plan[pos]
\* What answered a step, when it is not a binding.
Itself == <<"itself">>
NoAnswer == <<"no answer">>

NotEnded == [code |-> -1, passed |-> FALSE, status |-> ""]
Init == /\ plan \in Plans
        /\ command \in Commands
        /\ phase = "args"
        /\ pos = 1
        /\ at = "before"
        /\ count = [s \in Sites |-> 0]
        /\ asked = [x \in Kinds \X Sites |-> 0]
        /\ consumed = {}
        /\ reached = FALSE
        /\ dispatched = 0
        /\ took = <<>>
        /\ run = [status |-> "pending", failure |-> "", hadFailure |-> FALSE]
        /\ exit = NotEnded

(***************************************************************************)
(* The artifact.  A binding is [kind, site, inv, phase, reviewed, source,  *)
(* response]; `flaws` names the document checks the file does not meet.    *)
(***************************************************************************)
bindingKey(kind, site, inv) == <<kind, site, inv>>
KeyOf(b) == bindingKey(b.kind, b.site, b.inv)
validateSelector(b) == b.inv >= 1 /\ b.phase \in {"before", "execute"}
validateReview(b) == b.reviewed
validatePersistedSource(b) == b.source \in {"manual", "prior-run"}
outcomeForStatus(b) == b.kind \in Stepped => b.response \in {"good", "bad", "foreign"}

NewScheduler(a) ==
    /\ validateSelector(a.target)
    /\ a.target.phase = "before"
    /\ \A i \in DOMAIN a.bindings :
          LET b == a.bindings[i]
          IN /\ validateSelector(b)
             /\ b.phase = "execute"
             /\ b.kind \in Kinds
             /\ validateReview(b)
             /\ outcomeForStatus(b)
             /\ \A j \in DOMAIN a.bindings : i # j => KeyOf(b) # KeyOf(a.bindings[j])

\* Values that may not be kept in a file: sensitive names, values over the bounds, several lines.
rejectSensitiveRouteTestData(a) == a.flaws \cap {"sensitive name", "value too large", "multiline value"} = {}
\* The recorded last result belongs to these very conditions, and "reached" is the only one with claims.
LastResultAgrees(a) ==
    a.last.status # "none" =>
       /\ a.last.digest = "current"
       /\ a.last.status \in {"reached", "route-changed", "runtime-failed", "safety-failed", "stopped"}
       /\ a.last.status = "reached" => a.last.reached /\ a.last.dispatches = 0
LoadScenario(a) == a.flaws \cap {"over 1 MiB"} = {}
ParseScenario(a) ==
    /\ a.flaws \cap {"unknown field", "two documents", "version", "no runbook", "no plan hash", "not reviewed"} = {}
    /\ LastResultAgrees(a)
    /\ \A i \in DOMAIN a.bindings : validatePersistedSource(a.bindings[i])
    /\ rejectSensitiveRouteTestData(a)
    /\ NewScheduler(a)

(***************************************************************************)
(* The command line: everything that is refused before anything is built.  *)
(***************************************************************************)
Refused(code) == /\ phase' = "done"
                 /\ exit' = [NotEnded EXCEPT !.code = code]
                 /\ UNCHANGED <<plan, command, pos, at, count, asked, consumed, reached, dispatched, took, run>>

FlagsAgree ==
    /\ command.flags \cap {"unknown flag", "unknown capability", "no runbook", "extra argument", "unknown output",
                           "unknown expansion", "malformed var"} = {}
    /\ (Flag("debug") \/ Flag("configure")) => Flag("stdio") /\ ~Flag("resume")
RouteFlagsAgree ==
    RouteTesting => /\ command.flags \cap {"dry-run", "resume", "debug", "configure", "var", "lazy"} = {}
                    /\ LoadScenario(Artifact)
                    /\ ParseScenario(Artifact)
                    /\ NewScheduler(Artifact)
ProfileAgrees ==
    /\ ~Flag("unreadable profile")
    /\ ~RouteTesting /\ ~Flag("dry-run") => Flag("profile") \/ Flag("tty") \/ Flag("stdio")

Arguments ==
    /\ phase = "args"
    /\ IF FlagsAgree /\ RouteFlagsAgree /\ ProfileAgrees
       THEN /\ phase' = "planning"
            /\ UNCHANGED <<plan, command, pos, at, count, asked, consumed, reached, dispatched, took, run, exit>>
       ELSE Refused(2)

(***************************************************************************)
(* The plan.  Every selector of the artifact must resolve in the frozen    *)
(* plan, with its kind; what cannot be walked deterministically is         *)
(* refused, and so is a plan other than the one that was reviewed.         *)
(***************************************************************************)
Resolve(site) == {i \in DOMAIN plan : plan[i].site = site}
ValidateScenarioPlan(a) ==
    /\ \A i \in DOMAIN plan : plan[i].kind \notin {"dynamic include", "lazy include", "concurrent iterate"}
    /\ a.flaws \cap {"undeclared input", "secret input"} = {}
    /\ Resolve(a.target.site) # {}
    /\ \A i \in Resolve(a.target.site) : ~plan[i].branch
    /\ \A k \in DOMAIN a.bindings :
          /\ Resolve(a.bindings[k].site) # {}
          /\ a.bindings[k].kind # "approval" =>
                \A i \in Resolve(a.bindings[k].site) : plan[i].kind = a.bindings[k].kind
    /\ a.flaws \cap {"undeclared field", "ephemeral field", "capability"} = {}
SubjectUnchanged(a) == a.flaws \cap {"another runbook", "plan changed"} = {}

Prepare ==
    /\ phase = "planning"
    /\ IF RouteTesting /\ ~(SubjectUnchanged(Artifact) /\ ValidateScenarioPlan(Artifact))
       THEN Refused(2)
       ELSE /\ phase' = "running"
            /\ run' = [run EXCEPT !.status = "running"]
            /\ UNCHANGED <<plan, command, pos, at, count, asked, consumed, reached, dispatched, took, exit>>

(***************************************************************************)
(* One step.  The invocation is counted on entry; the target is looked at  *)
(* before anything of the step happens; then approval, then the executor.  *)
(***************************************************************************)
Stepping(a) == phase = "running" /\ run.status = "running" /\ pos <= Len(plan) /\ at = a
\* Mutant: the target is compared without the invocation.
AnyInvocationMatches(t, site, inv) == t.site = site
selectorMatchesLocation(t, site, inv) == t.site = site /\ t.inv = inv

FailRun(why) == /\ run' = [status |-> "failed", failure |-> why, hadFailure |-> TRUE]
                /\ UNCHANGED <<plan, command, phase, pos, at>>
PauseAtTarget == /\ run' = [run EXCEPT !.status = "paused_at_boundary"]
                 /\ UNCHANGED <<plan, command, phase, pos, at>>
GoTo(a) == at' = a /\ UNCHANGED <<plan, command, phase, pos, run>>

\* A branch of a parallel step is not asked: its steps are not executed by executeStep.
BeforeStep ==
    /\ Stepping("before")
    /\ LET inv == count[Item.site] + 1
           target == RouteTesting /\ ~Item.branch /\ selectorMatchesLocation(Artifact.target, Item.site, inv)
       IN /\ count' = [count EXCEPT ![Item.site] = inv]
          /\ reached' = (reached \/ target)
          /\ IF target THEN PauseAtTarget
             ELSE IF RouteTesting /\ ~Item.branch /\ Item.kind \in Blocked THEN FailRun("route test safety failure")
             ELSE GoTo(IF Item.governed THEN "approval" ELSE "execute")
    /\ UNCHANGED <<asked, consumed, dispatched, took, exit>>

\* The next selector of this kind and site, and the binding it names.
nextSelector(kind) == asked[kind, Item.site] + 1
Bindings(key) == {b \in Range(Artifact.bindings) : KeyOf(b) = key}
Asks(kind) == asked' = [asked EXCEPT ![kind, Item.site] = @ + 1]

\* An approval is used up even when it says no.
RequestApproval ==
    /\ RouteTesting
    /\ Stepping("approval")
    /\ Asks("approval")
    /\ LET key == bindingKey("approval", Item.site, nextSelector("approval"))
       IN /\ consumed' = IF Bindings(key) = {} THEN consumed ELSE consumed \cup {key}
          /\ IF \E b \in Bindings(key) : key \notin consumed /\ b.response = "good"
             THEN GoTo("execute") ELSE FailRun("route test safety failure")
    /\ UNCHANGED <<count, reached, dispatched, took, exit>>

\* What a result does to the run: a failure follows on_error; a label may skip the next item.
Settles(result, by) ==
    /\ took' = Append(took, [pos |-> pos, by |-> by, result |-> result])
    /\ IF result = "bad" /\ Item.onError = "stop"
       THEN FailRun("step failed")
       ELSE /\ pos' = IF result = "skip" THEN pos + 2 ELSE pos + 1
            /\ at' = "before"
            /\ run' = IF result = "bad" THEN [run EXCEPT !.hadFailure = TRUE, !.failure = "step failed"] ELSE run
            /\ UNCHANGED <<plan, command, phase>>

\* A saved cli or tool result: the tool's must pass the contract of its action before it is used.
scheduledStepExecutor ==
    /\ RouteTesting
    /\ Stepping("execute")
    /\ Item.kind \in Stepped
    /\ Asks(Item.kind)
    /\ LET key == bindingKey(Item.kind, Item.site, nextSelector(Item.kind))
           fit == {b \in Bindings(key) : key \notin consumed /\ ~(Item.kind = "tool" /\ b.response = "foreign")}
       IN IF fit = {}
          THEN FailRun("route test safety failure") /\ UNCHANGED <<consumed, took>>
          ELSE /\ consumed' = consumed \cup {key}
               /\ \E b \in fit : Settles(IF b.response = "foreign" THEN "good" ELSE b.response, key)
    /\ UNCHANGED <<count, reached, dispatched, exit>>

ExecuteHostAction ==
    /\ RouteTesting
    /\ Stepping("execute")
    /\ Item.kind = "host_action"
    /\ Asks("host_action")
    /\ LET key == bindingKey("host_action", Item.site, nextSelector("host_action"))
           fit == {b \in Bindings(key) : key \notin consumed /\ b.response # "foreign"}
       IN IF fit = {}
          THEN FailRun("route test safety failure") /\ UNCHANGED <<consumed, took>>
          ELSE consumed' = consumed \cup {key} /\ Settles("good", key)
    /\ UNCHANGED <<count, reached, dispatched, exit>>

\* A prompt without a fitting answer is a failed result of its step, which on_error may tolerate.
pendingInteraction ==
    /\ RouteTesting
    /\ Stepping("execute")
    /\ Item.kind \in Interactions
    /\ Asks(Item.kind)
    /\ LET key == bindingKey(Item.kind, Item.site, nextSelector(Item.kind))
           fit == {b \in Bindings(key) : key \notin consumed /\ b.response # "foreign"}
       IN IF fit = {}
          THEN UNCHANGED consumed /\ Settles("bad", NoAnswer)
          ELSE consumed' = consumed \cup {key} /\ \E b \in fit : Settles(b.response, key)
    /\ UNCHANGED <<count, reached, dispatched, exit>>

\* Kinds that dispatch nothing run as they are; whatever has no adapter is refused.
Pure == {"assert", "display", "end", "noop", "branch"}
LookupPure ==
    /\ RouteTesting
    /\ Stepping("execute")
    /\ \/ Item.kind \in Pure /\ \E r \in {"good", "bad"} : Settles(r, Itself)
       \/ Item.kind \in Blocked /\ FailRun("route test safety failure") /\ UNCHANGED took
    /\ UNCHANGED <<count, asked, consumed, reached, dispatched, exit>>

\* Without a route test the step is dispatched, and returns what it returns.
ExecuteReal ==
    /\ ~RouteTesting
    /\ Stepping("approval") \/ Stepping("execute")
    /\ \/ at = "approval" /\ GoTo("execute") /\ UNCHANGED <<dispatched, took>>
       \/ at = "approval" /\ FailRun("approval denied") /\ UNCHANGED <<dispatched, took>>
       \/ /\ at = "execute"
          /\ dispatched' = IF Flag("dry-run") \/ Item.kind \in Pure \cup Interactions THEN dispatched ELSE dispatched + 1
          /\ \E r \in {"good", "bad"} : Settles(r, Itself)
    /\ UNCHANGED <<count, asked, consumed, reached, exit>>

Stop == /\ phase = "running"
        /\ run.status = "running"
        /\ run' = [run EXCEPT !.status = "cancelled"]
        /\ UNCHANGED <<plan, command, phase, pos, at, count, asked, consumed, reached, dispatched, took, exit>>
CompleteRun == /\ phase = "running"
               /\ run.status = "running"
               /\ pos > Len(plan)
               /\ run' = [run EXCEPT !.status = "completed"]
               /\ UNCHANGED <<plan, command, phase, pos, at, count, asked, consumed, reached, dispatched, took, exit>>

(***************************************************************************)
(* The verdict and the exit code.                                          *)
(***************************************************************************)
\* Mutant: bindings that were never used do not fail the test.
VerifyTarget == reached
Verify == reached /\ \A b \in Range(Artifact.bindings) : KeyOf(b) \in consumed

Passed == Verify /\ dispatched = 0 /\ run.status = "paused_at_boundary"
exitCodeForStatus == CASE run.status = "completed" -> 0
                       [] run.status \in {"failed", "cancelled"} -> 1
                       [] OTHER -> 3
routeTestStatus ==
    CASE Passed -> "reached"
      [] ~Passed /\ run.failure = "route test safety failure" -> "safety-failed"
      [] ~Passed /\ run.failure # "route test safety failure" /\ run.status = "cancelled" -> "stopped"
      [] ~Passed /\ run.failure \notin {"", "route test safety failure"} /\ run.status # "cancelled" -> "runtime-failed"
      [] ~Passed /\ run.failure = "" /\ run.status = "completed" -> "route-changed"
      [] OTHER -> "runtime-failed"

Finish ==
    /\ phase = "running"
    /\ run.status \in {"completed", "failed", "cancelled", "paused_at_boundary"}
    /\ phase' = "done"
    /\ exit' = IF RouteTesting
               THEN [code |-> IF Passed THEN 0 ELSE 1, passed |-> Passed, status |-> routeTestStatus]
               ELSE [code |-> IF run.hadFailure THEN 1 ELSE exitCodeForStatus, passed |-> FALSE, status |-> ""]
    /\ UNCHANGED <<plan, command, pos, at, count, asked, consumed, reached, dispatched, took, run>>

Next == \/ Arguments \/ Prepare \/ BeforeStep \/ RequestApproval \/ scheduledStepExecutor \/ ExecuteHostAction
        \/ pendingInteraction \/ LookupPure \/ ExecuteReal \/ Stop \/ CompleteRun \/ Finish
Spec == Init /\ [][Next]_vars

-----------------------------------------------------------------------------
TargetItems == {i \in DOMAIN plan : plan[i].site = Artifact.target.site}
\* The position the target's selector names: the inv-th occurrence of its site among the items entered.
Entered == {took[k].pos : k \in DOMAIN took} \cup (IF pos <= Len(plan) THEN {pos} ELSE {})

\* A run that exits 0 is what it says: a route test stopped exactly before the
\* invocation its target names, dispatched nothing, and answered every step
\* before it that needs an answer with the reviewed binding of that very
\* invocation, each binding of the artifact exactly once; any other run
\* completed with no failed step.
ExitZeroMeans ==
    exit.code = 0 =>
       IF RouteTesting
       THEN /\ dispatched = 0
            /\ Item.site = Artifact.target.site
            /\ Cardinality(Entered \cap TargetItems) = Artifact.target.inv
            /\ \A k \in DOMAIN took : took[k].pos < pos
            /\ {took[k].by : k \in DOMAIN took} \ {Itself, NoAnswer} = {KeyOf(b) : b \in {c \in Range(Artifact.bindings) : c.kind # "approval"}}
            /\ \A k \in DOMAIN took : took[k].by \notin {Itself, NoAnswer} =>
                  took[k].by[3] = Cardinality({j \in 1..k : plan[took[j].pos].site = plan[took[k].pos].site})
       ELSE run.status = "completed" /\ \A k \in DOMAIN took : took[k].result # "bad"
=============================================================================
