---------------------------- MODULE ValidationRun ----------------------------
(***************************************************************************)
(* One validation: the plan, the commands it needs, one after another, each*)
(* a call of CommandRunner, the status each step gets from its command, and*)
(* the outcome and coverage of the run.                                    *)
(*                                                                         *)
(* A Terraform target is its number, a Kubernetes resource a model value.  *)
(* Of a tool's output there are the lines its adapter understands:         *)
(* terraform validate has one about its target, kubeconform one about each *)
(* resource; "other" is a status that the adapter does not know.           *)
(***************************************************************************)
EXTENDS CommandRunner, FiniteSets

CONSTANTS
  Resources,        \* documents a repository may contain
  SkipReasons,      \* why it may have documents that do not become resources
  Found,            \* how many Terraform directories it may have
  MaxTargets,       \* how many of them are validated
  ResultsPerTarget  \* 100 in the code: how many results are too many

ASSUME ValidationRunAssumption ==
  /\ Found \subseteq Nat /\ MaxTargets \in Nat /\ ResultsPerTarget \in Nat
  /\ IsFiniteSet(Resources)
  /\ Lines \subseteq [subject : (1 .. MaxTargets) \cup Resources,
                      verdict : {"valid", "invalid", "missing", "other"}]

ASSUME NilIsNoAnswer == Nil \notin {"NO_FINDINGS", "COMPLETE"}

VARIABLES
  plan,         \* [found, targets, resources, skipped]
  at,           \* [target, tool]: the command it is the turn of
  results,      \* [subject, tool, status]
  report,       \* [outcome, coverage]
  said          \* history: [subject, tool, verdict], what processes have said

progress == <<plan, at, results, report>>
vars == <<runnerVars, progress, said>>

TargetTools == {"fmt", "init", "validate", "tflint", "modules"}
Tools == TargetTools \cup {"kubeconform"}
Statuses == {"PASS", "FAIL", "ERROR", "SKIPPED", "SKIPPED_UNSUPPORTED", "SKIPPED_SCHEMA_MISSING"}
NoReport == [outcome |-> Nil, coverage |-> Nil]

Init ==
  /\ RunnerInit
  /\ plan = [found |-> 0, targets |-> 0, resources |-> {}, skipped |-> {}]
  /\ at = [target |-> 0, tool |-> "plan"]
  /\ results = {} /\ said = {}
  /\ report = NoReport

-----------------------------------------------------------------------------
(* The order of the steps *)

(* Mutant: one target too many. *)
AfterTargetInclusive(p, target) ==
  IF target <= p.targets THEN [target |-> target + 1, tool |-> "fmt"]
  ELSE [target |-> 0, tool |-> IF p.resources # {} THEN "kubeconform" ELSE "outcome"]

AfterTarget(p, target) ==
  IF target < p.targets THEN [target |-> target + 1, tool |-> "fmt"]
  ELSE [target |-> 0, tool |-> IF p.resources # {} THEN "kubeconform" ELSE "outcome"]

Following == [fmt |-> "init", init |-> "validate", validate |-> "tflint", tflint |-> "modules"]

AfterTool(tool, status) ==
  CASE tool = "kubeconform" -> [target |-> 0, tool |-> "outcome"]
    [] tool = "modules" \/ (tool = "init" /\ status # "PASS") -> AfterTarget(plan, at.target)
    [] OTHER -> [at EXCEPT !.tool = Following[tool]]

(* Discovery keeps the first MaxTargets directories and says nothing of the
   others. *)
Kept(found) == IF found < MaxTargets THEN found ELSE MaxTargets

(* Templates, overlays and bases are SKIPPED_UNSUPPORTED, files that cannot be read
   or parsed ERROR. *)
Discoveries ==
  {[found |-> found, targets |-> Kept(found), resources |-> documents, skipped |-> reasons] :
     found \in Found, documents \in SUBSET Resources, reasons \in SUBSET SkipReasons}

(* A path or a directory that cannot be read makes discovery fail, and the
   attempt with it. *)
BuildPlan ==
  /\ at.tool = "plan"
  /\ \/ plan' \in Discoveries /\ at' = AfterTarget(plan', 0)
     \/ at' = [at EXCEPT !.tool = "failed"] /\ UNCHANGED plan
  /\ UNCHANGED <<runnerVars, results, report, said>>

-----------------------------------------------------------------------------
(* Commands and their adapters *)

ExitsOf(tool) ==
  ExitCodes \cap CASE tool = "fmt" -> {0, 1, 3}
                   [] tool = "tflint" -> {0, 1, 2}
                   [] OTHER -> {0, 1}

LinesOf(tool) ==
  {line \in Lines : CASE tool = "validate" -> line.subject = at.target
                      [] tool = "kubeconform" -> line.subject \in plan.resources
                      [] OTHER -> FALSE}

Printed(subject, verdict) == [subject |-> subject, verdict |-> verdict] \in output

(* terraform validate is judged by what it says, provided that it has an exit
   code at all; the others by their exit codes. *)
StatusOf(tool) ==
  IF exit = Nil THEN "ERROR"
  ELSE CASE tool = "validate" /\ Printed(at.target, "valid") -> "PASS"
         [] tool = "validate" /\ Printed(at.target, "invalid") -> "FAIL"
         [] tool # "validate" /\ exit = 0 -> "PASS"
         [] <<tool, exit>> \in {<<"fmt", 3>>, <<"tflint", 2>>} -> "FAIL"
         [] OTHER -> "ERROR"

ResourceStatus(resource) ==
  CASE Printed(resource, "valid") -> "PASS"
    [] Printed(resource, "invalid") -> "FAIL"
    [] Printed(resource, "missing") -> "SKIPPED_SCHEMA_MISSING"
    [] OTHER -> "ERROR"

ResultOf(subject, tool, status) == [subject |-> subject, tool |-> tool, status |-> status]

KubeResults ==
  {ResultOf(r, "kubeconform", ResourceStatus(r)) : r \in plan.resources}

(* Mutant: nothing is recorded of the validators that are not run. *)
InitResultsOnly(status) == {ResultOf(at.target, "init", status)}

InitResults(status) ==
  {ResultOf(at.target, "init", status)} \cup
  (IF status = "PASS" THEN {}
   ELSE {ResultOf(at.target, tool, "SKIPPED") : tool \in {"validate", "tflint"}})

ResultsOf(tool, status) ==
  CASE tool = "kubeconform" -> KubeResults
    [] tool = "init" -> InitResults(status)
    [] tool = "modules" -> {}
    [] OTHER -> {ResultOf(at.target, tool, status)}

Opinion(subject, tool, verdict) == [subject |-> subject, tool |-> tool, verdict |-> verdict]

(* What the tools mean by their exit codes. *)
Meant(tool, code) ==
  CASE <<tool, code>> \in {<<"fmt", 0>>, <<"init", 0>>, <<"tflint", 0>>} -> {Opinion(at.target, tool, "valid")}
    [] <<tool, code>> \in {<<"fmt", 3>>, <<"tflint", 2>>} -> {Opinion(at.target, tool, "invalid")}
    [] OTHER -> {}

(* History only: an init that ends well when it has already been interrupted by its
   timer. *)
Overdue(tool, code) ==
  IF tool = "init" /\ code = 0 /\ call # "select" /\ ~cancelled
  THEN {Opinion(at.target, "init", "late")} ELSE {}

StartTool ==
  /\ at.tool \in Tools
  /\ Start
  /\ UNCHANGED <<progress, said>>

(* terraform validate and kubeconform do not exit with 0 when they have called
   something invalid. *)
ToolWrites ==
  /\ \E line \in LinesOf(at.tool) :
       /\ line.verdict = "invalid" => process # 0
       /\ Write(line)
       /\ said' = said \cup {Opinion(line.subject, at.tool, line.verdict)}
  /\ UNCHANGED progress

ToolExits ==
  /\ \E code \in ExitsOf(at.tool) :
       /\ code = 0 => \A line \in output : line.verdict # "invalid"
       /\ Exit(code)
       /\ said' = said \cup Meant(at.tool, code) \cup Overdue(at.tool, code)
  /\ UNCHANGED progress

Descendants == (Spawn \/ DescendantsEnd) /\ UNCHANGED <<progress, said>>

RunnerStep == RunStep /\ UNCHANGED <<progress, said>>

Kill == KillByContext /\ UNCHANGED <<progress, said>>

CancelAttempt ==
  /\ at.tool \in Tools /\ Cancel
  /\ UNCHANGED <<progress, said>>

(* The adapter of a command that has returned. *)
Judge ==
  /\ call = "returned"
  /\ LET status == StatusOf(at.tool)
     IN  /\ results' = results \cup ResultsOf(at.tool, status)
         /\ at' = AfterTool(at.tool, status)
  /\ call' = "idle" /\ process' = Nil /\ output' = {} /\ exit' = Nil
  /\ UNCHANGED <<held, cancelled, plan, report, said>>

-----------------------------------------------------------------------------
(* Outcome *)

(* Mutant: nothing that a validator says is required. *)
RequiredPreparations(tool) == tool \in {"fmt", "init"}

Required(tool) == tool # "tflint"

WithStatus(statuses) == {r \in results : r.status \in statuses}

Partial == {"ERROR", "SKIPPED_UNSUPPORTED", "SKIPPED_SCHEMA_MISSING"}

(* Mutant: only what is required counts. *)
CoverageOfRequired ==
  CASE results = {} -> "NONE"
    [] \E r \in WithStatus(Partial) : Required(r.tool) -> "PARTIAL"
    [] OTHER -> "COMPLETE"

Coverage ==
  CASE results = {} -> "NONE"
    [] WithStatus(Partial) # {} -> "PARTIAL"
    [] OTHER -> "COMPLETE"

Inconclusive ==
  \/ \E r \in WithStatus({"ERROR"}) : Required(r.tool)
  \/ \A r \in WithStatus({"PASS", "FAIL"}) : r.tool \notin {"validate", "tflint", "kubeconform"}
  \/ Cardinality(results) > MaxTargets * ResultsPerTarget

(* Mutant: errors hide findings. *)
ErrorsFirst ==
  IF Inconclusive THEN "INCONCLUSIVE"
  ELSE IF WithStatus({"FAIL"}) # {} THEN "FINDINGS" ELSE "NO_FINDINGS"

Outcome ==
  IF WithStatus({"FAIL"}) # {} THEN "FINDINGS"
  ELSE IF Inconclusive THEN "INCONCLUSIVE" ELSE "NO_FINDINGS"

Conclude ==
  /\ at.tool = "outcome"
  /\ report' = [outcome |-> Outcome, coverage |-> Coverage]
  /\ at' = [at EXCEPT !.tool = "done"]
  /\ UNCHANGED <<runnerVars, plan, results, said>>

Next ==
  \/ BuildPlan \/ StartTool \/ RunnerStep \/ Judge \/ Conclude
  \/ ToolWrites \/ ToolExits \/ Descendants \/ Kill \/ CancelAttempt

(* The timer fires and the goroutines are scheduled; the commands and their
   descendants owe nothing. StartTool contains the version command of the tool,
   for which the code has neither a timer nor a context: that it ends is assumed
   here. *)
Fairness ==
  /\ WF_vars(BuildPlan) /\ WF_vars(StartTool) /\ WF_vars(RunnerStep)
  /\ WF_vars(Judge) /\ WF_vars(Conclude)

Spec == Init /\ [][Next]_vars /\ Fairness

-----------------------------------------------------------------------------
(* Properties *)

TypeOK ==
  /\ RunnerTypeOK
  /\ plan \in [found : Found \cup {0}, targets : 0 .. MaxTargets,
               resources : SUBSET Resources, skipped : SUBSET SkipReasons]
  /\ at \in [target : 0 .. MaxTargets, tool : Tools \cup {"plan", "outcome", "done", "failed"}]
  /\ results \subseteq [subject : (1 .. MaxTargets) \cup Resources, tool : Tools, status : Statuses]
  /\ said \subseteq [subject : (1 .. MaxTargets) \cup Resources, tool : Tools,
                     verdict : {"valid", "invalid", "missing", "other", "late"}]
  /\ report \in [outcome : {Nil, "FINDINGS", "INCONCLUSIVE", "NO_FINDINGS"},
                 coverage : {Nil, "NONE", "PARTIAL", "COMPLETE"}]

PlannedSteps ==
  ((1 .. plan.targets) \X {"fmt", "init", "validate", "tflint"})
    \cup (plan.resources \X {"kubeconform"})

(* Every step of the plan ends with exactly one result, whichever command could
   not be started, was killed or said nothing, and whichever was not run since
   init had failed. *)
OneResultPerStep ==
  at.tool = "done" =>
    /\ {<<r.subject, r.tool>> : r \in results} = PlannedSteps
    /\ Cardinality(results) = Cardinality(PlannedSteps)

(* NO_FINDINGS is only said of a commit of which the tools have said so: for each
   target that was planned fmt and init have exited with 0 and validate has called it
   valid, and kubeconform has called each resource valid or said that it has no
   schema for it. No missing tool, unusable output or kill passes for that. A
   command that was interrupted and has still said so does: of a timeout nothing
   but what it prevents counts (TimedOutInitIsAnError). *)
NoFindingsMeansChecked ==
  report.outcome = "NO_FINDINGS" =>
    /\ plan.targets > 0 \/ plan.resources # {}
    /\ \A target \in 1 .. plan.targets, tool \in {"fmt", "init", "validate"} :
         Opinion(target, tool, "valid") \in said
    /\ \A resource \in plan.resources :
         \E verdict \in {"valid", "missing"} : Opinion(resource, "kubeconform", verdict) \in said

(* An init whose time was over before it ended is an ERROR, as the design has it
   (design 1192-1193: "exit 0 -> PREPARATION PASS", and "non-zero/timeout/dependency
   failure -> PREPARATION ERROR"). The code looks at the exit code alone
   (engine.go 178). *)
TimedOutInitIsAnError ==
  \A target \in 1 .. plan.targets :
    Opinion(target, "init", "late") \in said => ResultOf(target, "init", "PASS") \notin results

(* COMPLETE is only said when the tool of every planned step has given its
   verdict, the optional tflint and the validators behind a failing init
   included. *)
CompleteMeansJudged ==
  report.coverage = "COMPLETE" =>
    \A step \in PlannedSteps :
      \E verdict \in {"valid", "invalid"} : Opinion(step[1], step[2], verdict) \in said

(* What a tool has found wrong is in the outcome, whatever fails after it: its
   own kill, another tool, or the rest of an attempt that is cancelled. *)
FindingsSurviveFailures ==
  at.tool = "done" /\ (\E o \in said : o.verdict = "invalid") => report.outcome = "FINDINGS"

(* Targets that MaxTargets cuts off show in the coverage or make the validation
   inconclusive; they are not ignored silently (design 1602). *)
LimitsShowInReport ==
  report # NoReport /\ plan.targets < plan.found =>
    report.coverage # "COMPLETE" \/ report.outcome = "INCONCLUSIVE"

(* Documents that were skipped as unsupported have a result of that status (design
   1094, 1144), which makes the coverage partial. *)
UnsupportedShowsInReport ==
  report.coverage = "COMPLETE" => "SKIPPED_UNSUPPORTED" \notin plan.skipped

(* Execute returns, however its commands and their descendants behave: those
   that do not end are killed when their time is over. *)
ExecuteReturns == <>(at.tool \in {"done", "failed"})

=============================================================================
