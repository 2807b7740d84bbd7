---------------------------- MODULE AttemptReport ----------------------------
(***************************************************************************)
(* What an attempt reports beside the outcome: the diagnostics its         *)
(* validation leaves behind, the provenance of what terraform init         *)
(* downloads, the review of the diagnostics and the evaluation of the      *)
(* review.                                                                 *)
(*                                                                         *)
(* The validation is that of ValidationRun. A diagnostic is known by what  *)
(* it is about; every diagnostic has one piece of evidence, which is cited *)
(* by the diagnostic itself.                                               *)
(***************************************************************************)
EXTENDS ValidationRun

VARIABLES
  locked,        \* the targets that discovery found a lock file for
  lockfile,      \* target -> the lock file in its directory
  diagnostics,   \* [subject, tool, nth]
  dependencies,  \* [target, origin, providers, modules], one for each target
  review,        \* [status, findings], a finding being [about, cites]; nil findings
                 \* are a record without them
  evaluation     \* [status, items], an item being [finding, verdict]

provenance == <<locked, lockfile, dependencies>>
judgement == <<review, evaluation>>
reportVars == <<provenance, diagnostics, judgement>>

NotYet == [status |-> Nil]

ReportInit ==
  /\ Init
  /\ locked = {}
  /\ lockfile = [target \in 1 .. MaxTargets |-> "none"]
  /\ diagnostics = {} /\ dependencies = {}
  /\ review = NotYet /\ evaluation = NotYet

-----------------------------------------------------------------------------
(* Diagnostics *)

About(subject, tool, nth) == [subject |-> subject, tool |-> tool, nth |-> nth]

(* Mutant: a command that said nothing of its own has no diagnostic. *)
ConvertSilently(tool, status) ==
  IF status = "FAIL" \/ (status = "PASS" /\ tool = "validate")
  THEN {{About(at.target, tool, 1)}} ELSE {{}}

(* A command without success has at least one diagnostic, its own or one that
   convert makes of its output; terraform validate may have warnings although
   it calls the target valid. *)
Convert(tool, status) ==
  IF status # "PASS" THEN {{About(at.target, tool, 1)}}
  ELSE IF tool = "validate" THEN {{}, {About(at.target, tool, 1)}} ELSE {{}}

Recorded == {resource \in plan.resources : \E line \in output : line.subject = resource}

(* A resource has a diagnostic when its record has a message, or when it has no
   record and something else is wrong; a second one, under the name of its file,
   when kubeconform has no exit code. *)
KubeDiagnostics ==
  LET unrecorded == plan.resources \ Recorded
  IN  {About(r, "kubeconform", 1) : r \in {r \in Recorded : ResourceStatus(r) # "PASS"}}
        \cup {About(r, "kubeconform", 1) : r \in IF exit # 0 \/ Recorded = {} THEN unrecorded ELSE {}}
        \cup {About(r, "kubeconform", 2) : r \in IF exit = Nil THEN unrecorded ELSE {}}

-----------------------------------------------------------------------------
(* Provenance *)

(* Mutant: init may change the lock file of the source. *)
ReadonlyNever(target) == FALSE

Readonly(target) == target \in locked

PlanWithLockfiles ==
  /\ BuildPlan
  /\ locked' \in SUBSET (1 .. plan'.targets)
  /\ lockfile' = [target \in 1 .. MaxTargets |-> IF target \in locked' THEN "source" ELSE "none"]
  /\ UNCHANGED <<diagnostics, dependencies, judgement>>

(* terraform init writes the providers it has selected, also when it is killed
   later on. *)
InitLocks ==
  /\ at.tool = "init" /\ process = Running
  /\ ~Readonly(at.target)
  /\ lockfile[at.target] # "generated"
  /\ lockfile' = [lockfile EXCEPT ![at.target] = "generated"]
  /\ UNCHANGED <<vars, locked, diagnostics, dependencies, judgement>>

(* A lock file is taken to name at least one provider. *)
Provenance(target, modules) ==
  [target |-> target, origin |-> IF target \in locked THEN "SOURCE" ELSE "GENERATED",
   providers |-> IF target \in locked THEN "COMPLETE" ELSE "PARTIAL", modules |-> modules]

(* terraform modules is used when it exits with 0 and with JSON; a module with no
   key, source or directory makes its graph PARTIAL. *)
ModulesOutcomes ==
  IF exit # 0 THEN {<<{About(at.target, "modules", 1)}, "PARTIAL">>}
  ELSE {<<{About(at.target, "modules", 1)}, "PARTIAL">>, <<{}, "PARTIAL">>, <<{}, "COMPLETE">>}

(* The adapter's diagnostics, and the provenance of a target after the last of
   its commands. *)
JudgeAndExplain ==
  /\ Judge
  /\ LET tool == at.tool
         status == StatusOf(tool)
     IN  CASE tool = "modules" ->
                \E m \in ModulesOutcomes :
                  /\ diagnostics' = diagnostics \cup m[1]
                  /\ dependencies' = dependencies \cup {Provenance(at.target, m[2])}
           [] tool = "kubeconform" ->
                diagnostics' = diagnostics \cup KubeDiagnostics /\ UNCHANGED dependencies
           [] OTHER ->
                /\ \E new \in Convert(tool, status) : diagnostics' = diagnostics \cup new
                /\ dependencies' = dependencies \cup
                     IF tool = "init" /\ status # "PASS"
                     THEN {Provenance(at.target, "PARTIAL")} ELSE {}
  /\ UNCHANGED <<locked, lockfile, judgement>>

-----------------------------------------------------------------------------
(* Review and evaluation *)

(* BuildContext drops all evidence when the context is larger than its budget.
   An attempt whose context is done fails at its next statement (RunService). *)
Review ==
  /\ at.tool = "done" /\ review = NotYet /\ ~cancelled
  /\ \/ \E fits \in BOOLEAN :
          review' = [status |-> "COMPLETED",
                     findings |-> {[about |-> d, cites |-> IF fits THEN {d} ELSE {}] : d \in diagnostics}]
     \/ review' = [status |-> "UNAVAILABLE"]
  /\ UNCHANGED <<vars, provenance, diagnostics, evaluation>>

Item(finding, verdict) == [finding |-> finding, verdict |-> verdict]

(* evaluation.Validate: the findings it keeps have evidence, and only such as
   the attempt has. *)
Grounded(findings) == {f \in findings : f.cites # {} /\ f.cites \subseteq diagnostics}

(* Mutant: without an evaluator nothing has been evaluated. *)
ItemsOfAll(findings, available) ==
  {Item(f, "UNSUPPORTED") : f \in findings \ Grounded(findings)}
    \cup {Item(f, "SUPPORTED") : f \in IF available THEN Grounded(findings) ELSE {}}
    \cup {Item(f, "NOT_EVALUATED") : f \in IF available THEN {} ELSE findings}

Items(findings, available) ==
  {Item(f, "UNSUPPORTED") : f \in findings \ Grounded(findings)}
    \cup {Item(f, IF available THEN "SUPPORTED" ELSE "NOT_EVALUATED") : f \in Grounded(findings)}

HasFindings == "findings" \in DOMAIN review

Evaluate ==
  /\ review # NotYet /\ evaluation = NotYet
  /\ \/ /\ ~HasFindings
        /\ evaluation' = [status |-> "NOT_APPLICABLE", items |-> {}]
     \/ /\ HasFindings
        /\ \E available \in BOOLEAN :
             evaluation' = [status |-> IF available THEN "COMPLETED" ELSE "UNAVAILABLE",
                            items |-> Items(review.findings, available)]
  /\ UNCHANGED <<vars, provenance, diagnostics, review>>

ReportNext ==
  \/ PlanWithLockfiles \/ InitLocks \/ JudgeAndExplain \/ Review \/ Evaluate
  \/ /\ StartTool \/ RunnerStep \/ Conclude
        \/ ToolWrites \/ ToolExits \/ Descendants \/ Kill \/ CancelAttempt
     /\ UNCHANGED reportVars

(* As for ValidationRun: nothing is owed by the commands. *)
ReportFairness ==
  /\ WF_<<vars, reportVars>>(PlanWithLockfiles) /\ WF_<<vars, reportVars>>(JudgeAndExplain)
  /\ WF_vars(StartTool) /\ WF_vars(RunnerStep) /\ WF_vars(Conclude)

ReportSpec == ReportInit /\ [][ReportNext]_<<vars, reportVars>> /\ ReportFairness

-----------------------------------------------------------------------------
(* Properties *)

(* Every finding of the review gets exactly one verdict, whichever of budget,
   evidence and evaluator is missing. *)
FindingsAreJudgedOnce ==
  evaluation # NotYet /\ HasFindings =>
    /\ {i.finding : i \in evaluation.items} = review.findings
    /\ Cardinality(evaluation.items) = Cardinality(review.findings)

(* kubeconform ended well and said nothing of this resource, but something of
   another. *)
PassedOver(r) ==
  /\ r.tool = "kubeconform" /\ r.status = "ERROR"
  /\ \E o \in said : o.tool = "kubeconform" /\ o.subject # r.subject
  /\ \A o \in said : o.tool = "kubeconform" => o.subject # r.subject

(* A review that took place has a finding about everything that failed or could
   not be judged, so that no FINDINGS or INCONCLUSIVE is without its reason, and
   the finding is only rejected when all evidence was over the budget. A resource
   that a report of others leaves out is ERROR without a word. *)
FailuresReachTheReview ==
  evaluation # NotYet /\ review.status = "COMPLETED" =>
    \A r \in WithStatus({"FAIL", "ERROR"}) :
      \/ \E i \in evaluation.items :
           /\ <<i.finding.about.subject, i.finding.about.tool>> = <<r.subject, r.tool>>
           /\ i.verdict = "UNSUPPORTED" => \A f \in review.findings : f.cites = {}
      \/ PassedOver(r)

(* Each target has one provenance record. Providers are only called COMPLETE, and
   of the source, when the lock file that was in use is the commit's own, and
   modules only of a target that terraform itself called initialised. *)
ProvenanceIsOfTheSource ==
  at.tool = "done" =>
    /\ {d.target : d \in dependencies} = 1 .. plan.targets
    /\ Cardinality(dependencies) = plan.targets
    /\ \A d \in dependencies :
         /\ "SOURCE" = d.origin \/ d.providers = "COMPLETE" => lockfile[d.target] = "source"
         /\ d.modules = "COMPLETE" => Opinion(d.target, "init", "valid") \in said

=============================================================================
