------------------------- MODULE ValidationRunProofs -------------------------
(* Proofs about the command runner as a validation calls it, the validation and
   the report of its attempt, for any plan, any tools and any exit codes. *)
EXTENDS AttemptReport, FiniteSetTheorems, FunctionTheorems, TLAPS

(* Between two calls and after a forced kill nothing of the process group can
   write. The second part is what makes the first inductive: Run returns from
   "forced" without looking again. *)
GroupIsGone ==
  /\ call \in {"idle", "select", "grace", "forced", "returned"}
  /\ call \in {"idle", "returned", "forced"} => Waited
  /\ held \in BOOLEAN

(* The runner's steps keep the group's end, whatever the tool does. *)
LEMMA RunnerKeepsGroupIsGone ==
  ASSUME CommandRunnerAssumption, GroupIsGone,
         \/ Start \/ Spawn \/ DescendantsEnd \/ RunStep \/ KillByContext \/ Cancel
         \/ \E line \in Lines : Write(line)
         \/ \E code \in ExitCodes : Exit(code)
  PROVE  GroupIsGone'
<1>1. CASE Start
  BY <1>1 DEF GroupIsGone, Start, Waited, CommandRunnerAssumption
<1>2. CASE Spawn
  BY <1>2 DEF GroupIsGone, Spawn, Waited
<1>3. CASE DescendantsEnd
  BY <1>3 DEF GroupIsGone, DescendantsEnd, Waited
<1>4. CASE Finished
  BY <1>4 DEF GroupIsGone, Finished, Return, Waited
<1>5. CASE Interrupted
  BY <1>5 DEF GroupIsGone, Interrupted, Terminate, Waited
<1>6. CASE FinishedInGrace
  BY <1>6 DEF GroupIsGone, FinishedInGrace, Return, Waited
<1>7. CASE GraceOver
  BY <1>7 DEF GroupIsGone, GraceOver, Waited, CommandRunnerAssumption
<1>8. CASE FinishedByForce
  BY <1>8 DEF GroupIsGone, FinishedByForce, Return, Waited
<1>9. CASE KillByContext
  BY <1>9 DEF GroupIsGone, KillByContext, Waited, CommandRunnerAssumption
<1>10. CASE Cancel
  BY <1>10 DEF GroupIsGone, Cancel, Waited
<1>11. CASE \E line \in Lines : Write(line)
  BY <1>11 DEF GroupIsGone, Write, Waited
<1>12. CASE \E code \in ExitCodes : Exit(code)
  BY <1>12 DEF GroupIsGone, Exit, Waited, CommandRunnerAssumption
<1> QED
  BY <1>1, <1>2, <1>3, <1>4, <1>5, <1>6, <1>7, <1>8, <1>9, <1>10, <1>11, <1>12 DEF RunStep

(* A validation moves its commands on by the runner's steps and by judging one
   that has returned. *)
LEMMA NextKeepsGroupIsGone ==
  ASSUME CommandRunnerAssumption, GroupIsGone, [Next]_vars
  PROVE  GroupIsGone'
<1>1. CASE BuildPlan \/ Conclude \/ UNCHANGED vars
  BY <1>1 DEF BuildPlan, Conclude, vars, runnerVars, GroupIsGone, Waited
<1>2. CASE StartTool
  BY <1>2, RunnerKeepsGroupIsGone DEF StartTool
<1>3. CASE RunnerStep
  BY <1>3, RunnerKeepsGroupIsGone DEF RunnerStep
<1>4. CASE Judge
  BY <1>4 DEF Judge, GroupIsGone, Waited, CommandRunnerAssumption
<1>5. CASE ToolWrites
  <2>1. \E line \in Lines : Write(line)
    BY <1>5 DEF ToolWrites, LinesOf
  <2> QED
    BY <2>1, RunnerKeepsGroupIsGone
<1>6. CASE ToolExits
  <2>1. \E code \in ExitCodes : Exit(code)
    BY <1>6 DEF ToolExits, ExitsOf
  <2> QED
    BY <2>1, RunnerKeepsGroupIsGone
<1>7. CASE Descendants \/ Kill \/ CancelAttempt
  BY <1>7, RunnerKeepsGroupIsGone DEF Descendants, Kill, CancelAttempt
<1> QED
  BY <1>1, <1>2, <1>3, <1>4, <1>5, <1>6, <1>7 DEF Next

(* A caller of Run reads buffers to which nobody writes any more (runner.go
   92-111): Run returns after Wait has, in every branch of its select. *)
THEOREM ReturnedOutputIsFinal == Spec => []OutputIsFinal
<1>1. Init => GroupIsGone
  BY CommandRunnerAssumption DEF Init, RunnerInit, GroupIsGone, Waited, CommandRunnerAssumption
<1>2. GroupIsGone /\ [Next]_vars => GroupIsGone'
  BY CommandRunnerAssumption, NextKeepsGroupIsGone
<1>3. GroupIsGone => OutputIsFinal
  BY DEF GroupIsGone, OutputIsFinal
<1> QED
  BY <1>1, <1>2, <1>3, PTL DEF Spec


-----------------------------------------------------------------------------
(* The turn and its command                                                *)

Subjects == (1 .. MaxTargets) \cup Resources
Verdicts == {"valid", "invalid", "missing"}

(* Whose turn it is. *)
TurnOK ==
  /\ plan \in [found : Found \cup {0}, targets : 0 .. MaxTargets,
               resources : SUBSET Resources, skipped : SUBSET SkipReasons]
  /\ at \in [target : 0 .. MaxTargets, tool : Tools \cup {"plan", "outcome", "done", "failed"}]
  /\ at.tool \in {"plan", "failed"} => plan.targets = 0 /\ plan.resources = {}
  /\ at.tool \in TargetTools => at.target \in 1 .. plan.targets

(* What is known of the process whose turn it is, from its start to its
   adapter: the exit code that Run hands over is its own, unless it is dropped,
   and what it has said is on record. *)
CallOK ==
  /\ call # "idle" => at.tool \in Tools
  /\ call = "idle" => process = Nil /\ output = {}
  /\ call # "returned" => exit = Nil
  /\ call \in {"select", "grace", "forced"} => process \in {Running, -1} \cup ExitCodes
  /\ call = "returned" =>
       \/ process = Nil /\ exit = Nil /\ output = {}
       \/ process \in {-1} \cup ExitCodes /\ (exit = process \/ (process = 0 /\ exit = Nil))
  /\ process \in ExitCodes => process \in ExitsOf(at.tool) /\ Meant(at.tool, process) \subseteq said

OutputOK ==
  /\ output \subseteq LinesOf(at.tool)
  /\ \A line \in output : Opinion(line.subject, at.tool, line.verdict) \in said
  /\ \A k, l \in output : k.subject = l.subject => k = l
  /\ (\E line \in output : line.verdict = "invalid") => process # 0

CommandOK == GroupIsGone /\ TurnOK /\ CallOK /\ OutputOK

(* Where a target ends its turn. *)
LEMMA AfterTargetIsATurn ==
  ASSUME ValidationRunAssumption, NEW p, NEW target \in 0 .. MaxTargets,
         p.targets \in 0 .. MaxTargets
  PROVE  /\ AfterTarget(p, target) \in [target : 0 .. MaxTargets, tool : Tools \cup {"outcome"}]
         /\ AfterTarget(p, target).tool \in TargetTools =>
              AfterTarget(p, target).target = target + 1 /\ target < p.targets
BY DEF AfterTarget, ValidationRunAssumption, Tools, TargetTools

LEMMA PlansAreTurns ==
  ASSUME ValidationRunAssumption, TurnOK, BuildPlan
  PROVE  TurnOK'
<1>1. CASE plan' \in Discoveries /\ at' = AfterTarget(plan', 0)
  <2>1. PICK found \in Found, documents \in SUBSET Resources, reasons \in SUBSET SkipReasons :
          plan' = [found |-> found, targets |-> Kept(found), resources |-> documents, skipped |-> reasons]
    BY <1>1 DEF Discoveries
  <2>2. Kept(found) \in 0 .. MaxTargets
    BY DEF Kept, ValidationRunAssumption
  <2>3. plan' \in [found : Found \cup {0}, targets : 0 .. MaxTargets,
                   resources : SUBSET Resources, skipped : SUBSET SkipReasons]
    BY <2>1, <2>2
  <2>4. 0 \in 0 .. MaxTargets
    BY DEF ValidationRunAssumption
  <2>5. /\ at' \in [target : 0 .. MaxTargets, tool : Tools \cup {"outcome"}]
        /\ at'.tool \in TargetTools => at'.target = 0 + 1 /\ 0 < plan'.targets
    BY <1>1, <2>3, <2>4, AfterTargetIsATurn
  <2>6. at'.tool \notin {"plan", "failed"}
    BY <2>5 DEF Tools, TargetTools
  <2> QED
    BY <2>3, <2>5, <2>6 DEF TurnOK
<1>2. CASE at' = [at EXCEPT !.tool = "failed"] /\ UNCHANGED plan
  BY <1>2 DEF TurnOK, BuildPlan, TargetTools
<1> QED
  BY <1>1, <1>2 DEF BuildPlan

(* The adapters pass the turn on. *)
LEMMA JudgingPassesTheTurn ==
  ASSUME ValidationRunAssumption, TurnOK, NEW status,
         at.tool \in Tools, plan' = plan, at' = AfterTool(at.tool, status)
  PROVE  TurnOK'
<1>1. CASE at.tool = "kubeconform"
  <2>1. at' = [target |-> 0, tool |-> "outcome"]
    BY <1>1 DEF AfterTool
  <2> QED
    BY <2>1 DEF TurnOK, TargetTools, ValidationRunAssumption
<1>2. CASE at.tool = "modules" \/ (at.tool = "init" /\ status # "PASS")
  <2>1. at' = AfterTarget(plan, at.target)
    BY <1>2 DEF AfterTool
  <2>2. at.target \in 0 .. MaxTargets /\ plan.targets \in 0 .. MaxTargets
    BY DEF TurnOK
  <2>3. /\ at' \in [target : 0 .. MaxTargets, tool : Tools \cup {"outcome"}]
        /\ at'.tool \in TargetTools => at'.target = at.target + 1 /\ at.target < plan.targets
    BY <2>1, <2>2, AfterTargetIsATurn
  <2>4. at'.tool \notin {"plan", "failed"}
    BY <2>3 DEF Tools, TargetTools
  <2>5. at'.tool \in TargetTools => at'.target \in 1 .. plan.targets
    BY <2>2, <2>3
  <2> QED
    BY <2>3, <2>4, <2>5 DEF TurnOK
<1>3. CASE at.tool # "kubeconform" /\ ~(at.tool = "modules" \/ (at.tool = "init" /\ status # "PASS"))
  <2>1. at' = [at EXCEPT !.tool = Following[at.tool]]
    BY <1>3 DEF AfterTool
  <2>2. at.tool \in {"fmt", "init", "validate", "tflint"}
    BY <1>3 DEF Tools, TargetTools
  <2>3. Following[at.tool] \in {"init", "validate", "tflint", "modules"}
    BY <2>2 DEF Following
  <2> QED
    BY <2>1, <2>2, <2>3 DEF TurnOK, Tools, TargetTools
<1> QED
  BY <1>1, <1>2, <1>3

(* Statuses are used up to here only as what moves the turn. *)
LEMMA NextKeepsTurn ==
  ASSUME ValidationRunAssumption, GroupIsGone, TurnOK, CallOK, [Next]_vars
  PROVE  TurnOK'
<1>1. CASE BuildPlan
  BY <1>1, PlansAreTurns
<1>2. CASE Judge
  <2>1. at.tool \in Tools /\ plan' = plan /\ at' = AfterTool(at.tool, StatusOf(at.tool))
    BY <1>2 DEF Judge, CallOK
  <2> QED
    BY <2>1, JudgingPassesTheTurn
<1>3. CASE Conclude
  BY <1>3 DEF Conclude, TurnOK, TargetTools
<1>4. CASE UNCHANGED <<plan, at>>
  BY <1>4 DEF TurnOK
<1> QED
  BY <1>1, <1>2, <1>3, <1>4
     DEF Next, StartTool, RunnerStep, ToolWrites, ToolExits, Descendants, Kill, CancelAttempt, progress, vars


(* The steps of Run and its process that say nothing. *)
Silent ==
  \/ Start \/ Spawn \/ DescendantsEnd \/ RunStep \/ KillByContext \/ Cancel

LEMMA SilentStepsKeepCall ==
  ASSUME CommandRunnerAssumption, GroupIsGone, CallOK, Silent,
         at.tool \in Tools \/ ~Start, UNCHANGED <<plan, at, said>>
  PROVE  CallOK'
<1> USE DEF CommandRunnerAssumption
<1>1. /\ ExitsOf(at.tool)' = ExitsOf(at.tool)
      /\ \A code : Meant(at.tool, code)' = Meant(at.tool, code)
  BY DEF ExitsOf, Meant, Opinion
<1>2. CASE Start
  <2>1. call = "idle" /\ process = Nil /\ exit = Nil /\ output' = {} /\ exit' = Nil
    BY <1>2 DEF Start, CallOK
  <2>2. \/ call' = "select" /\ process' = Running
        \/ call' = "returned" /\ process' = Nil
    BY <1>2 DEF Start
  <2>3. process' \notin ExitCodes
    BY <2>2
  <2> QED
    BY <1>2, <2>1, <2>2, <2>3 DEF CallOK
<1>3. CASE Spawn \/ DescendantsEnd \/ Cancel
  BY <1>1, <1>3 DEF Spawn, DescendantsEnd, Cancel, CallOK
<1>4. CASE Finished \/ FinishedInGrace \/ FinishedByForce
  <2>1. /\ call \in {"select", "grace", "forced"} /\ process # Running
        /\ call' = "returned" /\ exit' \in ExitsSeen
        /\ UNCHANGED <<process, output>>
    BY <1>4 DEF Finished, FinishedInGrace, FinishedByForce, Return, Waited
  <2>2. process \in {-1} \cup ExitCodes
    BY <2>1 DEF CallOK
  <2>3. exit' = process \/ (process = 0 /\ exit' = Nil)
    BY <2>1 DEF ExitsSeen
  <2>4. at.tool \in Tools
    BY <2>1 DEF CallOK
  <2> QED
    BY <1>1, <2>1, <2>2, <2>3, <2>4 DEF CallOK
<1>5. CASE Interrupted \/ GraceOver
  <2>1. /\ call \in {"select", "grace"} /\ call' \in {"grace", "forced"}
        /\ UNCHANGED <<output, exit>>
        /\ process' = process \/ process' = -1
    BY <1>5 DEF Interrupted, GraceOver, Terminate
  <2>2. at.tool \in Tools /\ exit = Nil
    BY <2>1 DEF CallOK
  <2>3. process' \in {Running, -1} \cup ExitCodes
    BY <2>1 DEF CallOK
  <2>4. process' \in ExitCodes => process' = process
    BY <2>1
  <2> QED
    BY <1>1, <2>1, <2>2, <2>3, <2>4 DEF CallOK
<1>6. CASE KillByContext
  <2>1. process = Running /\ process' = -1 /\ UNCHANGED <<call, output, exit>>
    BY <1>6 DEF KillByContext
  <2>2. call \in {"select", "grace", "forced"}
    BY <2>1 DEF CallOK, GroupIsGone, Waited
  <2> QED
    BY <2>1, <2>2 DEF CallOK
<1> QED
  BY <1>2, <1>3, <1>4, <1>5, <1>6 DEF Silent, RunStep

LEMMA SilentStepsKeepOutput ==
  ASSUME CommandRunnerAssumption, CallOK, OutputOK, Silent, UNCHANGED <<plan, at, said>>
  PROVE  OutputOK'
<1>1. LinesOf(at.tool)' = LinesOf(at.tool)
  BY DEF LinesOf
<1>2. CASE Start
  BY <1>2 DEF Start, OutputOK
<1>3. CASE ~Start
  <2>1. output' = output /\ (process' = process \/ process' = -1 \/ output = {})
    BY <1>3 DEF Silent, Spawn, DescendantsEnd, RunStep, KillByContext, Cancel, Finished, Interrupted,
                FinishedInGrace, GraceOver, FinishedByForce, Terminate
  <2> QED
    BY <1>1, <2>1 DEF OutputOK, Opinion
<1> QED
  BY <1>2, <1>3

(* A line goes on record as it is written. *)
LEMMA WritingKeepsCommand ==
  ASSUME CommandRunnerAssumption, CommandOK, ToolWrites
  PROVE  CallOK' /\ OutputOK'
<1>1. PICK line \in LinesOf(at.tool) :
        /\ line.verdict = "invalid" => process # 0
        /\ Write(line)
        /\ said' = said \cup {Opinion(line.subject, at.tool, line.verdict)}
  BY DEF ToolWrites
<1>2. /\ output' = output \cup {line} /\ \A l \in output : l.subject # line.subject
      /\ UNCHANGED <<call, process, exit, plan, at>>
  BY <1>1 DEF Write, ToolWrites, progress
<1>3. call \in {"select", "grace", "forced"}
  BY <1>1 DEF Write, CommandOK, CallOK, GroupIsGone, Waited, CommandRunnerAssumption
<1>4. /\ ExitsOf(at.tool)' = ExitsOf(at.tool)
      /\ \A code : Meant(at.tool, code)' = Meant(at.tool, code)
      /\ LinesOf(at.tool)' = LinesOf(at.tool)
  BY <1>2 DEF ExitsOf, Meant, Opinion, LinesOf
<1>5. CallOK'
  BY <1>1, <1>2, <1>3, <1>4 DEF CommandOK, CallOK
<1>6. OutputOK'
  BY <1>1, <1>2, <1>4 DEF CommandOK, OutputOK, Opinion
<1> QED
  BY <1>5, <1>6

(* What is only history is about init. *)
LEMMA OverdueIsLate ==
  ASSUME NEW tool, NEW code, NEW o \in Overdue(tool, code)
  PROVE  o.tool = "init" /\ o.verdict = "late"
BY DEF Overdue, Opinion

(* So does what an exit code means. *)
LEMMA ExitingKeepsCommand ==
  ASSUME CommandRunnerAssumption, CommandOK, ToolExits
  PROVE  CallOK' /\ OutputOK'
<1>1. PICK code \in ExitsOf(at.tool) :
        /\ code = 0 => \A line \in output : line.verdict # "invalid"
        /\ Exit(code)
        /\ said' = said \cup Meant(at.tool, code) \cup Overdue(at.tool, code)
  BY DEF ToolExits
<1>2. /\ process = Running /\ process' = code
      /\ UNCHANGED <<call, output, exit, plan, at>>
  BY <1>1 DEF Exit, ToolExits, progress
<1>3. call \in {"select", "grace", "forced"}
  BY <1>2 DEF CommandOK, GroupIsGone, Waited
<1>4. /\ ExitsOf(at.tool)' = ExitsOf(at.tool)
      /\ \A c : Meant(at.tool, c)' = Meant(at.tool, c)
      /\ LinesOf(at.tool)' = LinesOf(at.tool)
  BY <1>2 DEF ExitsOf, Meant, Opinion, LinesOf
<1>5. code \in ExitCodes
  BY DEF ExitsOf
<1>6. CallOK'
  BY <1>1, <1>2, <1>3, <1>4, <1>5 DEF CommandOK, CallOK
<1>7. OutputOK'
  BY <1>1, <1>2, <1>4 DEF CommandOK, OutputOK, Opinion
<1> QED
  BY <1>6, <1>7

(* Between two commands there is nothing to know. *)
LEMMA IdleIsOK ==
  ASSUME CommandRunnerAssumption, call = "idle", process = Nil, output = {}, exit = Nil
  PROVE  CallOK /\ OutputOK
BY DEF CallOK, OutputOK, CommandRunnerAssumption

LEMMA NextKeepsCommand ==
  ASSUME CommandRunnerAssumption, ValidationRunAssumption, CommandOK, [Next]_vars
  PROVE  CommandOK'
<1>1. GroupIsGone' /\ TurnOK'
  BY NextKeepsGroupIsGone, NextKeepsTurn DEF CommandOK
<1>2. CallOK' /\ OutputOK'
  <2>1. CASE StartTool \/ RunnerStep \/ Descendants \/ Kill \/ CancelAttempt
    <3>1. /\ Silent /\ UNCHANGED <<plan, at, said>>
          /\ at.tool \in Tools \/ ~Start
      <4>1. CASE StartTool
        BY <4>1 DEF StartTool, Silent, progress
      <4>2. CASE RunnerStep
        BY <4>2 DEF RunnerStep, Silent, progress, Start, RunStep, Finished, Interrupted,
                    FinishedInGrace, GraceOver, FinishedByForce
      <4>3. CASE Descendants
        <5>1. (Spawn \/ DescendantsEnd) /\ UNCHANGED <<plan, at, said>>
          BY <4>3 DEF Descendants, progress
        <5>2. ~Start
          BY <5>1 DEF Spawn, DescendantsEnd, Start
        <5> QED
          BY <5>1, <5>2 DEF Silent
      <4>4. CASE Kill
        BY <4>4 DEF Kill, Silent, progress, KillByContext, Start, CommandOK, CallOK, CommandRunnerAssumption
      <4>5. CASE CancelAttempt
        BY <4>5 DEF CancelAttempt, Silent, progress
      <4> QED
        BY <2>1, <4>1, <4>2, <4>3, <4>4, <4>5
    <3> QED
      BY <3>1, SilentStepsKeepCall, SilentStepsKeepOutput DEF CommandOK
  <2>2. CASE ToolWrites \/ ToolExits
    BY <2>2, WritingKeepsCommand, ExitingKeepsCommand
  <2>3. CASE Judge
    <3>1. CommandRunnerAssumption'
      BY DEF CommandRunnerAssumption
    <3>2. call' = "idle" /\ process' = Nil /\ output' = {} /\ exit' = Nil
      BY <2>3 DEF Judge
    <3> QED
      BY <3>2 DEF CallOK, OutputOK, CommandRunnerAssumption
  <2>4. CASE BuildPlan \/ Conclude
    <3>1. call = "idle" /\ at.tool \notin Tools /\ UNCHANGED runnerVars
      BY <2>4 DEF BuildPlan, Conclude, CommandOK, CallOK, Tools, TargetTools
    <3>2. process = Nil /\ output = {} /\ exit = Nil
      BY <3>1 DEF CommandOK, CallOK
    <3> QED
      BY <3>1, <3>2 DEF CallOK, OutputOK, CommandRunnerAssumption, runnerVars
  <2>5. CASE UNCHANGED vars
    BY <2>5 DEF vars, runnerVars, progress, CommandOK, CallOK, OutputOK, ExitsOf, Meant, LinesOf, Opinion
  <2> QED
    BY <2>1, <2>2, <2>3, <2>4, <2>5 DEF Next
<1> QED
  BY <1>1, <1>2 DEF CommandOK

LEMMA InitIsCommandOK ==
  ASSUME CommandRunnerAssumption, ValidationRunAssumption, Init
  PROVE  CommandOK
<1>1. GroupIsGone
  BY DEF Init, RunnerInit, GroupIsGone, Waited, CommandRunnerAssumption
<1>2. TurnOK
  BY DEF Init, TurnOK, TargetTools, ValidationRunAssumption
<1>3. CallOK /\ OutputOK
  BY IdleIsOK DEF Init, RunnerInit
<1> QED
  BY <1>1, <1>2, <1>3 DEF CommandOK


-----------------------------------------------------------------------------
(* The steps of the plan and their results                                 *)

Verifiers == {"fmt", "init", "validate", "tflint"}

(* The commands of a target that come before another one. *)
Before == [fmt |-> {}, init |-> {"fmt"}, validate |-> {"fmt", "init"},
           tflint |-> {"fmt", "init", "validate"}, modules |-> Verifiers]

(* The planned steps that have had their turn. *)
Behind(subject, tool) ==
  \/ /\ subject \in 1 .. plan.targets /\ tool \in Verifiers
     /\ \/ at.tool \in {"kubeconform", "outcome", "done"}
        \/ /\ at.tool \in TargetTools
           /\ subject < at.target \/ (subject = at.target /\ tool \in Before[at.tool])
  \/ /\ subject \in plan.resources /\ tool = "kubeconform"
     /\ at.tool \in {"outcome", "done"}

(* They, and no others, have a result, and only one. *)
StepsOK ==
  /\ results \subseteq [subject : Subjects, tool : Tools, status : Statuses]
  /\ \A r \in results : Behind(r.subject, r.tool)
  /\ \A subject \in Subjects, tool \in Tools :
       Behind(subject, tool) => \E r \in results : r.subject = subject /\ r.tool = tool
  /\ \A r, q \in results : r.subject = q.subject /\ r.tool = q.tool => r = q

HasResult(set, subject, tool) == \E r \in set : r.subject = subject /\ r.tool = tool

(* The end of a target puts all its steps behind. *)
LEMMA TargetsEndPutsBehind ==
  ASSUME ValidationRunAssumption, TurnOK, at.tool \in TargetTools,
         plan' = plan, at' = AfterTarget(plan, at.target), NEW subject, NEW tool
  PROVE  Behind(subject, tool)' <=>
           subject \in 1 .. plan.targets /\ subject <= at.target /\ tool \in Verifiers
<1>1. at.target \in 1 .. plan.targets /\ plan.targets \in Nat
  BY DEF TurnOK, ValidationRunAssumption
<1>2. CASE at.target < plan.targets
  <2>1. at' = [target |-> at.target + 1, tool |-> "fmt"]
    BY <1>2 DEF AfterTarget
  <2>2. /\ at'.tool = "fmt" /\ at'.target = at.target + 1
        /\ at'.tool \in TargetTools /\ Before["fmt"] = {}
    BY <2>1 DEF TargetTools, Before
  <2>3. Behind(subject, tool)' <=>
          subject \in 1 .. plan.targets /\ tool \in Verifiers /\ subject < at.target + 1
    BY <2>2 DEF Behind
  <2> QED
    BY <2>3, <1>1
<1>3. CASE ~(at.target < plan.targets)
  <2>1. at'.tool = IF plan.resources # {} THEN "kubeconform" ELSE "outcome"
    BY <1>3 DEF AfterTarget
  <2>2. /\ at'.tool \in {"kubeconform", "outcome"}
        /\ at'.tool = "outcome" => plan.resources = {}
    BY <2>1
  <2>3. Behind(subject, tool)' <=> subject \in 1 .. plan.targets /\ tool \in Verifiers
    BY <2>2 DEF Behind, TargetTools
  <2>4. subject \in 1 .. plan.targets => subject <= at.target
    BY <1>1, <1>3
  <2> QED
    BY <2>3, <2>4
<1> QED
  BY <1>2, <1>3

(* An adapter puts behind what it makes results of. *)
LEMMA JudgingPutsBehind ==
  ASSUME ValidationRunAssumption, TurnOK, at.tool \in Tools, NEW status,
         plan' = plan, at' = AfterTool(at.tool, status), NEW subject, NEW tool
  PROVE  Behind(subject, tool)' <=>
           Behind(subject, tool) \/ HasResult(ResultsOf(at.tool, status), subject, tool)
<1> DEFINE now == HasResult(ResultsOf(at.tool, status), subject, tool)
<1>1. at.tool \in TargetTools => at.target \in 1 .. plan.targets /\ plan.targets \in Nat
  BY DEF TurnOK, ValidationRunAssumption
<1>2. CASE at.tool = "kubeconform"
  <2>1. at'.tool = "outcome"
    BY <1>2 DEF AfterTool
  <2>2. now <=> subject \in plan.resources /\ tool = "kubeconform"
    <3>1. ResultsOf(at.tool, status) = KubeResults
      BY <1>2 DEF ResultsOf
    <3>2. \A r \in plan.resources : ResultOf(r, "kubeconform", ResourceStatus(r)) \in KubeResults
      BY DEF KubeResults
    <3>3. \A r \in KubeResults : r.subject \in plan.resources /\ r.tool = "kubeconform"
      BY DEF KubeResults, ResultOf
    <3>4. \A r \in plan.resources :
            /\ ResultOf(r, "kubeconform", ResourceStatus(r)).subject = r
            /\ ResultOf(r, "kubeconform", ResourceStatus(r)).tool = "kubeconform"
      BY DEF ResultOf
    <3> QED
      BY <3>1, <3>2, <3>3, <3>4 DEF HasResult
  <2> HIDE DEF now
  <2>3. Behind(subject, tool) <=> subject \in 1 .. plan.targets /\ tool \in Verifiers
    BY <1>2 DEF Behind, TargetTools
  <2>4. Behind(subject, tool)' <=>
          \/ subject \in 1 .. plan.targets /\ tool \in Verifiers
          \/ subject \in plan.resources /\ tool = "kubeconform"
    BY <2>1 DEF Behind, TargetTools
  <2>5. Behind(subject, tool)' <=> Behind(subject, tool) \/ now
    BY <2>2, <2>3, <2>4
  <2> QED
    BY <2>5 DEF now
<1>3. CASE at.tool = "modules" \/ (at.tool = "init" /\ status # "PASS")
  <2>1. at.tool \in TargetTools /\ at' = AfterTarget(plan, at.target)
    BY <1>3 DEF AfterTool, TargetTools
  <2>2. Behind(subject, tool)' <=>
          subject \in 1 .. plan.targets /\ subject <= at.target /\ tool \in Verifiers
    BY <2>1, TargetsEndPutsBehind
  <2>3. Behind(subject, tool) <=>
          /\ subject \in 1 .. plan.targets /\ tool \in Verifiers
          /\ subject < at.target \/ (subject = at.target /\ tool \in Before[at.tool])
    BY <2>1 DEF Behind, TargetTools
  <2>4. now <=> /\ at.tool = "init" /\ subject = at.target
                /\ tool \in {"init", "validate", "tflint"}
    <3>1. CASE at.tool = "modules"
      BY <3>1 DEF ResultsOf, HasResult
    <3>2. CASE at.tool = "init" /\ status # "PASS"
      <4>1. ResultsOf(at.tool, status) =
              {ResultOf(at.target, "init", status), ResultOf(at.target, "validate", "SKIPPED"),
               ResultOf(at.target, "tflint", "SKIPPED")}
        BY <3>2 DEF ResultsOf, InitResults
      <4>2. now <=> \/ subject = at.target /\ tool = "init"
                    \/ subject = at.target /\ tool = "validate"
                    \/ subject = at.target /\ tool = "tflint"
        BY <4>1 DEF HasResult, ResultOf
      <4> QED
        BY <3>2, <4>2
    <3> QED
      BY <1>3, <3>1, <3>2
  <2> HIDE DEF now
  <2>5. /\ at.tool = "modules" => Before[at.tool] = Verifiers
        /\ at.tool = "init" => Before[at.tool] = {"fmt"}
    BY DEF Before
  <2>6. subject \in 1 .. plan.targets => (subject <= at.target <=> subject < at.target \/ subject = at.target)
    BY <1>1, <2>1
  <2>7. Behind(subject, tool)' <=> Behind(subject, tool) \/ now
    <3>1. CASE at.tool = "modules"
      BY <1>1, <2>1, <2>2, <2>3, <2>4, <2>5, <2>6, <3>1
    <3>2. CASE at.tool = "init"
      BY <1>1, <2>1, <2>2, <2>3, <2>4, <2>5, <2>6, <3>2 DEF Verifiers
    <3> QED
      BY <1>3, <3>1, <3>2
  <2> QED
    BY <2>7 DEF now
<1>4. CASE at.tool # "kubeconform" /\ ~(at.tool = "modules" \/ (at.tool = "init" /\ status # "PASS"))
  <2>1. at' = [at EXCEPT !.tool = Following[at.tool]] /\ at.tool \in Verifiers /\ at.tool \in TargetTools
    BY <1>4 DEF AfterTool, Tools, TargetTools, Verifiers
  <2>2. at'.tool = Following[at.tool] /\ at'.target = at.target
    BY <2>1 DEF TurnOK
  <2>3. /\ Following[at.tool] \in TargetTools
        /\ Before[Following[at.tool]] = Before[at.tool] \cup {at.tool}
    BY <2>1 DEF Following, Before, Verifiers, TargetTools
  <2>4. now <=> subject = at.target /\ tool = at.tool
    <3>1. ResultsOf(at.tool, status) = {ResultOf(at.target, at.tool, status)}
      BY <1>4 DEF ResultsOf, InitResults
    <3> QED
      BY <3>1 DEF HasResult, ResultOf
  <2> HIDE DEF now
  <2>5. Behind(subject, tool) <=>
          /\ subject \in 1 .. plan.targets /\ tool \in Verifiers
          /\ subject < at.target \/ (subject = at.target /\ tool \in Before[at.tool])
    BY <2>1 DEF Behind, TargetTools
  <2>6. Behind(subject, tool)' <=>
          /\ subject \in 1 .. plan.targets /\ tool \in Verifiers
          /\ subject < at.target \/ (subject = at.target /\ tool \in Before[at.tool] \cup {at.tool})
    <3>1. at'.tool \in TargetTools /\ Before[at'.tool] = Before[at.tool] \cup {at.tool}
      BY <2>2, <2>3
    <3>2. at'.tool \notin {"kubeconform", "outcome", "done"}
      BY <3>1 DEF TargetTools
    <3> QED
      BY <2>2, <3>1, <3>2 DEF Behind
  <2>7. Behind(subject, tool)' <=> Behind(subject, tool) \/ now
    BY <1>1, <2>1, <2>4, <2>5, <2>6
  <2> QED
    BY <2>7 DEF now
<1> QED
  BY <1>2, <1>3, <1>4


-----------------------------------------------------------------------------
(* Results and what the tools have said                                    *)

(* What the status of a target's command is made of. *)
LEMMA StatusIsSaid ==
  ASSUME CommandRunnerAssumption, CommandOK, call = "returned", at.tool \in TargetTools
  PROVE  /\ StatusOf(at.tool) \in {"PASS", "FAIL", "ERROR"}
         /\ StatusOf(at.tool) = "PASS" /\ at.tool # "modules" =>
              Opinion(at.target, at.tool, "valid") \in said
         /\ StatusOf(at.tool) = "FAIL" =>
              /\ Opinion(at.target, at.tool, "invalid") \in said
              /\ at.tool \in {"fmt", "validate", "tflint"}
<1> USE DEF CommandRunnerAssumption
<1>1. CASE exit = Nil
  BY <1>1 DEF StatusOf
<1>2. CASE exit # Nil
  <2>1. exit = process /\ process \in {-1} \cup ExitCodes
    BY <1>2 DEF CommandOK, CallOK
  <2>2. CASE at.tool = "validate"
    <3>1. \A verdict : Printed(at.target, verdict) => Opinion(at.target, at.tool, verdict) \in said
      BY DEF Printed, CommandOK, OutputOK
    <3>2. CASE Printed(at.target, "valid")
      <4>1. ~Printed(at.target, "invalid")
        BY <3>2 DEF Printed, CommandOK, OutputOK
      <4>2. StatusOf(at.tool) = "PASS"
        BY <1>2, <2>2, <3>2, <4>1 DEF StatusOf
      <4> QED
        BY <3>1, <3>2, <4>2
    <3>3. CASE Printed(at.target, "invalid") /\ ~Printed(at.target, "valid")
      <4>1. StatusOf(at.tool) = "FAIL"
        BY <1>2, <2>2, <3>3 DEF StatusOf
      <4> QED
        BY <2>2, <3>1, <3>3, <4>1
    <3>4. CASE ~Printed(at.target, "invalid") /\ ~Printed(at.target, "valid")
      <4>1. StatusOf(at.tool) = "ERROR"
        BY <1>2, <2>2, <3>4 DEF StatusOf
      <4> QED
        BY <4>1
    <3> QED
      BY <3>2, <3>3, <3>4
  <2>3. CASE at.tool # "validate"
    <3>1. CASE exit = 0
      <4>1. StatusOf(at.tool) = "PASS"
        BY <1>2, <2>3, <3>1 DEF StatusOf
      <4>2. process = 0 /\ 0 \in ExitCodes
        BY <2>1, <3>1
      <4>3. Meant(at.tool, 0) \subseteq said
        BY <4>2 DEF CommandOK, CallOK
      <4>4. at.tool # "modules" => Opinion(at.target, at.tool, "valid") \in Meant(at.tool, 0)
        BY <2>3 DEF TargetTools, Meant
      <4> QED
        BY <4>1, <4>3, <4>4
    <3>2. CASE <<at.tool, exit>> \in {<<"fmt", 3>>, <<"tflint", 2>>}
      <4>1. exit # 0 /\ exit \in ExitCodes
        BY <2>1, <3>2
      <4>2. StatusOf(at.tool) = "FAIL"
        BY <1>2, <2>3, <3>2, <4>1 DEF StatusOf
      <4>3. Meant(at.tool, exit) \subseteq said
        BY <2>1, <4>1 DEF CommandOK, CallOK
      <4>4. Opinion(at.target, at.tool, "invalid") \in Meant(at.tool, exit)
        BY <3>2 DEF Meant
      <4> QED
        BY <3>2, <4>2, <4>3, <4>4
    <3>3. CASE exit # 0 /\ <<at.tool, exit>> \notin {<<"fmt", 3>>, <<"tflint", 2>>}
      <4>1. StatusOf(at.tool) = "ERROR"
        BY <1>2, <2>3, <3>3 DEF StatusOf
      <4> QED
        BY <4>1
    <3> QED
      BY <3>1, <3>2, <3>3
  <2> QED
    BY <2>2, <2>3
<1> QED
  BY <1>1, <1>2

(* The same of a resource. *)
LEMMA ResourceStatusIsSaid ==
  ASSUME CommandOK, at.tool = "kubeconform", NEW r \in plan.resources
  PROVE  /\ ResourceStatus(r) \in {"PASS", "FAIL", "ERROR", "SKIPPED_SCHEMA_MISSING"}
         /\ ResourceStatus(r) = "PASS" => Opinion(r, "kubeconform", "valid") \in said
         /\ ResourceStatus(r) = "FAIL" => Opinion(r, "kubeconform", "invalid") \in said
         /\ ResourceStatus(r) = "SKIPPED_SCHEMA_MISSING" => Opinion(r, "kubeconform", "missing") \in said
         /\ Printed(r, "invalid") => ResourceStatus(r) = "FAIL"
<1>1. \A verdict : Printed(r, verdict) => Opinion(r, "kubeconform", verdict) \in said
  BY DEF Printed, CommandOK, OutputOK
<1>2. \A v, w \in Verdicts : Printed(r, v) /\ Printed(r, w) => v = w
  BY DEF Printed, CommandOK, OutputOK, Verdicts
<1>3. CASE Printed(r, "valid")
  BY <1>1, <1>2, <1>3 DEF ResourceStatus, Verdicts
<1>4. CASE Printed(r, "invalid")
  BY <1>1, <1>2, <1>4 DEF ResourceStatus, Verdicts
<1>5. CASE Printed(r, "missing")
  BY <1>1, <1>2, <1>5 DEF ResourceStatus, Verdicts
<1>6. CASE \A v \in Verdicts : ~Printed(r, v)
  <2>1. ResourceStatus(r) = "ERROR"
    BY <1>6 DEF ResourceStatus, Verdicts
  <2> QED
    BY <1>6, <2>1 DEF Verdicts
<1> QED
  BY <1>3, <1>4, <1>5, <1>6 DEF Verdicts

(* What a result says is what the tool has said; only a target that init could
   not prepare is skipped. *)
Backed(r, set) ==
  /\ r.status = "PASS" => Opinion(r.subject, r.tool, "valid") \in said
  /\ r.status = "FAIL" => Opinion(r.subject, r.tool, "invalid") \in said
  /\ r.status = "SKIPPED_SCHEMA_MISSING" =>
       r.tool = "kubeconform" /\ Opinion(r.subject, r.tool, "missing") \in said
  /\ r.status = "SKIPPED" => ResultOf(r.subject, "init", "ERROR") \in set
  /\ r.status # "SKIPPED_UNSUPPORTED"

LEMMA NewResultsAreBacked ==
  ASSUME CommandRunnerAssumption, ValidationRunAssumption, CommandOK, call = "returned",
         NEW status, status = StatusOf(at.tool), NEW new, new = ResultsOf(at.tool, status)
  PROVE  /\ new \subseteq [subject : Subjects, tool : Tools, status : Statuses]
         /\ \A r \in new : Backed(r, new) /\ ~Behind(r.subject, r.tool)
         /\ \A r, q \in new : r.subject = q.subject /\ r.tool = q.tool => r = q
<1>1. /\ plan.resources \subseteq Resources /\ plan.targets \in 0 .. MaxTargets
      /\ at.tool \in Tools
      /\ at.tool \in TargetTools => at.target \in 1 .. plan.targets
  BY DEF CommandOK, TurnOK, CallOK
<1>2. at.tool \in TargetTools => at.target \in Subjects
  BY <1>1 DEF Subjects, ValidationRunAssumption
<1>3. CASE at.tool = "kubeconform"
  <2>1. new = KubeResults
    BY <1>3 DEF ResultsOf
  <2>2. \A r \in new : \E s \in plan.resources : r = ResultOf(s, "kubeconform", ResourceStatus(s))
    BY <2>1 DEF KubeResults
  <2>3. ASSUME NEW r \in new
        PROVE  /\ r \in [subject : Subjects, tool : Tools, status : Statuses]
               /\ Backed(r, new) /\ ~Behind(r.subject, r.tool)
    <3>1. PICK s \in plan.resources : r = ResultOf(s, "kubeconform", ResourceStatus(s))
      BY <2>2
    <3>2. /\ r = [subject |-> s, tool |-> "kubeconform", status |-> ResourceStatus(s)]
          /\ r.subject = s /\ r.tool = "kubeconform" /\ r.status = ResourceStatus(s)
      BY <3>1 DEF ResultOf
    <3>3. ResourceStatus(s) \in Statuses /\ s \in Subjects /\ "kubeconform" \in Tools
      BY <1>1, <1>3, ResourceStatusIsSaid DEF Statuses, Subjects, Tools
    <3>4. Backed(r, new)
      BY <1>3, <3>2, ResourceStatusIsSaid DEF Backed
    <3>5. ~Behind(r.subject, r.tool)
      BY <1>3, <3>2 DEF Behind, Verifiers
    <3> QED
      BY <3>2, <3>3, <3>4, <3>5
  <2>4. \A r, q \in new : r.subject = q.subject => r = q
    BY <2>2 DEF ResultOf
  <2> QED
    BY <2>3, <2>4
<1>4. CASE at.tool = "modules"
  BY <1>4 DEF ResultsOf
<1>5. CASE at.tool = "init" /\ status # "PASS"
  <2>1. new = {ResultOf(at.target, "init", status), ResultOf(at.target, "validate", "SKIPPED"),
               ResultOf(at.target, "tflint", "SKIPPED")}
    BY <1>5 DEF ResultsOf, InitResults
  <2>2. status = "ERROR"
    BY <1>5, StatusIsSaid DEF TargetTools
  <2>3. \A r \in new : /\ r.subject = at.target /\ r.tool \in {"init", "validate", "tflint"}
                       /\ r.status \in {"ERROR", "SKIPPED"}
                       /\ r \in [subject : Subjects, tool : Tools, status : Statuses]
    BY <1>2, <1>5, <2>1, <2>2 DEF ResultOf, TargetTools, Tools, Statuses
  <2>4. ResultOf(at.target, "init", "ERROR") \in new
    BY <2>1, <2>2
  <2>5. \A r \in new : Backed(r, new)
    BY <2>3, <2>4 DEF Backed
  <2>6. \A r \in new : ~Behind(r.subject, r.tool)
    <3>1. Before[at.tool] = {"fmt"} /\ ~(at.target < at.target)
      BY <1>1, <1>5 DEF Before, TargetTools
    <3> QED
      BY <1>5, <2>3, <3>1 DEF Behind
  <2>7. \A r, q \in new : r.subject = q.subject /\ r.tool = q.tool => r = q
    BY <2>1 DEF ResultOf
  <2> QED
    BY <2>3, <2>5, <2>6, <2>7
<1>6. CASE at.tool \in Verifiers /\ ~(at.tool = "init" /\ status # "PASS")
  <2>1. new = {ResultOf(at.target, at.tool, status)}
    BY <1>6 DEF ResultsOf, InitResults, Verifiers
  <2>2. at.tool \in TargetTools /\ at.tool # "modules"
    BY <1>6 DEF Verifiers, TargetTools
  <2>3. /\ status \in {"PASS", "FAIL", "ERROR"}
        /\ status = "PASS" => Opinion(at.target, at.tool, "valid") \in said
        /\ status = "FAIL" => Opinion(at.target, at.tool, "invalid") \in said
    BY <2>2, StatusIsSaid
  <2>4. \A r \in new : /\ r.subject = at.target /\ r.tool = at.tool /\ r.status = status
                       /\ r = [subject |-> at.target, tool |-> at.tool, status |-> status]
    BY <2>1 DEF ResultOf
  <2>5. new \subseteq [subject : Subjects, tool : Tools, status : Statuses]
    BY <1>1, <1>2, <2>2, <2>3, <2>4 DEF Statuses
  <2>6. \A r \in new : Backed(r, new)
    BY <2>3, <2>4 DEF Backed
  <2>7. at.tool \notin Before[at.tool] /\ at.tool \notin {"kubeconform", "outcome", "done"}
    BY <1>6 DEF Before, Verifiers
  <2>8. ~(at.target < at.target)
    BY <1>1, <2>2
  <2>9. \A r \in new : ~Behind(r.subject, r.tool)
    BY <2>4, <2>7, <2>8 DEF Behind
  <2> QED
    BY <2>4, <2>5, <2>6, <2>9
<1> QED
  BY <1>1, <1>3, <1>4, <1>5, <1>6 DEF Tools, TargetTools, Verifiers


ResultsOK == \A r \in results : Backed(r, results)

(* What the command whose turn it is has found wrong and its adapter is still to
   report. *)
Unjudged(o) ==
  /\ call # "idle" /\ o.tool = at.tool
  /\ \/ Printed(o.subject, "invalid")
     \/ process \in ExitCodes /\ o \in Meant(at.tool, process)

FindingsKept ==
  \A o \in said : o.verdict = "invalid" =>
    ResultOf(o.subject, o.tool, "FAIL") \in results \/ Unjudged(o)

ReportOK ==
  IF at.tool = "done" THEN report = [outcome |-> Outcome, coverage |-> Coverage]
  ELSE report = NoReport

ValidationOK == CommandOK /\ StepsOK /\ ResultsOK /\ FindingsKept /\ ReportOK

(* The adapters report what is found wrong, also of a process that was killed
   after it had said so. *)
LEMMA FindingsAreReported ==
  ASSUME CommandRunnerAssumption, CommandOK, call = "returned",
         NEW o, o.verdict = "invalid", Unjudged(o)
  PROVE  ResultOf(o.subject, o.tool, "FAIL") \in ResultsOf(at.tool, StatusOf(at.tool))
<1> USE DEF CommandRunnerAssumption
<1>1. CASE Printed(o.subject, "invalid")
  <2>1. PICK line \in output : line = [subject |-> o.subject, verdict |-> "invalid"]
    BY <1>1 DEF Printed
  <2>2. line \in LinesOf(at.tool) /\ process # 0
    BY <2>1 DEF CommandOK, OutputOK
  <2>3. exit # Nil
    BY <2>1, <2>2 DEF CommandOK, CallOK
  <2>4. CASE at.tool = "validate"
    <3>1. line.subject = at.target
      BY <2>2, <2>4 DEF LinesOf
    <3>2. o.subject = at.target
      BY <2>1, <3>1
    <3>3. Printed(at.target, "invalid") /\ ~Printed(at.target, "valid")
      BY <1>1, <3>2 DEF Printed, CommandOK, OutputOK
    <3>4. StatusOf(at.tool) = "FAIL"
      BY <2>3, <2>4, <3>3 DEF StatusOf
    <3> QED
      BY <2>4, <3>2, <3>4 DEF ResultsOf, Unjudged
  <2>5. CASE at.tool = "kubeconform"
    <3>1. line.subject \in plan.resources
      BY <2>2, <2>5 DEF LinesOf
    <3>2. o.subject \in plan.resources
      BY <2>1, <3>1
    <3>3. ResourceStatus(o.subject) = "FAIL"
      BY <1>1, <2>5, <3>2, ResourceStatusIsSaid
    <3>4. ResultOf(o.subject, "kubeconform", "FAIL") \in KubeResults
      BY <3>2, <3>3 DEF KubeResults
    <3> QED
      BY <2>5, <3>4 DEF ResultsOf, Unjudged
  <2>6. at.tool = "validate" \/ at.tool = "kubeconform"
    BY <2>2 DEF LinesOf
  <2> QED
    BY <2>4, <2>5, <2>6
<1>2. CASE process \in ExitCodes /\ o \in Meant(at.tool, process)
  <2>1. /\ <<at.tool, process>> \in {<<"fmt", 3>>, <<"tflint", 2>>}
        /\ o = Opinion(at.target, at.tool, "invalid")
    BY <1>2 DEF Meant, Opinion
  <2>2. o.subject = at.target /\ o.tool = at.tool
    BY <2>1 DEF Opinion
  <2>3. at.tool \in {"fmt", "tflint"} /\ process # 0
    BY <2>1
  <2>4. exit = process /\ exit # Nil /\ exit # 0
    BY <1>2, <2>3 DEF CommandOK, CallOK
  <2>5. StatusOf(at.tool) = "FAIL"
    BY <2>1, <2>3, <2>4 DEF StatusOf
  <2> QED
    BY <2>2, <2>3, <2>5 DEF ResultsOf
<1> QED
  BY <1>1, <1>2 DEF Unjudged

(* Before there is a plan there is nothing behind, and so no result. *)
LEMMA PlanningPutsNothingBehind ==
  ASSUME ValidationRunAssumption, TurnOK, BuildPlan, NEW subject, NEW tool
  PROVE  ~Behind(subject, tool) /\ ~Behind(subject, tool)'
<1>1. ~Behind(subject, tool)
  BY DEF Behind, BuildPlan, TargetTools
<1>2. CASE at' = AfterTarget(plan', 0) /\ plan' \in Discoveries
  <2>1. plan'.targets \in Nat
    BY PlansAreTurns DEF TurnOK, ValidationRunAssumption
  <2>2. CASE 0 < plan'.targets
    <3>1. at'.tool = "fmt" /\ at'.target = 1 /\ Before["fmt"] = {} /\ "fmt" \in TargetTools
      BY <1>2, <2>2 DEF AfterTarget, Before, TargetTools
    <3> QED
      BY <1>1, <2>1, <3>1 DEF Behind
  <2>3. CASE ~(0 < plan'.targets)
    <3>1. /\ 1 .. plan'.targets = {}
          /\ at'.tool \in {"kubeconform", "outcome"}
          /\ at'.tool = "outcome" => plan'.resources = {}
      BY <1>2, <2>1, <2>3 DEF AfterTarget
    <3> QED
      BY <1>1, <3>1 DEF Behind
  <2> QED
    BY <2>2, <2>3
<1>3. CASE at' = [at EXCEPT !.tool = "failed"] /\ UNCHANGED plan
  <2>1. at'.tool = "failed"
    BY <1>3 DEF TurnOK
  <2> QED
    BY <1>1, <2>1 DEF Behind, TargetTools
<1> QED
  BY <1>1, <1>2, <1>3 DEF BuildPlan

(* The steps that neither plan nor judge leave the results and what is behind. *)
LEMMA OtherStepsKeepResults ==
  ASSUME ValidationRunAssumption, CommandOK, StepsOK, ResultsOK, ReportOK,
         UNCHANGED <<plan, results>>, said \subseteq said',
         \/ UNCHANGED <<at, report>>
         \/ Conclude
  PROVE  StepsOK' /\ ResultsOK' /\ ReportOK'
<1>1. at' = at \/ (at.tool = "outcome" /\ at'.tool = "done")
  BY DEF Conclude, CommandOK, TurnOK
<1>2. \A subject, tool : Behind(subject, tool)' <=> Behind(subject, tool)
  <2> TAKE subject, tool
  <2>1. CASE at' = at
    BY <2>1 DEF Behind
  <2>2. CASE at.tool = "outcome" /\ at'.tool = "done"
    <3>1. /\ at.tool \notin TargetTools /\ at'.tool \notin TargetTools
          /\ plan' = plan
      BY <2>2 DEF TargetTools
    <3> QED
      BY <2>2, <3>1 DEF Behind
  <2> QED
    BY <1>1, <2>1, <2>2
<1>3. StepsOK'
  <2>1. /\ results' = results /\ Subjects' = Subjects
        /\ \A r \in results : Behind(r.subject, r.tool)'
        /\ \A subject \in Subjects, tool \in Tools :
             Behind(subject, tool)' => \E r \in results : r.subject = subject /\ r.tool = tool
    BY <1>2 DEF StepsOK, Subjects
  <2> QED
    BY <2>1 DEF StepsOK, Subjects, Tools, TargetTools, Statuses
<1>4. ResultsOK'
  BY DEF ResultsOK, Backed, Opinion, ResultOf
<1>5. ReportOK'
  <2>1. CASE UNCHANGED <<at, report>>
    BY <2>1 DEF ReportOK, NoReport, Outcome, Coverage, Inconclusive, WithStatus, Partial, Required
  <2>2. CASE Conclude
    <3>1. at'.tool = "done" /\ results' = results /\ report' = [outcome |-> Outcome, coverage |-> Coverage]
      BY <2>2 DEF Conclude, CommandOK, TurnOK
    <3>2. Outcome' = Outcome /\ Coverage' = Coverage
      BY <3>1 DEF Outcome, Coverage, Inconclusive, WithStatus, Partial, Required
    <3> QED
      BY <3>1, <3>2 DEF ReportOK
  <2> QED
    BY <2>1, <2>2
<1> QED
  BY <1>3, <1>4, <1>5


LEMMA JudgingKeepsResults ==
  ASSUME CommandRunnerAssumption, ValidationRunAssumption,
         CommandOK, StepsOK, ResultsOK, ReportOK, Judge
  PROVE  StepsOK' /\ ResultsOK' /\ ReportOK'
<1> DEFINE status == StatusOf(at.tool)
           new    == ResultsOf(at.tool, status)
<1>1. /\ call = "returned" /\ results' = results \cup new
      /\ at' = AfterTool(at.tool, status)
      /\ UNCHANGED <<plan, report, said>>
  BY DEF Judge
<1>2. at.tool \in Tools /\ TurnOK
  BY <1>1 DEF CommandOK, CallOK
<1>3. /\ new \subseteq [subject : Subjects, tool : Tools, status : Statuses]
      /\ \A r \in new : Backed(r, new) /\ ~Behind(r.subject, r.tool)
      /\ \A r, q \in new : r.subject = q.subject /\ r.tool = q.tool => r = q
  BY <1>1, NewResultsAreBacked
<1>4. \A subject, tool :
        Behind(subject, tool)' <=> Behind(subject, tool) \/ HasResult(new, subject, tool)
  BY <1>1, <1>2, JudgingPutsBehind
<1> HIDE DEF status, new
<1>5. StepsOK'
  <2>1. results' \subseteq [subject : Subjects, tool : Tools, status : Statuses]
    BY <1>1, <1>3 DEF StepsOK
  <2>2. \A r \in results' : Behind(r.subject, r.tool)'
    BY <1>1, <1>4 DEF StepsOK, HasResult
  <2>3. \A subject \in Subjects, tool \in Tools :
          Behind(subject, tool)' => \E r \in results' : r.subject = subject /\ r.tool = tool
    BY <1>1, <1>4 DEF StepsOK, HasResult
  <2>4. \A r, q \in results' : r.subject = q.subject /\ r.tool = q.tool => r = q
    <3> SUFFICES ASSUME NEW r \in results', NEW q \in results',
                        r.subject = q.subject, r.tool = q.tool
                 PROVE  r = q
      OBVIOUS
    <3>1. CASE r \in results /\ q \in results
      BY <3>1 DEF StepsOK
    <3>2. CASE r \in new /\ q \in new
      BY <1>3, <3>2
    <3>3. CASE \/ r \in results /\ q \in new
               \/ r \in new /\ q \in results
      BY <1>3, <3>3 DEF StepsOK
    <3> QED
      BY <1>1, <3>1, <3>2, <3>3
  <2> QED
    BY <2>1, <2>2, <2>3, <2>4 DEF StepsOK, Subjects, Tools, TargetTools, Statuses
<1>6. ResultsOK'
  BY <1>1, <1>3 DEF ResultsOK, Backed, Opinion, ResultOf
<1>7. ReportOK'
  <2>1. at.tool # "done" /\ at'.tool # "done"
    <3>1. at.tool # "done"
      BY <1>2 DEF Tools, TargetTools
    <3>2. at' = AfterTool(at.tool, status)
      BY <1>1
    <3>3. \/ at'.tool = "outcome"
          \/ at' = AfterTarget(plan, at.target)
          \/ at'.tool = Following[at.tool] /\ at.tool \in {"fmt", "init", "validate", "tflint"}
      BY <1>2, <3>2 DEF AfterTool, TurnOK, Tools, TargetTools
    <3> QED
      BY <3>1, <3>3 DEF AfterTarget, Following
  <2> QED
    BY <1>1, <2>1 DEF ReportOK, NoReport
<1> QED
  BY <1>5, <1>6, <1>7

(* What a tool finds wrong becomes a result, or its adapter is still to come. *)
LEMMA NextKeepsFindings ==
  ASSUME CommandRunnerAssumption, ValidationRunAssumption, CommandOK, FindingsKept, [Next]_vars
  PROVE  FindingsKept'
<1> SUFFICES ASSUME NEW o \in said', o.verdict = "invalid"
             PROVE  ResultOf(o.subject, o.tool, "FAIL") \in results' \/ Unjudged(o)'
  BY DEF FindingsKept, ResultOf
<1> USE DEF CommandRunnerAssumption
<1>1. CASE Judge
  <2>1. o \in said /\ results' = results \cup ResultsOf(at.tool, StatusOf(at.tool)) /\ call = "returned"
    BY <1>1 DEF Judge
  <2> QED
    BY <2>1, FindingsAreReported DEF FindingsKept
<1>2. CASE ToolWrites
  <2>1. PICK line \in LinesOf(at.tool) :
          /\ Write(line)
          /\ said' = said \cup {Opinion(line.subject, at.tool, line.verdict)}
          /\ UNCHANGED <<at, results>>
    BY <1>2 DEF ToolWrites, progress
  <2>2. output' = output \cup {line} /\ UNCHANGED <<call, process>> /\ call # "idle"
    BY <2>1 DEF Write, CommandOK, GroupIsGone, Waited
  <2>3. CASE o \in said
    <3>1. Unjudged(o) => Unjudged(o)'
      BY <2>1, <2>2 DEF Unjudged, Printed, Meant, Opinion
    <3> QED
      BY <2>1, <2>3, <3>1 DEF FindingsKept
  <2>4. CASE o = Opinion(line.subject, at.tool, line.verdict)
    <3>1. line.verdict = "invalid" /\ o.subject = line.subject /\ o.tool = at.tool
      BY <2>4 DEF Opinion
    <3>2. line = [subject |-> o.subject, verdict |-> "invalid"]
      BY <3>1 DEF LinesOf, ValidationRunAssumption
    <3> QED
      BY <2>1, <2>2, <3>1, <3>2 DEF Unjudged, Printed
  <2> QED
    BY <2>1, <2>3, <2>4
<1>3. CASE ToolExits
  <2>1. PICK code \in ExitsOf(at.tool) :
          /\ Exit(code)
          /\ said' = said \cup Meant(at.tool, code) \cup Overdue(at.tool, code)
          /\ UNCHANGED <<at, results>>
    BY <1>3 DEF ToolExits, progress
  <2>2. /\ process = Running /\ process' = code /\ code \in ExitCodes
        /\ UNCHANGED <<call, output>> /\ call # "idle"
    BY <2>1 DEF Exit, ExitsOf, CommandOK, GroupIsGone, Waited
  <2>3. CASE o \in said
    <3>1. Unjudged(o) => Unjudged(o)'
      BY <2>1, <2>2 DEF Unjudged, Printed
    <3> QED
      BY <2>1, <2>3, <3>1 DEF FindingsKept
  <2>4. CASE o \in Meant(at.tool, code)
    <3>1. o.tool = at.tool
      BY <2>4 DEF Meant, Opinion
    <3>2. o \in Meant(at.tool, process)'
      BY <2>1, <2>2, <2>4 DEF Meant, Opinion
    <3> QED
      BY <2>1, <2>2, <3>1, <3>2 DEF Unjudged
  <2>5. o \notin Overdue(at.tool, code)
    BY OverdueIsLate
  <2> QED
    BY <2>1, <2>3, <2>4, <2>5
<1>4. CASE StartTool \/ RunnerStep \/ Descendants \/ Kill \/ CancelAttempt
  <2>1. UNCHANGED <<at, results, said>>
    BY <1>4 DEF StartTool, RunnerStep, Descendants, Kill, CancelAttempt, progress
  <2>2. Unjudged(o) => call' # "idle" /\ output' = output /\ (process \in ExitCodes => process' = process)
    BY <1>4 DEF Unjudged, StartTool, Start, RunnerStep, RunStep, Finished, Interrupted, FinishedInGrace,
                GraceOver, FinishedByForce, Return, Terminate, Descendants, Spawn, DescendantsEnd, Kill,
                KillByContext, CancelAttempt, Cancel
  <2>3. Unjudged(o) => Unjudged(o)'
    BY <2>1, <2>2 DEF Unjudged, Printed, Meant, Opinion
  <2> QED
    BY <2>1, <2>3 DEF FindingsKept
<1>5. CASE BuildPlan \/ Conclude \/ UNCHANGED vars
  <2>1. UNCHANGED <<runnerVars, results, said>> /\ (Unjudged(o) => at' = at)
    BY <1>5 DEF BuildPlan, Conclude, vars, progress, runnerVars, Unjudged, CommandOK, CallOK, Tools, TargetTools
  <2>2. Unjudged(o) => Unjudged(o)'
    BY <2>1 DEF runnerVars, Unjudged, Printed, Meant, Opinion
  <2> QED
    BY <2>1, <2>2 DEF FindingsKept
<1> QED
  BY <1>1, <1>2, <1>3, <1>4, <1>5 DEF Next

LEMMA NextKeepsResults ==
  ASSUME CommandRunnerAssumption, ValidationRunAssumption, ValidationOK, [Next]_vars
  PROVE  StepsOK' /\ ResultsOK' /\ ReportOK'
<1>1. CASE BuildPlan
  <2>1. TurnOK /\ TurnOK' /\ at.tool # "done" /\ at'.tool # "done"
    <3>1. TurnOK /\ TurnOK' /\ at.tool = "plan"
      BY <1>1, PlansAreTurns DEF ValidationOK, CommandOK, BuildPlan
    <3>2. at'.tool # "done"
      BY <1>1, <3>1 DEF BuildPlan, TurnOK, AfterTarget
    <3> QED
      BY <3>1, <3>2
  <2>2. \A subject, tool : ~Behind(subject, tool) /\ ~Behind(subject, tool)'
    BY <1>1, <2>1, PlanningPutsNothingBehind
  <2>3. results = {} /\ results' = {} /\ UNCHANGED <<report, said>>
    BY <1>1, <2>2 DEF BuildPlan, ValidationOK, StepsOK
  <2>4. StepsOK' /\ ResultsOK'
    BY <2>2, <2>3 DEF StepsOK, ResultsOK
  <2>5. ReportOK'
    BY <2>1, <2>3 DEF ValidationOK, ReportOK, NoReport
  <2> QED
    BY <2>4, <2>5
<1>2. CASE Judge
  BY <1>2, JudgingKeepsResults DEF ValidationOK
<1>3. CASE ~BuildPlan /\ ~Judge
  <2>1. /\ UNCHANGED <<plan, results>> /\ said \subseteq said'
        /\ UNCHANGED <<at, report>> \/ Conclude
    BY <1>3 DEF Next, vars, progress, StartTool, RunnerStep, Descendants, Kill, CancelAttempt,
                ToolWrites, ToolExits, Conclude
  <2> QED
    BY <2>1, OtherStepsKeepResults DEF ValidationOK
<1> QED
  BY <1>1, <1>2, <1>3

LEMMA NextKeepsValidation ==
  ASSUME CommandRunnerAssumption, ValidationRunAssumption, ValidationOK, [Next]_vars
  PROVE  ValidationOK'
BY NextKeepsCommand, NextKeepsResults, NextKeepsFindings DEF ValidationOK

LEMMA InitIsValidationOK ==
  ASSUME CommandRunnerAssumption, ValidationRunAssumption, Init
  PROVE  ValidationOK
<1>1. CommandOK
  BY InitIsCommandOK
<1>2. at.tool = "plan" /\ results = {} /\ said = {} /\ report = NoReport /\ plan.targets = 0 /\ plan.resources = {}
  BY DEF Init
<1>3. \A subject, tool : ~Behind(subject, tool)
  BY <1>2 DEF Behind, TargetTools
<1> QED
  BY <1>1, <1>2, <1>3 DEF ValidationOK, StepsOK, ResultsOK, FindingsKept, ReportOK


-----------------------------------------------------------------------------
(* The report and what was checked                                         *)

(* Execute and its commands, without what the scheduling owes them. *)
Safety == Init /\ [][Next]_vars

LEMMA ValidationStaysOK == Safety => []ValidationOK
<1>1. Init => ValidationOK
  BY InitIsValidationOK, CommandRunnerAssumption, ValidationRunAssumption
<1>2. ValidationOK /\ [Next]_vars => ValidationOK'
  BY NextKeepsValidation, CommandRunnerAssumption, ValidationRunAssumption
<1> QED
  BY <1>1, <1>2, PTL DEF Safety

(* When the last step is behind, all of them are. *)
LEMMA AllStepsBehind ==
  ASSUME ValidationRunAssumption, at.tool = "done", NEW subject, NEW tool
  PROVE  Behind(subject, tool) <=> <<subject, tool>> \in PlannedSteps
<1>1. at.tool \in {"kubeconform", "outcome", "done"} /\ at.tool \notin TargetTools
  BY DEF TargetTools
<1>2. Behind(subject, tool) <=>
        \/ subject \in 1 .. plan.targets /\ tool \in Verifiers
        \/ subject \in plan.resources /\ tool = "kubeconform"
  BY <1>1 DEF Behind
<1> QED
  BY <1>2 DEF PlannedSteps, Verifiers

LEMMA PlannedStepsAreTyped ==
  ASSUME ValidationRunAssumption, TurnOK, NEW subject, NEW tool, <<subject, tool>> \in PlannedSteps
  PROVE  subject \in Subjects /\ tool \in Tools
<1>1. plan.resources \subseteq Resources /\ plan.targets \in 0 .. MaxTargets
  BY DEF TurnOK
<1>2. \/ subject \in 1 .. plan.targets /\ tool \in {"fmt", "init", "validate", "tflint"}
      \/ subject \in plan.resources /\ tool = "kubeconform"
  BY DEF PlannedSteps
<1> QED
  BY <1>1, <1>2 DEF Subjects, Tools, TargetTools, ValidationRunAssumption

LEMMA PlannedStepsAreFinite ==
  ASSUME ValidationRunAssumption, TurnOK
  PROVE  IsFiniteSet(PlannedSteps)
<1>1. IsFiniteSet(1 .. plan.targets)
  <2>1. 1 \in Int /\ plan.targets \in Int
    BY DEF TurnOK, ValidationRunAssumption
  <2> QED
    BY <2>1, FS_Interval
<1>2. IsFiniteSet({"fmt", "init", "validate", "tflint"})
  <2>1. IsFiniteSet({})
    BY FS_EmptySet
  <2>2. IsFiniteSet({} \cup {"fmt"})
    BY <2>1, FS_AddElement
  <2>3. IsFiniteSet(({} \cup {"fmt"}) \cup {"init"})
    BY <2>2, FS_AddElement
  <2>4. IsFiniteSet((({} \cup {"fmt"}) \cup {"init"}) \cup {"validate"})
    BY <2>3, FS_AddElement
  <2>5. IsFiniteSet(((({} \cup {"fmt"}) \cup {"init"}) \cup {"validate"}) \cup {"tflint"})
    BY <2>4, FS_AddElement
  <2>6. ((({} \cup {"fmt"}) \cup {"init"}) \cup {"validate"}) \cup {"tflint"}
          = {"fmt", "init", "validate", "tflint"}
    OBVIOUS
  <2> QED
    BY <2>5, <2>6
<1>3. IsFiniteSet(plan.resources)
  <2>1. plan.resources \subseteq Resources /\ IsFiniteSet(Resources)
    BY DEF TurnOK, ValidationRunAssumption
  <2> QED
    BY <2>1, FS_Subset
<1>4. IsFiniteSet({"kubeconform"})
  BY FS_Singleton
<1>5. IsFiniteSet((1 .. plan.targets) \X {"fmt", "init", "validate", "tflint"})
  BY <1>1, <1>2, FS_Product
<1>6. IsFiniteSet(plan.resources \X {"kubeconform"})
  BY <1>3, <1>4, FS_Product
<1> QED
  BY <1>5, <1>6, FS_Union DEF PlannedSteps

(* Two sets are of one size when there is a bijection between them. *)
LEMMA SameSize ==
  ASSUME NEW S, NEW T, IsFiniteSet(T), NEW f \in [S -> T],
         \A x, y \in S : f[x] = f[y] => x = y,
         \A z \in T : \E x \in S : f[x] = z
  PROVE  IsFiniteSet(S) /\ Cardinality(S) = Cardinality(T)
<1>1. f \in Bijection(S, T)
  BY DEF Bijection, Injection, Surjection, IsInjective
<1>2. ExistsBijection(S, T)
  BY <1>1 DEF ExistsBijection
<1>3. ExistsBijection(T, S)
  BY <1>2, Fun_ExistsBijSymmetric
<1> QED
  BY <1>3, FS_Bijection

LEMMA ResultsCoverThePlan ==
  ASSUME ValidationRunAssumption, ValidationOK
  PROVE  OneResultPerStep
<1> SUFFICES ASSUME at.tool = "done"
             PROVE  /\ {<<r.subject, r.tool>> : r \in results} = PlannedSteps
                    /\ Cardinality(results) = Cardinality(PlannedSteps)
  BY DEF OneResultPerStep
<1> DEFINE step == [r \in results |-> <<r.subject, r.tool>>]
<1>1. TurnOK /\ StepsOK
  BY DEF ValidationOK, CommandOK
<1>2. \A r \in results : <<r.subject, r.tool>> \in PlannedSteps
  BY <1>1, AllStepsBehind DEF StepsOK
<1>3. \A s \in PlannedSteps : \E r \in results : <<r.subject, r.tool>> = s
  <2> SUFFICES ASSUME NEW s \in PlannedSteps
               PROVE  \E r \in results : <<r.subject, r.tool>> = s
    OBVIOUS
  <2>1. PICK subject, tool : s = <<subject, tool>>
    BY DEF PlannedSteps
  <2>2. subject \in Subjects /\ tool \in Tools /\ Behind(subject, tool)
    BY <1>1, <2>1, PlannedStepsAreTyped, AllStepsBehind
  <2> QED
    BY <1>1, <2>1, <2>2 DEF StepsOK
<1>4. {<<r.subject, r.tool>> : r \in results} = PlannedSteps
  BY <1>2, <1>3
<1>5. /\ step \in [results -> PlannedSteps]
      /\ \A r, q \in results : step[r] = step[q] => r = q
      /\ \A s \in PlannedSteps : \E r \in results : step[r] = s
  BY <1>1, <1>2, <1>3 DEF StepsOK
<1> HIDE DEF step
<1>6. Cardinality(results) = Cardinality(PlannedSteps)
  BY <1>1, <1>5, PlannedStepsAreFinite, SameSize
<1> QED
  BY <1>4, <1>6


(* The step of the plan that a result is of. *)
LEMMA StepsHaveResults ==
  ASSUME ValidationRunAssumption, ValidationOK, at.tool = "done",
         NEW subject, NEW tool, <<subject, tool>> \in PlannedSteps
  PROVE  \E r \in results : r.subject = subject /\ r.tool = tool
BY AllStepsBehind, PlannedStepsAreTyped DEF ValidationOK, CommandOK, StepsOK

LEMMA NoFindingsIsChecked ==
  ASSUME ValidationRunAssumption, NilIsNoAnswer, ValidationOK
  PROVE  NoFindingsMeansChecked
<1> SUFFICES ASSUME report.outcome = "NO_FINDINGS"
             PROVE  /\ plan.targets > 0 \/ plan.resources # {}
                    /\ \A target \in 1 .. plan.targets, tool \in {"fmt", "init", "validate"} :
                         Opinion(target, tool, "valid") \in said
                    /\ \A resource \in plan.resources :
                         \E verdict \in {"valid", "missing"} :
                           Opinion(resource, "kubeconform", verdict) \in said
  BY DEF NoFindingsMeansChecked
<1>1. at.tool = "done" /\ Outcome = "NO_FINDINGS"
  BY NilIsNoAnswer DEF ValidationOK, ReportOK, NoReport, NilIsNoAnswer
<1>2. /\ WithStatus({"FAIL"}) = {}
      /\ ~Inconclusive
  BY <1>1 DEF Outcome
<1>3. \A r \in results : /\ r.status \in Statuses /\ r.status # "FAIL"
                         /\ r.tool # "tflint" => r.status # "ERROR"
                         /\ Backed(r, results)
  BY <1>2 DEF WithStatus, Inconclusive, Required, ValidationOK, StepsOK, ResultsOK
<1>4. \A r \in results : r.status # "SKIPPED"
  BY <1>3 DEF Backed, ResultOf
<1>5. \A r \in results : r.tool # "tflint" =>
        \/ r.status = "PASS" /\ Opinion(r.subject, r.tool, "valid") \in said
        \/ r.tool = "kubeconform" /\ Opinion(r.subject, r.tool, "missing") \in said
  BY <1>3, <1>4 DEF Backed, Statuses
<1>6. plan.targets > 0 \/ plan.resources # {}
  <2>1. PICK r \in results : TRUE
    BY <1>2 DEF Inconclusive, WithStatus
  <2>2. <<r.subject, r.tool>> \in PlannedSteps
    BY <1>1, AllStepsBehind DEF ValidationOK, StepsOK
  <2>3. r.subject \in 1 .. plan.targets \/ r.subject \in plan.resources
    BY <2>2 DEF PlannedSteps
  <2>4. plan.targets \in Nat
    BY DEF ValidationOK, CommandOK, TurnOK, ValidationRunAssumption
  <2> QED
    BY <2>3, <2>4
<1>7. ASSUME NEW target \in 1 .. plan.targets, NEW tool \in {"fmt", "init", "validate"}
      PROVE  Opinion(target, tool, "valid") \in said
  <2>1. <<target, tool>> \in PlannedSteps
    BY DEF PlannedSteps
  <2>2. PICK r \in results : r.subject = target /\ r.tool = tool
    BY <1>1, <2>1, StepsHaveResults
  <2> QED
    BY <1>5, <2>2
<1>8. ASSUME NEW resource \in plan.resources
      PROVE  \E verdict \in {"valid", "missing"} : Opinion(resource, "kubeconform", verdict) \in said
  <2>1. <<resource, "kubeconform">> \in PlannedSteps
    BY DEF PlannedSteps
  <2>2. PICK r \in results : r.subject = resource /\ r.tool = "kubeconform"
    BY <1>1, <2>1, StepsHaveResults
  <2> QED
    BY <1>5, <2>2
<1> QED
  BY <1>6, <1>7, <1>8

LEMMA CompleteIsJudged ==
  ASSUME ValidationRunAssumption, NilIsNoAnswer, ValidationOK
  PROVE  CompleteMeansJudged
<1> SUFFICES ASSUME report.coverage = "COMPLETE", NEW s \in PlannedSteps
             PROVE  \E verdict \in {"valid", "invalid"} : Opinion(s[1], s[2], verdict) \in said
  BY DEF CompleteMeansJudged
<1>1. at.tool = "done" /\ Coverage = "COMPLETE"
  BY NilIsNoAnswer DEF ValidationOK, ReportOK, NoReport, NilIsNoAnswer
<1>2. WithStatus(Partial) = {}
  BY <1>1 DEF Coverage
<1>3. \A r \in results : r.status \in Statuses /\ r.status \notin Partial /\ Backed(r, results)
  BY <1>2 DEF WithStatus, ValidationOK, StepsOK, ResultsOK
<1>4. \A r \in results : r.status # "SKIPPED"
  BY <1>3 DEF Backed, ResultOf, Partial
<1>5. PICK subject, tool : s = <<subject, tool>>
  BY DEF PlannedSteps
<1>6. PICK r \in results : r.subject = subject /\ r.tool = tool
  BY <1>1, <1>5, StepsHaveResults
<1>7. r.status \in {"PASS", "FAIL"}
  BY <1>3, <1>4 DEF Statuses, Partial
<1> QED
  BY <1>3, <1>5, <1>6, <1>7 DEF Backed

LEMMA FindingsAreInTheOutcome ==
  ASSUME ValidationOK
  PROVE  FindingsSurviveFailures
<1> SUFFICES ASSUME at.tool = "done", NEW o \in said, o.verdict = "invalid"
             PROVE  report.outcome = "FINDINGS"
  BY DEF FindingsSurviveFailures
<1>1. call = "idle"
  BY DEF ValidationOK, CommandOK, CallOK, Tools, TargetTools
<1>2. ResultOf(o.subject, o.tool, "FAIL") \in results
  BY <1>1 DEF ValidationOK, FindingsKept, Unjudged
<1>3. ResultOf(o.subject, o.tool, "FAIL").status = "FAIL"
  BY DEF ResultOf
<1>4. Outcome = "FINDINGS"
  BY <1>2, <1>3 DEF Outcome, WithStatus
<1> QED
  BY <1>4 DEF ValidationOK, ReportOK

(* Every planned step has exactly one result when Execute is done (engine.go
   59-114), for any plan, whatever the tools do and however they end. *)
THEOREM StepsAreCovered == Spec => []OneResultPerStep
<1>1. ValidationOK => OneResultPerStep
  BY ResultsCoverThePlan, ValidationRunAssumption
<1> QED
  BY <1>1, ValidationStaysOK, PTL DEF Spec, Safety

(* NO_FINDINGS is what the tools have said of the commit (service.go 347-376), also
   those that said it when their time was over. *)
THEOREM NoFindingsIsEarned == Spec => []NoFindingsMeansChecked
<1>1. ValidationOK => NoFindingsMeansChecked
  BY NoFindingsIsChecked, ValidationRunAssumption, NilIsNoAnswer
<1> QED
  BY <1>1, ValidationStaysOK, PTL DEF Spec, Safety

(* COMPLETE is a coverage of verdicts (service.go 348-368). *)
THEOREM CompleteIsEarned == Spec => []CompleteMeansJudged
<1>1. ValidationOK => CompleteMeansJudged
  BY CompleteIsJudged, ValidationRunAssumption, NilIsNoAnswer
<1> QED
  BY <1>1, ValidationStaysOK, PTL DEF Spec, Safety

(* What a tool has found wrong is never lost to a failure that comes after it. *)
THEOREM FindingsSurvive == Spec => []FindingsSurviveFailures
<1>1. ValidationOK => FindingsSurviveFailures
  BY FindingsAreInTheOutcome
<1> QED
  BY <1>1, ValidationStaysOK, PTL DEF Spec, Safety


-----------------------------------------------------------------------------
(* The report of an attempt                                                *)

reportAll == <<vars, reportVars>>

ReportSafety == ReportInit /\ [][ReportNext]_reportAll

(* A report does nothing to the validation that it is about. *)
LEMMA ReportStepsAreSteps ==
  ASSUME [ReportNext]_reportAll
  PROVE  [Next]_vars
<1>1. CASE PlanWithLockfiles
  BY <1>1 DEF PlanWithLockfiles, Next
<1>2. CASE InitLocks \/ Review \/ Evaluate \/ UNCHANGED reportAll
  BY <1>2 DEF InitLocks, Review, Evaluate, reportAll
<1>3. CASE JudgeAndExplain
  BY <1>3 DEF JudgeAndExplain, Next
<1>4. CASE StartTool \/ RunnerStep \/ Conclude
             \/ ToolWrites \/ ToolExits \/ Descendants \/ Kill \/ CancelAttempt
  BY <1>4 DEF Next
<1> QED
  BY <1>1, <1>2, <1>3, <1>4 DEF ReportNext

(* Every attempt that reports is a validation: what holds of ValidationRun holds
   of it, whatever the provenance, the review and the evaluation add. *)
THEOREM ReportsAreValidations == ReportSpec => Init /\ [][Next]_vars
<1>1. ReportInit => Init
  BY DEF ReportInit
<1>2. [ReportNext]_reportAll => [Next]_vars
  BY ReportStepsAreSteps
<1> QED
  BY <1>1, <1>2, PTL DEF ReportSpec, reportAll

(* What there is before a review, and what stays when there is one. *)
StagesOK ==
  /\ diagnostics \subseteq [subject : Subjects, tool : Tools, nth : {1, 2}]
  /\ review = NotYet => evaluation = NotYet
  /\ review # NotYet => at.tool = "done"

Findings(fits) == {[about |-> d, cites |-> IF fits THEN {d} ELSE {}] : d \in diagnostics}

ReviewOK ==
  review # NotYet =>
    \/ review = [status |-> "UNAVAILABLE"]
    \/ \E fits \in BOOLEAN : review = [status |-> "COMPLETED", findings |-> Findings(fits)]

EvaluationOK ==
  evaluation # NotYet /\ HasFindings =>
    \E available \in BOOLEAN : evaluation.items = Items(review.findings, available)

(* Diagnostics are about the steps that were judged. *)
LEMMA ConversionsAreDiagnostics ==
  ASSUME ValidationRunAssumption, TurnOK, at.tool \in TargetTools, NEW status,
         NEW new \in Convert(at.tool, status)
  PROVE  new \subseteq [subject : Subjects, tool : Tools, nth : {1, 2}]
<1>1. at.target \in Subjects /\ at.tool \in Tools
  BY DEF TurnOK, Subjects, Tools, ValidationRunAssumption
<1>2. \A d \in new : d = About(at.target, at.tool, 1)
  BY DEF Convert
<1> QED
  BY <1>1, <1>2 DEF About

LEMMA ModulesAreDiagnosed ==
  ASSUME ValidationRunAssumption, TurnOK, at.tool = "modules", NEW m \in ModulesOutcomes
  PROVE  m[1] \subseteq [subject : Subjects, tool : Tools, nth : {1, 2}]
<1>1. at.target \in Subjects /\ "modules" \in Tools
  BY DEF TurnOK, Subjects, Tools, TargetTools, ValidationRunAssumption
<1>2. m[1] = {} \/ m[1] = {About(at.target, "modules", 1)}
  BY DEF ModulesOutcomes
<1> QED
  BY <1>1, <1>2 DEF About

LEMMA KubeDiagnosticsAreDiagnostics ==
  ASSUME ValidationRunAssumption, TurnOK
  PROVE  KubeDiagnostics \subseteq [subject : Subjects, tool : Tools, nth : {1, 2}]
<1>1. plan.resources \subseteq Subjects /\ "kubeconform" \in Tools
  BY DEF TurnOK, Subjects, Tools
<1>2. \A d \in KubeDiagnostics : \E r \in plan.resources, nth \in {1, 2} :
        d = About(r, "kubeconform", nth)
  BY DEF KubeDiagnostics, Recorded
<1> QED
  BY <1>1, <1>2 DEF About

LEMMA JudgingKeepsStages ==
  ASSUME ValidationRunAssumption, CommandOK, StagesOK, JudgeAndExplain
  PROVE  StagesOK' /\ review = NotYet
<1>1. /\ at.tool \in Tools /\ TurnOK /\ at.tool # "done"
      /\ UNCHANGED <<review, evaluation>>
  BY DEF JudgeAndExplain, Judge, CommandOK, CallOK, judgement, Tools, TargetTools
<1>2. review = NotYet
  BY <1>1 DEF StagesOK
<1>3. diagnostics' \subseteq [subject : Subjects, tool : Tools, nth : {1, 2}]
  <2>1. CASE at.tool = "modules"
    <3>1. PICK m \in ModulesOutcomes : diagnostics' = diagnostics \cup m[1]
      BY <2>1 DEF JudgeAndExplain
    <3> QED
      BY <1>1, <2>1, <3>1, ModulesAreDiagnosed DEF StagesOK
  <2>2. CASE at.tool = "kubeconform"
    <3>1. diagnostics' = diagnostics \cup KubeDiagnostics
      BY <2>2 DEF JudgeAndExplain
    <3> QED
      BY <1>1, <3>1, KubeDiagnosticsAreDiagnostics DEF StagesOK
  <2>3. CASE at.tool \notin {"modules", "kubeconform"}
    <3>1. PICK new \in Convert(at.tool, StatusOf(at.tool)) : diagnostics' = diagnostics \cup new
      BY <2>3 DEF JudgeAndExplain
    <3>2. at.tool \in TargetTools
      BY <1>1, <2>3 DEF Tools
    <3> QED
      BY <1>1, <3>1, <3>2, ConversionsAreDiagnostics DEF StagesOK
  <2> QED
    BY <2>1, <2>2, <2>3
<1> QED
  BY <1>1, <1>2, <1>3 DEF StagesOK, Subjects, Tools, TargetTools

(* Once there is a review nothing of the validation changes any more. *)
LEMMA ReviewedIsFinal ==
  ASSUME CommandOK, StagesOK, [ReportNext]_reportAll, review # NotYet
  PROVE  UNCHANGED <<at, plan, results, report, said, diagnostics, review>>
<1>1. at.tool = "done" /\ call = "idle" /\ process = Nil /\ ~held
  BY DEF StagesOK, CommandOK, CallOK, GroupIsGone, Waited, Tools, TargetTools
<1>2. ~PlanWithLockfiles /\ ~JudgeAndExplain /\ ~Conclude /\ ~StartTool /\ ~Review
  BY <1>1 DEF PlanWithLockfiles, BuildPlan, JudgeAndExplain, Judge, Conclude, StartTool, Review, Tools, TargetTools
<1>3. CASE ToolWrites \/ ToolExits
  BY <1>1, <1>3, CommandRunnerAssumption DEF ToolWrites, ToolExits, Write, Exit, CommandRunnerAssumption
<1>4. CASE (RunnerStep \/ Descendants \/ Kill \/ CancelAttempt) /\ UNCHANGED reportVars
  BY <1>4 DEF RunnerStep, Descendants, Kill, CancelAttempt, progress, reportVars, judgement
<1>5. CASE InitLocks \/ Evaluate \/ UNCHANGED reportAll
  BY <1>5 DEF InitLocks, Evaluate, reportAll, vars, progress, reportVars, judgement
<1> QED
  BY <1>2, <1>3, <1>4, <1>5 DEF ReportNext

LEMMA NextKeepsStages ==
  ASSUME ValidationRunAssumption, CommandOK, StagesOK, ReviewOK, EvaluationOK, [ReportNext]_reportAll
  PROVE  StagesOK' /\ ReviewOK' /\ EvaluationOK'
<1>1. CASE JudgeAndExplain
  <2>1. StagesOK' /\ review = NotYet /\ UNCHANGED <<review, evaluation>>
    BY <1>1, JudgingKeepsStages DEF JudgeAndExplain, judgement
  <2> QED
    BY <2>1 DEF StagesOK, ReviewOK, EvaluationOK, NotYet
<1>2. CASE Review
  <2>1. /\ review = NotYet /\ at.tool = "done" /\ UNCHANGED <<at, diagnostics, evaluation>>
        /\ evaluation = NotYet
    BY <1>2 DEF Review, vars, progress, StagesOK
  <2>2. \/ review' = [status |-> "UNAVAILABLE"]
        \/ \E fits \in BOOLEAN : review' = [status |-> "COMPLETED", findings |-> Findings(fits)]
    BY <1>2 DEF Review, Findings
  <2>3. \A fits : Findings(fits)' = Findings(fits)
    BY <2>1 DEF Findings
  <2> QED
    BY <2>1, <2>2, <2>3 DEF StagesOK, ReviewOK, EvaluationOK, NotYet, Subjects, Tools, TargetTools
<1>3. CASE Evaluate
  <2>1. review # NotYet /\ UNCHANGED <<at, diagnostics, review>>
    BY <1>3 DEF Evaluate, vars, progress
  <2>2. \A fits : Findings(fits)' = Findings(fits)
    BY <2>1 DEF Findings
  <2>3. StagesOK' /\ ReviewOK'
    BY <2>1, <2>2 DEF StagesOK, ReviewOK, NotYet, Subjects, Tools, TargetTools
  <2>4. HasFindings' <=> HasFindings
    BY <2>1 DEF HasFindings
  <2>5. \A findings, available : Items(findings, available)' = Items(findings, available)
    BY <2>1 DEF Items, Grounded, Item
  <2>6. HasFindings => \E available \in BOOLEAN : evaluation'.items = Items(review.findings, available)
    BY <1>3 DEF Evaluate
  <2> QED
    BY <2>1, <2>3, <2>4, <2>5, <2>6 DEF EvaluationOK
<1>4. CASE ~JudgeAndExplain /\ ~Review /\ ~Evaluate
  <2>1. UNCHANGED <<diagnostics, review, evaluation>>
    BY <1>4 DEF ReportNext, PlanWithLockfiles, InitLocks, reportAll, reportVars, judgement
  <2>2. review # NotYet => at' = at
    BY ReviewedIsFinal
  <2> QED
    BY <2>1, <2>2 DEF StagesOK, ReviewOK, EvaluationOK, Findings, HasFindings, Items, Grounded, Item,
                      NotYet, Subjects, Tools, TargetTools
<1> QED
  BY <1>1, <1>2, <1>3, <1>4


LEMMA InitIsStaged ==
  ASSUME ReportInit
  PROVE  StagesOK /\ ReviewOK /\ EvaluationOK
BY DEF ReportInit, StagesOK, ReviewOK, EvaluationOK

(* There are only finitely many things that a diagnostic can be about. *)
LEMMA DiagnosticsAreFinite ==
  ASSUME ValidationRunAssumption, StagesOK
  PROVE  IsFiniteSet(diagnostics)
<1> DEFINE all   == [subject : Subjects, tool : Tools, nth : {1, 2}]
           names == (Subjects \X Tools) \X {1, 2}
           name  == [d \in all |-> <<<<d.subject, d.tool>>, d.nth>>]
<1>1. IsFiniteSet(Subjects)
  <2>1. IsFiniteSet(1 .. MaxTargets)
    BY FS_Interval DEF ValidationRunAssumption
  <2> QED
    BY <2>1, FS_Union DEF Subjects, ValidationRunAssumption
<1>2. IsFiniteSet({"validate"} \cup {"fmt"} \cup {"init"})
  <2>1. IsFiniteSet({"validate"})
    BY FS_Singleton
  <2>2. IsFiniteSet({"validate"} \cup {"fmt"})
    BY <2>1, FS_AddElement
  <2> QED
    BY <2>2, FS_AddElement
<1>3. IsFiniteSet(({"validate"} \cup {"fmt"} \cup {"init"}) \cup {"tflint"} \cup {"modules"} \cup {"kubeconform"})
  <2>1. IsFiniteSet(({"validate"} \cup {"fmt"} \cup {"init"}) \cup {"tflint"})
    BY <1>2, FS_AddElement
  <2>2. IsFiniteSet(({"validate"} \cup {"fmt"} \cup {"init"}) \cup {"tflint"} \cup {"modules"})
    BY <2>1, FS_AddElement
  <2> QED
    BY <2>2, FS_AddElement
<1>4. IsFiniteSet(Tools)
  <2>1. Tools = ({"validate"} \cup {"fmt"} \cup {"init"}) \cup {"tflint"} \cup {"modules"} \cup {"kubeconform"}
    BY DEF Tools, TargetTools
  <2> QED
    BY <1>3, <2>1
<1>5. IsFiniteSet({1, 2})
  <2>0. IsFiniteSet({1})
    BY FS_Singleton
  <2>1. IsFiniteSet({1} \cup {2})
    BY <2>0, FS_AddElement
  <2>2. {1} \cup {2} = {1, 2}
    OBVIOUS
  <2> QED
    BY <2>1, <2>2
<1>6. IsFiniteSet(names)
  <2>1. IsFiniteSet(Subjects \X Tools)
    BY <1>1, <1>4, FS_Product
  <2> QED
    BY <1>5, <2>1, FS_Product
<1>7. name \in [all -> names]
  OBVIOUS
<1>8. \A x, y \in all : name[x] = name[y] => x = y
  OBVIOUS
<1>9. \A z \in names : \E x \in all : name[x] = z
  <2> SUFFICES ASSUME NEW z \in names
               PROVE  \E x \in all : name[x] = z
    OBVIOUS
  <2>1. PICK step \in Subjects \X Tools, n \in {1, 2} : z = <<step, n>>
    OBVIOUS
  <2>2. PICK s \in Subjects, t \in Tools : step = <<s, t>>
    OBVIOUS
  <2>3. [subject |-> s, tool |-> t, nth |-> n] \in all
    OBVIOUS
  <2>4. name[[subject |-> s, tool |-> t, nth |-> n]] = <<<<s, t>>, n>>
    BY <2>3
  <2> QED
    BY <2>1, <2>2, <2>3, <2>4
<1> HIDE DEF all, names, name
<1>10. IsFiniteSet(all)
  BY <1>6, <1>7, <1>8, <1>9, SameSize
<1> QED
  BY <1>10, FS_Subset DEF StagesOK, all

LEMMA FindingsAreFinite ==
  ASSUME ValidationRunAssumption, StagesOK, NEW fits \in BOOLEAN
  PROVE  IsFiniteSet(Findings(fits))
<1> DEFINE about == [f \in Findings(fits) |-> f.about]
<1>1. about \in [Findings(fits) -> diagnostics]
  BY DEF Findings
<1>2. \A x, y \in Findings(fits) : about[x] = about[y] => x = y
  <2> SUFFICES ASSUME NEW x \in Findings(fits), NEW y \in Findings(fits), x.about = y.about
               PROVE  x = y
    OBVIOUS
  <2>1. PICK d \in diagnostics : x = [about |-> d, cites |-> IF fits THEN {d} ELSE {}]
    BY DEF Findings
  <2>2. PICK e \in diagnostics : y = [about |-> e, cites |-> IF fits THEN {e} ELSE {}]
    BY DEF Findings
  <2>3. x.about = d /\ y.about = e
    BY <2>1, <2>2
  <2> QED
    BY <2>1, <2>2, <2>3
<1>3. \A d \in diagnostics : \E x \in Findings(fits) : about[x] = d
  <2> SUFFICES ASSUME NEW d \in diagnostics
               PROVE  \E x \in Findings(fits) : about[x] = d
    OBVIOUS
  <2>1. [about |-> d, cites |-> IF fits THEN {d} ELSE {}] \in Findings(fits)
    BY DEF Findings
  <2>2. about[[about |-> d, cites |-> IF fits THEN {d} ELSE {}]] = d
    BY <2>1
  <2> QED
    BY <2>1, <2>2
<1>4. IsFiniteSet(diagnostics)
  BY DiagnosticsAreFinite
<1> HIDE DEF about
<1> QED
  BY <1>1, <1>2, <1>3, <1>4, SameSize

(* The verdicts of an evaluation: one for each finding. *)
LEMMA ItemsAreOfFindings ==
  ASSUME NEW findings, NEW available \in BOOLEAN
  PROVE  /\ \A i \in Items(findings, available) :
              /\ i.finding \in findings
              /\ i.verdict = "UNSUPPORTED" <=> i.finding \notin Grounded(findings)
              /\ i.verdict # "UNSUPPORTED" =>
                   i.verdict = IF available THEN "SUPPORTED" ELSE "NOT_EVALUATED"
              /\ i = Item(i.finding, i.verdict)
         /\ \A f \in findings : \E i \in Items(findings, available) : i.finding = f
<1>1. \A f \in Grounded(findings) : f \in findings
  BY DEF Grounded
<1> DEFINE judged == IF available THEN "SUPPORTED" ELSE "NOT_EVALUATED"
<1>2. Items(findings, available) =
        {Item(f, "UNSUPPORTED") : f \in findings \ Grounded(findings)}
          \cup {Item(f, judged) : f \in Grounded(findings)}
  BY DEF Items
<1>3. judged # "UNSUPPORTED"
  OBVIOUS
<1> HIDE DEF judged
<1>4. \A f, v : Item(f, v).finding = f /\ Item(f, v).verdict = v
  BY DEF Item
<1>5. \A i \in Items(findings, available) :
        \/ i = Item(i.finding, "UNSUPPORTED") /\ i.finding \in findings \ Grounded(findings)
             /\ i.verdict = "UNSUPPORTED"
        \/ i = Item(i.finding, judged) /\ i.finding \in Grounded(findings) /\ i.verdict = judged
  BY <1>2, <1>4
<1>6. \A f \in findings : \E i \in Items(findings, available) : i.finding = f
  <2> SUFFICES ASSUME NEW f \in findings
               PROVE  \E i \in Items(findings, available) : i.finding = f
    OBVIOUS
  <2>1. CASE f \in Grounded(findings)
    BY <1>2, <1>4, <2>1
  <2>2. CASE f \notin Grounded(findings)
    BY <1>2, <1>4, <2>2
  <2> QED
    BY <2>1, <2>2
<1>7. \A i \in Items(findings, available) :
        /\ i.finding \in findings
        /\ i.verdict = "UNSUPPORTED" <=> i.finding \notin Grounded(findings)
        /\ i.verdict # "UNSUPPORTED" => i.verdict = judged
        /\ i = Item(i.finding, i.verdict)
  BY <1>1, <1>3, <1>5
<1> QED
  BY <1>6, <1>7 DEF judged

LEMMA EvaluationsAreComplete ==
  ASSUME ValidationRunAssumption, StagesOK, ReviewOK, EvaluationOK
  PROVE  FindingsAreJudgedOnce
<1> SUFFICES ASSUME evaluation # NotYet, HasFindings
             PROVE  /\ {i.finding : i \in evaluation.items} = review.findings
                    /\ Cardinality(evaluation.items) = Cardinality(review.findings)
  BY DEF FindingsAreJudgedOnce
<1>1. PICK available \in BOOLEAN : evaluation.items = Items(review.findings, available)
  BY DEF EvaluationOK
<1>2. PICK fits \in BOOLEAN : review.findings = Findings(fits)
  BY DEF StagesOK, ReviewOK, HasFindings
<1> DEFINE items    == Items(review.findings, available)
           finding == [i \in items |-> i.finding]
<1>3. /\ \A i \in items : i.finding \in review.findings
      /\ \A f \in review.findings : \E i \in items : i.finding = f
      /\ \A i, j \in items : i.finding = j.finding => i.verdict = j.verdict
      /\ \A i \in items : i = Item(i.finding, i.verdict)
  BY ItemsAreOfFindings
<1> HIDE DEF items
<1>4. {i.finding : i \in items} = review.findings
  BY <1>3
<1>5. /\ finding \in [items -> review.findings]
      /\ \A i, j \in items : finding[i] = finding[j] => i = j
      /\ \A f \in review.findings : \E i \in items : finding[i] = f
  BY <1>3
<1>6. IsFiniteSet(review.findings)
  BY <1>2, FindingsAreFinite
<1> HIDE DEF finding
<1>7. Cardinality(items) = Cardinality(review.findings)
  BY <1>5, <1>6, SameSize
<1> QED
  BY <1>1, <1>4, <1>7 DEF items


-----------------------------------------------------------------------------
(* Failures and their diagnostics                                          *)

(* What kubeconform has said is in the output of its only command until that is
   judged. *)
KubeconformOK ==
  \A o \in said : o.tool = "kubeconform" =>
    \/ at.tool = "kubeconform" /\ \E line \in output : line.subject = o.subject
    \/ at.tool \in {"outcome", "done"}

Diagnosed(r) == \E d \in diagnostics : d.subject = r.subject /\ d.tool = r.tool

DiagnosedOK == \A r \in WithStatus({"FAIL", "ERROR"}) : Diagnosed(r) \/ PassedOver(r)

LEMMA NextKeepsKubeconform ==
  ASSUME CommandRunnerAssumption, ValidationRunAssumption, ValidationOK, KubeconformOK, [Next]_vars
  PROVE  KubeconformOK'
<1> SUFFICES ASSUME NEW o \in said', o.tool = "kubeconform"
             PROVE  \/ at'.tool = "kubeconform" /\ \E line \in output' : line.subject = o.subject
                    \/ at'.tool \in {"outcome", "done"}
  BY DEF KubeconformOK
<1> USE DEF ValidationOK, CommandOK
<1>1. CASE Judge
  <2>1. o \in said /\ at' = AfterTool(at.tool, StatusOf(at.tool))
    BY <1>1 DEF Judge
  <2>2. at.tool = "kubeconform"
    BY <1>1, <2>1 DEF KubeconformOK, Judge, CallOK, Tools, TargetTools
  <2> QED
    BY <2>1, <2>2 DEF AfterTool
<1>2. CASE ToolWrites
  <2>1. PICK line \in LinesOf(at.tool) :
          /\ said' = said \cup {Opinion(line.subject, at.tool, line.verdict)}
          /\ output' = output \cup {line} /\ at' = at
    BY <1>2 DEF ToolWrites, Write, progress
  <2>2. CASE o \in said
    BY <2>1, <2>2 DEF KubeconformOK
  <2>3. CASE o = Opinion(line.subject, at.tool, line.verdict)
    BY <2>1, <2>3 DEF Opinion
  <2> QED
    BY <2>1, <2>2, <2>3
<1>3. CASE ToolExits
  <2>1. PICK code \in ExitsOf(at.tool) :
          said' = said \cup Meant(at.tool, code) \cup Overdue(at.tool, code)
    BY <1>3 DEF ToolExits
  <2>2. at' = at /\ output' = output
    BY <1>3 DEF ToolExits, Exit, progress
  <2>3. o \in said
    BY <2>1, OverdueIsLate DEF Meant, Opinion
  <2> QED
    BY <2>2, <2>3 DEF KubeconformOK
<1>4. CASE BuildPlan
  <2>1. o \in said /\ at.tool = "plan"
    BY <1>4 DEF BuildPlan
  <2> QED
    BY <2>1 DEF KubeconformOK
<1>5. CASE Conclude
  <2>1. at'.tool = "done"
    BY <1>5 DEF Conclude, TurnOK
  <2> QED
    BY <2>1
<1>6. CASE StartTool
  <2>1. o \in said /\ at' = at /\ output = {}
    BY <1>6 DEF StartTool, Start, progress, CallOK
  <2> QED
    BY <2>1 DEF KubeconformOK
<1>7. CASE RunnerStep \/ Descendants \/ Kill \/ CancelAttempt \/ UNCHANGED vars
  <2>1. o \in said /\ at' = at /\ output' = output
    BY <1>7 DEF RunnerStep, RunStep, Finished, Interrupted, FinishedInGrace, GraceOver, FinishedByForce,
                Descendants, Spawn, DescendantsEnd, Kill, KillByContext, CancelAttempt, Cancel,
                vars, runnerVars, progress
  <2> QED
    BY <2>1 DEF KubeconformOK
<1> QED
  BY <1>1, <1>2, <1>3, <1>4, <1>5, <1>6, <1>7 DEF Next

(* A resource is diagnosed, or kubeconform has ended well without a word of it. *)
LEMMA ResourcesAreDiagnosed ==
  ASSUME ValidationRunAssumption, ValidationOK, KubeconformOK, at.tool = "kubeconform",
         NEW r \in KubeResults, r.status \in {"FAIL", "ERROR"}
  PROVE  \/ \E d \in KubeDiagnostics : d.subject = r.subject /\ d.tool = r.tool
         \/ PassedOver(r)
<1>1. PICK s \in plan.resources : r = ResultOf(s, "kubeconform", ResourceStatus(s))
  BY DEF KubeResults
<1>2. r.subject = s /\ r.tool = "kubeconform" /\ r.status = ResourceStatus(s)
  BY <1>1 DEF ResultOf
<1>3. /\ About(s, "kubeconform", 1).subject = s
      /\ About(s, "kubeconform", 1).tool = "kubeconform"
  BY DEF About
<1>4. CASE s \in Recorded
  <2>1. About(s, "kubeconform", 1) \in KubeDiagnostics
    BY <1>2, <1>4 DEF KubeDiagnostics
  <2> QED
    BY <1>2, <1>3, <2>1
<1>5. CASE s \notin Recorded /\ (exit # 0 \/ Recorded = {})
  <2>1. About(s, "kubeconform", 1) \in KubeDiagnostics
    BY <1>5 DEF KubeDiagnostics
  <2> QED
    BY <1>2, <1>3, <2>1
<1>6. CASE s \notin Recorded /\ exit = 0 /\ Recorded # {}
  <2>1. \A line \in output : line.subject # s
    BY <1>6 DEF Recorded
  <2>2. ResourceStatus(s) = "ERROR"
    BY <2>1 DEF ResourceStatus, Printed
  <2>3. PICK line \in output : line.subject # s
    BY <1>6, <2>1 DEF Recorded
  <2>4. Opinion(line.subject, "kubeconform", line.verdict) \in said
    BY DEF ValidationOK, CommandOK, OutputOK
  <2>5. \E o \in said : o.tool = "kubeconform" /\ o.subject # s
    BY <2>3, <2>4 DEF Opinion
  <2>6. \A o \in said : o.tool = "kubeconform" => o.subject # s
    BY <2>1 DEF KubeconformOK
  <2> QED
    BY <1>2, <2>2, <2>5, <2>6 DEF PassedOver
<1> QED
  BY <1>4, <1>5, <1>6

LEMMA JudgingDiagnoses ==
  ASSUME CommandRunnerAssumption, ValidationRunAssumption, ValidationOK, KubeconformOK, DiagnosedOK,
         JudgeAndExplain
  PROVE  DiagnosedOK'
<1> DEFINE status == StatusOf(at.tool)
<1>1. /\ results' = results \cup ResultsOf(at.tool, status)
      /\ said' = said /\ call = "returned" /\ at.tool \in Tools
  BY DEF JudgeAndExplain, Judge, ValidationOK, CommandOK, CallOK
<1>2. diagnostics \subseteq diagnostics'
  BY DEF JudgeAndExplain
<1>3. \A r : PassedOver(r)' <=> PassedOver(r)
  BY <1>1 DEF PassedOver
<1>4. ASSUME NEW r \in ResultsOf(at.tool, status), r.status \in {"FAIL", "ERROR"}
      PROVE  Diagnosed(r)' \/ PassedOver(r)
  <2>1. CASE at.tool = "kubeconform"
    <3>1. diagnostics' = diagnostics \cup KubeDiagnostics /\ r \in KubeResults
      BY <1>4, <2>1 DEF JudgeAndExplain, ResultsOf
    <3> QED
      BY <1>4, <2>1, <3>1, ResourcesAreDiagnosed DEF Diagnosed
  <2>2. CASE at.tool \in Verifiers
    <3>1. r.subject = at.target /\ r.tool = at.tool /\ r.status = status
      <4>1. r = ResultOf(at.target, at.tool, status)
              \/ r \in {ResultOf(at.target, tool, "SKIPPED") : tool \in {"validate", "tflint"}}
        BY <1>4, <2>2 DEF ResultsOf, InitResults, Verifiers
      <4> QED
        BY <1>4, <4>1 DEF ResultOf
    <3>2. Convert(at.tool, status) = {{About(at.target, at.tool, 1)}}
      BY <1>4, <3>1 DEF Convert
    <3>3. diagnostics' = diagnostics \cup {About(at.target, at.tool, 1)}
      BY <2>2, <3>2 DEF JudgeAndExplain, Verifiers
    <3>4. /\ About(at.target, at.tool, 1).subject = r.subject
          /\ About(at.target, at.tool, 1).tool = r.tool
      BY <3>1 DEF About
    <3> QED
      BY <3>3, <3>4 DEF Diagnosed
  <2>3. CASE at.tool = "modules"
    BY <1>4, <2>3 DEF ResultsOf
  <2> QED
    BY <1>1, <2>1, <2>2, <2>3 DEF Tools, TargetTools, Verifiers
<1>5. \A r : Diagnosed(r) => Diagnosed(r)'
  BY <1>2 DEF Diagnosed
<1> HIDE DEF status
<1> QED
  BY <1>1, <1>3, <1>4, <1>5 DEF DiagnosedOK, WithStatus

(* Nobody diagnoses a second time, and kubeconform says nothing more. *)
LEMMA NextKeepsDiagnosed ==
  ASSUME CommandRunnerAssumption, ValidationRunAssumption, ValidationOK, KubeconformOK, DiagnosedOK,
         [ReportNext]_reportAll
  PROVE  DiagnosedOK'
<1>1. CASE JudgeAndExplain
  BY <1>1, JudgingDiagnoses
<1>2. CASE ~JudgeAndExplain
  <2>1. UNCHANGED <<results, diagnostics>>
    BY <1>2 DEF ReportNext, PlanWithLockfiles, BuildPlan, InitLocks, Review, Evaluate, StartTool, RunnerStep,
                Conclude, ToolWrites, ToolExits, Descendants, Kill, CancelAttempt, reportAll, vars, progress,
                reportVars
  <2>2. \A r : Diagnosed(r)' <=> Diagnosed(r)
    BY <2>1 DEF Diagnosed
  <2>3. ASSUME NEW r \in results, PassedOver(r)
        PROVE  PassedOver(r)'
    <3>1. Behind(r.subject, "kubeconform")
      BY <2>3 DEF ValidationOK, StepsOK, PassedOver
    <3>2. at.tool \in {"outcome", "done"}
      BY <3>1 DEF Behind, Verifiers
    <3>3. call = "idle" /\ process = Nil /\ ~held
      BY <3>2 DEF ValidationOK, CommandOK, CallOK, GroupIsGone, Waited, Tools, TargetTools
    <3>4. said' = said
      BY <1>2, <3>2, <3>3
         DEF ReportNext, PlanWithLockfiles, BuildPlan, InitLocks, Review, Evaluate, StartTool, RunnerStep,
             Conclude, ToolWrites, Write, ToolExits, Exit, Descendants, Kill, CancelAttempt, reportAll, vars,
             CommandRunnerAssumption
    <3> QED
      BY <2>3, <3>4 DEF PassedOver
  <2> QED
    BY <2>1, <2>2, <2>3 DEF DiagnosedOK, WithStatus
<1> QED
  BY <1>1, <1>2

LEMMA FailuresAreReviewed ==
  ASSUME StagesOK, ReviewOK, EvaluationOK, DiagnosedOK
  PROVE  FailuresReachTheReview
<1> SUFFICES ASSUME evaluation # NotYet, review.status = "COMPLETED",
                    NEW r \in WithStatus({"FAIL", "ERROR"}), Diagnosed(r)
             PROVE  \E i \in evaluation.items :
                      /\ <<i.finding.about.subject, i.finding.about.tool>> = <<r.subject, r.tool>>
                      /\ i.verdict = "UNSUPPORTED" => \A f \in review.findings : f.cites = {}
  BY DEF FailuresReachTheReview, DiagnosedOK
<1>1. PICK fits \in BOOLEAN : review = [status |-> "COMPLETED", findings |-> Findings(fits)]
  BY DEF StagesOK, ReviewOK
<1>2. HasFindings /\ review.findings = Findings(fits)
  BY <1>1 DEF HasFindings
<1>3. PICK available \in BOOLEAN : evaluation.items = Items(Findings(fits), available)
  BY <1>2 DEF EvaluationOK
<1>4. PICK d \in diagnostics : d.subject = r.subject /\ d.tool = r.tool
  BY DEF Diagnosed
<1>5. PICK f \in Findings(fits) : f = [about |-> d, cites |-> IF fits THEN {d} ELSE {}]
  BY DEF Findings
<1>6. PICK i \in Items(Findings(fits), available) : i.finding = f
  BY ItemsAreOfFindings
<1>7. i.verdict = "UNSUPPORTED" => ~fits
  <2>1. fits => f.cites = {d}
    BY <1>5
  <2>2. i.verdict = "UNSUPPORTED" => f \notin Grounded(Findings(fits))
    BY <1>6, ItemsAreOfFindings
  <2> QED
    BY <2>1, <2>2 DEF Grounded
<1>8. ~fits => \A g \in Findings(fits) : g.cites = {}
  BY DEF Findings
<1>9. i.finding.about = d
  BY <1>5, <1>6
<1> QED
  BY <1>2, <1>3, <1>4, <1>7, <1>8, <1>9


-----------------------------------------------------------------------------
(* Provenance                                                              *)

(* The targets whose last command is behind. *)
Ended(target) ==
  /\ target \in 1 .. plan.targets
  /\ \/ at.tool \in {"kubeconform", "outcome", "done"}
     \/ at.tool \in TargetTools /\ target < at.target

(* Validators run on targets that terraform has called initialised. *)
PreparedOK ==
  at.tool \in {"validate", "tflint", "modules"} => Opinion(at.target, "init", "valid") \in said

(* The commit's own lock files are never written to. *)
LocksOK ==
  /\ locked \subseteq 1 .. MaxTargets
  /\ DOMAIN lockfile = 1 .. MaxTargets
  /\ \A target \in locked : lockfile[target] = "source"

DependenciesOK ==
  /\ \A d \in dependencies :
       /\ Ended(d.target)
       /\ "SOURCE" = d.origin \/ d.providers = "COMPLETE" => d.target \in locked
       /\ d.modules = "COMPLETE" => Opinion(d.target, "init", "valid") \in said
  /\ \A target \in 1 .. plan.targets : Ended(target) => \E d \in dependencies : d.target = target
  /\ \A d, e \in dependencies : d.target = e.target => d = e

ProvenanceOK == PreparedOK /\ LocksOK /\ DependenciesOK

IsLast(tool, status) == tool = "modules" \/ (tool = "init" /\ status # "PASS")

LEMMA JudgingEndsTargets ==
  ASSUME ValidationRunAssumption, TurnOK, at.tool \in Tools, NEW status,
         plan' = plan, at' = AfterTool(at.tool, status), NEW target
  PROVE  Ended(target)' <=> Ended(target) \/ (target = at.target /\ IsLast(at.tool, status))
<1>1. /\ at.tool \in TargetTools => at.target \in 1 .. plan.targets
      /\ plan.targets \in Nat
  BY DEF TurnOK, ValidationRunAssumption
<1>2. CASE at.tool = "kubeconform"
  <2>1. at'.tool = "outcome"
    BY <1>2 DEF AfterTool
  <2> QED
    BY <1>2, <2>1 DEF Ended, IsLast
<1>3. CASE IsLast(at.tool, status)
  <2>1. at.tool \in TargetTools /\ at' = AfterTarget(plan, at.target)
    BY <1>3 DEF IsLast, AfterTool, TargetTools
  <2>2. Ended(target) <=> target \in 1 .. plan.targets /\ target < at.target
    BY <2>1 DEF Ended, TargetTools
  <2>3. CASE at.target < plan.targets
    <3>1. at'.tool = "fmt" /\ at'.target = at.target + 1
      BY <2>1, <2>3 DEF AfterTarget
    <3>2. Ended(target)' <=> target \in 1 .. plan.targets /\ target < at.target + 1
      BY <3>1 DEF Ended, TargetTools
    <3> QED
      BY <1>1, <1>3, <2>1, <2>2, <3>2
  <2>4. CASE ~(at.target < plan.targets)
    <3>1. at'.tool \in {"kubeconform", "outcome"}
      BY <2>1, <2>4 DEF AfterTarget
    <3>2. Ended(target)' <=> target \in 1 .. plan.targets
      BY <3>1 DEF Ended
    <3> QED
      BY <1>1, <1>3, <2>1, <2>2, <2>4, <3>2
  <2> QED
    BY <2>3, <2>4
<1>4. CASE at.tool # "kubeconform" /\ ~IsLast(at.tool, status)
  <2>1. /\ at' = [at EXCEPT !.tool = Following[at.tool]]
        /\ at.tool \in {"fmt", "init", "validate", "tflint"}
    BY <1>4 DEF AfterTool, IsLast, Tools, TargetTools
  <2>2. /\ at'.target = at.target
        /\ at'.tool \in TargetTools /\ at.tool \in TargetTools
    BY <2>1 DEF TurnOK, Following, TargetTools
  <2> QED
    BY <1>4, <2>2 DEF Ended, TargetTools
<1> QED
  BY <1>2, <1>3, <1>4

LEMMA NextKeepsPrepared ==
  ASSUME CommandRunnerAssumption, ValidationRunAssumption, ValidationOK, PreparedOK, [Next]_vars
  PROVE  PreparedOK'
<1>1. CASE Judge
  <2>1. /\ at' = AfterTool(at.tool, StatusOf(at.tool)) /\ said' = said /\ call = "returned"
        /\ at.tool \in Tools /\ TurnOK
    BY <1>1 DEF Judge, ValidationOK, CommandOK, CallOK
  <2>2. CASE IsLast(at.tool, StatusOf(at.tool)) \/ at.tool = "kubeconform"
    <3>1. at'.tool \in {"fmt", "kubeconform", "outcome"}
      BY <2>1, <2>2 DEF IsLast, AfterTool, AfterTarget
    <3> QED
      BY <3>1 DEF PreparedOK
  <2>3. CASE ~IsLast(at.tool, StatusOf(at.tool)) /\ at.tool # "kubeconform"
    <3>1. /\ at' = [at EXCEPT !.tool = Following[at.tool]]
          /\ at.tool \in {"fmt", "init", "validate", "tflint"}
      BY <2>1, <2>3 DEF AfterTool, IsLast, Tools, TargetTools
    <3>2. at'.target = at.target /\ at'.tool = Following[at.tool]
      BY <2>1, <3>1 DEF TurnOK
    <3>3. CASE at.tool = "init"
      <4>1. StatusOf(at.tool) = "PASS"
        BY <2>3, <3>3 DEF IsLast
      <4>2. Opinion(at.target, "init", "valid") \in said
        BY <2>1, <3>3, <4>1, StatusIsSaid DEF ValidationOK, TargetTools
      <4> QED
        BY <2>1, <3>2, <4>2 DEF PreparedOK, Opinion
    <3>4. CASE at.tool \in {"validate", "tflint"}
      BY <2>1, <3>2, <3>4 DEF PreparedOK, Opinion
    <3>5. CASE at.tool = "fmt"
      BY <3>2, <3>5 DEF PreparedOK, Following
    <3> QED
      BY <3>1, <3>3, <3>4, <3>5
  <2> QED
    BY <2>2, <2>3
<1>2. CASE BuildPlan
  <2>1. at'.tool \in {"fmt", "kubeconform", "outcome", "failed"}
    BY <1>2 DEF BuildPlan, AfterTarget, ValidationOK, CommandOK, TurnOK
  <2> QED
    BY <2>1 DEF PreparedOK
<1>3. CASE Conclude
  <2>1. at'.tool = "done"
    BY <1>3 DEF Conclude, ValidationOK, CommandOK, TurnOK
  <2> QED
    BY <2>1 DEF PreparedOK
<1>4. CASE ~Judge /\ ~BuildPlan /\ ~Conclude
  <2>1. at' = at /\ said \subseteq said'
    BY <1>4 DEF Next, vars, progress, StartTool, RunnerStep, Descendants, Kill, CancelAttempt,
                ToolWrites, ToolExits
  <2> QED
    BY <2>1 DEF PreparedOK, Opinion
<1> QED
  BY <1>1, <1>2, <1>3, <1>4

LEMMA NextKeepsLocks ==
  ASSUME ValidationRunAssumption, TurnOK, LocksOK, [ReportNext]_reportAll
  PROVE  LocksOK'
<1>1. CASE PlanWithLockfiles
  <2>1. plan'.targets \in 0 .. MaxTargets
    BY <1>1, PlansAreTurns DEF PlanWithLockfiles, TurnOK
  <2>2. /\ locked' \subseteq 1 .. plan'.targets
        /\ lockfile' = [target \in 1 .. MaxTargets |-> IF target \in locked' THEN "source" ELSE "none"]
    BY <1>1 DEF PlanWithLockfiles
  <2>3. 1 .. plan'.targets \subseteq 1 .. MaxTargets
    BY <2>1 DEF ValidationRunAssumption
  <2> QED
    BY <2>2, <2>3 DEF LocksOK
<1>2. CASE InitLocks
  BY <1>2 DEF InitLocks, Readonly, LocksOK
<1>3. CASE ~PlanWithLockfiles /\ ~InitLocks
  BY <1>3 DEF ReportNext, JudgeAndExplain, Review, Evaluate, reportAll, reportVars, provenance, LocksOK
<1> QED
  BY <1>1, <1>2, <1>3

LEMMA ProvenanceOfATarget ==
  ASSUME NEW target, NEW modules
  PROVE  /\ Provenance(target, modules).target = target
         /\ Provenance(target, modules).modules = modules
         /\ \/ "SOURCE" = Provenance(target, modules).origin
            \/ Provenance(target, modules).providers = "COMPLETE"
            => target \in locked
BY DEF Provenance

(* The record of a target is made when it ends. *)
LEMMA ExplainingIsEnding ==
  ASSUME CommandRunnerAssumption, ValidationRunAssumption, ValidationOK, ProvenanceOK, JudgeAndExplain
  PROVE  DependenciesOK'
<1> DEFINE status == StatusOf(at.tool)
<1>1. /\ at' = AfterTool(at.tool, status) /\ at.tool \in Tools /\ TurnOK
      /\ UNCHANGED <<plan, said, locked>>
  BY DEF JudgeAndExplain, Judge, ValidationOK, CommandOK, CallOK
<1>2. \A target : Ended(target)' <=> Ended(target) \/ (target = at.target /\ IsLast(at.tool, status))
  BY <1>1, JudgingEndsTargets DEF ValidationOK
<1>3. \/ ~IsLast(at.tool, status) /\ dependencies' = dependencies
      \/ /\ IsLast(at.tool, status)
         /\ \E modules :
              /\ dependencies' = dependencies \cup {Provenance(at.target, modules)}
              /\ modules = "COMPLETE" => Opinion(at.target, "init", "valid") \in said
  <2>1. CASE at.tool = "modules"
    <3>1. PICK m \in ModulesOutcomes : dependencies' = dependencies \cup {Provenance(at.target, m[2])}
      BY <2>1 DEF JudgeAndExplain
    <3>2. Opinion(at.target, "init", "valid") \in said
      BY <2>1 DEF ProvenanceOK, PreparedOK
    <3> QED
      BY <2>1, <3>1, <3>2 DEF IsLast
  <2>2. CASE at.tool = "kubeconform"
    BY <2>2 DEF JudgeAndExplain, IsLast
  <2>3. CASE at.tool \notin {"modules", "kubeconform"}
    <3>1. dependencies' = dependencies \cup
            IF at.tool = "init" /\ status # "PASS" THEN {Provenance(at.target, "PARTIAL")} ELSE {}
      BY <2>3 DEF JudgeAndExplain
    <3>2. IsLast(at.tool, status) <=> at.tool = "init" /\ status # "PASS"
      BY <2>3 DEF IsLast
    <3> HIDE DEF status
    <3>3. CASE IsLast(at.tool, status)
      <4>1. dependencies' = dependencies \cup {Provenance(at.target, "PARTIAL")}
        BY <3>1, <3>2, <3>3
      <4> QED
        BY <3>3, <4>1
    <3>4. CASE ~IsLast(at.tool, status)
      <4>1. dependencies' = dependencies \cup {}
        BY <3>1, <3>2, <3>4
      <4> QED
        BY <3>4, <4>1
    <3> QED
      BY <3>3, <3>4
  <2> QED
    BY <2>1, <2>2, <2>3
<1> HIDE DEF status
<1>4. DependenciesOK
  BY DEF ProvenanceOK
<1>5. \A target : (Opinion(target, "init", "valid") \in said)' <=> Opinion(target, "init", "valid") \in said
  BY <1>1 DEF Opinion
<1>6. CASE ~IsLast(at.tool, status) /\ dependencies' = dependencies
  BY <1>1, <1>2, <1>4, <1>5, <1>6 DEF DependenciesOK
<1>7. ASSUME IsLast(at.tool, status), NEW modules,
             dependencies' = dependencies \cup {Provenance(at.target, modules)},
             modules = "COMPLETE" => Opinion(at.target, "init", "valid") \in said
      PROVE  DependenciesOK'
  <2>1. PICK new : new = Provenance(at.target, modules)
    OBVIOUS
  <2>2. /\ new.target = at.target /\ new.modules = modules
        /\ "SOURCE" = new.origin \/ new.providers = "COMPLETE" => at.target \in locked
    BY <2>1, ProvenanceOfATarget
  <2>3. ~Ended(at.target) /\ at.target \in 1 .. plan.targets
    BY <1>1, <1>7 DEF IsLast, Ended, TurnOK, TargetTools, ValidationRunAssumption
  <2>4. dependencies' = dependencies \cup {new}
    BY <1>7, <2>1
  <2>5. ASSUME NEW d \in dependencies'
        PROVE  /\ Ended(d.target)'
               /\ "SOURCE" = d.origin \/ d.providers = "COMPLETE" => d.target \in locked'
               /\ d.modules = "COMPLETE" => Opinion(d.target, "init", "valid") \in said'
    <3>1. CASE d \in dependencies
      BY <1>1, <1>2, <1>4, <3>1 DEF DependenciesOK
    <3>2. CASE d = new
      BY <1>1, <1>2, <1>7, <2>2, <3>2
    <3> QED
      BY <2>4, <2>5, <3>1, <3>2
  <2>6. \A target \in 1 .. plan'.targets : Ended(target)' => \E d \in dependencies' : d.target = target
    BY <1>1, <1>2, <1>4, <2>2, <2>4 DEF DependenciesOK
  <2>7. \A d, e \in dependencies' : d.target = e.target => d = e
    BY <1>4, <2>2, <2>3, <2>4 DEF DependenciesOK
  <2> QED
    BY <2>5, <2>6, <2>7 DEF DependenciesOK, Opinion
<1> QED
  BY <1>3, <1>6, <1>7

LEMMA NextKeepsProvenance ==
  ASSUME CommandRunnerAssumption, ValidationRunAssumption, ValidationOK, ProvenanceOK,
         [ReportNext]_reportAll
  PROVE  ProvenanceOK'
<1>1. PreparedOK' /\ LocksOK'
  BY ReportStepsAreSteps, NextKeepsPrepared, NextKeepsLocks DEF ProvenanceOK, ValidationOK, CommandOK
<1>2. DependenciesOK'
  <2>1. CASE JudgeAndExplain
    BY <2>1, ExplainingIsEnding
  <2>2. CASE PlanWithLockfiles
    <3>1. \A target : ~Ended(target)
      BY <2>2 DEF PlanWithLockfiles, BuildPlan, Ended, TargetTools
    <3>2. dependencies' = {}
      BY <2>2, <3>1 DEF PlanWithLockfiles, ProvenanceOK, DependenciesOK
    <3>3. \A target : ~Ended(target)'
      <4>1. TurnOK' /\ (at' = AfterTarget(plan', 0) \/ at' = [at EXCEPT !.tool = "failed"])
        BY <2>2, PlansAreTurns DEF PlanWithLockfiles, BuildPlan, ValidationOK, CommandOK
      <4>2. plan'.targets \in Nat
        BY <4>1 DEF TurnOK, ValidationRunAssumption
      <4>3. CASE at' = [at EXCEPT !.tool = "failed"]
        <5>1. at'.tool = "failed"
          BY <4>3 DEF ValidationOK, CommandOK, TurnOK
        <5> QED
          BY <5>1 DEF Ended, TargetTools
      <4>4. CASE at' = AfterTarget(plan', 0) /\ 0 < plan'.targets
        <5>1. at'.tool = "fmt" /\ at'.target = 1
          BY <4>4 DEF AfterTarget
        <5> QED
          BY <4>2, <5>1 DEF Ended
      <4>5. CASE ~(0 < plan'.targets)
        <5>1. 1 .. plan'.targets = {}
          BY <4>2, <4>5
        <5> QED
          BY <5>1 DEF Ended
      <4> QED
        BY <4>1, <4>3, <4>4, <4>5
    <3> QED
      BY <3>2, <3>3 DEF DependenciesOK
  <2>3. CASE ~JudgeAndExplain /\ ~PlanWithLockfiles
    <3>1. UNCHANGED <<dependencies, locked, plan>> /\ said \subseteq said'
      BY <2>3 DEF ReportNext, InitLocks, Review, Evaluate, StartTool, RunnerStep, Conclude, ToolWrites,
                  ToolExits, Descendants, Kill, CancelAttempt, reportAll, vars, progress, reportVars, provenance
    <3>2. at' = at \/ (at.tool = "outcome" /\ at'.tool = "done")
      BY <2>3 DEF ReportNext, InitLocks, Review, Evaluate, StartTool, RunnerStep, Conclude, ToolWrites,
                  ToolExits, Descendants, Kill, CancelAttempt, reportAll, vars, progress,
                  ValidationOK, CommandOK, TurnOK
    <3>3. \A target : Ended(target)' <=> Ended(target)
      <4> TAKE target
      <4>1. CASE at' = at
        BY <3>1, <4>1 DEF Ended
      <4>2. CASE at.tool = "outcome" /\ at'.tool = "done"
        BY <3>1, <4>2 DEF Ended
      <4> QED
        BY <3>2, <4>1, <4>2
    <3> QED
      BY <3>1, <3>3 DEF ProvenanceOK, DependenciesOK, Opinion
  <2> QED
    BY <2>1, <2>2, <2>3
<1> QED
  BY <1>1, <1>2 DEF ProvenanceOK

LEMMA ProvenanceIsComplete ==
  ASSUME ValidationRunAssumption, TurnOK, ProvenanceOK
  PROVE  ProvenanceIsOfTheSource
<1> SUFFICES ASSUME at.tool = "done"
             PROVE  /\ {d.target : d \in dependencies} = 1 .. plan.targets
                    /\ Cardinality(dependencies) = plan.targets
                    /\ \A d \in dependencies :
                         /\ "SOURCE" = d.origin \/ d.providers = "COMPLETE" => lockfile[d.target] = "source"
                         /\ d.modules = "COMPLETE" => Opinion(d.target, "init", "valid") \in said
  BY DEF ProvenanceIsOfTheSource
<1> DEFINE targets == 1 .. plan.targets
           target  == [d \in dependencies |-> d.target]
<1>1. plan.targets \in Nat
  BY DEF TurnOK, ValidationRunAssumption
<1>2. /\ \A d \in dependencies : d.target \in targets
      /\ \A t \in targets : \E d \in dependencies : d.target = t
      /\ \A d, e \in dependencies : d.target = e.target => d = e
  BY DEF ProvenanceOK, DependenciesOK, Ended
<1>3. IsFiniteSet(targets) /\ Cardinality(targets) = plan.targets
  BY <1>1, FS_Interval
<1> HIDE DEF targets
<1>4. {d.target : d \in dependencies} = targets
  BY <1>2
<1>5. /\ target \in [dependencies -> targets]
      /\ \A d, e \in dependencies : target[d] = target[e] => d = e
      /\ \A t \in targets : \E d \in dependencies : target[d] = t
  BY <1>2
<1> HIDE DEF target
<1>6. Cardinality(dependencies) = plan.targets
  BY <1>3, <1>5, SameSize
<1>7. \A d \in dependencies :
        /\ "SOURCE" = d.origin \/ d.providers = "COMPLETE" => lockfile[d.target] = "source"
        /\ d.modules = "COMPLETE" => Opinion(d.target, "init", "valid") \in said
  BY DEF ProvenanceOK, LocksOK, DependenciesOK
<1> QED
  BY <1>4, <1>6, <1>7 DEF targets


-----------------------------------------------------------------------------
(* What an attempt reports *)

AttemptOK ==
  /\ ValidationOK
  /\ StagesOK /\ ReviewOK /\ EvaluationOK
  /\ KubeconformOK /\ DiagnosedOK
  /\ ProvenanceOK

LEMMA InitIsAttemptOK ==
  ASSUME CommandRunnerAssumption, ValidationRunAssumption, ReportInit
  PROVE  AttemptOK
<1>1. ValidationOK
  BY InitIsValidationOK DEF ReportInit
<1>2. /\ at.tool = "plan" /\ results = {} /\ said = {} /\ plan.targets = 0
      /\ locked = {} /\ DOMAIN lockfile = 1 .. MaxTargets /\ dependencies = {}
  BY DEF ReportInit, Init
<1>3. KubeconformOK /\ DiagnosedOK
  BY <1>2 DEF KubeconformOK, DiagnosedOK, WithStatus
<1>4. ProvenanceOK
  BY <1>2 DEF ProvenanceOK, PreparedOK, LocksOK, DependenciesOK, Ended
<1> QED
  BY <1>1, <1>3, <1>4, InitIsStaged DEF AttemptOK

LEMMA AttemptStaysOK == ReportSafety => []AttemptOK
<1>1. ReportInit => AttemptOK
  BY InitIsAttemptOK, CommandRunnerAssumption, ValidationRunAssumption
<1>2. AttemptOK /\ [ReportNext]_reportAll => AttemptOK'
  <2> SUFFICES ASSUME AttemptOK, [ReportNext]_reportAll
               PROVE  AttemptOK'
    OBVIOUS
  <2>1. [Next]_vars
    BY ReportStepsAreSteps
  <2>2. ValidationOK' /\ KubeconformOK'
    BY <2>1, NextKeepsValidation, NextKeepsKubeconform, CommandRunnerAssumption, ValidationRunAssumption
       DEF AttemptOK
  <2>3. StagesOK' /\ ReviewOK' /\ EvaluationOK'
    BY NextKeepsStages, ValidationRunAssumption DEF AttemptOK, ValidationOK
  <2>4. DiagnosedOK'
    BY NextKeepsDiagnosed, CommandRunnerAssumption, ValidationRunAssumption DEF AttemptOK
  <2>5. ProvenanceOK'
    BY NextKeepsProvenance, CommandRunnerAssumption, ValidationRunAssumption DEF AttemptOK
  <2> QED
    BY <2>2, <2>3, <2>4, <2>5 DEF AttemptOK
<1> QED
  BY <1>1, <1>2, PTL DEF ReportSafety

(* Every finding of a review has one verdict (review_stage.go 35-58), for any
   number of diagnostics, whichever of budget, evidence and evaluator is missing. *)
THEOREM EveryFindingIsJudged == ReportSpec => []FindingsAreJudgedOnce
<1>1. AttemptOK => FindingsAreJudgedOnce
  BY EvaluationsAreComplete, ValidationRunAssumption DEF AttemptOK
<1> QED
  BY <1>1, AttemptStaysOK, PTL DEF ReportSpec, ReportSafety, reportAll

(* Everything that failed or could not be judged has a diagnostic, which every
   review turns into a finding (engine.go 71-112 and 300-378). *)
THEOREM FailuresAreExplained == ReportSpec => []FailuresReachTheReview
<1>1. AttemptOK => FailuresReachTheReview
  BY FailuresAreReviewed DEF AttemptOK
<1> QED
  BY <1>1, AttemptStaysOK, PTL DEF ReportSpec, ReportSafety, reportAll

(* A provenance record claims no more than the commit's own lock file and a
   successful init allow (provenance.go 30-80), and no target is without one. *)
THEOREM ProvenanceIsHonest == ReportSpec => []ProvenanceIsOfTheSource
<1>1. AttemptOK => ProvenanceIsOfTheSource
  BY ProvenanceIsComplete, ValidationRunAssumption DEF AttemptOK, ValidationOK, CommandOK
<1> QED
  BY <1>1, AttemptStaysOK, PTL DEF ReportSpec, ReportSafety, reportAll

=============================================================================
