----------------------------- MODULE AnalysisJob -----------------------------
(***************************************************************************)
(* What a run promises to whoever submitted it.                            *)
(*                                                                         *)
(* A job waits, is held by one worker at a time under attempt numbers that *)
(* grow by one whenever it changes hands, gets at most one source, and     *)
(* ends once: with one result or without any.  Leases, clocks, phases and  *)
(* races are not mentioned: RunRepository is shown to implement this.      *)
(***************************************************************************)
EXTENDS Integers

CONSTANTS
  RunIds, Workers, Commits, Manifests,
  Nil

VARIABLES
  phase,       \* how far the job is
  attempt,     \* how often it has been handed out
  holder,      \* who works on it
  source,      \* the commit its answer is about
  result       \* the answer

job == <<phase, attempt, holder, source, result>>

Init ==
  /\ phase \in [RunIds -> {"absent", "waiting"}]
  /\ attempt = [id \in RunIds |-> 0]
  /\ holder = [id \in RunIds |-> Nil]
  /\ source = [id \in RunIds |-> Nil]
  /\ result = [id \in RunIds |-> Nil]

Submit(id) ==
  /\ phase[id] = "absent"
  /\ phase' = [phase EXCEPT ![id] = "waiting"]
  /\ UNCHANGED <<attempt, holder, source, result>>

(* The job is handed out for the first time, or a new attempt takes it from
   whoever holds it; the source stays. *)
HandOut(id, worker) ==
  /\ phase[id] \in {"waiting", "held"}
  /\ phase' = [phase EXCEPT ![id] = "held"]
  /\ attempt' = [attempt EXCEPT ![id] = @ + 1]
  /\ holder' = [holder EXCEPT ![id] = worker]
  /\ UNCHANGED <<source, result>>

FixSource(id, commit) ==
  /\ phase[id] = "held" /\ source[id] = Nil
  /\ source' = [source EXCEPT ![id] = commit]
  /\ UNCHANGED <<phase, attempt, holder, result>>

Succeed(id, answer) ==
  /\ phase[id] = "held"
  /\ phase' = [phase EXCEPT ![id] = "succeeded"]
  /\ holder' = [holder EXCEPT ![id] = Nil]
  /\ result' = [result EXCEPT ![id] = answer]
  /\ UNCHANGED <<attempt, source>>

Fail(id) ==
  /\ phase[id] = "held"
  /\ phase' = [phase EXCEPT ![id] = "failed"]
  /\ holder' = [holder EXCEPT ![id] = Nil]
  /\ UNCHANGED <<attempt, source, result>>

Next ==
  \E id \in RunIds :
    \/ Submit(id)
    \/ \E w \in Workers : HandOut(id, w)
    \/ \E c \in Commits : FixSource(id, c)
    \/ \E m \in Manifests : Succeed(id, m)
    \/ Fail(id)

Spec == Init /\ [][Next]_job

=============================================================================
