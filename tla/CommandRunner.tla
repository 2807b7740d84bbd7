---------------------------- MODULE CommandRunner ----------------------------
(***************************************************************************)
(* One call of Run at a time: a process in a process group of its own, the *)
(* goroutine that waits for it, and a select over its end, the caller's    *)
(* context and a timer.                                                    *)
(*                                                                         *)
(* Wait returns once the process has been reaped and every copy of its     *)
(* output pipes is closed, so descendants that have them open delay it.    *)
(* Descendants are taken to stay in the group; those with no copy of the   *)
(* pipes have no effect on Run, which may leave them behind, and are not   *)
(* modelled.                                                               *)
(***************************************************************************)
EXTENDS Integers

CONSTANTS
  Lines,        \* [subject, verdict]: what a tool can say about what
  ExitCodes,    \* the codes with which a process may exit by itself
  Running, Nil

ASSUME CommandRunnerAssumption ==
  ExitCodes \subseteq Nat /\ Running # Nil /\ {Running, Nil} \cap (ExitCodes \cup {-1}) = {}

VARIABLES
  call,         \* where Run is
  process,      \* Nil before it starts, Running, or its exit code; -1 if killed
  held,         \* whether a descendant has the output open
  output,       \* the lines in the capped buffer of the standard output
  exit,         \* the exit code in its CommandResult, or Nil
  cancelled     \* whether the caller's context is done

runnerVars == <<call, process, held, output, exit, cancelled>>

RunnerInit ==
  /\ call = "idle" /\ process = Nil /\ held = FALSE
  /\ output = {} /\ exit = Nil
  /\ cancelled = FALSE

(* Run does not start a process when its executable is not there or not the
   right one, and when the context is done already. *)
Start ==
  /\ call = "idle"
  /\ output' = {}
  /\ \/ /\ ~cancelled
        /\ call' = "select" /\ process' = Running
     \/ call' = "returned" /\ process' = Nil
  /\ UNCHANGED <<held, exit, cancelled>>

-----------------------------------------------------------------------------
(* The process and whoever shares its output *)

Spawn ==
  /\ process = Running /\ ~held
  /\ held' = TRUE
  /\ UNCHANGED <<call, process, output, exit, cancelled>>

DescendantsEnd ==
  /\ held
  /\ held' = FALSE
  /\ UNCHANGED <<call, process, output, exit, cancelled>>

(* A line that does not fit into the buffer, or only in part, is one that is
   not written. *)
Write(line) ==
  /\ process = Running \/ held
  /\ \A l \in output : l.subject # line.subject
  /\ output' = output \cup {line}
  /\ UNCHANGED <<call, process, held, exit, cancelled>>

Exit(code) ==
  /\ process = Running
  /\ process' = code
  /\ UNCHANGED <<call, held, output, exit, cancelled>>

(* exec.CommandContext kills the process, and it alone, as soon as its context
   is done: the caller's, or the one Run cancels before it starts to wait. *)
KillByContext ==
  /\ process = Running
  /\ cancelled \/ call = "grace"
  /\ process' = -1
  /\ UNCHANGED <<call, held, output, exit, cancelled>>

Cancel ==
  /\ ~cancelled
  /\ cancelled' = TRUE
  /\ UNCHANGED <<call, process, held, output, exit>>

-----------------------------------------------------------------------------
(* Run *)

Waited == process # Running /\ ~held

(* A kill that reaches a process which has just exited with 0 makes Wait return
   the context's error, and there is no exit code. *)
ExitsSeen == IF process = 0 /\ (cancelled \/ call # "select") THEN {0, Nil} ELSE {process}

Return ==
  /\ call' = "returned"
  /\ exit' \in ExitsSeen

Finished ==
  /\ call = "select" /\ Waited
  /\ Return
  /\ UNCHANGED <<process, held, output, cancelled>>

(* terminateProcessTree without force: whoever handles SIGTERM may stay. *)
Terminate ==
  /\ held' \in {held, FALSE}
  /\ process' \in IF process = Running THEN {Running, -1} ELSE {process}

(* The timer fires, or the context is done. Which of them it was is recorded
   (Cancelled, TimedOut) for the artifacts and decides nothing. *)
Interrupted ==
  /\ call = "select"
  /\ Terminate
  /\ call' = "grace"
  /\ UNCHANGED <<output, exit, cancelled>>

FinishedInGrace ==
  /\ call = "grace" /\ Waited
  /\ Return
  /\ UNCHANGED <<process, held, output, cancelled>>

(* Mutants: SIGTERM again where SIGKILL belongs; Run no longer waits. *)
TerminateAgain ==
  /\ call = "grace" /\ ~Waited
  /\ Terminate
  /\ call' = "forced"
  /\ UNCHANGED <<output, exit, cancelled>>

ReturnAfterGrace ==
  /\ call = "grace" /\ ~Waited
  /\ Return
  /\ UNCHANGED <<process, held, output, cancelled>>

GraceOver ==
  /\ call = "grace" /\ ~Waited
  /\ held' = FALSE
  /\ process' = IF process = Running THEN -1 ELSE process
  /\ call' = "forced"
  /\ UNCHANGED <<output, exit, cancelled>>

FinishedByForce ==
  /\ call = "forced" /\ Waited
  /\ Return
  /\ UNCHANGED <<process, held, output, cancelled>>

RunStep == Finished \/ Interrupted \/ FinishedInGrace \/ GraceOver \/ FinishedByForce

-----------------------------------------------------------------------------
(* Properties *)

RunnerTypeOK ==
  /\ call \in {"idle", "select", "grace", "forced", "returned"}
  /\ process \in {Nil, Running, -1} \cup ExitCodes
  /\ held \in BOOLEAN
  /\ output \subseteq Lines
  /\ exit \in {Nil, -1} \cup ExitCodes
  /\ cancelled \in BOOLEAN

(* Once Run has returned nobody writes any more to the buffer that its caller
   reads, also after a timeout or a cancellation that somebody in the group
   ignored. *)
OutputIsFinal == call = "returned" => Waited

=============================================================================
