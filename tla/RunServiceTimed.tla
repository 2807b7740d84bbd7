-------------------------- MODULE RunServiceTimed ---------------------------
(***************************************************************************)
(* The workers of RunService when none is slow: the time that calls, ticks *)
(* and attempts take is bounded.  RunService proper lets a process stop    *)
(* for any time between two steps, which is what the fencing is for; what  *)
(* the leases are for, that runs end and that a healthy attempt is left    *)
(* alone, needs processes that keep their own schedule.                    *)
(*                                                                         *)
(* Time passes only while it makes no thread late (see Late) and while a   *)
(* lease is running that somebody may be waiting for.  The second keeps    *)
(* the clock finite without a bound: MaxTime is set so high that it is     *)
(* never reached.                                                          *)
(***************************************************************************)
EXTENDS RunService

CONSTANT WorkTicks    \* what an attempt takes at most (the limits of Config)

ASSUME RunServiceTimedAssumption == WorkTicks \in Nat

VARIABLE deadline     \* the time by which each attempt in progress will end

timedVars == <<vars, deadline>>

TimedInit == Init /\ deadline = [t \in Threads |-> Nil]

(* A heartbeat that is due is sent, an attempt that was claimed is started and
   an attempt ends by its deadline before the clock moves on. *)
Late(t) ==
  /\ Worker(t) \in alive
  /\ \/ thread[t].pc = "get"
     \/ BeatDue(t)
     \/ deadline[t] # Nil /\ clock >= deadline[t]

LeaseRunning ==
  \E id \in RunIds : Repo!Exists(id) /\ Active(runs[id]) /\ ~LooksExpired(runs[id], clock)

SetDeadlines ==
  deadline' = [t \in Threads |->
                 IF ~Working(t)' THEN Nil
                 ELSE IF Working(t) THEN deadline[t] ELSE clock + WorkTicks]

TimedTick == Tick /\ LeaseRunning /\ (\A t \in Threads : ~Late(t)) /\ SetDeadlines

TimedStep(step) == step /\ SetDeadlines

TimedNext ==
  \/ \E t \in Threads : TimedStep(LoopStep(t) \/ Submit(t) \/ ProcessStep(t) \/ Beat(t))
  \/ \E w \in Workers : TimedStep(Crash(w) \/ Restart(w))
  \/ TimedTick

(* Goroutines are scheduled, tickers fire, processes are restarted and time
   passes.  Nothing makes a client submit or a process crash. *)
Fairness ==
  /\ \A t \in Threads :
       /\ WF_timedVars(TimedStep(LoopStep(t) \/ ProcessStep(t)))
       /\ WF_timedVars(TimedStep(Beat(t)))
  /\ \A w \in Workers : WF_timedVars(TimedStep(Restart(w)))
  /\ WF_timedVars(TimedTick)

TimedSpec == TimedInit /\ [][TimedNext]_timedVars /\ Fairness

-----------------------------------------------------------------------------
(* Properties                                                              *)

(* Every run that is created ends COMPLETED or FAILED, whatever crashes and
   fails on the way: a run whose worker is gone is reclaimed when its lease
   runs out, a run that could not be failed too. *)
EveryRunEnds ==
  \A id \in RunIds : Repo!Exists(id) ~> (Repo!Exists(id) /\ Terminal(runs[id]))

(* A run is FAILED only because a stage or a call failed, never because a
   worker crashed or because two workers met; and an attempt is reclaimed only
   because its worker crashed or a call failed: heartbeats keep a healthy one. *)
HealthyAttemptsAreLeftAlone ==
  \A id \in RunIds : Repo!Exists(id) =>
    /\ runs[id].state = "FAILED" => faults > 0
    /\ runs[id].attempt <= 1 + crashes + faults

=============================================================================
