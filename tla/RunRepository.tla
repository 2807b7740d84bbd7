---------------------------- MODULE RunRepository ----------------------------
(***************************************************************************)
(* The runs table under callers that may be anyone.                        *)
(*                                                                         *)
(* Each action is one statement that changed a row, called by any worker   *)
(* for any run and attempt and with whatever that worker's clock says, in  *)
(* any order.  Two things are assumed of the callers: that UpdatePhase is  *)
(* asked for a phase and the one after it (PhaseOrder), since its          *)
(* statement would set any state, and that what is given to                *)
(* ReclaimExpiredRun was read of an active row (Seen).  A call whose       *)
(* condition fails changes nothing and is a stuttering step.  What holds   *)
(* here holds for every service above it that keeps to the two.            *)
(***************************************************************************)
EXTENDS RunRecord

CONSTANTS
  RunIds,        \* the runs that can be created
  Times,         \* what a caller's clock can say, and the expiries it can ask for
  AttemptNos     \* the attempt numbers a caller can present

ASSUME RunRepositoryAssumption ==
  /\ Times \subseteq Nat
  /\ AttemptNos \subseteq Nat

VARIABLES
  runs,          \* the table: a row, or Nil before CreateRun
  grants,        \* history: the attempts ClaimRun and ReclaimExpiredRun gave out
  completions    \* history: the completions CompleteRun accepted

vars == <<runs, grants, completions>>

(* The phase each caller asks for next, in the service's order. *)
PhaseOrder ==
  { <<"CLAIMED", "RETRIEVING">>, <<"RETRIEVING", "VALIDATING">>,
    <<"VALIDATING", "REVIEWING">>, <<"REVIEWING", "EVALUATING">>,
    <<"EVALUATING", "PERSISTING">> }

Grant(id, attempt, worker) == [run |-> id, attempt |-> attempt, worker |-> worker]

Exists(id) == runs[id] # Nil

(* Runs may have been created before, but no worker has seen them yet. *)
Init ==
  /\ runs \in [RunIds -> {Nil, NewRun}]
  /\ grants = {}
  /\ completions = {}

CreateRun(id) ==
  /\ ~Exists(id)
  /\ runs' = [runs EXCEPT ![id] = NewRun]
  /\ UNCHANGED <<grants, completions>>

ClaimRun(id, worker, now) ==
  /\ Exists(id) /\ CanClaim(runs[id])
  /\ runs' = [runs EXCEPT ![id] = Claimed(@, worker, now)]
  /\ grants' = grants \cup {Grant(id, 1, worker)}
  /\ UNCHANGED completions

PinSourceIfAbsent(id, attempt, worker, commit) ==
  /\ Exists(id) /\ CanPin(runs[id], attempt, worker)
  /\ runs' = [runs EXCEPT ![id] = Pinned(@, commit)]
  /\ UNCHANGED <<grants, completions>>

RenewLease(id, attempt, worker, expected, next) ==
  /\ Exists(id) /\ CanRenew(runs[id], attempt, worker, expected)
  /\ runs' = [runs EXCEPT ![id] = Renewed(@, next)]
  /\ UNCHANGED <<grants, completions>>

ReclaimExpiredRun(id, seen, worker, observer) ==
  /\ Exists(id) /\ CanReclaim(runs[id], seen, observer)
  /\ runs' = [runs EXCEPT ![id] = Reclaimed(@, seen, worker, observer)]
  /\ grants' = grants \cup {Grant(id, seen.attempt + 1, worker)}
  /\ UNCHANGED completions

UpdatePhase(id, attempt, worker, expected, next) ==
  /\ Exists(id) /\ CanUpdatePhase(runs[id], attempt, worker, expected)
  /\ runs' = [runs EXCEPT ![id] = PhaseUpdated(@, next)]
  /\ UNCHANGED <<grants, completions>>

CompleteRun(id, attempt, worker, manifest) ==
  /\ Exists(id) /\ CanComplete(runs[id], attempt, worker)
  /\ runs' = [runs EXCEPT ![id] = Completed(@, attempt, manifest)]
  /\ completions' = completions \cup
       {[run |-> id, attempt |-> attempt, worker |-> worker, manifest |-> manifest]}
  /\ UNCHANGED grants

FailRun(id, attempt, worker) ==
  /\ Exists(id) /\ CanFail(runs[id], attempt, worker)
  /\ runs' = [runs EXCEPT ![id] = Failed(@)]
  /\ UNCHANGED <<grants, completions>>

(* What a caller of ReclaimExpiredRun can have read earlier: a row with a lease,
   as the finder of candidates returns no other. *)
Seen == [state : ActiveStates, attempt : AttemptNos, owner : Workers, expires : Times]

(* Any worker, run, attempt and clock; of states only those of PhaseOrder and Seen. *)
Next ==
  \E id \in RunIds :
    \/ CreateRun(id)
    \/ \E w \in Workers :
         \/ \E now \in Times : ClaimRun(id, w, now)
         \/ \E seen \in Seen, now \in Times : ReclaimExpiredRun(id, seen, w, now)
         \/ \E a \in AttemptNos :
              \/ \E c \in Commits : PinSourceIfAbsent(id, a, w, c)
              \/ \E e \in Times, n \in Times : RenewLease(id, a, w, e, n)
              \/ \E p \in PhaseOrder : UpdatePhase(id, a, w, p[1], p[2])
              \/ \E m \in Manifests : CompleteRun(id, a, w, m)
              \/ FailRun(id, a, w)

Spec == Init /\ [][Next]_vars

-----------------------------------------------------------------------------
(* Properties                                                              *)

TypeOK ==
  /\ runs \in [RunIds -> Run \cup {Nil}]
  /\ grants \subseteq [run : RunIds, attempt : Nat, worker : Workers]
  /\ completions \subseteq
       [run : RunIds, attempt : Nat, worker : Workers, manifest : Manifests]

(* A row has a lease owner and a lease expiry exactly while its state is
   active; an active row with no owner could never be reclaimed, a terminal
   one with a lease would be reclaimed and run again. *)
LeaseExactlyWhileActive ==
  \A id \in RunIds : Exists(id) =>
    /\ Active(runs[id]) <=> runs[id].owner # Nil
    /\ Active(runs[id]) <=> runs[id].expires # Nil

(* The attempt number is a fencing token: of all the calls of ClaimRun and
   ReclaimExpiredRun that ever succeeded, no two gave out the same attempt
   of a run, so two workers never both hold one. *)
OneGrantPerAttempt ==
  \A g, h \in grants : g.run = h.run /\ g.attempt = h.attempt => g = h

(* The row's owner got the row's attempt from a successful claim or reclaim,
   and no later attempt has been given out. *)
OwnerHoldsNewestGrant ==
  /\ \A id \in RunIds : Exists(id) /\ Active(runs[id]) =>
       Grant(id, runs[id].attempt, runs[id].owner) \in grants
  /\ \A g \in grants : Exists(g.run) /\ g.attempt <= runs[g.run].attempt

(* CompleteRun succeeds at most once for a run, for the worker to which the
   completing attempt was given, and the row keeps that attempt and that
   manifest for good. *)
OneWinner ==
  /\ \A c, d \in completions : c.run = d.run => c = d
  /\ \A c \in completions :
       /\ Grant(c.run, c.attempt, c.worker) \in grants
       /\ runs[c.run].state = "COMPLETED"
       /\ runs[c.run].winning = c.attempt /\ runs[c.run].attempt = c.attempt
       /\ runs[c.run].manifest = c.manifest

(* Once a run has a commit, no retry, reclaim or late caller changes it. *)
CommitPinnedOnce ==
  [][\A id \in RunIds : Exists(id) /\ runs[id].commit # Nil =>
       Exists(id)' /\ runs'[id].commit = runs[id].commit]_vars

(* A row that is COMPLETED or FAILED never changes again. *)
TerminalIsFinal ==
  [][\A id \in RunIds : Exists(id) /\ Terminal(runs[id]) => runs'[id] = runs[id]]_vars

(* ReclaimExpiredRun takes a lease less than one second before it expires, by
   the clock of the worker that takes it.  (Not "after": the comparison is of
   texts.) *)
ReclaimNotASecondEarly ==
  [][\A id \in RunIds :
       Exists(id) /\ Active(runs[id]) /\ runs'[id].attempt # runs[id].attempt =>
         runs[id].expires < (runs'[id].expires - LeaseTicks) + TicksPerSecond]_vars

(* The design's precondition for a reclaim, lease_expires_at <= observer_now,
   read as a comparison of instants. *)
ReclaimOnlyExpired ==
  [][\A id \in RunIds :
       Exists(id) /\ Active(runs[id]) /\ runs'[id].attempt # runs[id].attempt =>
         runs[id].expires <= runs'[id].expires - LeaseTicks]_vars

-----------------------------------------------------------------------------
(* What the table shows of a run to its submitter. *)

JobPhase(run) ==
  CASE run = Nil -> "absent"
    [] run # Nil /\ run.state = "QUEUED" -> "waiting"
    [] run # Nil /\ run.state \in ActiveStates -> "held"
    [] run # Nil /\ run.state = "COMPLETED" -> "succeeded"
    [] run # Nil /\ run.state = "FAILED" -> "failed"

ViewPhase == [id \in RunIds |-> JobPhase(runs[id])]
ViewAttempt == [id \in RunIds |-> IF Exists(id) THEN runs[id].attempt ELSE 0]
ViewHolder == [id \in RunIds |-> IF Exists(id) THEN runs[id].owner ELSE Nil]
ViewSource == [id \in RunIds |-> IF Exists(id) THEN runs[id].commit ELSE Nil]
ViewResult == [id \in RunIds |-> IF Exists(id) THEN runs[id].manifest ELSE Nil]

Jobs ==
  INSTANCE AnalysisJob WITH
    phase <- ViewPhase, attempt <- ViewAttempt, holder <- ViewHolder,
    source <- ViewSource, result <- ViewResult

(* Whatever the callers do, the table is an AnalysisJob: one holder at a
   time under growing attempt numbers, one source, one end. *)
ImplementsAnalysisJob == Jobs!Spec

=============================================================================
