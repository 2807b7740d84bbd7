------------------------------ MODULE RunRecord ------------------------------
(***************************************************************************)
(* One row of the runs table and the conditional statements that change    *)
(* it.  Every operation of the repository is a single UPDATE whose WHERE   *)
(* clause is the Can... operator here and whose SET list is the operator   *)
(* named for the result; the row is changed when the WHERE clause holds    *)
(* and otherwise the caller gets ErrConditional (ErrFencingLost from       *)
(* RenewLease) and nothing changes.                                        *)
(*                                                                         *)
(* Columns that no statement ever tests (updated_at, lease_acquired_at,    *)
(* the outcome and failure texts) are left out.  commit stands for the     *)
(* three columns commit_oid, resolved_ref and ref_type, manifest for       *)
(* manifest_uri and manifest_hash: each group is written by one statement. *)
(***************************************************************************)
EXTENDS LeaseTime

CONSTANTS
  Workers,      \* worker identities (Config.WorkerID)
  Commits,      \* source commits a reference can resolve to
  Manifests,    \* what manifest_uri and manifest_hash can say
  LeaseTicks,   \* Config.LeaseSeconds
  Nil           \* SQL NULL

ASSUME RunRecordAssumption ==
  /\ LeaseTicks \in Nat \ {0}
  /\ Nil \notin Workers \cup Commits \cup Manifests \cup Nat

ActiveStates ==
  {"CLAIMED", "RETRIEVING", "VALIDATING", "REVIEWING", "EVALUATING", "PERSISTING"}

TerminalStates == {"COMPLETED", "FAILED"}

RunStates == {"QUEUED"} \cup ActiveStates \cup TerminalStates

Active(run) == run.state \in ActiveStates
Terminal(run) == run.state \in TerminalStates

Run ==
  [ state    : RunStates,
    attempt  : Nat,
    owner    : Workers \cup {Nil},
    expires  : Instant \cup {Nil},
    commit   : Commits \cup {Nil},
    winning  : Nat \cup {Nil},
    manifest : Manifests \cup {Nil} ]

ASSUME NilIsNoRow == Nil \notin Run

NewRun ==
  [ state |-> "QUEUED", attempt |-> 0, owner |-> Nil, expires |-> Nil,
    commit |-> Nil, winning |-> Nil, manifest |-> Nil ]

(* Mutant: the attempt number is left out of the WHERE clause. *)
HeldByOwnerOnly(run, attempt, worker) == run.owner = worker

(* The fence every statement of an attempt carries: its number and owner. *)
HeldBy(run, attempt, worker) == run.attempt = attempt /\ run.owner = worker

CanClaim(run) == run.state = "QUEUED" /\ run.attempt = 0

(* The row as a claim or a reclaim leaves it. *)
Leased(run, attempt, worker, expires) ==
  [run EXCEPT !.state = "CLAIMED", !.attempt = attempt, !.owner = worker,
              !.expires = expires]

Claimed(run, worker, now) == Leased(run, 1, worker, now + LeaseTicks)

(* Mutant: a commit that is already there does not stop the statement. *)
CanPinAgain(run, attempt, worker) ==
  HeldBy(run, attempt, worker) /\ run.state = "RETRIEVING"

CanPin(run, attempt, worker) ==
  /\ run.commit = Nil
  /\ HeldBy(run, attempt, worker)
  /\ run.state = "RETRIEVING"

(* Mutant: the commit goes to the wrong column. *)
PinnedElsewhere(run, commit) == [run EXCEPT !.manifest = commit]

Pinned(run, commit) == [run EXCEPT !.commit = commit]

(* Nothing compares the current time: an expired lease can be renewed as
   long as nobody has reclaimed it. *)
CanRenew(run, attempt, worker, expected) ==
  HeldBy(run, attempt, worker) /\ run.expires = expected /\ Active(run)

Renewed(run, next) == [run EXCEPT !.expires = next]

(* Mutant: only attempts that have not begun are looked for. *)
LooksExpiredUnstarted(run, observer) ==
  run.state = "CLAIMED" /\ TextLeq(run.expires, observer)

(* The row is one FindReclaimCandidates returns to an observer. *)
LooksExpired(run, observer) ==
  Active(run) /\ run.expires # Nil /\ TextLeq(run.expires, observer)

(* Mutant: the row is not compared with what the caller saw of it. *)
CanReclaimUnseen(run, seen, observer) ==
  Active(run) /\ TextLeq(run.expires, observer)

(* Mutant: the lease is compared with what was seen, not with the time. *)
CanReclaimUnexpired(run, seen, observer) ==
  /\ HeldBy(run, seen.attempt, seen.owner)
  /\ run.expires = seen.expires /\ run.state = seen.state

CanReclaim(run, seen, observer) ==
  /\ HeldBy(run, seen.attempt, seen.owner)
  /\ run.expires = seen.expires
  /\ run.state = seen.state
  /\ run.expires # Nil /\ TextLeq(run.expires, observer)

(* Mutant: the attempt number does not grow. *)
ReclaimedInPlace(run, seen, worker, observer) ==
  Leased(run, seen.attempt, worker, observer + LeaseTicks)

Reclaimed(run, seen, worker, observer) ==
  Leased(run, seen.attempt + 1, worker, observer + LeaseTicks)

(* Mutant: the state the caller expects is not compared. *)
CanUpdateAnyPhase(run, attempt, worker, expected) ==
  HeldBy(run, attempt, worker) /\ Active(run)

CanUpdatePhase(run, attempt, worker, expected) ==
  HeldBy(run, attempt, worker) /\ run.state = expected

PhaseUpdated(run, next) == [run EXCEPT !.state = next]

(* Mutant: nothing but the state is compared. *)
CanCompleteUnfenced(run, attempt, worker) == run.state = "PERSISTING"

CanComplete(run, attempt, worker) ==
  HeldBy(run, attempt, worker) /\ run.state = "PERSISTING"

(* Mutant: the lease's owner stays. *)
CompletedWithOwner(run, attempt, manifest) ==
  [run EXCEPT !.state = "COMPLETED", !.winning = attempt, !.manifest = manifest,
              !.expires = Nil]

Completed(run, attempt, manifest) ==
  [run EXCEPT !.state = "COMPLETED", !.winning = attempt, !.manifest = manifest,
              !.owner = Nil, !.expires = Nil]

(* Mutant: neither the owner nor the state is compared. *)
CanFailByAttempt(run, attempt, worker) == run.attempt = attempt

CanFail(run, attempt, worker) == HeldBy(run, attempt, worker) /\ Active(run)

(* Mutant: the lease stays. *)
FailedWithLease(run) == [run EXCEPT !.state = "FAILED"]

Failed(run) == [run EXCEPT !.state = "FAILED", !.owner = Nil, !.expires = Nil]

=============================================================================
