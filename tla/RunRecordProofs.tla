--------------------------- MODULE RunRecordProofs ---------------------------
(***************************************************************************)
(* What the statements on a row leave is a row, and how far the textual    *)
(* order of lease instants is from their order.                            *)
(***************************************************************************)
EXTENDS RunRecord, TLAPS

USE LeaseTimeAssumption, RunRecordAssumption, NilIsNoRow

(* If the text of instant a sorts before or with the text of b (encodeTime,
   compared by SQLite and DynamoDB), a is less than one second after b: the
   order is wrong at most within a second, whatever the clock's resolution and
   however its fractions are written. *)
THEOREM TextOrderWithinASecond ==
  ASSUME NEW a \in Instant, NEW b \in Instant, TextLeq(a, b)
  PROVE  a < b + TicksPerSecond
<1> DEFINE T == TicksPerSecond
<1>1. T \in Nat /\ T > 0
  BY LeaseTimeAssumption
<1>2. /\ a = T * (a \div T) + (a % T) /\ a % T \in 0 .. T - 1
      /\ b = T * (b \div T) + (b % T) /\ b % T \in 0 .. T - 1
      /\ a \div T \in Int /\ b \div T \in Int
  BY <1>1 DEF Instant
<1>3. a \div T <= b \div T
  BY <1>2 DEF TextLeq, WholeSeconds
<1>4. T * (a \div T) <= T * (b \div T)
  BY <1>1, <1>2, <1>3
<1>5. QED
  BY <1>1, <1>2, <1>4

-----------------------------------------------------------------------------

(* The result of every statement on a row is a row. *)
LEMMA NewRunType == NewRun \in Run
BY DEF Run, NewRun, RunStates

(* A claim or a reclaim leaves a row with a typed lease. *)
LEMMA LeasedType ==
  ASSUME NEW run \in Run, NEW a \in Nat, NEW w \in Workers, NEW t \in Nat
  PROVE  Leased(run, a, w, t) \in Run
<1>1. "CLAIMED" \in RunStates
  BY DEF RunStates, ActiveStates
<1> QED
  BY <1>1 DEF Run, Leased, Instant

(* Pinning sets the commit only. *)
LEMMA PinnedType ==
  ASSUME NEW run \in Run, NEW c \in Commits
  PROVE  Pinned(run, c) \in Run
BY DEF Run, Pinned

(* A renewal sets the expiry only. *)
LEMMA RenewedType ==
  ASSUME NEW run \in Run, NEW n \in Nat
  PROVE  Renewed(run, n) \in Run
<1>1. n \in Instant
  BY DEF Instant
<1> QED
  BY <1>1 DEF Run, Renewed

(* A phase change sets the state only. *)
LEMMA PhaseUpdatedType ==
  ASSUME NEW run \in Run, NEW s \in ActiveStates
  PROVE  PhaseUpdated(run, s) \in Run
<1>1. s \in RunStates
  BY DEF RunStates
<1> QED
  BY <1>1 DEF Run, PhaseUpdated

(* A completion clears the lease and records the attempt and its manifest. *)
LEMMA CompletedType ==
  ASSUME NEW run \in Run, NEW a \in Nat, NEW m \in Manifests
  PROVE  Completed(run, a, m) \in Run
<1>1. "COMPLETED" \in RunStates
  BY DEF RunStates, TerminalStates
<1> QED
  BY <1>1 DEF Run, Completed

(* A failure clears the lease. *)
LEMMA FailedType ==
  ASSUME NEW run \in Run
  PROVE  Failed(run) \in Run
<1>1. "FAILED" \in RunStates
  BY DEF RunStates, TerminalStates
<1> QED
  BY <1>1 DEF Run, Failed

(* An active state is neither the first nor a last one. *)
LEMMA StatesDisjoint ==
  /\ "QUEUED" \notin ActiveStates /\ "COMPLETED" \notin ActiveStates
  /\ "FAILED" \notin ActiveStates /\ "CLAIMED" \in ActiveStates
  /\ "RETRIEVING" \in ActiveStates /\ "PERSISTING" \in ActiveStates
  /\ "QUEUED" \notin TerminalStates
  /\ \A s \in ActiveStates : s \notin TerminalStates
BY DEF ActiveStates, TerminalStates

=============================================================================
