-------------------------- MODULE RunServiceProofs --------------------------
(***************************************************************************)
(* What the fencing of the runs table is worth to the workers above it:    *)
(* for any runs, worker processes, threads, commits and clocks, and for    *)
(* any number of crashes and failing calls; and, for workers that keep     *)
(* their schedule, what the heartbeats are worth (the last part).          *)
(***************************************************************************)
EXTENDS RunServiceTimed, RunRecordProofs

USE RunRecordAssumption

-----------------------------------------------------------------------------
(* Rows *)

Row == Repo!Run

(* An active row has a typed lease. *)
RowOK(row) ==
  /\ row \in Row
  /\ Active(row) => row.owner \in Workers /\ row.expires \in Nat

TableOK(rows) ==
  /\ rows \in [RunIds -> Row \cup {Nil}]
  /\ \A id \in RunIds : rows[id] # Nil => RowOK(rows[id])

(* The row's attempt has been started. *)
Begun(row) == row.state \notin {"QUEUED", "CLAIMED"}

(* How a statement can change a row: its attempt number grows or the attempt goes
   on, its commit stays, and so does a completed row. *)
Forward(old, new) ==
  /\ old.attempt <= new.attempt
  /\ old.attempt = new.attempt /\ Begun(old) => Begun(new)
  /\ old.commit # Nil => new.commit = old.commit
  /\ old.state = "COMPLETED" => new = old

(* The operators of RunRecord as RunRepository and as this module see them. *)
LEMMA SameRows ==
  /\ \A row : Repo!Active(row) <=> Active(row)
  /\ \A row : Repo!CanClaim(row) <=> CanClaim(row)
  /\ \A row, a, w : Repo!CanPin(row, a, w) <=> CanPin(row, a, w)
  /\ \A row, a, w, e : Repo!CanRenew(row, a, w, e) <=> CanRenew(row, a, w, e)
  /\ \A row, a, w, s : Repo!CanUpdatePhase(row, a, w, s) <=> CanUpdatePhase(row, a, w, s)
  /\ \A row, a, w : Repo!CanComplete(row, a, w) <=> CanComplete(row, a, w)
  /\ \A row, a, w : Repo!CanFail(row, a, w) <=> CanFail(row, a, w)
  /\ \A row, w, t : Repo!Claimed(row, w, t) = Claimed(row, w, t)
BY DEF Active, ActiveStates, CanClaim, CanPin, CanRenew, CanUpdatePhase, CanComplete, CanFail,
       HeldBy, Claimed, Leased, Repo!Active, Repo!ActiveStates, Repo!CanClaim, Repo!CanPin,
       Repo!CanRenew, Repo!CanUpdatePhase, Repo!CanComplete, Repo!CanFail, Repo!HeldBy,
       Repo!Claimed, Repo!Leased

-----------------------------------------------------------------------------
(* Statements, one by one: the row they leave. *)

LEMMA NewRow == RowOK(NewRun) /\ NewRun.state = "QUEUED" /\ Repo!NewRun = NewRun
BY DEF RowOK, Row, Repo!Run, Repo!RunStates, NewRun, Active, ActiveStates, Repo!NewRun

(* Claims and reclaims leave a row of this form. *)
LEMMA LeasedRow ==
  ASSUME NEW row \in Row, NEW a \in Nat, NEW w \in Workers, NEW e \in Nat,
         NEW new, new = Repo!Leased(row, a, w, e)
  PROVE  /\ new \in Row
         /\ new.state = "CLAIMED" /\ new.attempt = a /\ new.owner = w
         /\ new.expires = e /\ new.commit = row.commit
<1>1. "CLAIMED" \in Repo!RunStates
  BY DEF Repo!RunStates, Repo!ActiveStates
<1>2. new \in Row
  BY <1>1 DEF Row, Repo!Run, Repo!Leased, Repo!Instant
<1> QED
  BY <1>2 DEF Row, Repo!Run, Repo!Leased

LEMMA ClaimEffect ==
  ASSUME NEW row, RowOK(row), Repo!CanClaim(row), NEW w \in Workers, NEW now \in Nat,
         NEW new, new = Repo!Claimed(row, w, now)
  PROVE  /\ RowOK(new) /\ Forward(row, new)
         /\ new.state = "CLAIMED" /\ new.attempt = 1 /\ new.owner = w
         /\ new.commit = row.commit /\ new.expires \in Nat
<1>1. now + LeaseTicks \in Nat
  OBVIOUS
<1>2. /\ row \in Row /\ row.attempt \in Nat /\ row.state = "QUEUED" /\ row.attempt = 0
  BY DEF RowOK, Row, Repo!Run, Repo!CanClaim
<1>3. new = Repo!Leased(row, 1, w, now + LeaseTicks)
  BY DEF Repo!Claimed
<1>4. /\ new \in Row
      /\ new.state = "CLAIMED" /\ new.attempt = 1 /\ new.owner = w
      /\ new.expires = now + LeaseTicks /\ new.commit = row.commit
  BY <1>1, <1>2, <1>3, LeasedRow
<1> QED
  BY <1>1, <1>2, <1>4 DEF RowOK, Forward, Begun

LEMMA ReclaimEffect ==
  ASSUME NEW row, RowOK(row), NEW seen, RowOK(seen), Active(seen),
         NEW w \in Workers, NEW now \in Nat, Repo!CanReclaim(row, seen, now),
         NEW new, new = Repo!Reclaimed(row, seen, w, now)
  PROVE  /\ RowOK(new) /\ Forward(row, new)
         /\ new.state = "CLAIMED" /\ new.attempt = row.attempt + 1 /\ new.owner = w
         /\ new.commit = row.commit
<1>1. now + LeaseTicks \in Nat
  OBVIOUS
<1>2. /\ row \in Row /\ row.attempt \in Nat /\ row.attempt = seen.attempt
      /\ row.state = seen.state /\ row.state # "COMPLETED"
  BY DEF RowOK, Row, Repo!Run, Repo!CanReclaim, Repo!HeldBy, Active, ActiveStates
<1> DEFINE next == row.attempt + 1
<1>3. next \in Nat /\ row.attempt <= next /\ row.attempt # next
  BY <1>2
<1>4. new = Repo!Leased(row, next, w, now + LeaseTicks)
  BY <1>2 DEF Repo!Reclaimed
<1> HIDE DEF next
<1>5. /\ new \in Row
      /\ new.state = "CLAIMED" /\ new.attempt = next /\ new.owner = w
      /\ new.expires = now + LeaseTicks /\ new.commit = row.commit
  <2>1. row \in Row /\ next \in Nat
    BY <1>2, <1>3
  <2> DEFINE leased == Repo!Leased(row, next, w, now + LeaseTicks)
  <2>2. /\ leased \in Row
        /\ leased.state = "CLAIMED" /\ leased.attempt = next /\ leased.owner = w
        /\ leased.expires = now + LeaseTicks /\ leased.commit = row.commit
    BY <2>1, <1>1, LeasedRow
  <2> QED
    BY <2>2, <1>4
<1>6. RowOK(new)
  BY <1>1, <1>5 DEF RowOK
<1>7. Forward(row, new)
  BY <1>2, <1>3, <1>5 DEF Forward
<1> QED
  BY <1>5, <1>6, <1>7 DEF next

LEMMA PinEffect ==
  ASSUME NEW row, RowOK(row), NEW a, NEW w, Repo!CanPin(row, a, w), NEW c \in Commits,
         NEW new, new = Repo!Pinned(row, c)
  PROVE  /\ RowOK(new) /\ Forward(row, new)
         /\ new.state = "RETRIEVING" /\ new.attempt = row.attempt
         /\ new.commit = c /\ row.attempt = a /\ new.owner = row.owner
<1>1. /\ row \in Row /\ row.attempt \in Nat /\ row.state = "RETRIEVING"
      /\ row.commit = Nil /\ row.attempt = a
  BY DEF RowOK, Row, Repo!Run, Repo!CanPin, Repo!HeldBy
<1>2. /\ new \in Row /\ new.state = row.state /\ new.attempt = row.attempt
      /\ new.owner = row.owner /\ new.expires = row.expires /\ new.commit = c
  BY <1>1 DEF Repo!Pinned, Row, Repo!Run
<1> QED
  BY <1>1, <1>2 DEF RowOK, Forward, Begun, Active

LEMMA RenewEffect ==
  ASSUME NEW row, RowOK(row), NEW a, NEW w, NEW e, Repo!CanRenew(row, a, w, e), NEW n \in Nat,
         NEW new, new = Repo!Renewed(row, n)
  PROVE  /\ RowOK(new) /\ Forward(row, new)
         /\ new.state = row.state /\ new.state # "COMPLETED" /\ new.attempt = row.attempt
         /\ new.commit = row.commit /\ row.attempt = a
<1>1. /\ row \in Row /\ row.attempt \in Nat /\ row.state # "COMPLETED" /\ row.attempt = a
  BY DEF RowOK, Row, Repo!Run, Repo!CanRenew, Repo!HeldBy, Repo!Active, Repo!ActiveStates
<1>2. /\ new \in Row /\ new.state = row.state /\ new.attempt = row.attempt
      /\ new.owner = row.owner /\ new.expires = n /\ new.commit = row.commit
  BY <1>1 DEF Repo!Renewed, Row, Repo!Run, Repo!Instant
<1> QED
  BY <1>1, <1>2 DEF RowOK, Forward, Begun, Active

LEMMA PhaseEffect ==
  ASSUME NEW row, RowOK(row), NEW a, NEW w, NEW from, NEW to, <<from, to>> \in Repo!PhaseOrder,
         Repo!CanUpdatePhase(row, a, w, from),
         NEW new, new = Repo!PhaseUpdated(row, to)
  PROVE  /\ RowOK(new) /\ Forward(row, new)
         /\ row.state = from /\ new.state = to /\ Begun(new) /\ new.state # "COMPLETED"
         /\ new.attempt = row.attempt /\ new.commit = row.commit /\ row.attempt = a
<1>1. /\ row \in Row /\ row.attempt \in Nat /\ row.state = from /\ row.attempt = a
  BY DEF RowOK, Row, Repo!Run, Repo!CanUpdatePhase, Repo!HeldBy
<1>2. /\ from \in ActiveStates /\ to \in ActiveStates
      /\ to \notin {"QUEUED", "CLAIMED", "COMPLETED"} /\ from # "COMPLETED"
      /\ to \in Repo!RunStates
  BY DEF Repo!PhaseOrder, ActiveStates, Repo!RunStates, Repo!ActiveStates
<1>3. /\ new \in Row /\ new.state = to /\ new.attempt = row.attempt
      /\ new.owner = row.owner /\ new.expires = row.expires /\ new.commit = row.commit
  BY <1>1, <1>2 DEF Repo!PhaseUpdated, Row, Repo!Run
<1> QED
  BY <1>1, <1>2, <1>3 DEF RowOK, Forward, Begun, Active

LEMMA CompleteEffect ==
  ASSUME NEW row, RowOK(row), NEW a, NEW w, Repo!CanComplete(row, a, w),
         NEW m \in ServiceManifests,
         NEW new, new = Repo!Completed(row, a, m)
  PROVE  /\ RowOK(new) /\ Forward(row, new)
         /\ new.state = "COMPLETED" /\ new.attempt = a /\ new.attempt = row.attempt
         /\ new.winning = a /\ new.manifest = m /\ new.commit = row.commit
<1>1. /\ row \in Row /\ row.attempt \in Nat /\ row.state = "PERSISTING" /\ row.attempt = a
  BY DEF RowOK, Row, Repo!Run, Repo!CanComplete, Repo!HeldBy
<1>2. /\ new \in Row /\ new.state = "COMPLETED" /\ new.attempt = row.attempt
      /\ new.commit = row.commit /\ new.winning = a /\ new.manifest = m
  BY <1>1 DEF Repo!Completed, Row, Repo!Run, Repo!RunStates, Repo!TerminalStates
<1> QED
  BY <1>1, <1>2 DEF RowOK, Forward, Begun, Active, ActiveStates

LEMMA FailEffect ==
  ASSUME NEW row, RowOK(row), NEW a, NEW w, Repo!CanFail(row, a, w),
         NEW new, new = Repo!Failed(row)
  PROVE  /\ RowOK(new) /\ Forward(row, new)
         /\ new.state = "FAILED" /\ new.attempt = row.attempt /\ new.commit = row.commit
         /\ row.attempt = a
<1>1. /\ row \in Row /\ row.attempt \in Nat /\ row.state # "COMPLETED" /\ row.attempt = a
  BY DEF RowOK, Row, Repo!Run, Repo!CanFail, Repo!HeldBy, Repo!Active, Repo!ActiveStates
<1>2. /\ new \in Row /\ new.state = "FAILED" /\ new.attempt = row.attempt
      /\ new.commit = row.commit
  BY <1>1 DEF Repo!Failed, Row, Repo!Run, Repo!RunStates, Repo!TerminalStates
<1> QED
  BY <1>1, <1>2 DEF RowOK, Forward, Begun, Active, ActiveStates

-----------------------------------------------------------------------------
(* Steps of the table *)

(* Every row is still there and has gone forward. *)
TableStep(old, new) ==
  \A id \in RunIds : old[id] # Nil => new[id] # Nil /\ Forward(old[id], new[id])

(* No run has been completed. *)
NoneCompleted(old, new) ==
  \A id \in RunIds :
    new[id] # Nil /\ new[id].state = "COMPLETED" => old[id] # Nil /\ old[id].state = "COMPLETED"

-----------------------------------------------------------------------------
(* Threads *)

Resting == {"idle", "queued", "expired"}

InHand == {"get", "claim"} \cup AttemptSteps

(* The steps of an attempt whose first UpdatePhase has succeeded. *)
Executing == AttemptSteps \ {"retrieving", "fail"}

(* The steps that have the source. *)
Sourced == Executing \ {"source", "pin"}

Candidate == [run : RunIds, row : Row]

ThreadState ==
  [ pc : Resting \cup InHand, poll : Resting, todo : SUBSET Candidate,
    run : RunIds \cup {Nil}, attempt : Nat, commit : Commits \cup {Nil},
    expected : Nat, beat : Int, beating : BOOLEAN, cancelled : BOOLEAN ]

(* A poll for expired runs has seen them with a lease; only an attempt has a
   heartbeat. *)
PollOK(me) ==
  /\ me.pc = "expired" => me.poll = "expired"
  /\ me.poll = "expired" => \A c \in me.todo : RowOK(c.row) /\ Active(c.row)
  /\ me.beating => me.pc \in AttemptSteps

(* What the row of the run it has in hand is to a thread. The row may belong to a
   later attempt; while it belongs to this one, the attempt has been started if the
   thread is past its start. A commit the thread has is the row's, but for the
   one it is about to pin. *)
Sound(me, rows) ==
  LET row == rows[me.run] IN
  /\ me.pc \in InHand => me.run \in RunIds /\ row # Nil
  /\ me.pc \in AttemptSteps => me.attempt <= row.attempt
  /\ me.pc \in Executing /\ me.attempt = row.attempt => Begun(row)
  /\ me.pc \in AttemptSteps \ {"pin", "fail"} /\ me.commit # Nil => row.commit = me.commit
  /\ me.pc \in Sourced \cup {"pin"} => me.commit # Nil

ThreadsOK ==
  /\ clock \in Nat
  /\ thread \in [Threads -> ThreadState]
  /\ \A t \in Threads : PollOK(thread[t]) /\ Sound(thread[t], runs)

ServiceOK == TableOK(runs) /\ ThreadsOK

-----------------------------------------------------------------------------
(* Artifacts *)

(* The artifacts an executor has written when it comes to a step. *)
WrittenBefore ==
  [ reviewing |-> {"results"}, review |-> {"results"},
    evaluating |-> {"results", "review"}, evaluation |-> {"results", "review"},
    persisting |-> {"results", "review", "evaluation"},
    report |-> {"results", "review", "evaluation"},
    manifest |-> ArtifactNames, readback |-> Entries, complete |-> Entries ]

Written(pc) == IF pc \in DOMAIN WrittenBefore THEN WrittenBefore[pc] ELSE {}

Has(path, bytes) == path \in DOMAIN store /\ store[path] = bytes

(* What an executor has written is still there, as it wrote it. *)
ArtifactsKept ==
  \A t \in Threads : \A name \in Written(thread[t].pc) :
    Has(Path(thread[t].run, thread[t].attempt, name), Bytes(t))

(* The executor of a row's attempt has not completed it. *)
ExecutorsNotDone ==
  \A t \in Threads : LET row == runs[thread[t].run] IN
    thread[t].pc \in Executing /\ thread[t].attempt = row.attempt => row.state # "COMPLETED"

(* All that is written of the attempt that completed a run has one hash, the row's. *)
CompletedKept ==
  \A id \in RunIds : Repo!Exists(id) /\ runs[id].state = "COMPLETED" =>
    LET row == runs[id] IN
    /\ row.winning = row.attempt
    /\ row.manifest # Nil /\ row.manifest.uri = Path(id, row.attempt, "manifest")
    /\ row.manifest.hash.commit = row.commit /\ row.manifest.hash.attempt = row.attempt
    /\ \A name \in Entries : Has(Path(id, row.attempt, name), row.manifest.hash)

StoreOK == OneExecutorPerAttempt /\ ExecutorsNotDone /\ ArtifactsKept /\ CompletedKept

-----------------------------------------------------------------------------
(* Statements, one by one: what they do to the table. *)

(* A call as the table sees it. *)
Called ==
  /\ TableOK(runs')
  /\ TableStep(runs, runs')
  /\ Repo!Next \/ UNCHANGED table

LEMMA ForwardReflexive ==
  ASSUME NEW row, RowOK(row)
  PROVE  Forward(row, row)
BY DEF RowOK, Row, Repo!Run, Forward

LEMMA LeavesTable ==
  ASSUME TableOK(runs), UNCHANGED runs
  PROVE  TableOK(runs') /\ TableStep(runs, runs') /\ NoneCompleted(runs, runs')
BY ForwardReflexive DEF TableOK, TableStep, NoneCompleted

LEMMA ChangesRow ==
  ASSUME TableOK(runs), NEW id \in RunIds, runs[id] # Nil,
         NEW new, RowOK(new), Forward(runs[id], new), runs' = [runs EXCEPT ![id] = new]
  PROVE  /\ TableOK(runs') /\ TableStep(runs, runs') /\ runs'[id] = new
         /\ new.state # "COMPLETED" => NoneCompleted(runs, runs')
<1>1. /\ runs'[id] = new
      /\ \A other \in RunIds : other # id => runs'[other] = runs[other]
  BY DEF TableOK
<1>2. new \in Row /\ new # Nil
  BY NilIsNoServiceRow DEF RowOK, Row
<1>3. TableOK(runs')
  <2>1. runs' \in [RunIds -> Row \cup {Nil}]
    BY <1>2 DEF TableOK
  <2>2. \A other \in RunIds : runs'[other] # Nil => RowOK(runs'[other])
    BY <1>1 DEF TableOK
  <2> QED
    BY <2>1, <2>2 DEF TableOK
<1>4. TableStep(runs, runs')
  BY <1>1, <1>2, ForwardReflexive DEF TableStep, TableOK
<1>5. new.state # "COMPLETED" => NoneCompleted(runs, runs')
  BY <1>1 DEF NoneCompleted
<1> QED
  BY <1>1, <1>3, <1>4, <1>5

LEMMA CreateCall ==
  ASSUME TableOK(runs), NEW id \in RunIds, Repo!CreateRun(id)
  PROVE  Called /\ NoneCompleted(runs, runs') /\ runs'[id] # Nil
<1>1. /\ runs[id] = Nil /\ RowOK(NewRun) /\ NewRun.state = "QUEUED"
      /\ runs' = [runs EXCEPT ![id] = NewRun]
  BY NewRow DEF Repo!CreateRun, Repo!Exists
<1>2. /\ runs'[id] = NewRun
      /\ \A other \in RunIds : other # id => runs'[other] = runs[other]
  BY <1>1 DEF TableOK
<1>3. NewRun # Nil /\ NewRun \in Row
  BY <1>1, NilIsNoServiceRow DEF RowOK, Row
<1>4. TableOK(runs')
  <2>1. runs' \in [RunIds -> Row \cup {Nil}]
    BY <1>1, <1>3 DEF TableOK
  <2>2. \A other \in RunIds : runs'[other] # Nil => RowOK(runs'[other])
    BY <1>1, <1>2 DEF TableOK
  <2> QED
    BY <2>1, <2>2 DEF TableOK
<1>5. TableStep(runs, runs') /\ NoneCompleted(runs, runs')
  BY <1>1, <1>2, ForwardReflexive DEF TableStep, TableOK, NoneCompleted
<1>6. Repo!Next
  BY DEF Repo!Next
<1> QED
  BY <1>2, <1>3, <1>4, <1>5, <1>6 DEF Called

LEMMA ClaimCall ==
  ASSUME TableOK(runs), NEW id \in RunIds, NEW w \in Workers, NEW now \in Nat,
         Repo!ClaimRun(id, w, now)
  PROVE  /\ Called /\ NoneCompleted(runs, runs')
         /\ runs[id] # Nil /\ runs[id] \in Row /\ runs'[id] \in Row
         /\ runs'[id] = Repo!Claimed(runs[id], w, now) /\ RowOK(runs'[id])
         /\ runs'[id].state = "CLAIMED" /\ runs'[id].attempt = 1
         /\ runs'[id].commit = runs[id].commit /\ runs'[id].expires \in Nat
<1> DEFINE new == Repo!Claimed(runs[id], w, now)
<1>1. runs[id] # Nil /\ Repo!CanClaim(runs[id]) /\ runs' = [runs EXCEPT ![id] = new]
  BY DEF Repo!ClaimRun, Repo!Exists
<1>2. RowOK(runs[id])
  BY <1>1 DEF TableOK
<1>3. /\ RowOK(new) /\ Forward(runs[id], new)
      /\ new.state = "CLAIMED" /\ new.attempt = 1 /\ new.owner = w
      /\ new.commit = runs[id].commit /\ new.expires \in Nat
  BY <1>1, <1>2, ClaimEffect
<1> HIDE DEF new
<1>4. /\ TableOK(runs') /\ TableStep(runs, runs') /\ runs'[id] = new
      /\ NoneCompleted(runs, runs')
  BY <1>1, <1>3, ChangesRow
<1>5. Repo!Next
  BY DEF Repo!Next
<1> QED
  BY <1>1, <1>2, <1>3, <1>4, <1>5 DEF Called, RowOK, new

LEMMA ReclaimCall ==
  ASSUME TableOK(runs), NEW id \in RunIds, NEW seen, RowOK(seen), Active(seen),
         NEW w \in Workers, NEW now \in Nat, Repo!ReclaimExpiredRun(id, seen, w, now)
  PROVE  /\ Called /\ NoneCompleted(runs, runs') /\ runs[id] # Nil /\ runs'[id] # Nil
<1> DEFINE new == Repo!Reclaimed(runs[id], seen, w, now)
<1>1. /\ runs[id] # Nil /\ Repo!CanReclaim(runs[id], seen, now)
      /\ runs' = [runs EXCEPT ![id] = new]
  BY DEF Repo!ReclaimExpiredRun, Repo!Exists
<1>2. RowOK(runs[id])
  BY <1>1 DEF TableOK
<1>3. RowOK(new) /\ Forward(runs[id], new) /\ new.state = "CLAIMED"
  BY <1>1, <1>2, ReclaimEffect
<1> HIDE DEF new
<1>4. /\ TableOK(runs') /\ TableStep(runs, runs') /\ runs'[id] = new
      /\ NoneCompleted(runs, runs')
  BY <1>1, <1>3, ChangesRow
<1>5. Repo!Next
  <2> DEFINE lease == [state |-> seen.state, attempt |-> seen.attempt,
                       owner |-> seen.owner, expires |-> seen.expires]
  <2>1. lease \in Repo!Seen
    <3>1. seen.attempt \in Nat
      BY DEF RowOK, Row, Repo!Run
    <3> QED
      BY <3>1 DEF RowOK, Active, ActiveStates, Repo!ActiveStates, Repo!Seen
  <2>2. Repo!ReclaimExpiredRun(id, lease, w, now)
    <3>1. Repo!CanReclaim(runs[id], lease, now)
      BY <1>1 DEF Repo!CanReclaim, Repo!HeldBy
    <3>2. /\ Repo!Reclaimed(runs[id], lease, w, now) = Repo!Reclaimed(runs[id], seen, w, now)
          /\ lease.attempt = seen.attempt
      BY DEF Repo!Reclaimed
    <3> HIDE DEF lease
    <3> QED
      BY <3>1, <3>2 DEF Repo!ReclaimExpiredRun
  <2> HIDE DEF lease
  <2> QED
    BY <2>1, <2>2 DEF Repo!Next
<1>6. new # Nil
  BY <1>3, NilIsNoServiceRow DEF RowOK, Row
<1> QED
  BY <1>1, <1>4, <1>5, <1>6 DEF Called

LEMMA PinCall ==
  ASSUME TableOK(runs), NEW id \in RunIds, NEW a \in Nat, NEW w \in Workers,
         NEW c \in Commits, Repo!PinSourceIfAbsent(id, a, w, c)
  PROVE  /\ Called /\ NoneCompleted(runs, runs')
         /\ runs[id] # Nil /\ runs'[id] = Repo!Pinned(runs[id], c) /\ runs[id].attempt = a
         /\ runs'[id].commit = c
<1> DEFINE new == Repo!Pinned(runs[id], c)
<1>1. /\ runs[id] # Nil /\ Repo!CanPin(runs[id], a, w)
      /\ runs' = [runs EXCEPT ![id] = new]
  BY DEF Repo!PinSourceIfAbsent, Repo!Exists
<1>2. RowOK(runs[id])
  BY <1>1 DEF TableOK
<1>3. /\ RowOK(new) /\ Forward(runs[id], new) /\ runs[id].attempt = a
      /\ new.state # "COMPLETED" /\ new.commit = c
  BY <1>1, <1>2, PinEffect
<1> HIDE DEF new
<1>4. /\ TableOK(runs') /\ TableStep(runs, runs') /\ runs'[id] = new
      /\ NoneCompleted(runs, runs')
  BY <1>1, <1>3, ChangesRow
<1>5. Repo!Next
  BY DEF Repo!Next
<1> QED
  BY <1>1, <1>2, <1>3, <1>4, <1>5 DEF Called, new

LEMMA RenewCall ==
  ASSUME TableOK(runs), NEW id \in RunIds, NEW a \in Nat, NEW w \in Workers,
         NEW e \in Nat, NEW n \in Nat,
         Repo!RenewLease(id, a, w, e, n)
  PROVE  /\ Called /\ NoneCompleted(runs, runs')
         /\ runs[id] # Nil /\ runs'[id] = Repo!Renewed(runs[id], n) /\ runs[id].attempt = a
<1> DEFINE new == Repo!Renewed(runs[id], n)
<1>1. /\ runs[id] # Nil /\ Repo!CanRenew(runs[id], a, w, e)
      /\ runs' = [runs EXCEPT ![id] = new]
  BY DEF Repo!RenewLease, Repo!Exists
<1>2. RowOK(runs[id])
  BY <1>1 DEF TableOK
<1>3. /\ RowOK(new) /\ Forward(runs[id], new) /\ runs[id].attempt = a
      /\ new.state # "COMPLETED"
  BY <1>1, <1>2, RenewEffect
<1> HIDE DEF new
<1>4. /\ TableOK(runs') /\ TableStep(runs, runs') /\ runs'[id] = new
      /\ NoneCompleted(runs, runs')
  BY <1>1, <1>3, ChangesRow
<1>5. Repo!Next
  BY DEF Repo!Next
<1> QED
  BY <1>1, <1>2, <1>3, <1>4, <1>5 DEF Called, new

LEMMA PhaseCall ==
  ASSUME TableOK(runs), NEW id \in RunIds, NEW a \in Nat, NEW w \in Workers,
         NEW from, NEW to, <<from, to>> \in Repo!PhaseOrder,
         Repo!UpdatePhase(id, a, w, from, to)
  PROVE  /\ Called /\ NoneCompleted(runs, runs')
         /\ runs[id] # Nil /\ runs'[id] = Repo!PhaseUpdated(runs[id], to) /\ runs[id].attempt = a
         /\ runs[id].state = from /\ Begun(runs'[id]) /\ runs'[id].attempt = a
<1> DEFINE new == Repo!PhaseUpdated(runs[id], to)
<1>1. /\ runs[id] # Nil /\ Repo!CanUpdatePhase(runs[id], a, w, from)
      /\ runs' = [runs EXCEPT ![id] = new]
  BY DEF Repo!UpdatePhase, Repo!Exists
<1>2. RowOK(runs[id])
  BY <1>1 DEF TableOK
<1>3. /\ RowOK(new) /\ Forward(runs[id], new) /\ runs[id].attempt = a
      /\ runs[id].state = from /\ Begun(new) /\ new.state # "COMPLETED"
      /\ new.attempt = a
  BY <1>1, <1>2, PhaseEffect
<1> HIDE DEF new
<1>4. /\ TableOK(runs') /\ TableStep(runs, runs') /\ runs'[id] = new
      /\ NoneCompleted(runs, runs')
  BY <1>1, <1>3, ChangesRow
<1>5. Repo!Next
  <2> DEFINE p == <<from, to>>
  <2>1. Repo!UpdatePhase(id, a, w, p[1], p[2])
    OBVIOUS
  <2> HIDE DEF p
  <2> QED
    BY <2>1 DEF Repo!Next, p
<1> QED
  BY <1>1, <1>2, <1>3, <1>4, <1>5 DEF Called, new

LEMMA FailCall ==
  ASSUME TableOK(runs), NEW id \in RunIds, NEW a \in Nat, NEW w \in Workers,
         Repo!FailRun(id, a, w)
  PROVE  /\ Called /\ NoneCompleted(runs, runs')
         /\ runs[id] # Nil /\ runs'[id] = Repo!Failed(runs[id]) /\ runs[id].attempt = a
<1> DEFINE new == Repo!Failed(runs[id])
<1>1. /\ runs[id] # Nil /\ Repo!CanFail(runs[id], a, w)
      /\ runs' = [runs EXCEPT ![id] = new]
  BY DEF Repo!FailRun, Repo!Exists
<1>2. RowOK(runs[id])
  BY <1>1 DEF TableOK
<1>3. /\ RowOK(new) /\ Forward(runs[id], new) /\ runs[id].attempt = a
      /\ new.state # "COMPLETED"
  BY <1>1, <1>2, FailEffect
<1> HIDE DEF new
<1>4. /\ TableOK(runs') /\ TableStep(runs, runs') /\ runs'[id] = new
      /\ NoneCompleted(runs, runs')
  BY <1>1, <1>3, ChangesRow
<1>5. Repo!Next
  BY DEF Repo!Next
<1> QED
  BY <1>1, <1>2, <1>3, <1>4, <1>5 DEF Called, new

LEMMA CompleteCall ==
  ASSUME TableOK(runs), NEW id \in RunIds, NEW a \in Nat, NEW w \in Workers,
         NEW m \in ServiceManifests,
         Repo!CompleteRun(id, a, w, m)
  PROVE  /\ Called
         /\ runs[id] # Nil /\ runs'[id] = Repo!Completed(runs[id], a, m) /\ runs[id].attempt = a
         /\ runs'[id].attempt = a /\ runs'[id].winning = a /\ runs'[id].manifest = m
         /\ runs'[id].commit = runs[id].commit
         /\ \A other \in RunIds : other # id => runs'[other] = runs[other]
<1> DEFINE new == Repo!Completed(runs[id], a, m)
<1>1. /\ runs[id] # Nil /\ Repo!CanComplete(runs[id], a, w)
      /\ runs' = [runs EXCEPT ![id] = new]
  BY DEF Repo!CompleteRun, Repo!Exists
<1>2. RowOK(runs[id])
  BY <1>1 DEF TableOK
<1>3. /\ RowOK(new) /\ Forward(runs[id], new) /\ runs[id].attempt = a
      /\ new.state = "COMPLETED" /\ new.attempt = a /\ new.winning = a
      /\ new.manifest = m /\ new.commit = runs[id].commit
  BY <1>1, <1>2, CompleteEffect
<1> HIDE DEF new
<1>4. /\ TableOK(runs') /\ TableStep(runs, runs') /\ runs'[id] = new
  BY <1>1, <1>3, ChangesRow
<1>5. Repo!Next
  BY DEF Repo!Next
<1>6. \A other \in RunIds : other # id => runs'[other] = runs[other]
  BY <1>1 DEF TableOK
<1> QED
  BY <1>1, <1>2, <1>3, <1>4, <1>5, <1>6 DEF Called, new

-----------------------------------------------------------------------------
(* Threads: where a step can leave the one that takes it. *)

LEMMA StepNames ==
  AttemptSteps =
    { "retrieving", "source", "pin", "workspace", "validating", "results", "reviewing", "review",
      "evaluating", "evaluation", "persisting", "report", "manifest", "readback", "complete",
      "fail" }
BY DEF AttemptSteps, Following

LEMMA WrittenNothing ==
  ASSUME NEW pc \in Resting \cup {"get", "claim", "retrieving", "source", "pin", "workspace",
                                "validating", "results", "fail"}
  PROVE  Written(pc) = {}
BY DEF Written, WrittenBefore, Resting

LEMMA WorkerOfThread ==
  ASSUME NEW t \in Threads
  PROVE  Worker(t) \in Workers /\ (~IsLoop(t) => t[2] \in RunIds)
BY RunServiceAssumption DEF Worker, IsLoop

LEMMA TicksAreNat == HeartbeatTicks \in Nat /\ HeartbeatTicks # 0
BY RunServiceAssumption

LEMMA SoundKept ==
  ASSUME NEW old, NEW new, TableOK(old), TableOK(new), TableStep(old, new),
         NEW me \in ThreadState, Sound(me, old)
  PROVE  Sound(me, new)
<1> SUFFICES ASSUME me.pc \in InHand PROVE Sound(me, new)
  BY DEF Sound, InHand, Executing, Sourced, AttemptSteps
<1>1. me.run \in RunIds /\ old[me.run] # Nil
  BY DEF Sound
<1>2. new[me.run] # Nil /\ Forward(old[me.run], new[me.run])
  BY <1>1 DEF TableStep
<1>3. old[me.run].attempt \in Nat /\ new[me.run].attempt \in Nat /\ me.attempt \in Nat
  BY <1>1, <1>2 DEF TableOK, RowOK, Row, Repo!Run, ThreadState
<1>4. me.pc \in AttemptSteps => me.attempt <= old[me.run].attempt
  BY DEF Sound
<1>5. me.pc \in AttemptSteps => me.attempt <= new[me.run].attempt
  BY <1>2, <1>3, <1>4 DEF Forward
<1>6. me.pc \in Executing /\ me.attempt = new[me.run].attempt => Begun(new[me.run])
  <2>1. SUFFICES ASSUME me.pc \in Executing, me.attempt = new[me.run].attempt
                 PROVE  Begun(new[me.run])
    OBVIOUS
  <2>2. me.attempt = old[me.run].attempt
    BY <1>2, <1>3, <1>4, <2>1 DEF Forward, Executing
  <2> QED
    BY <1>2, <2>1, <2>2 DEF Forward, Sound
<1>7. me.pc \in AttemptSteps \ {"pin", "fail"} /\ me.commit # Nil => new[me.run].commit = me.commit
  BY <1>2 DEF Forward, Sound
<1>8. me.pc \in Sourced \cup {"pin"} => me.commit # Nil
  BY DEF Sound
<1> QED
  BY <1>1, <1>2, <1>5, <1>6, <1>7, <1>8 DEF Sound

LEMMA RestingSound ==
  ASSUME NEW me, me.pc \in Resting
  PROVE  me.pc \notin AttemptSteps /\ me.pc \notin Executing /\ \A rows : Sound(me, rows)
BY StepNames DEF Resting, InHand, Executing, Sourced, Sound

(* The candidates of a poll. *)
LeasesSeen(poll, todo) ==
  /\ poll \in Resting /\ todo \subseteq Candidate
  /\ poll = "expired" => \A c \in todo : RowOK(c.row) /\ Active(c.row)

LEMMA FreeState ==
  ASSUME NEW pc, NEW todo, LeasesSeen(pc, todo)
  PROVE  Free(pc, todo) \in ThreadState /\ PollOK(Free(pc, todo)) /\ Free(pc, todo).pc \in Resting
BY DEF LeasesSeen, Free, ThreadState, PollOK

LEMMA IdleState == Idle \in ThreadState /\ PollOK(Idle) /\ Idle.pc \in Resting
BY FreeState DEF Idle, LeasesSeen, Resting

LEMMA PollingState ==
  ASSUME NEW poll, NEW todo, LeasesSeen(poll, todo)
  PROVE  /\ Polling(poll, todo) \in ThreadState /\ PollOK(Polling(poll, todo))
         /\ Polling(poll, todo).pc \in Resting
BY FreeState, IdleState DEF Polling

(* What a step of thread t does to the threads. Only an executor, or the thread that
   has just started the row's attempt, executes it afterwards; of the artifacts it
   should have written it had written all, or has written the last now. *)
Starts(me, row) ==
  me.pc = "retrieving" /\ row.state = "CLAIMED" /\ row.attempt = me.attempt

Puts(t, name) ==
  LET path == Path(thread[t].run, thread[t].attempt, name)
  IN  path \in DOMAIN store' /\ store'[path] = Bytes(t)

ThreadStep(t) ==
  /\ thread' \in [Threads -> ThreadState]
  /\ \A u \in Threads \ {t} : thread'[u] = thread[u]
  /\ PollOK(thread'[t]) /\ Sound(thread'[t], runs')
  /\ thread'[t].pc \in Executing =>
       /\ thread'[t].run = thread[t].run /\ thread'[t].attempt = thread[t].attempt
       /\ thread[t].pc \in Executing \/ Starts(thread[t], runs[thread[t].run])
  /\ \A name \in Written(thread'[t].pc) :
       /\ thread'[t].commit = thread[t].commit
       /\ name \in Written(thread[t].pc) \/ Puts(t, name)

LEMMA Rests ==
  ASSUME ThreadsOK, NEW t \in Threads, NEW me \in ThreadState, PollOK(me), me.pc \in Resting,
         thread' = [thread EXCEPT ![t] = me]
  PROVE  ThreadStep(t)
BY RestingSound, WrittenNothing DEF ThreadsOK, ThreadStep

LEMMA Returns ==
  ASSUME ThreadsOK, NEW t \in Threads, NEW error, thread' = Returned(t, error)
  PROVE  ThreadStep(t)
<1> DEFINE poll == thread[t].poll
           todo == IF error /\ poll = "expired" THEN {} ELSE thread[t].todo
           me   == IF IsLoop(t) THEN Polling(poll, todo) ELSE Idle
<1>1. thread' = [thread EXCEPT ![t] = me]
  BY DEF Returned
<1>2. LeasesSeen(poll, todo)
  BY DEF ThreadsOK, ThreadState, PollOK, LeasesSeen
<1> HIDE DEF poll, todo
<1>3. me \in ThreadState /\ PollOK(me) /\ me.pc \in Resting
  BY <1>2, IdleState, PollingState
<1> HIDE DEF me
<1> QED
  BY <1>1, <1>3, Rests

LEMMA Goes ==
  ASSUME ThreadsOK, NEW t \in Threads, NEW pc \in InHand, thread' = Goto(t, pc),
         thread[t].beating => pc \in AttemptSteps
  PROVE  /\ thread' \in [Threads -> ThreadState]
         /\ \A u \in Threads \ {t} : thread'[u] = thread[u]
         /\ thread'[t] = [thread[t] EXCEPT !.pc = pc]
         /\ thread'[t].pc = pc /\ thread'[t].run = thread[t].run
         /\ thread'[t].attempt = thread[t].attempt /\ thread'[t].commit = thread[t].commit
         /\ PollOK(thread'[t])
<1>1. thread[t] \in ThreadState /\ PollOK(thread[t])
  BY DEF ThreadsOK
<1>2. thread'[t] = [thread[t] EXCEPT !.pc = pc]
  BY DEF Goto, ThreadsOK
<1>3. \A u \in Threads \ {t} : thread'[u] = thread[u]
  BY DEF Goto, ThreadsOK
<1>4. thread'[t] \in ThreadState
  BY <1>1, <1>2 DEF ThreadState
<1>5. /\ thread'[t].pc = pc /\ thread'[t].run = thread[t].run
      /\ thread'[t].attempt = thread[t].attempt /\ thread'[t].commit = thread[t].commit
      /\ thread'[t].poll = thread[t].poll /\ thread'[t].todo = thread[t].todo
      /\ thread'[t].beating = thread[t].beating
  BY <1>1, <1>2 DEF ThreadState
<1>6. pc # "expired"
  BY StepNames DEF InHand
<1>7. PollOK(thread'[t])
  BY <1>1, <1>5, <1>6 DEF PollOK
<1>8. thread' \in [Threads -> ThreadState]
  BY <1>4 DEF Goto, ThreadsOK
<1> QED
  BY <1>2, <1>3, <1>5, <1>7, <1>8

LEMMA KeptInHand ==
  ASSUME ServiceOK, Called, NEW t \in Threads
  PROVE  Sound(thread[t], runs')
BY SoundKept DEF ServiceOK, ThreadsOK, Called

LEMMA Fails ==
  ASSUME ServiceOK, Called, NEW t \in Threads, thread[t].pc \in AttemptSteps,
         thread' = Goto(t, "fail")
  PROVE  ThreadStep(t)
<1>1. "fail" \in InHand /\ "fail" \in AttemptSteps /\ "fail" \notin Executing /\ "fail" \notin Sourced
  BY StepNames DEF InHand, Executing, Sourced
<1>2. /\ thread' \in [Threads -> ThreadState]
      /\ \A u \in Threads \ {t} : thread'[u] = thread[u]
      /\ thread'[t].pc = "fail" /\ thread'[t].run = thread[t].run
      /\ thread'[t].attempt = thread[t].attempt
      /\ PollOK(thread'[t])
  BY <1>1, Goes DEF ServiceOK
<1>3. Sound(thread'[t], runs')
  BY <1>1, <1>2, KeptInHand DEF Sound, InHand
<1> QED
  BY <1>1, <1>2, <1>3, WrittenNothing DEF ThreadStep

(* The next step of an attempt that has its row and, from the workspace on, its source. *)
LEMMA Advances ==
  ASSUME ServiceOK, Called, NEW t \in Threads, NEW pc \in Executing \ {"pin"},
         thread' = Goto(t, pc),
         \/ thread[t].pc \in Executing
         \/ Starts(thread[t], runs[thread[t].run]) /\ Begun(runs'[thread[t].run]),
         thread[t].commit # Nil => runs'[thread[t].run].commit = thread[t].commit,
         pc \in Sourced => thread[t].commit # Nil,
         \A name \in Written(pc) : name \in Written(thread[t].pc) \/ Puts(t, name)
  PROVE  ThreadStep(t)
<1>1. /\ pc \in InHand /\ pc \in AttemptSteps /\ pc \notin {"pin", "fail"}
      /\ thread[t].pc \in InHand /\ thread[t].pc \in AttemptSteps
  BY StepNames DEF InHand, Executing, Starts
<1>2. /\ thread' \in [Threads -> ThreadState]
      /\ \A u \in Threads \ {t} : thread'[u] = thread[u]
      /\ thread'[t].pc = pc /\ thread'[t].run = thread[t].run
      /\ thread'[t].attempt = thread[t].attempt /\ thread'[t].commit = thread[t].commit
      /\ PollOK(thread'[t])
  BY <1>1, Goes DEF ServiceOK
<1>3. Sound(thread'[t], runs')
  <2>1. Sound(thread[t], runs')
    BY KeptInHand
  <2>2. thread[t].attempt = runs'[thread[t].run].attempt => Begun(runs'[thread[t].run])
    BY <2>1 DEF Sound
  <2> QED
    BY <1>1, <1>2, <2>1, <2>2 DEF Sound, Executing, Sourced
<1> QED
  BY <1>1, <1>2, <1>3 DEF ThreadStep

(* Process gets its row. *)
LEMMA Starting ==
  ASSUME ServiceOK, Called, NEW t \in Threads, thread[t].pc \in InHand,
         NEW row, RowOK(row), row.expires \in Nat,
         row = runs'[thread[t].run],
         thread' = Started(t, row)
  PROVE  ThreadStep(t)
<1>1. /\ "retrieving" \in AttemptSteps /\ "retrieving" \in InHand
      /\ "retrieving" \notin Executing /\ "retrieving" \notin Sourced
      /\ "retrieving" \notin Resting
  BY StepNames DEF InHand, Executing, Sourced, Resting
<1>2. thread[t] \in ThreadState /\ PollOK(thread[t]) /\ clock + HeartbeatTicks \in Int
  BY TicksAreNat DEF ServiceOK, ThreadsOK
<1>3. row.attempt \in Nat /\ row.commit \in Commits \cup {Nil}
  BY DEF RowOK, Row, Repo!Run
<1> DEFINE me == [thread[t] EXCEPT !.pc = "retrieving", !.attempt = row.attempt,
                    !.commit = row.commit, !.expected = row.expires,
                    !.beat = clock + HeartbeatTicks, !.beating = TRUE]
<1>4. me \in ThreadState
  BY <1>1, <1>2, <1>3 DEF ThreadState
<1>5. /\ me.pc = "retrieving" /\ me.attempt = row.attempt /\ me.commit = row.commit
      /\ me.run = thread[t].run /\ me.poll = thread[t].poll /\ me.todo = thread[t].todo
  BY <1>2 DEF ThreadState
<1>6. thread' = [thread EXCEPT ![t] = me]
  BY DEF Started
<1> HIDE DEF me
<1>7. PollOK(me)
  BY <1>1, <1>2, <1>5 DEF PollOK
<1>8. Sound(me, runs')
  <2>1. thread[t].run \in RunIds /\ runs'[thread[t].run] # Nil
    BY KeptInHand DEF Sound
  <2> QED
    BY <1>1, <1>3, <1>5, <2>1 DEF Sound
<1>9. /\ thread' \in [Threads -> ThreadState] /\ thread'[t] = me
      /\ \A u \in Threads \ {t} : thread'[u] = thread[u]
  BY <1>4, <1>6 DEF ServiceOK, ThreadsOK
<1> QED
  BY <1>1, <1>5, <1>7, <1>8, <1>9, WrittenNothing DEF ThreadStep

(* A candidate taken, or a run created, is looked at next. *)
LEMMA TakesRun ==
  ASSUME ServiceOK, Called, NEW t \in Threads, thread[t].pc \in Resting,
         NEW id \in RunIds, runs'[id] # Nil, NEW todo, LeasesSeen(thread[t].poll, todo),
         thread' = [thread EXCEPT ![t].pc = "get", ![t].run = id, ![t].todo = todo]
  PROVE  ThreadStep(t)
<1>1. /\ "get" \in InHand /\ "get" \notin AttemptSteps /\ "get" \notin Executing
      /\ "get" \notin Sourced /\ thread[t].pc \notin AttemptSteps
  BY StepNames DEF InHand, Executing, Sourced, Resting
<1>2. thread[t] \in ThreadState /\ PollOK(thread[t])
  BY DEF ServiceOK, ThreadsOK
<1> DEFINE me == [thread[t] EXCEPT !.pc = "get", !.run = id, !.todo = todo]
<1>3. me \in ThreadState
  BY <1>1, <1>2 DEF ThreadState, LeasesSeen
<1>4. /\ me.pc = "get" /\ me.run = id /\ me.todo = todo /\ me.poll = thread[t].poll
      /\ me.beating = thread[t].beating
  BY <1>2 DEF ThreadState
<1>5. thread' = [thread EXCEPT ![t] = me]
  OBVIOUS
<1> HIDE DEF me
<1>6. PollOK(me)
  BY <1>1, <1>2, <1>4 DEF PollOK, LeasesSeen
<1>7. Sound(me, runs')
  BY <1>1, <1>4 DEF Sound
<1>8. /\ thread' \in [Threads -> ThreadState] /\ thread'[t] = me
      /\ \A u \in Threads \ {t} : thread'[u] = thread[u]
  BY <1>3, <1>5 DEF ServiceOK, ThreadsOK
<1> QED
  BY <1>1, <1>4, <1>6, <1>7, <1>8, WrittenNothing DEF ThreadStep

-----------------------------------------------------------------------------
(* Steps of the service, one by one. *)

(* A step of thread t that completes no run. *)
Step(t) == Called /\ ThreadStep(t) /\ NoneCompleted(runs, runs')

LEMMA NoCall ==
  ASSUME ServiceOK, UNCHANGED table
  PROVE  Called /\ NoneCompleted(runs, runs')
BY LeavesTable DEF ServiceOK, Called, table

LEMMA FindQueuedStep ==
  ASSUME ServiceOK, NEW t \in Threads, FindQueuedCandidates(t)
  PROVE  Step(t)
<1> DEFINE ids == {id \in Created : runs[id].state = "QUEUED"}
           me == Free("queued", Candidates(ids))
<1>1. Called /\ NoneCompleted(runs, runs')
  BY NoCall DEF FindQueuedCandidates
<1>2. LeasesSeen("queued", Candidates(ids))
  BY DEF ServiceOK, TableOK, Candidates, Candidate, Created, Repo!Exists, LeasesSeen, Resting
<1>3. thread' = [thread EXCEPT ![t] = me]
  BY DEF FindQueuedCandidates
<1>4. me \in ThreadState /\ PollOK(me) /\ me.pc \in Resting
  BY <1>2, FreeState
<1> HIDE DEF me
<1> QED
  BY <1>1, <1>3, <1>4, Rests DEF Step, ServiceOK

LEMMA FindReclaimStep ==
  ASSUME ServiceOK, NEW t \in Threads, FindReclaimCandidates(t)
  PROVE  Step(t)
<1> DEFINE ids == {id \in Created : LooksExpired(runs[id], clock)}
           me == Polling("expired", Candidates(ids))
<1>1. Called /\ NoneCompleted(runs, runs')
  BY NoCall DEF FindReclaimCandidates
<1>2. LeasesSeen("expired", Candidates(ids))
  <2>1. \A id \in ids : /\ id \in RunIds /\ runs[id] \in Row
                        /\ RowOK(runs[id]) /\ Active(runs[id])
    BY DEF ServiceOK, TableOK, Created, Repo!Exists, LooksExpired
  <2> QED
    BY <2>1 DEF Candidates, Candidate, LeasesSeen, Resting
<1>3. thread' = [thread EXCEPT ![t] = me]
  BY DEF FindReclaimCandidates
<1>4. me \in ThreadState /\ PollOK(me) /\ me.pc \in Resting
  BY <1>2, PollingState
<1> HIDE DEF me
<1> QED
  BY <1>1, <1>3, <1>4, Rests DEF Step, ServiceOK

(* A poll takes a candidate, skips it, or ends. *)
LEMMA TakesCandidate ==
  ASSUME ServiceOK, NEW t \in Threads, thread[t].pc \in Resting,
         NEW c \in thread[t].todo, Called, NoneCompleted(runs, runs'),
         NEW todo, todo = thread[t].todo \ {c},
         \/ /\ runs'[c.run] # Nil
            /\ thread' = [thread EXCEPT ![t].pc = "get", ![t].run = c.run, ![t].todo = todo]
         \/ thread' = [thread EXCEPT ![t] = Polling(@.poll, todo)]
         \/ thread' = [thread EXCEPT ![t] = Idle]
  PROVE  Step(t)
<1>1. LeasesSeen(thread[t].poll, todo) /\ c.run \in RunIds
  BY DEF ServiceOK, ThreadsOK, ThreadState, PollOK, LeasesSeen, Candidate
<1>2. CASE /\ runs'[c.run] # Nil
           /\ thread' = [thread EXCEPT ![t].pc = "get", ![t].run = c.run, ![t].todo = todo]
  BY <1>1, <1>2, TakesRun DEF Step
<1>3. CASE thread' = [thread EXCEPT ![t] = Polling(@.poll, todo)]
  <2> DEFINE me == Polling(thread[t].poll, todo)
  <2>1. me \in ThreadState /\ PollOK(me) /\ me.pc \in Resting
    BY <1>1, PollingState
  <2>2. thread' = [thread EXCEPT ![t] = me]
    BY <1>3
  <2> HIDE DEF me
  <2> QED
    BY <2>1, <2>2, Rests DEF Step, ServiceOK
<1>4. CASE thread' = [thread EXCEPT ![t] = Idle]
  BY <1>4, IdleState, Rests DEF Step, ServiceOK
<1> QED
  BY <1>2, <1>3, <1>4

LEMMA ClaimQueuedStep ==
  ASSUME ServiceOK, NEW t \in Threads, ClaimQueued(t)
  PROVE  Step(t)
<1>1. PICK c \in thread[t].todo :
        TakeCandidate(t, c, CanClaim(runs[c.run]), Repo!ClaimRun(c.run, Worker(t), clock))
  BY DEF ClaimQueued
<1>2. thread[t].pc \in Resting /\ c.run \in RunIds /\ clock \in Nat
  BY DEF ClaimQueued, Ready, Resting, ServiceOK, ThreadsOK, ThreadState, Candidate
<1>3. Repo!ClaimRun(c.run, Worker(t), clock) =>
        Called /\ NoneCompleted(runs, runs') /\ runs'[c.run] # Nil
  BY <1>2, WorkerOfThread, ClaimCall, NilIsNoServiceRow DEF ServiceOK, Row
<1>4. UNCHANGED table => Called /\ NoneCompleted(runs, runs')
  BY NoCall
<1> DEFINE todo == thread[t].todo \ {c}
<1>5. /\ Called /\ NoneCompleted(runs, runs')
      /\ \/ /\ runs'[c.run] # Nil
            /\ thread' = [thread EXCEPT ![t].pc = "get", ![t].run = c.run, ![t].todo = todo]
         \/ thread' = [thread EXCEPT ![t] = Polling(@.poll, todo)]
         \/ thread' = [thread EXCEPT ![t] = Idle]
  BY <1>1, <1>3, <1>4 DEF TakeCandidate
<1> HIDE DEF todo
<1> QED
  BY <1>2, <1>5, TakesCandidate DEF todo

LEMMA ReclaimExpiredStep ==
  ASSUME ServiceOK, NEW t \in Threads, ReclaimExpired(t)
  PROVE  Step(t)
<1>1. PICK c \in thread[t].todo :
        TakeCandidate(t, c, CanReclaim(runs[c.run], c.row, clock),
                      Repo!ReclaimExpiredRun(c.run, c.row, Worker(t), clock))
  BY DEF ReclaimExpired
<1>2. thread[t].pc \in Resting /\ c.run \in RunIds /\ clock \in Nat
  BY DEF ReclaimExpired, Ready, Resting, ServiceOK, ThreadsOK, ThreadState, Candidate
<1>3. RowOK(c.row) /\ Active(c.row)
  BY DEF ReclaimExpired, Ready, ServiceOK, ThreadsOK, PollOK
<1>4. Repo!ReclaimExpiredRun(c.run, c.row, Worker(t), clock) =>
        Called /\ NoneCompleted(runs, runs') /\ runs'[c.run] # Nil
  BY <1>2, <1>3, WorkerOfThread, ReclaimCall DEF ServiceOK
<1>5. UNCHANGED table => Called /\ NoneCompleted(runs, runs')
  BY NoCall
<1> DEFINE todo == thread[t].todo \ {c}
<1>6. /\ Called /\ NoneCompleted(runs, runs')
      /\ \/ /\ runs'[c.run] # Nil
            /\ thread' = [thread EXCEPT ![t].pc = "get", ![t].run = c.run, ![t].todo = todo]
         \/ thread' = [thread EXCEPT ![t] = Polling(@.poll, todo)]
         \/ thread' = [thread EXCEPT ![t] = Idle]
  BY <1>1, <1>4, <1>5 DEF TakeCandidate
<1> HIDE DEF todo
<1> QED
  BY <1>2, <1>6, TakesCandidate DEF todo

LEMMA SubmitStep ==
  ASSUME ServiceOK, NEW t \in Threads, Submit(t)
  PROVE  Step(t)
<1>1. t[2] \in RunIds /\ thread[t].pc \in Resting
  BY WorkerOfThread DEF Submit, Ready, Resting
<1>2. Called /\ NoneCompleted(runs, runs') /\ runs'[t[2]] # Nil
  BY <1>1, CreateCall DEF Submit, ServiceOK
<1>3. LeasesSeen(thread[t].poll, thread[t].todo)
  BY DEF ServiceOK, ThreadsOK, ThreadState, PollOK, LeasesSeen
<1>4. thread' = [thread EXCEPT ![t].pc = "get", ![t].run = t[2], ![t].todo = thread[t].todo]
  BY DEF Submit, ServiceOK, ThreadsOK, ThreadState
<1> QED
  BY <1>1, <1>2, <1>3, <1>4, TakesRun DEF Step

LEMMA GetRunStep ==
  ASSUME ServiceOK, NEW t \in Threads, GetRun(t)
  PROVE  Step(t)
<1> DEFINE row == runs[thread[t].run]
<1>1. Called /\ NoneCompleted(runs, runs') /\ runs' = runs
  BY NoCall DEF GetRun, table
<1>2. /\ thread[t].pc = "get" /\ thread[t].pc \in InHand /\ thread[t].pc \notin AttemptSteps
      /\ "claim" \in InHand /\ "claim" \notin AttemptSteps
      /\ "claim" \notin Executing /\ "claim" \notin Sourced
  BY StepNames DEF GetRun, Ready, InHand, Executing, Sourced
<1>3. RowOK(row)
  BY <1>2 DEF ServiceOK, ThreadsOK, Sound, TableOK
<1>4. CASE thread' = Goto(t, "claim")
  <2>1. ~thread[t].beating
    BY <1>2 DEF ServiceOK, ThreadsOK, PollOK
  <2>2. /\ thread' \in [Threads -> ThreadState]
        /\ \A u \in Threads \ {t} : thread'[u] = thread[u]
        /\ thread'[t].pc = "claim" /\ thread'[t].run = thread[t].run
        /\ PollOK(thread'[t])
    BY <1>2, <1>4, <2>1, Goes DEF ServiceOK
  <2>3. Sound(thread'[t], runs')
    BY <1>2, <1>1, <2>2, KeptInHand DEF Sound
  <2> QED
    BY <1>1, <1>2, <2>2, <2>3, WrittenNothing DEF Step, ThreadStep
<1>5. CASE row.state = "CLAIMED" /\ row.owner = Worker(t) /\ thread' = Started(t, row)
  <2>1. row.expires \in Nat
    BY <1>3, <1>5 DEF RowOK, Active, ActiveStates
  <2> HIDE DEF row
  <2>2. row = runs'[thread[t].run]
    BY <1>1 DEF row
  <2> QED
    BY <1>1, <1>2, <1>3, <1>5, <2>1, <2>2, Starting DEF Step
<1>6. CASE \E error \in BOOLEAN : thread' = Returned(t, error)
  BY <1>1, <1>6, Returns DEF Step, ServiceOK
<1> QED
  BY <1>4, <1>5, <1>6 DEF GetRun

LEMMA ClaimRunStep ==
  ASSUME ServiceOK, NEW t \in Threads, ClaimRun(t)
  PROVE  Step(t)
<1> DEFINE id == thread[t].run
           op == Repo!ClaimRun(id, Worker(t), clock)
<1>1. thread[t].pc = "claim" /\ thread[t].pc \in InHand
  BY DEF ClaimRun, Ready, InHand
<1>2. id \in RunIds /\ clock \in Nat /\ TableOK(runs)
  BY <1>1 DEF ServiceOK, ThreadsOK, Sound
<1>3. \/ op /\ thread' = Started(t, Claimed(runs[id], Worker(t), clock))
      \/ (op \/ UNCHANGED table) /\ thread' = Returned(t, TRUE)
  BY DEF ClaimRun, Call
<1>4. op => /\ Called /\ NoneCompleted(runs, runs')
            /\ runs'[id] = Claimed(runs[id], Worker(t), clock)
            /\ RowOK(runs'[id]) /\ runs'[id].expires \in Nat
  BY <1>2, WorkerOfThread, ClaimCall, SameRows
<1>5. UNCHANGED table => Called /\ NoneCompleted(runs, runs')
  BY NoCall
<1> HIDE DEF op
<1>6. CASE op /\ thread' = Started(t, Claimed(runs[id], Worker(t), clock))
  <2> DEFINE row == runs'[id]
  <2>1. row = runs'[thread[t].run] /\ thread' = Started(t, row) /\ RowOK(row) /\ row.expires \in Nat
    BY <1>4, <1>6
  <2> HIDE DEF row
  <2> QED
    BY <1>1, <1>4, <1>6, <2>1, Starting DEF Step
<1>7. CASE (op \/ UNCHANGED table) /\ thread' = Returned(t, TRUE)
  BY <1>4, <1>5, <1>7, Returns DEF Step, ServiceOK
<1> QED
  BY <1>3, <1>6, <1>7

(* The phases of an attempt, in their order. *)
LEMMA Phases ==
  ASSUME NEW pc \in DOMAIN PhaseChange
  PROVE  /\ pc \in AttemptSteps /\ Following[pc] \in Executing \ {"pin"}
         /\ <<PhaseChange[pc][1], PhaseChange[pc][2]>> \in Repo!PhaseOrder
         /\ pc = "retrieving" =>
              /\ PhaseChange[pc][1] = "CLAIMED"
              /\ Following[pc] \notin Sourced
         /\ pc # "retrieving" => pc \in Sourced
         /\ Written(Following[pc]) = Written(pc)
<1>1. pc \in {"retrieving", "validating", "reviewing", "evaluating", "persisting"}
  BY DEF PhaseChange
<1>2. /\ Following["retrieving"] = "source" /\ Following["validating"] = "results"
      /\ Following["reviewing"] = "review" /\ Following["evaluating"] = "evaluation"
      /\ Following["persisting"] = "report"
  BY DEF Following
<1>3. Following[pc] \in {"source", "results", "review", "evaluation", "report"}
  BY <1>1, <1>2
<1>4. pc \in AttemptSteps /\ Following[pc] \in Executing \ {"pin"}
  BY <1>1, <1>3, StepNames DEF Executing
<1>5. <<PhaseChange[pc][1], PhaseChange[pc][2]>> \in Repo!PhaseOrder
  BY <1>1 DEF PhaseChange, Repo!PhaseOrder
<1>6. pc = "retrieving" => PhaseChange[pc][1] = "CLAIMED" /\ Following[pc] \notin Sourced
  BY <1>2 DEF PhaseChange, Sourced
<1>7. pc # "retrieving" => pc \in Sourced
  BY <1>1, StepNames DEF Executing, Sourced
<1>8. Written(Following[pc]) = Written(pc)
  BY <1>1, <1>2 DEF Written, WrittenBefore
<1> QED
  BY <1>4, <1>5, <1>6, <1>7, <1>8

LEMMA UpdatePhaseStep ==
  ASSUME ServiceOK, NEW t \in Threads, UpdatePhase(t)
  PROVE  Step(t)
<1> DEFINE id == thread[t].run
           attempt == thread[t].attempt
           from == PhaseChange[thread[t].pc][1]
           to == PhaseChange[thread[t].pc][2]
           next == Following[thread[t].pc]
           op == Repo!UpdatePhase(id, attempt, Worker(t), from, to)
<1>1. /\ thread[t].pc \in DOMAIN PhaseChange /\ thread[t].pc \in AttemptSteps
      /\ thread[t].pc \in InHand
      /\ next \in Executing \ {"pin"} /\ <<from, to>> \in Repo!PhaseOrder
      /\ thread[t].pc = "retrieving" => from = "CLAIMED" /\ next \notin Sourced
      /\ thread[t].pc # "retrieving" => thread[t].pc \in Sourced
      /\ Written(next) = Written(thread[t].pc)
  BY Phases DEF UpdatePhase, InHand
<1>2. id \in RunIds /\ attempt \in Nat /\ TableOK(runs) /\ Sound(thread[t], runs)
  BY <1>1 DEF ServiceOK, ThreadsOK, ThreadState, Sound
<1>3. \/ op /\ thread' = Goto(t, next)
      \/ (op \/ UNCHANGED table) /\ thread' = Goto(t, "fail")
  BY DEF UpdatePhase, Call
<1> HIDE DEF from, to, next
<1>4. op => /\ Called /\ NoneCompleted(runs, runs')
            /\ runs[id].state = from /\ runs[id].attempt = attempt /\ Begun(runs'[id])
  BY <1>1, <1>2, WorkerOfThread, PhaseCall
<1>5. UNCHANGED table => Called /\ NoneCompleted(runs, runs')
  BY NoCall
<1> HIDE DEF op
<1>6. CASE op /\ thread' = Goto(t, next)
  <2>1. \/ thread[t].pc \in Executing
        \/ Starts(thread[t], runs[id]) /\ Begun(runs'[id])
    BY <1>1, <1>4, <1>6 DEF Starts, Sourced
  <2>2. thread[t].commit # Nil => runs'[id].commit = thread[t].commit
    <3>1. Sound(thread[t], runs')
      BY <1>4, <1>6, KeptInHand
    <3>2. thread[t].pc \notin {"pin", "fail"}
      BY <1>1 DEF Sourced, Executing
    <3> QED
      BY <1>1, <3>1, <3>2 DEF Sound
  <2>3. next \in Sourced => thread[t].commit # Nil
    BY <1>1, <1>2 DEF Sound
  <2> QED
    BY <1>1, <1>4, <1>6, <2>1, <2>2, <2>3, Advances DEF Step
<1>7. CASE (op \/ UNCHANGED table) /\ thread' = Goto(t, "fail")
  BY <1>1, <1>4, <1>5, <1>7, Fails DEF Step
<1> QED
  BY <1>3, <1>6, <1>7

LEMMA AcquireSourceStep ==
  ASSUME ServiceOK, NEW t \in Threads, AcquireSource(t)
  PROVE  Step(t)
<1>1. Called /\ NoneCompleted(runs, runs')
  BY NoCall DEF AcquireSource
<1>2. /\ thread[t].pc = "source" /\ thread[t].pc \in AttemptSteps /\ thread[t].pc \in InHand
      /\ thread[t].pc \in Executing
      /\ "pin" \in InHand /\ "pin" \in AttemptSteps /\ "pin" \in Executing
      /\ "pin" \notin Sourced /\ "workspace" \in Executing \ {"pin"}
  BY StepNames DEF AcquireSource, Ready, InHand, Executing, Sourced
<1>3. Sound(thread[t], runs')
  BY <1>1, KeptInHand
<1>4. ASSUME NEW c \in Commits, thread' = [Goto(t, "pin") EXCEPT ![t].commit = c]
      PROVE  ThreadStep(t)
  <2> DEFINE me == [thread[t] EXCEPT !.pc = "pin", !.commit = c]
  <2>1. thread[t] \in ThreadState /\ PollOK(thread[t]) /\ c # Nil
    BY DEF ServiceOK, ThreadsOK
  <2>2. me \in ThreadState
    BY <1>2, <2>1 DEF ThreadState
  <2>3. /\ me.pc = "pin" /\ me.commit = c /\ me.run = thread[t].run
        /\ me.attempt = thread[t].attempt /\ me.poll = thread[t].poll
        /\ me.todo = thread[t].todo
    BY <2>1 DEF ThreadState
  <2>4. thread' = [thread EXCEPT ![t] = me]
    BY <1>4 DEF Goto, ServiceOK, ThreadsOK
  <2> HIDE DEF me
  <2>5. PollOK(me)
    BY <1>2, <2>1, <2>3 DEF PollOK
  <2>6. Sound(me, runs')
    BY <1>2, <1>3, <2>1, <2>3 DEF Sound
  <2>7. /\ thread' \in [Threads -> ThreadState] /\ thread'[t] = me
        /\ \A u \in Threads \ {t} : thread'[u] = thread[u]
    BY <2>2, <2>4 DEF ServiceOK, ThreadsOK
  <2> QED
    BY <1>2, <2>3, <2>5, <2>6, <2>7, WrittenNothing DEF ThreadStep
<1>5. CASE thread[t].commit # Nil /\ thread' = Goto(t, "workspace")
  <2>1. runs'[thread[t].run].commit = thread[t].commit
    BY <1>2, <1>3, <1>5 DEF Sound
  <2> QED
    BY <1>1, <1>2, <1>5, <2>1, Advances, WrittenNothing DEF Step
<1>6. CASE thread' = Goto(t, "fail")
  BY <1>1, <1>2, <1>6, Fails DEF Step
<1>7. \/ \E c \in Commits : thread' = [Goto(t, "pin") EXCEPT ![t].commit = c]
      \/ thread[t].commit # Nil /\ thread' = Goto(t, "workspace")
      \/ thread' = Goto(t, "fail")
  BY DEF AcquireSource
<1> QED
  BY <1>1, <1>4, <1>5, <1>6, <1>7 DEF Step

LEMMA PinSourceStep ==
  ASSUME ServiceOK, NEW t \in Threads, PinSourceIfAbsent(t)
  PROVE  Step(t)
<1> DEFINE id == thread[t].run
           attempt == thread[t].attempt
           commit == thread[t].commit
           op == Repo!PinSourceIfAbsent(id, attempt, Worker(t), commit)
<1>1. /\ thread[t].pc = "pin" /\ thread[t].pc \in AttemptSteps /\ thread[t].pc \in InHand
      /\ thread[t].pc \in Executing /\ "workspace" \in Executing \ {"pin"}
  BY StepNames DEF PinSourceIfAbsent, Ready, InHand, Executing
<1>2. /\ id \in RunIds /\ attempt \in Nat /\ commit \in Commits /\ commit # Nil
      /\ TableOK(runs)
  BY <1>1 DEF ServiceOK, ThreadsOK, ThreadState, Sound
<1>3. \/ op /\ thread' = Goto(t, "workspace")
      \/ (op \/ UNCHANGED table) /\ thread' = Goto(t, "fail")
  BY DEF PinSourceIfAbsent, Call
<1>4. op => Called /\ NoneCompleted(runs, runs') /\ runs'[id].commit = commit
  BY <1>2, WorkerOfThread, PinCall
<1>5. UNCHANGED table => Called /\ NoneCompleted(runs, runs')
  BY NoCall
<1> HIDE DEF op
<1>6. CASE op /\ thread' = Goto(t, "workspace")
  BY <1>1, <1>2, <1>4, <1>6, Advances, WrittenNothing DEF Step
<1>7. CASE (op \/ UNCHANGED table) /\ thread' = Goto(t, "fail")
  BY <1>1, <1>4, <1>5, <1>7, Fails DEF Step
<1> QED
  BY <1>3, <1>6, <1>7

(* A step of an attempt that has its source and does not call the table. *)
LEMMA SourcedSteps ==
  ASSUME ServiceOK, NEW t \in Threads, UNCHANGED table,
         thread[t].pc \in Sourced, NEW pc \in Sourced,
         \/ /\ thread' = Goto(t, pc)
            /\ \A name \in Written(pc) : name \in Written(thread[t].pc) \/ Puts(t, name)
         \/ thread' = Goto(t, "fail")
  PROVE  Step(t)
<1>1. Called /\ NoneCompleted(runs, runs') /\ runs' = runs
  BY NoCall DEF table
<1>2. /\ thread[t].pc \in Executing /\ thread[t].pc \in AttemptSteps
      /\ thread[t].pc \notin {"pin", "fail"} /\ pc \in Executing \ {"pin"}
  BY DEF Sourced, Executing
<1>3. thread[t].commit # Nil /\ runs'[thread[t].run].commit = thread[t].commit
  BY <1>1, <1>2, KeptInHand DEF Sound
<1> QED
  BY <1>1, <1>2, <1>3, Advances, Fails DEF Step

LEMMA CreateWorkspaceStep ==
  ASSUME ServiceOK, NEW t \in Threads, CreateWorkspace(t)
  PROVE  Step(t)
<1>1. thread[t].pc \in Sourced /\ "validating" \in Sourced
  BY StepNames DEF CreateWorkspace, Ready, Sourced, Executing
<1> QED
  BY <1>1, SourcedSteps, WrittenNothing DEF CreateWorkspace

LEMMA ArtifactSteps ==
  ASSUME NEW pc \in ArtifactNames \cup {"manifest", "readback"}
  PROVE  /\ pc \in Sourced /\ Following[pc] \in Sourced
         /\ Written(Following[pc]) \subseteq Written(pc) \cup {pc}
BY StepNames
   DEF ArtifactNames, Entries, Following, Executing, Sourced, Written, WrittenBefore

LEMMA PutStores ==
  ASSUME NEW t \in Threads, Put(t, thread[t].pc)
  PROVE  \/ thread' = Goto(t, Following[thread[t].pc]) /\ Puts(t, thread[t].pc)
         \/ thread' = Goto(t, "fail")
BY DEF Put, Puts, Stored

LEMMA PutArtifactsStep ==
  ASSUME ServiceOK, NEW t \in Threads, PutArtifacts(t)
  PROVE  Step(t)
<1> DEFINE next == Following[thread[t].pc]
<1>1. /\ thread[t].pc \in Sourced /\ next \in Sourced
      /\ Written(next) \subseteq Written(thread[t].pc) \cup {thread[t].pc}
  BY ArtifactSteps DEF PutArtifacts
<1>2. /\ UNCHANGED table
      /\ \/ thread' = Goto(t, next) /\ Puts(t, thread[t].pc)
         \/ thread' = Goto(t, "fail")
  BY PutStores DEF PutArtifacts
<1> HIDE DEF next
<1> QED
  BY <1>1, <1>2, SourcedSteps

LEMMA PutManifestStep ==
  ASSUME ServiceOK, NEW t \in Threads, PutManifest(t)
  PROVE  Step(t)
<1> DEFINE next == Following[thread[t].pc]
<1>1. /\ thread[t].pc \in Sourced /\ next \in Sourced
      /\ Written(next) \subseteq Written(thread[t].pc) \cup {thread[t].pc}
  BY ArtifactSteps DEF PutManifest, Ready
<1>2. /\ UNCHANGED table
      /\ \/ thread' = Goto(t, next) /\ Puts(t, thread[t].pc)
         \/ thread' = Goto(t, "fail")
  BY PutStores DEF PutManifest, Ready
<1> HIDE DEF next
<1> QED
  BY <1>1, <1>2, SourcedSteps

LEMMA ReadBackStep ==
  ASSUME ServiceOK, NEW t \in Threads, ReadBackManifest(t)
  PROVE  Step(t)
<1>1. /\ thread[t].pc \in Sourced /\ "complete" \in Sourced
      /\ Written("complete") = Written(thread[t].pc)
  BY StepNames DEF ReadBackManifest, Ready, Sourced, Executing, Written, WrittenBefore
<1> QED
  BY <1>1, SourcedSteps DEF ReadBackManifest

(* What the row of a completed run says is what the thread had when it called. *)
LEMMA CompleteRunStep ==
  ASSUME ServiceOK, NEW t \in Threads, CompleteRun(t)
  PROVE  /\ Called /\ ThreadStep(t) /\ thread[t].pc = "complete"
         /\ thread'[t].pc \notin Executing
         /\ \/ NoneCompleted(runs, runs')
            \/ LET id == thread[t].run IN
               /\ id \in RunIds /\ runs[id] # Nil /\ runs[id].attempt = thread[t].attempt
               /\ runs'[id].attempt = thread[t].attempt
               /\ runs'[id].winning = thread[t].attempt
               /\ runs'[id].manifest = Manifest(t) /\ Manifest(t) \in ServiceManifests
               /\ runs'[id].commit = thread[t].commit
               /\ \A other \in RunIds : other # id => runs'[other] = runs[other]
<1> DEFINE id == thread[t].run
           attempt == thread[t].attempt
           op == Repo!CompleteRun(id, attempt, Worker(t), Manifest(t))
<1>1. /\ thread[t].pc = "complete" /\ thread[t].pc \in Sourced
      /\ thread[t].pc \in AttemptSteps /\ thread[t].pc \in InHand
      /\ thread[t].pc \notin {"pin", "fail"}
      /\ "fail" \notin Executing /\ \A pc \in Resting : pc \notin Executing
  BY StepNames DEF CompleteRun, Ready, Executing, Sourced, InHand, Resting
<1>2. /\ id \in RunIds /\ attempt \in Nat /\ TableOK(runs)
      /\ thread[t].commit \in Commits /\ runs[id].commit = thread[t].commit
  BY <1>1 DEF ServiceOK, ThreadsOK, ThreadState, Sound
<1>3. Manifest(t) \in ServiceManifests
  BY <1>2 DEF Manifest, ServiceManifests, Path, Bytes
<1>4. \/ op /\ thread' = Returned(t, FALSE)
      \/ (op \/ UNCHANGED table) /\ thread' = Goto(t, "fail")
  BY DEF CompleteRun, Call
<1>5. op => /\ Called /\ runs[id] # Nil /\ runs[id].attempt = attempt
            /\ runs'[id].attempt = attempt /\ runs'[id].winning = attempt
            /\ runs'[id].manifest = Manifest(t) /\ runs'[id].commit = runs[id].commit
            /\ \A other \in RunIds : other # id => runs'[other] = runs[other]
  BY <1>2, <1>3, WorkerOfThread, CompleteCall
<1>6. UNCHANGED table => Called /\ NoneCompleted(runs, runs')
  BY NoCall
<1> HIDE DEF op
<1>7. ThreadStep(t)
  BY <1>1, <1>4, <1>5, <1>6, Returns, Fails DEF ServiceOK
<1>8. thread'[t].pc \notin Executing
  <2>1. CASE thread' = Returned(t, FALSE)
    BY <1>1, <2>1, IdleState, PollingState
       DEF Returned, Polling, Free, Idle, ServiceOK, ThreadsOK, ThreadState, Resting
  <2>2. CASE thread' = Goto(t, "fail")
    BY <1>1, <2>2 DEF Goto, ServiceOK, ThreadsOK, ThreadState
  <2> QED
    BY <1>4, <2>1, <2>2
<1> QED
  BY <1>1, <1>2, <1>3, <1>4, <1>5, <1>6, <1>7, <1>8

LEMMA FailRunStep ==
  ASSUME ServiceOK, NEW t \in Threads, FailRun(t)
  PROVE  Step(t)
<1> DEFINE id == thread[t].run
           attempt == thread[t].attempt
           op == Repo!FailRun(id, attempt, Worker(t))
<1>1. thread[t].pc \in AttemptSteps /\ thread[t].pc \in InHand
  BY StepNames DEF FailRun, Ready, InHand
<1>2. id \in RunIds /\ attempt \in Nat /\ TableOK(runs)
  BY <1>1 DEF ServiceOK, ThreadsOK, ThreadState, Sound
<1>3. (op \/ UNCHANGED table) /\ (thread' = Returned(t, FALSE) \/ thread' = Returned(t, TRUE))
  BY DEF FailRun
<1>4. op => Called /\ NoneCompleted(runs, runs')
  BY <1>2, WorkerOfThread, FailCall
<1>5. UNCHANGED table => Called /\ NoneCompleted(runs, runs')
  BY NoCall
<1> HIDE DEF op
<1> QED
  BY <1>3, <1>4, <1>5, Returns DEF Step, ServiceOK

(* A heartbeat leaves the attempt where it is. *)
LEMMA Beats ==
  ASSUME ServiceOK, Called, NEW t \in Threads, thread[t].pc \in AttemptSteps,
         NEW me \in ThreadState, thread' = [thread EXCEPT ![t] = me],
         me.pc = thread[t].pc, me.poll = thread[t].poll, me.todo = thread[t].todo,
         me.run = thread[t].run, me.attempt = thread[t].attempt, me.commit = thread[t].commit
  PROVE  ThreadStep(t)
<1>1. /\ thread' \in [Threads -> ThreadState] /\ thread'[t] = me
      /\ \A u \in Threads \ {t} : thread'[u] = thread[u]
  BY DEF ServiceOK, ThreadsOK
<1>2. PollOK(me)
  BY DEF ServiceOK, ThreadsOK, PollOK
<1>3. Sound(me, runs')
  BY KeptInHand DEF Sound
<1> QED
  BY <1>1, <1>2, <1>3 DEF ThreadStep

LEMMA BeatStep ==
  ASSUME ServiceOK, NEW t \in Threads, Beat(t)
  PROVE  Step(t)
<1> DEFINE next == thread[t].expected + 2 * HeartbeatTicks
           op == Repo!RenewLease(thread[t].run, thread[t].attempt, Worker(t),
                                 thread[t].expected, next)
           beat == NextBeat(t)
           late == [thread[t] EXCEPT !.expected = next, !.beat = beat]
           cancelled == [thread[t] EXCEPT !.beating = FALSE, !.cancelled = TRUE]
<1>1. thread[t] \in ThreadState /\ PollOK(thread[t]) /\ clock \in Nat
  BY DEF ServiceOK, ThreadsOK
<1>2. thread[t].pc \in AttemptSteps /\ thread[t].pc \in InHand
  BY <1>1 DEF Beat, BeatDue, PollOK, InHand
<1>3. thread[t].run \in RunIds /\ TableOK(runs)
  BY <1>2 DEF ServiceOK, ThreadsOK, Sound
<1>4. /\ next \in Nat /\ thread[t].attempt \in Nat /\ thread[t].expected \in Nat
      /\ thread[t].beat \in Int
  BY <1>1, TicksAreNat DEF ThreadState
<1>5. beat \in Int
  <2>1. (clock - thread[t].beat) \div HeartbeatTicks \in Int
    BY <1>1, <1>4, TicksAreNat
  <2> QED
    BY <1>4, <2>1, TicksAreNat DEF NextBeat
<1>6. /\ op \/ UNCHANGED table
      /\ \/ UNCHANGED thread
         \/ thread' = [thread EXCEPT ![t] = late]
         \/ thread' = [thread EXCEPT ![t] = cancelled]
  BY DEF Beat, CancelledBy
<1> HIDE DEF next, beat
<1>7. op => Called /\ NoneCompleted(runs, runs')
  BY <1>3, <1>4, WorkerOfThread, RenewCall
<1>8. UNCHANGED table => Called /\ NoneCompleted(runs, runs')
  BY NoCall
<1> HIDE DEF op
<1>9. late \in ThreadState /\ cancelled \in ThreadState
  BY <1>1, <1>4, <1>5 DEF ThreadState
<1>10. CASE UNCHANGED thread
  <2>1. thread' = [thread EXCEPT ![t] = thread[t]]
    BY <1>10 DEF ServiceOK, ThreadsOK
  <2> QED
    BY <1>1, <1>2, <1>6, <1>7, <1>8, <2>1, Beats DEF Step
<1>11. CASE thread' = [thread EXCEPT ![t] = late]
  <2>1. /\ late.pc = thread[t].pc /\ late.poll = thread[t].poll /\ late.todo = thread[t].todo
        /\ late.run = thread[t].run /\ late.attempt = thread[t].attempt
        /\ late.commit = thread[t].commit
    BY <1>1 DEF ThreadState
  <2> HIDE DEF late
  <2> QED
    BY <1>2, <1>6, <1>7, <1>8, <1>9, <1>11, <2>1, Beats DEF Step
<1>12. CASE thread' = [thread EXCEPT ![t] = cancelled]
  <2>1. /\ cancelled.pc = thread[t].pc /\ cancelled.poll = thread[t].poll
        /\ cancelled.todo = thread[t].todo /\ cancelled.run = thread[t].run
        /\ cancelled.attempt = thread[t].attempt /\ cancelled.commit = thread[t].commit
    BY <1>1 DEF ThreadState
  <2> HIDE DEF cancelled
  <2> QED
    BY <1>2, <1>6, <1>7, <1>8, <1>9, <1>12, <2>1, Beats DEF Step
<1> QED
  BY <1>6, <1>10, <1>11, <1>12

(* A step of the world: the table and the store stay, a thread goes on or dies. *)
WorldStep ==
  /\ UNCHANGED table /\ UNCHANGED store /\ clock' \in Nat
  /\ thread' \in [Threads -> ThreadState]
  /\ \A t \in Threads : thread'[t] = thread[t] \/ thread'[t] = Idle

LEMMA WorldSteps ==
  ASSUME ServiceOK, \/ \E w \in Workers : Crash(w) \/ Restart(w)
                    \/ Tick \/ UNCHANGED vars
  PROVE  WorldStep
<1>1. clock \in Nat /\ thread \in [Threads -> ThreadState] /\ Idle \in ThreadState
  BY IdleState DEF ServiceOK, ThreadsOK
<1>2. ASSUME NEW w \in Workers, Crash(w)
      PROVE  WorldStep
  BY <1>1, <1>2 DEF Crash, WorldStep
<1> QED
  BY <1>1, <1>2 DEF Restart, Tick, vars, world, WorldStep

(* A step of thread t or of its heartbeat. *)
Acts(t) == LoopStep(t) \/ Submit(t) \/ ProcessStep(t) \/ Beat(t)

(* Every step. CompleteRun is the only one that completes a run. *)
LEMMA EveryStep ==
  ASSUME ServiceOK, [Next]_vars
  PROVE  \/ WorldStep
         \/ clock' = clock /\ \E t \in Threads : Acts(t) /\ (Step(t) \/ CompleteRun(t))
<1>1. ASSUME NEW t \in Threads, Acts(t)
      PROVE  clock' = clock /\ (Step(t) \/ CompleteRun(t))
  <2>1. clock' = clock
    BY <1>1 DEF Acts, LoopStep, ProcessStep, FindQueuedCandidates, ClaimQueued, FindReclaimCandidates,
         ReclaimExpired, Submit, GetRun, ClaimRun, UpdatePhase, AcquireSource, PinSourceIfAbsent,
         CreateWorkspace, PutArtifacts, PutManifest, ReadBackManifest, CompleteRun, FailRun, Beat,
         world
  <2> QED
    BY <1>1, <2>1, FindQueuedStep, ClaimQueuedStep, FindReclaimStep, ReclaimExpiredStep,
       SubmitStep, GetRunStep, ClaimRunStep, UpdatePhaseStep, AcquireSourceStep, PinSourceStep,
       CreateWorkspaceStep, PutArtifactsStep, PutManifestStep, ReadBackStep, FailRunStep, BeatStep
       DEF Acts, LoopStep, ProcessStep
<1> QED
  BY <1>1, WorldSteps DEF Next, Acts

(* One of the steps, as far as the rows and the threads go. *)
LEMMA EffectOfStep ==
  ASSUME ServiceOK, [Next]_vars
  PROVE  /\ Called
         /\ WorldStep \/ (clock' = clock /\ \E t \in Threads : Acts(t) /\ ThreadStep(t))
<1>1. ASSUME WorldStep PROVE Called
  <2>1. UNCHANGED table
    BY <1>1 DEF WorldStep
  <2> QED
    BY <2>1, NoCall
<1>2. ASSUME NEW t \in Threads, Step(t) \/ CompleteRun(t)
      PROVE  Called /\ ThreadStep(t)
  BY <1>2, CompleteRunStep DEF Step
<1> QED
  BY <1>1, <1>2, EveryStep

-----------------------------------------------------------------------------
(* Rows and threads *)

LEMMA InitServiceOK == Init => ServiceOK
<1> SUFFICES ASSUME Init PROVE ServiceOK
  OBVIOUS
<1>1. NewRun \in Row /\ RowOK(NewRun) /\ NewRun # Nil
  BY NewRow, NilIsNoServiceRow DEF RowOK, Row
<1>2. TableOK(runs)
  BY <1>1 DEF Init, TableOK
<1>3. ThreadsOK
  <2>1. \A t \in Threads : thread[t] = Idle
    BY DEF Init
  <2> QED
    BY <2>1, IdleState, RestingSound DEF Init, ThreadsOK
<1> QED
  BY <1>2, <1>3 DEF ServiceOK

LEMMA NextKeepsServiceOK == ServiceOK /\ [Next]_vars => ServiceOK'
<1> SUFFICES ASSUME ServiceOK, [Next]_vars PROVE ServiceOK'
  OBVIOUS
<1>1. /\ Called
      /\ WorldStep \/ (clock' = clock /\ \E t \in Threads : ThreadStep(t))
  BY EffectOfStep
<1>2. \A t \in Threads : PollOK(thread[t]) /\ Sound(thread[t], runs')
  BY <1>1, KeptInHand DEF ServiceOK, ThreadsOK
<1>3. CASE WorldStep
  <2>1. \A t \in Threads : PollOK(thread'[t]) /\ Sound(thread'[t], runs')
    BY <1>2, <1>3, IdleState, RestingSound DEF WorldStep
  <2> QED
    BY <1>1, <1>3, <2>1 DEF WorldStep, Called, ServiceOK, ThreadsOK
<1>4. ASSUME NEW t \in Threads, ThreadStep(t), clock' = clock
      PROVE  ServiceOK'
  <2>1. \A u \in Threads : PollOK(thread'[u]) /\ Sound(thread'[u], runs')
    BY <1>2, <1>4 DEF ThreadStep
  <2> QED
    BY <1>1, <1>4, <2>1 DEF ThreadStep, Called, ServiceOK, ThreadsOK
<1> QED
  BY <1>1, <1>3, <1>4

(* In every reachable state the rows have their types and leases, and every thread
   knows of its run what Sound says. *)
THEOREM ServiceStaysOK == Spec => []ServiceOK
BY InitServiceOK, NextKeepsServiceOK, PTL DEF Spec

(* Every attempt that has its source works on the run's commit. *)
THEOREM AttemptsUseThePinnedCommit == Spec => []EveryAttemptUsesThePinnedCommit
<1>1. ServiceOK => EveryAttemptUsesThePinnedCommit
  BY DEF ServiceOK, ThreadsOK, Sound, EveryAttemptUsesThePinnedCommit, Working, Sourced, Executing
<1> QED
  BY <1>1, ServiceStaysOK, PTL

(* The workers' table is the table of RunRepository: all that is proved of it for
   arbitrary callers holds for the service. *)
THEOREM ServiceUsesTheRepository == Spec => Repo!Spec
<1>1. Init => Repo!Init
  BY NewRow DEF Init, Repo!Init
<1>2. ServiceOK /\ [Next]_vars => [Repo!Next]_(Repo!vars)
  BY EffectOfStep DEF Called, table, Repo!vars
<1> QED
  BY <1>1, <1>2, ServiceStaysOK, PTL DEF Spec, Repo!Spec

(* A thread whose attempt is no longer the row's does not change the row. *)
THEOREM FencingHolds == Spec => FencedThreadsChangeNothing
<1>1. ServiceOK /\ [Next]_vars =>
        [\A t \in Threads :
           /\ Working(t) /\ thread'[t] # thread[t]
           /\ thread[t].attempt # runs[thread[t].run].attempt
           => runs' = runs]_vars
  <2> SUFFICES ASSUME ServiceOK, [Next]_vars, NEW t \in Threads,
                      Working(t), thread'[t] # thread[t],
                      thread[t].attempt # runs[thread[t].run].attempt
               PROVE  runs' = runs
    OBVIOUS
  <2>1. thread[t].pc \in AttemptSteps /\ thread[t].pc \notin Resting \cup {"get", "claim"}
    BY StepNames DEF Working, Resting
  <2>2. CASE WorldStep
    BY <2>2 DEF WorldStep, table
  <2>3. CASE \E u \in Threads : Acts(u) /\ ThreadStep(u)
    <3>1. Acts(t)
      BY <2>3 DEF ThreadStep
    <3>2. ~LoopStep(t) /\ ~Submit(t) /\ ~GetRun(t) /\ ~ClaimRun(t)
      BY <2>1 DEF LoopStep, FindQueuedCandidates, ClaimQueued, FindReclaimCandidates,
           ReclaimExpired, Submit, GetRun, ClaimRun, Ready, Resting
    <3>3. CASE UpdatePhase(t)
      BY <3>3 DEF UpdatePhase, Call, table, Repo!UpdatePhase, Repo!CanUpdatePhase, Repo!HeldBy
    <3>4. CASE PinSourceIfAbsent(t)
      BY <3>4 DEF PinSourceIfAbsent, Call, table, Repo!PinSourceIfAbsent, Repo!CanPin, Repo!HeldBy
    <3>5. CASE CompleteRun(t)
      BY <3>5 DEF CompleteRun, Call, table, Repo!CompleteRun, Repo!CanComplete, Repo!HeldBy
    <3>6. CASE FailRun(t)
      BY <3>6 DEF FailRun, table, Repo!FailRun, Repo!CanFail, Repo!HeldBy
    <3>7. CASE Beat(t)
      BY <3>7 DEF Beat, table, Repo!RenewLease, Repo!CanRenew, Repo!HeldBy
    <3>8. CASE \/ AcquireSource(t) \/ CreateWorkspace(t) \/ PutArtifacts(t) \/ PutManifest(t)
               \/ ReadBackManifest(t)
      BY <3>8 DEF AcquireSource, CreateWorkspace, PutArtifacts, PutManifest, ReadBackManifest, table
    <3> QED
      BY <3>1, <3>2, <3>3, <3>4, <3>5, <3>6, <3>7, <3>8 DEF Acts, ProcessStep
  <2> QED
    BY <2>2, <2>3, EffectOfStep
<1> QED
  BY <1>1, ServiceStaysOK, PTL DEF Spec, FencedThreadsChangeNothing

-----------------------------------------------------------------------------
(* Executors and artifacts *)

LEMMA ExecutingSteps ==
  /\ \A pc : pc \in Executing <=> pc \in AttemptSteps /\ pc \notin {"retrieving", "fail"}
  /\ Entries \subseteq Executing /\ "complete" \in Executing /\ Idle.pc \notin Executing
  /\ \A pc : Written(pc) # {} => pc \in Executing
  /\ Written(Idle.pc) = {} /\ Written("complete") = Entries
BY StepNames, WrittenNothing, IdleState
   DEF Executing, Entries, ArtifactNames, Written, WrittenBefore, Resting

LEMMA ExecutorIsAlone ==
  ASSUME OneExecutorPerAttempt, NEW t \in Threads, NEW u \in Threads,
         thread[t].pc \in Executing, thread[u].pc \in Executing,
         thread[t].run = thread[u].run, thread[t].attempt = thread[u].attempt
  PROVE  t = u
BY ExecutingSteps DEF OneExecutorPerAttempt, Working

(* A thread that starts to execute an attempt finds nobody executing it. *)
LEMMA StarterIsAlone ==
  ASSUME ServiceOK, NEW t \in Threads, NEW u \in Threads,
         Starts(thread[t], runs[thread[t].run]), thread[u].pc \in Executing,
         thread[t].run = thread[u].run, thread[t].attempt = thread[u].attempt
  PROVE  FALSE
BY DEF ServiceOK, ThreadsOK, Sound, Starts, Begun

LEMMA NextKeepsOneExecutor ==
  ServiceOK /\ OneExecutorPerAttempt /\ [Next]_vars => OneExecutorPerAttempt'
<1> SUFFICES ASSUME ServiceOK, OneExecutorPerAttempt, [Next]_vars,
                    NEW t \in Threads, NEW u \in Threads,
                    thread'[t].pc \in Executing, thread'[u].pc \in Executing,
                    thread'[t].run = thread'[u].run, thread'[t].attempt = thread'[u].attempt
             PROVE  t = u
  BY ExecutingSteps DEF OneExecutorPerAttempt, Working
<1>1. CASE WorldStep
  BY <1>1, ExecutorIsAlone, ExecutingSteps DEF WorldStep
<1>2. ASSUME NEW x \in Threads, ThreadStep(x)
      PROVE  t = u
  <2>1. ASSUME NEW y \in Threads, thread'[y].pc \in Executing
        PROVE  /\ thread'[y].run = thread[y].run /\ thread'[y].attempt = thread[y].attempt
               /\ \/ thread[y].pc \in Executing
                  \/ y = x /\ Starts(thread[y], runs[thread[y].run])
    BY <1>2, <2>1 DEF ThreadStep
  <2> QED
    BY <2>1, ExecutorIsAlone, StarterIsAlone
<1> QED
  BY <1>1, <1>2, EffectOfStep

(* Between two goroutines with one worker identity, only one gets past the start. *)
THEOREM OneExecutor == Spec => []OneExecutorPerAttempt
<1>1. Init => OneExecutorPerAttempt
  BY ExecutingSteps DEF Init, OneExecutorPerAttempt, Working
<1> QED
  BY <1>1, ServiceStaysOK, NextKeepsOneExecutor, PTL DEF Spec

LEMMA StoreStep ==
  ASSUME NEW t \in Threads, Acts(t)
  PROVE  \/ UNCHANGED store
         \/ \E name \in Entries :
              /\ thread[t].pc = name
              /\ store' = Stored(Path(thread[t].run, thread[t].attempt, name), Bytes(t))
<1>1. CASE PutArtifacts(t)
  BY <1>1 DEF PutArtifacts, Put, Entries
<1>2. CASE PutManifest(t)
  BY <1>2 DEF PutManifest, Put, Entries, Ready
<1>3. CASE LoopStep(t) \/ Submit(t)
  BY <1>3 DEF LoopStep, FindQueuedCandidates, ClaimQueued, FindReclaimCandidates,
       ReclaimExpired, Submit
<1>4. CASE \/ GetRun(t) \/ ClaimRun(t) \/ UpdatePhase(t) \/ AcquireSource(t)
           \/ PinSourceIfAbsent(t) \/ CreateWorkspace(t) \/ ReadBackManifest(t)
           \/ CompleteRun(t) \/ FailRun(t) \/ Beat(t)
  BY <1>4 DEF GetRun, ClaimRun, UpdatePhase, AcquireSource, PinSourceIfAbsent, CreateWorkspace,
       ReadBackManifest, CompleteRun, FailRun, Beat
<1> QED
  BY <1>1, <1>2, <1>3, <1>4 DEF Acts, ProcessStep

(* A step writes one path at most, that of an executor. *)
LEMMA StoreKeeps ==
  ASSUME NEW t \in Threads, Acts(t), NEW id, NEW attempt, NEW name, NEW bytes,
         Has(Path(id, attempt, name), bytes),
         \/ ~(thread[t].pc \in Executing /\ thread[t].run = id /\ thread[t].attempt = attempt)
         \/ bytes = Bytes(t)
  PROVE  Path(id, attempt, name) \in DOMAIN store' /\ store'[Path(id, attempt, name)] = bytes
<1> DEFINE path == Path(id, attempt, name)
<1>1. path \in DOMAIN store /\ store[path] = bytes
  BY DEF Has
<1>2. CASE UNCHANGED store
  BY <1>1, <1>2
<1>3. ASSUME NEW own \in Entries, thread[t].pc = own,
             store' = Stored(Path(thread[t].run, thread[t].attempt, own), Bytes(t))
      PROVE  path \in DOMAIN store' /\ store'[path] = bytes
  <2> DEFINE written == Path(thread[t].run, thread[t].attempt, own)
  <2>1. written = path => bytes = Bytes(t)
    BY <1>3, ExecutingSteps DEF Path
  <2>2. store' = [p \in DOMAIN store \cup {written} |->
                    IF p = written THEN Bytes(t) ELSE store[p]]
    BY <1>3 DEF Stored
  <2> HIDE DEF written, path
  <2> QED
    BY <1>1, <2>1, <2>2
<1> QED
  BY <1>2, <1>3, StoreStep

LEMMA NextKeepsArtifacts ==
  ServiceOK /\ OneExecutorPerAttempt /\ ArtifactsKept /\ [Next]_vars => ArtifactsKept'
<1> SUFFICES ASSUME ServiceOK, OneExecutorPerAttempt, ArtifactsKept, [Next]_vars,
                    NEW u \in Threads, NEW name \in Written(thread'[u].pc)
             PROVE  Has(Path(thread[u].run, thread[u].attempt, name), Bytes(u))'
  BY DEF ArtifactsKept
<1>1. thread'[u].pc \in Executing
  BY ExecutingSteps
<1>2. CASE WorldStep
  <2>1. thread'[u] = thread[u] /\ store' = store
    BY <1>1, <1>2, ExecutingSteps DEF WorldStep
  <2> QED
    BY <2>1 DEF ArtifactsKept, Has, Path, Bytes
<1>3. ASSUME NEW t \in Threads, Acts(t), ThreadStep(t)
      PROVE  Has(Path(thread[u].run, thread[u].attempt, name), Bytes(u))'
  <2>1. /\ thread'[u].run = thread[u].run /\ thread'[u].attempt = thread[u].attempt
        /\ thread'[u].commit = thread[u].commit
        /\ name \in Written(thread[u].pc) \/ Puts(u, name)
    BY <1>1, <1>3 DEF ThreadStep
  <2>2. CASE name \in Written(thread[u].pc)
    <3>1. Has(Path(thread[u].run, thread[u].attempt, name), Bytes(u)) /\ thread[u].pc \in Executing
      BY <2>2, ExecutingSteps DEF ArtifactsKept
    <3>2. \/ ~(/\ thread[t].pc \in Executing /\ thread[t].run = thread[u].run
               /\ thread[t].attempt = thread[u].attempt)
          \/ Bytes(u) = Bytes(t)
      BY <3>1, ExecutorIsAlone
    <3>3. LET path == Path(thread[u].run, thread[u].attempt, name)
          IN  path \in DOMAIN store' /\ store'[path] = Bytes(u)
      BY <1>3, <3>1, <3>2, StoreKeeps
    <3> QED
      BY <2>1, <3>3 DEF Has, Path, Bytes
  <2>3. CASE Puts(u, name)
    BY <2>1, <2>3 DEF Puts, Has, Path, Bytes
  <2> QED
    BY <2>1, <2>2, <2>3
<1> QED
  BY <1>2, <1>3, EffectOfStep

LEMMA NextKeepsNotDone ==
  ServiceOK /\ OneExecutorPerAttempt /\ ExecutorsNotDone /\ [Next]_vars => ExecutorsNotDone'
<1> SUFFICES ASSUME ServiceOK, OneExecutorPerAttempt, ExecutorsNotDone, [Next]_vars,
                    NEW u \in Threads, thread'[u].pc \in Executing,
                    thread'[u].attempt = runs'[thread'[u].run].attempt,
                    runs'[thread'[u].run].state = "COMPLETED"
             PROVE  FALSE
  BY DEF ExecutorsNotDone
<1> DEFINE id == thread'[u].run
<1>1. CASE WorldStep
  <2>1. thread'[u] = thread[u] /\ runs' = runs
    BY <1>1, ExecutingSteps DEF WorldStep, table
  <2> QED
    BY <2>1 DEF ExecutorsNotDone
<1>2. ASSUME NEW t \in Threads, Step(t) \/ CompleteRun(t)
      PROVE  FALSE
  <2>1. Called /\ ThreadStep(t)
    BY <1>2, CompleteRunStep DEF Step
  <2>2. /\ id = thread[u].run /\ thread'[u].attempt = thread[u].attempt
        /\ \/ thread[u].pc \in Executing
           \/ u = t /\ Starts(thread[u], runs[id])
    BY <2>1 DEF ThreadStep
  <2>3. thread[u].pc \in InHand
    BY <2>2, StepNames DEF Executing, Starts, InHand
  <2>4. id \in RunIds /\ runs[id] # Nil /\ runs'[id] # Nil /\ Forward(runs[id], runs'[id])
    BY <2>1, <2>2, <2>3 DEF ServiceOK, ThreadsOK, Sound, Called, TableStep
  <2>5. CASE NoneCompleted(runs, runs')
    <3>1. runs[id].state = "COMPLETED" /\ runs'[id] = runs[id]
      BY <2>4, <2>5 DEF NoneCompleted, Forward
    <3> QED
      BY <2>2, <3>1 DEF ExecutorsNotDone, Starts
  <2>6. CASE CompleteRun(t) /\ ~NoneCompleted(runs, runs')
    <3>1. /\ thread[t].pc \in Executing /\ thread'[t].pc \notin Executing
          /\ runs'[thread[t].run].attempt = thread[t].attempt
          /\ \A other \in RunIds : other # thread[t].run => runs'[other] = runs[other]
      BY <2>6, CompleteRunStep, ExecutingSteps
    <3>2. u # t /\ thread'[u] = thread[u]
      BY <2>1, <3>1 DEF ThreadStep
    <3>3. id # thread[t].run
      BY <2>2, <3>1, <3>2, ExecutorIsAlone
    <3> QED
      BY <2>2, <2>4, <3>1, <3>2, <3>3 DEF ExecutorsNotDone
  <2> QED
    BY <1>2, <2>5, <2>6 DEF Step
<1> QED
  BY <1>1, <1>2, EveryStep

(* What one run's row and artifacts must be once it is completed. *)
Documented(id, row, files) ==
  /\ row.winning = row.attempt
  /\ row.manifest # Nil /\ row.manifest.uri = Path(id, row.attempt, "manifest")
  /\ row.manifest.hash.commit = row.commit /\ row.manifest.hash.attempt = row.attempt
  /\ \A name \in Entries :
       /\ Path(id, row.attempt, name) \in DOMAIN files
       /\ files[Path(id, row.attempt, name)] = row.manifest.hash

LEMMA NextKeepsCompleted ==
  ServiceOK /\ StoreOK /\ [Next]_vars => CompletedKept'
<1> SUFFICES ASSUME ServiceOK, StoreOK, [Next]_vars,
                    NEW id \in RunIds, runs'[id] # Nil, runs'[id].state = "COMPLETED"
             PROVE  Documented(id, runs'[id], store')
  BY DEF CompletedKept, Documented, Has, Path, Repo!Exists
<1>1. ASSUME runs[id] # Nil, runs[id].state = "COMPLETED"
      PROVE  Documented(id, runs[id], store)
  BY <1>1 DEF StoreOK, CompletedKept, Documented, Has, Repo!Exists
<1>2. CASE WorldStep
  <2>1. runs' = runs /\ store' = store
    BY <1>2 DEF WorldStep, table
  <2> QED
    BY <1>1, <2>1
<1>3. ASSUME NEW t \in Threads, Acts(t), Step(t) \/ CompleteRun(t)
      PROVE  Documented(id, runs'[id], store')
  <2>1. Called
    BY <1>3, CompleteRunStep DEF Step
  <2>2. CASE runs[id] # Nil /\ runs[id].state = "COMPLETED"
    <3> DEFINE row == runs[id]
    <3>1. runs'[id] = row
      BY <2>1, <2>2 DEF Called, TableStep, Forward
    <3>2. Documented(id, row, store)
      BY <1>1, <2>2
    <3>3. ~(thread[t].pc \in Executing /\ thread[t].run = id /\ thread[t].attempt = row.attempt)
      BY <2>2 DEF StoreOK, ExecutorsNotDone
    <3>4. ASSUME NEW name \in Entries
          PROVE  /\ Path(id, row.attempt, name) \in DOMAIN store'
                 /\ store'[Path(id, row.attempt, name)] = row.manifest.hash
      <4>1. Has(Path(id, row.attempt, name), row.manifest.hash)
        BY <3>2 DEF Documented, Has
      <4> HIDE DEF row
      <4> QED
        BY <1>3, <3>3, <4>1, StoreKeeps
    <3> HIDE DEF row
    <3> QED
      BY <3>1, <3>2, <3>4 DEF Documented
  <2>3. CASE ~(runs[id] # Nil /\ runs[id].state = "COMPLETED")
    <3>1. ~NoneCompleted(runs, runs')
      BY <2>3 DEF NoneCompleted
    <3>2. CompleteRun(t)
      BY <1>3, <3>1 DEF Step
    <3>3. /\ thread[t].pc = "complete" /\ thread[t].run \in RunIds
          /\ runs'[thread[t].run].attempt = thread[t].attempt
          /\ runs'[thread[t].run].winning = thread[t].attempt
          /\ runs'[thread[t].run].manifest = Manifest(t)
          /\ Manifest(t) \in ServiceManifests
          /\ runs'[thread[t].run].commit = thread[t].commit
          /\ \A other \in RunIds : other # thread[t].run => runs'[other] = runs[other]
      BY <3>1, <3>2, CompleteRunStep
    <3>4. id = thread[t].run
      BY <2>3, <3>3
    <3>5. Manifest(t) # Nil
      BY <3>3, NilIsNoServiceRow
    <3>6. /\ Manifest(t).uri = Path(id, thread[t].attempt, "manifest")
          /\ Manifest(t).hash = Bytes(t)
          /\ Bytes(t).commit = thread[t].commit /\ Bytes(t).attempt = thread[t].attempt
      BY <3>4 DEF Manifest, Bytes
    <3>7. store' = store
      BY <3>2 DEF CompleteRun
    <3>8. \A name \in Entries :
            /\ Path(id, thread[t].attempt, name) \in DOMAIN store
            /\ store[Path(id, thread[t].attempt, name)] = Bytes(t)
      BY <3>3, <3>4, ExecutingSteps DEF StoreOK, ArtifactsKept, Has
    <3> QED
      BY <3>3, <3>4, <3>5, <3>6, <3>7, <3>8 DEF Documented
  <2> QED
    BY <2>2, <2>3
<1> QED
  BY <1>2, <1>3, EveryStep

LEMMA InitStoreOK == Init => StoreOK
<1> SUFFICES ASSUME Init PROVE StoreOK
  OBVIOUS
<1>1. \A t \in Threads : thread[t].pc \notin Executing /\ Written(thread[t].pc) = {}
  BY ExecutingSteps DEF Init
<1>2. \A id \in RunIds : Repo!Exists(id) => runs[id].state # "COMPLETED"
  BY NewRow DEF Init, Repo!Exists
<1>3. OneExecutorPerAttempt
  BY <1>1, ExecutingSteps DEF OneExecutorPerAttempt, Working
<1> QED
  BY <1>1, <1>2, <1>3 DEF StoreOK, ExecutorsNotDone, ArtifactsKept, CompletedKept

LEMMA NextKeepsStoreOK == ServiceOK /\ StoreOK /\ [Next]_vars => StoreOK'
BY NextKeepsOneExecutor, NextKeepsNotDone, NextKeepsArtifacts, NextKeepsCompleted DEF StoreOK

(* What executors have written stays, one executor at a time, and a completed run's
   artifacts are those its row stands for. *)
THEOREM StoreStaysOK == Spec => []StoreOK
BY InitStoreOK, ServiceStaysOK, NextKeepsStoreOK, PTL DEF Spec

(* Whoever reads a completed run is served what its manifest lists, as the winning
   attempt wrote it, whatever other attempts do. *)
THEOREM ReadersGetWhatWasCompleted == Spec => []ManifestIsAuthentic
<1>1. ServiceOK /\ StoreOK => ManifestIsAuthentic
  <2> SUFFICES ASSUME ServiceOK, StoreOK, NEW id \in RunIds, Repo!Exists(id),
                      runs[id].state = "COMPLETED"
               PROVE  LET hash == runs[id].manifest.hash IN
                      /\ hash.commit = runs[id].commit /\ hash.attempt = runs[id].winning
                      /\ \A name \in Entries : Served(id, name) = hash
    BY DEF ManifestIsAuthentic
  <2> DEFINE row == runs[id]
             hash == row.manifest.hash
  <2>1. Documented(id, row, store)
    BY DEF StoreOK, CompletedKept, Documented, Has
  <2> HIDE DEF row, hash
  <2>2. row.manifest # Nil /\ row.manifest.uri = <<id, row.attempt, "manifest">>
    BY <2>1 DEF Documented, Path
  <2>3. \A name \in Entries : Get(<<id, row.attempt, name>>) = hash
    BY <2>1 DEF Documented, Path, Get, hash
  <2>4. CatalogOf(id) = row.manifest
    <3>1. Get(row.manifest.uri) = hash
      BY <2>2, <2>3 DEF Entries
    <3> QED
      BY <2>2, <3>1 DEF CatalogOf, row, hash
  <2>5. ASSUME NEW name \in Entries
        PROVE  Served(id, name) = hash
    <3>1. [row.manifest.uri EXCEPT ![3] = name] = <<id, row.attempt, name>>
      BY <2>2
    <3> QED
      BY <2>2, <2>3, <2>4, <3>1 DEF Served
  <2>6. hash.commit = row.commit /\ hash.attempt = row.winning
    BY <2>1 DEF Documented, hash
  <2> QED
    BY <2>5, <2>6 DEF row, hash
<1> QED
  BY <1>1, ServiceStaysOK, StoreStaysOK, PTL

-----------------------------------------------------------------------------
(* Healthy attempts: the workers of RunServiceTimed, each of one thread. *)

(* A worker identity has one thread; the analyze command's does, and a server's
   when nobody posts an analysis to it. *)
OneThreadEach == \A t, u \in Threads : Worker(t) = Worker(u) => t = u

(* A lease outlasts the first heartbeat by a second, in which the order of the
   texts can be wrong. *)
BeatsInTime == HeartbeatTicks + TicksPerSecond <= LeaseTicks

(* The state of the row at each step of a healthy attempt. *)
StateAt ==
  [ retrieving |-> "CLAIMED", source |-> "RETRIEVING", pin |-> "RETRIEVING",
    workspace |-> "RETRIEVING", validating |-> "RETRIEVING", results |-> "VALIDATING",
    reviewing |-> "VALIDATING", review |-> "REVIEWING", evaluating |-> "REVIEWING",
    evaluation |-> "EVALUATING", persisting |-> "EVALUATING", report |-> "PERSISTING",
    manifest |-> "PERSISTING", readback |-> "PERSISTING", complete |-> "PERSISTING" ]

(* The attempt me of worker w holds the row, at the step the row says, and will
   renew the lease a second before it expires. *)
Healthy(me, row, w, now) ==
  /\ me.pc \in DOMAIN StateAt /\ row.state = StateAt[me.pc]
  /\ row.attempt = me.attempt /\ row.owner = w /\ row.expires = me.expected
  /\ row.commit = IF me.pc = "pin" THEN Nil ELSE me.commit
  /\ ~me.cancelled /\ me.beating
  /\ now <= me.beat /\ me.beat + TicksPerSecond <= me.expected

Fit(t) == Healthy(thread[t], runs[thread[t].run], Worker(t), clock)

(* A row that w has taken just now. *)
Fresh(row, w, now) ==
  row.state = "CLAIMED" /\ row.owner = w /\ row.expires = now + LeaseTicks

(* A thread between attempts: a loop has the run it has in hand just now, a
   request's run is not its worker's yet. *)
InPlace(t) ==
  LET me  == thread[t]
      row == runs[me.run] IN
  /\ me.pc # "idle" => Worker(t) \in alive
  /\ me.cancelled => me.pc \in AttemptSteps
  /\ me.pc = "claim" => ~IsLoop(t)
  /\ me.pc \in {"queued", "expired"} => IsLoop(t)
  /\ me.pc \in {"get", "claim"} =>
       IF IsLoop(t) THEN Fresh(row, Worker(t), clock) ELSE row.owner # Worker(t)

(* Thread t has run id in hand and will go on with it. *)
Serves(t, id) ==
  /\ thread[t].run = id
  /\ \/ thread[t].pc = "get" /\ IsLoop(t)
     \/ Fit(t)

(* Every attempt but the first is paid for by a crash or a fault, and the last of
   those that are paid for is in hand as long as its row is active. *)
PaidFor(id) ==
  /\ runs[id].attempt <= 1 + crashes + faults
  /\ Active(runs[id]) /\ runs[id].attempt = 1 + crashes + faults =>
       \E t \in Threads : Serves(t, id)
  /\ runs[id].state = "FAILED" => faults > 0

HealthOK ==
  /\ crashes \in Nat /\ faults \in Nat
  /\ \A t \in Threads : InPlace(t)
  /\ faults = 0 => \A t \in Threads : Working(t) => Fit(t)
  /\ \A id \in RunIds : runs[id] # Nil => PaidFor(id)

LEMMA Clocks ==
  /\ HeartbeatTicks \in Nat /\ HeartbeatTicks > 0
  /\ TicksPerSecond \in Nat /\ TicksPerSecond > 0
  /\ LeaseTicks \in Nat
<1>1. TicksPerSecond \in Nat /\ TicksPerSecond > 0
  BY LeaseTimeAssumption
<1>2. HeartbeatTicks \in Nat /\ HeartbeatTicks > 0
  BY TicksAreNat
<1> QED
  BY <1>1, <1>2

LEMMA HealthySteps ==
  /\ DOMAIN StateAt = AttemptSteps \ {"fail"}
  /\ \A pc \in DOMAIN StateAt : StateAt[pc] \in ActiveStates
  /\ \A pc \in DOMAIN StateAt : pc \in InHand /\ pc \notin {"idle", "get", "claim"}
<1>1. DOMAIN StateAt = AttemptSteps \ {"fail"}
  BY StepNames DEF StateAt
<1>2. \A pc \in DOMAIN StateAt : StateAt[pc] \in ActiveStates
  BY DEF StateAt, ActiveStates
<1>3. \A pc \in AttemptSteps : pc \notin {"idle", "get", "claim"}
  BY StepNames
<1> QED
  BY <1>1, <1>2, <1>3 DEF InHand

(* A lease with a second to go does not look expired. *)
LEMMA NotYetExpired ==
  ASSUME NEW e \in Nat, NEW now \in Nat, now + TicksPerSecond <= e
  PROVE  ~Repo!TextLeq(e, now)
<1>1. Repo!TextLeq(e, now) => TextLeq(e, now)
  BY DEF TextLeq, WholeSeconds, Fraction, FractionTextBefore, WrittenPrefix, Repo!TextLeq,
       Repo!WholeSeconds, Repo!Fraction, Repo!FractionTextBefore, Repo!WrittenPrefix
<1>2. TextLeq(e, now) => e < now + TicksPerSecond
  BY TextOrderWithinASecond DEF Instant
<1> QED
  BY <1>1, <1>2, Clocks

(* What a thread does to the rest of the world. *)
LEMMA ThreadsLeaveTheWorld ==
  ASSUME HealthOK, NEW t \in Threads, Acts(t)
  PROVE  /\ UNCHANGED <<alive, clock, crashes>> /\ Worker(t) \in alive
         /\ faults' = faults \/ faults' = faults + 1
<1> USE DEF world, Ready, BeatDue, Fault, Call, Unanswered, TakeCandidate
<1>1. CASE LoopStep(t) \/ Submit(t)
  BY <1>1 DEF LoopStep, FindQueuedCandidates, ClaimQueued, FindReclaimCandidates, ReclaimExpired,
       Submit
<1>2. CASE GetRun(t) \/ ClaimRun(t) \/ UpdatePhase(t) \/ PinSourceIfAbsent(t)
  BY <1>2 DEF GetRun, ClaimRun, UpdatePhase, PinSourceIfAbsent
<1>3. CASE AcquireSource(t) \/ CreateWorkspace(t) \/ PutArtifacts(t) \/ PutManifest(t)
  BY <1>3 DEF AcquireSource, CreateWorkspace, PutArtifacts, PutManifest, Put
<1>4. CASE ReadBackManifest(t) \/ CompleteRun(t) \/ FailRun(t)
  BY <1>4 DEF ReadBackManifest, CompleteRun, FailRun
<1>5. CASE Beat(t)
  BY <1>5 DEF Beat
<1> QED
  BY <1>1, <1>2, <1>3, <1>4, <1>5 DEF Acts, ProcessStep

(* The ways in which a step of thread t can change a row. *)
TakesQueued(t, old, new) ==
  /\ ~Working(t) /\ old.state = "QUEUED" /\ old.attempt = 0 /\ new.attempt = 1
  /\ Fresh(new, Worker(t), clock) /\ new.commit = old.commit

TakesExpired(t, old, new) ==
  /\ ~Working(t) /\ Active(old) /\ Repo!TextLeq(old.expires, clock)
  /\ new.attempt = old.attempt + 1 /\ Fresh(new, Worker(t), clock)

GoesOnWith(t, old, new) ==
  /\ Working(t) /\ Active(old) /\ old.owner = Worker(t)
  /\ new.attempt = old.attempt /\ new.owner \in {Worker(t), Nil}
  /\ new.state = "FAILED" => thread[t].pc = "fail"

RowStep(t, id, new) ==
  LET old == runs[id] IN
  \/ new = old
  \/ old = Nil /\ new = NewRun
  \/ old # Nil /\ TakesQueued(t, old, new)
  \/ old # Nil /\ TakesExpired(t, old, new)
  \/ old # Nil /\ thread[t].run = id /\ GoesOnWith(t, old, new)

(* A statement changes its own row and no other. *)
LEMMA OneRow ==
  ASSUME ServiceOK, NEW t, NEW id \in RunIds, NEW new, RowStep(t, id, new),
         runs' = [runs EXCEPT ![id] = new]
  PROVE  \A other \in RunIds : RowStep(t, other, runs'[other])
BY DEF ServiceOK, TableOK, RowStep

LEMMA RowsGoOn ==
  ASSUME ServiceOK, NEW t \in Threads, NEW id \in RunIds, thread[t].run = id, Working(t),
         NEW new, runs[id] # Nil, Active(runs[id]), runs[id].owner = Worker(t),
         new.attempt = runs[id].attempt, new.owner \in {Worker(t), Nil},
         new.state = "FAILED" => thread[t].pc = "fail", runs' = [runs EXCEPT ![id] = new]
  PROVE  \A other \in RunIds : RowStep(t, other, runs'[other])
<1>1. RowStep(t, id, new)
  BY DEF RowStep, GoesOnWith
<1> QED
  BY <1>1, OneRow

LEMMA ClaimsRow ==
  ASSUME ServiceOK, NEW t \in Threads, ~Working(t), NEW id \in RunIds,
         Repo!ClaimRun(id, Worker(t), clock)
  PROVE  /\ \A other \in RunIds : RowStep(t, other, runs'[other])
         /\ TakesQueued(t, runs[id], runs'[id]) /\ runs[id] # Nil
         /\ runs'[id] = Claimed(runs[id], Worker(t), clock)
<1> DEFINE new == Repo!Claimed(runs[id], Worker(t), clock)
<1>1. /\ runs[id] # Nil /\ Repo!CanClaim(runs[id]) /\ runs' = [runs EXCEPT ![id] = new]
      /\ new = Claimed(runs[id], Worker(t), clock)
  BY SameRows DEF Repo!ClaimRun, Repo!Exists
<1>2. runs[id] \in Row /\ clock \in Nat
  BY <1>1 DEF ServiceOK, TableOK, ThreadsOK, RowOK
<1>3. /\ new.state = "CLAIMED" /\ new.attempt = 1 /\ new.owner = Worker(t)
      /\ new.expires = clock + LeaseTicks /\ new.commit = runs[id].commit
  BY <1>2 DEF Repo!Claimed, Repo!Leased, Row, Repo!Run
<1>4. TakesQueued(t, runs[id], new)
  BY <1>1, <1>3 DEF TakesQueued, Fresh, Repo!CanClaim
<1> HIDE DEF new
<1>5. runs'[id] = new
  BY <1>1 DEF ServiceOK, TableOK
<1>6. RowStep(t, id, new)
  BY <1>1, <1>4 DEF RowStep
<1> QED
  BY <1>1, <1>4, <1>5, <1>6, OneRow

LEMMA ReclaimsRow ==
  ASSUME ServiceOK, NEW t \in Threads, ~Working(t),
         NEW c \in Candidate, RowOK(c.row), Active(c.row),
         Repo!ReclaimExpiredRun(c.run, c.row, Worker(t), clock)
  PROVE  /\ \A other \in RunIds : RowStep(t, other, runs'[other])
         /\ c.run \in RunIds /\ TakesExpired(t, runs[c.run], runs'[c.run])
<1> DEFINE id  == c.run
           new == Repo!Reclaimed(runs[id], c.row, Worker(t), clock)
<1>1. /\ id \in RunIds /\ runs[id] # Nil /\ Repo!CanReclaim(runs[id], c.row, clock)
      /\ runs' = [runs EXCEPT ![id] = new]
  BY DEF Repo!ReclaimExpiredRun, Repo!Exists, Candidate
<1>2. runs[id] \in Row
  BY <1>1 DEF ServiceOK, TableOK, RowOK
<1>3. /\ new.state = "CLAIMED" /\ new.attempt = c.row.attempt + 1 /\ new.owner = Worker(t)
      /\ new.expires = clock + LeaseTicks
  BY <1>2 DEF Repo!Reclaimed, Repo!Leased, Row, Repo!Run
<1>4. TakesExpired(t, runs[id], new)
  BY <1>1, <1>3 DEF TakesExpired, Fresh, Repo!CanReclaim, Repo!HeldBy, Active
<1> HIDE DEF new
<1>5. runs'[id] = new
  BY <1>1 DEF ServiceOK, TableOK
<1>6. RowStep(t, id, new)
  BY <1>1, <1>4 DEF RowStep
<1> QED
  BY <1>1, <1>4, <1>5, <1>6, OneRow

(* The rows an attempt's own statements leave. *)
LEMMA AttemptRows ==
  ASSUME NEW row \in Row, NEW to, NEW c, NEW e, NEW a, NEW m
  PROVE  /\ LET new == Repo!PhaseUpdated(row, to) IN
              /\ new.state = to /\ new.attempt = row.attempt /\ new.owner = row.owner
              /\ new.expires = row.expires /\ new.commit = row.commit
         /\ LET new == Repo!Pinned(row, c) IN
              /\ new.state = row.state /\ new.attempt = row.attempt /\ new.owner = row.owner
              /\ new.expires = row.expires /\ new.commit = c
         /\ LET new == Repo!Renewed(row, e) IN
              /\ new.state = row.state /\ new.attempt = row.attempt /\ new.owner = row.owner
              /\ new.expires = e /\ new.commit = row.commit
         /\ LET new == Repo!Completed(row, a, m) IN
              new.state = "COMPLETED" /\ new.attempt = row.attempt /\ new.owner = Nil
         /\ LET new == Repo!Failed(row) IN
              new.state = "FAILED" /\ new.attempt = row.attempt /\ new.owner = Nil
BY DEF Row, Repo!Run, Repo!PhaseUpdated, Repo!Pinned, Repo!Renewed, Repo!Completed, Repo!Failed

LEMMA EveryRowStep ==
  ASSUME ServiceOK, NEW t \in Threads, Acts(t)
  PROVE  \A id \in RunIds : RowStep(t, id, runs'[id])
<1> DEFINE mine == thread[t].run
           row  == runs[mine]
<1>0. thread[t].pc \in {"queued", "expired", "claim"} => ~Working(t)
  BY StepNames DEF Working
<1>1. ASSUME UNCHANGED table PROVE \A id \in RunIds : RowStep(t, id, runs'[id])
  BY <1>1 DEF table, RowStep
<1>2. ASSUME thread[t].pc \in AttemptSteps
      PROVE  /\ mine \in RunIds /\ row # Nil /\ row \in Row /\ Working(t)
             /\ thread[t].attempt \in Nat
  BY <1>2 DEF ServiceOK, TableOK, ThreadsOK, ThreadState, Sound, InHand, Working, RowOK
<1>3. CASE FindQueuedCandidates(t) \/ FindReclaimCandidates(t) \/ GetRun(t)
  BY <1>1, <1>3 DEF FindQueuedCandidates, FindReclaimCandidates, GetRun
<1>4. CASE \/ AcquireSource(t) \/ CreateWorkspace(t) \/ PutArtifacts(t) \/ PutManifest(t)
           \/ ReadBackManifest(t)
  BY <1>1, <1>4 DEF AcquireSource, CreateWorkspace, PutArtifacts, PutManifest, ReadBackManifest
<1>5. CASE ClaimQueued(t)
  <2>1. PICK c \in thread[t].todo :
          TakeCandidate(t, c, CanClaim(runs[c.run]), Repo!ClaimRun(c.run, Worker(t), clock))
    BY <1>5 DEF ClaimQueued
  <2>2. c.run \in RunIds
    BY DEF ServiceOK, ThreadsOK, ThreadState, Candidate
  <2>3. UNCHANGED table \/ Repo!ClaimRun(c.run, Worker(t), clock)
    BY <2>1 DEF TakeCandidate, table
  <2> QED
    BY <1>0, <1>1, <1>5, <2>2, <2>3, ClaimsRow DEF ClaimQueued, Ready
<1>6. CASE ReclaimExpired(t)
  <2>1. PICK c \in thread[t].todo :
          TakeCandidate(t, c, CanReclaim(runs[c.run], c.row, clock),
                        Repo!ReclaimExpiredRun(c.run, c.row, Worker(t), clock))
    BY <1>6 DEF ReclaimExpired
  <2>2. thread[t] \in ThreadState /\ PollOK(thread[t]) /\ thread[t].pc = "expired"
    BY <1>6 DEF ReclaimExpired, Ready, ServiceOK, ThreadsOK
  <2>3. c \in Candidate /\ RowOK(c.row) /\ Active(c.row)
    BY <2>2 DEF PollOK, ThreadState
  <2>4. UNCHANGED table \/ Repo!ReclaimExpiredRun(c.run, c.row, Worker(t), clock)
    BY <2>1 DEF TakeCandidate, table
  <2> QED
    BY <1>0, <1>1, <2>2, <2>3, <2>4, ReclaimsRow
<1>7. CASE Submit(t)
  <2>1. t[2] \in RunIds
    BY <1>7, WorkerOfThread DEF Submit
  <2>2. runs[t[2]] = Nil /\ runs' = [runs EXCEPT ![t[2]] = NewRun]
    BY <1>7, NewRow DEF Submit, Repo!CreateRun, Repo!Exists
  <2>3. RowStep(t, t[2], NewRun)
    BY <2>2 DEF RowStep
  <2> QED
    BY <2>1, <2>2, <2>3, OneRow
<1>8. CASE ClaimRun(t)
  <2>1. mine \in RunIds
    BY <1>8 DEF ClaimRun, Ready, ServiceOK, ThreadsOK, Sound, InHand
  <2>2. UNCHANGED table \/ Repo!ClaimRun(mine, Worker(t), clock)
    BY <1>8 DEF ClaimRun, Call
  <2> QED
    BY <1>0, <1>1, <1>8, <2>1, <2>2, ClaimsRow DEF ClaimRun, Ready
<1>9. CASE UpdatePhase(t)
  <2> DEFINE from == PhaseChange[thread[t].pc][1]
             to   == PhaseChange[thread[t].pc][2]
             new  == Repo!PhaseUpdated(row, to)
  <2>1. thread[t].pc \in DOMAIN PhaseChange /\ thread[t].pc \in AttemptSteps
    BY <1>9, Phases DEF UpdatePhase
  <2>2. from \in ActiveStates /\ to # "FAILED"
    BY <2>1 DEF PhaseChange, ActiveStates
  <2>3. UNCHANGED table \/ Repo!UpdatePhase(mine, thread[t].attempt, Worker(t), from, to)
    BY <1>9 DEF UpdatePhase, Call
  <2> HIDE DEF from, to
  <2>4. ASSUME Repo!UpdatePhase(mine, thread[t].attempt, Worker(t), from, to)
        PROVE  \A id \in RunIds : RowStep(t, id, runs'[id])
    <3>1. /\ row.state = from /\ row.owner = Worker(t) /\ runs' = [runs EXCEPT ![mine] = new]
      BY <2>4 DEF Repo!UpdatePhase, Repo!CanUpdatePhase, Repo!HeldBy
    <3>2. new.attempt = row.attempt /\ new.owner = row.owner /\ new.state = to
      BY <1>2, <2>1, AttemptRows
    <3> HIDE DEF new
    <3> QED
      BY <1>2, <2>1, <2>2, <3>1, <3>2, RowsGoOn DEF Active
  <2> QED
    BY <1>1, <2>3, <2>4
<1>10. CASE PinSourceIfAbsent(t)
  <2> DEFINE new == Repo!Pinned(row, thread[t].commit)
  <2>1. thread[t].pc \in AttemptSteps
    BY <1>10, StepNames DEF PinSourceIfAbsent, Ready
  <2>2. ASSUME Repo!PinSourceIfAbsent(mine, thread[t].attempt, Worker(t), thread[t].commit)
        PROVE  \A id \in RunIds : RowStep(t, id, runs'[id])
    <3>1. /\ row.state = "RETRIEVING" /\ row.owner = Worker(t)
          /\ runs' = [runs EXCEPT ![mine] = new]
      BY <2>2 DEF Repo!PinSourceIfAbsent, Repo!CanPin, Repo!HeldBy
    <3>2. new.attempt = row.attempt /\ new.owner = row.owner /\ new.state = row.state
      BY <1>2, <2>1, AttemptRows
    <3> HIDE DEF new
    <3> QED
      BY <1>2, <2>1, <3>1, <3>2, RowsGoOn DEF Active, ActiveStates
  <2> QED
    BY <1>1, <1>10, <2>2 DEF PinSourceIfAbsent, Call
<1>11. CASE CompleteRun(t)
  <2> DEFINE new == Repo!Completed(row, thread[t].attempt, Manifest(t))
  <2>1. thread[t].pc \in AttemptSteps
    BY <1>11, StepNames DEF CompleteRun, Ready
  <2>2. ASSUME Repo!CompleteRun(mine, thread[t].attempt, Worker(t), Manifest(t))
        PROVE  \A id \in RunIds : RowStep(t, id, runs'[id])
    <3>1. /\ row.state = "PERSISTING" /\ row.owner = Worker(t)
          /\ runs' = [runs EXCEPT ![mine] = new]
      BY <2>2 DEF Repo!CompleteRun, Repo!CanComplete, Repo!HeldBy
    <3>2. new.attempt = row.attempt /\ new.owner = Nil /\ new.state = "COMPLETED"
      BY <1>2, <2>1, AttemptRows
    <3> HIDE DEF new
    <3> QED
      BY <1>2, <2>1, <3>1, <3>2, RowsGoOn DEF Active, ActiveStates
  <2> QED
    BY <1>1, <1>11, <2>2 DEF CompleteRun, Call
<1>12. CASE FailRun(t)
  <2> DEFINE new == Repo!Failed(row)
  <2>1. thread[t].pc \in AttemptSteps /\ thread[t].pc = "fail"
    BY <1>12, StepNames DEF FailRun, Ready
  <2>2. ASSUME Repo!FailRun(mine, thread[t].attempt, Worker(t))
        PROVE  \A id \in RunIds : RowStep(t, id, runs'[id])
    <3>1. /\ Active(row) /\ row.owner = Worker(t) /\ runs' = [runs EXCEPT ![mine] = new]
      BY <2>2, SameRows DEF Repo!FailRun, Repo!CanFail, Repo!HeldBy
    <3>2. new.attempt = row.attempt /\ new.owner = Nil
      BY <1>2, <2>1, AttemptRows
    <3> HIDE DEF new
    <3> QED
      BY <1>2, <2>1, <3>1, <3>2, RowsGoOn
  <2> QED
    BY <1>1, <1>12, <2>2 DEF FailRun
<1>13. CASE Beat(t)
  <2> DEFINE next == thread[t].expected + 2 * HeartbeatTicks
             new  == Repo!Renewed(row, next)
  <2>1. thread[t].pc \in AttemptSteps
    BY <1>13 DEF Beat, BeatDue, ServiceOK, ThreadsOK, PollOK
  <2>2. UNCHANGED table
        \/ Repo!RenewLease(mine, thread[t].attempt, Worker(t), thread[t].expected, next)
    BY <1>13 DEF Beat, table
  <2> HIDE DEF next
  <2>3. ASSUME Repo!RenewLease(mine, thread[t].attempt, Worker(t), thread[t].expected, next)
        PROVE  \A id \in RunIds : RowStep(t, id, runs'[id])
    <3>1. /\ Active(row) /\ row.owner = Worker(t) /\ runs' = [runs EXCEPT ![mine] = new]
      BY <2>3, SameRows DEF Repo!RenewLease, Repo!CanRenew, Repo!HeldBy
    <3>2. new.attempt = row.attempt /\ new.owner = row.owner /\ new.state = row.state
      BY <1>2, <2>1, AttemptRows
    <3> HIDE DEF new
    <3> QED
      BY <1>2, <2>1, <3>1, <3>2, RowsGoOn DEF Active, ActiveStates
  <2> QED
    BY <1>1, <2>2, <2>3
<1> QED
  BY <1>3, <1>4, <1>5, <1>6, <1>7, <1>8, <1>9, <1>10, <1>11, <1>12, <1>13
     DEF Acts, LoopStep, ProcessStep

(* No other thread touches the row a healthy attempt or a loop has in hand. *)
LEMMA OthersLeaveRow ==
  ASSUME ServiceOK, OneThreadEach, NEW t \in Threads, NEW u \in Threads, t # u, Acts(t),
         NEW id \in RunIds, runs[id] # Nil, Active(runs[id]), runs[id].owner = Worker(u),
         runs[id].expires \in Nat, clock + TicksPerSecond <= runs[id].expires
  PROVE  runs'[id] = runs[id]
<1>1. RowStep(t, id, runs'[id])
  BY EveryRowStep
<1>2. Worker(t) # Worker(u)
  BY DEF OneThreadEach
<1>3. ~Repo!TextLeq(runs[id].expires, clock)
  BY NotYetExpired DEF ServiceOK, ThreadsOK
<1>4. runs[id].state # "QUEUED"
  BY DEF Active, ActiveStates
<1> QED
  BY <1>1, <1>2, <1>3, <1>4 DEF RowStep, TakesQueued, TakesExpired, GoesOnWith

(* What a healthy attempt or a loop's fresh claim means for the row. *)
LEMMA ServedRow ==
  ASSUME ServiceOK, HealthOK, BeatsInTime, NEW u \in Threads, NEW id, Serves(u, id)
  PROVE  /\ id \in RunIds /\ runs[id] # Nil /\ Active(runs[id]) /\ runs[id].owner = Worker(u)
         /\ runs[id].expires \in Nat /\ clock + TicksPerSecond <= runs[id].expires
<1>1. clock \in Nat /\ thread[u] \in ThreadState /\ Sound(thread[u], runs) /\ InPlace(u)
  BY DEF ServiceOK, ThreadsOK, HealthOK
<1>2. thread[u].run = id
  BY DEF Serves
<1>3. CASE thread[u].pc = "get" /\ IsLoop(u)
  <2>1. Fresh(runs[id], Worker(u), clock)
    BY <1>1, <1>2, <1>3 DEF InPlace
  <2>2. id \in RunIds /\ runs[id] # Nil
    BY <1>1, <1>2, <1>3 DEF Sound, InHand
  <2>3. clock + LeaseTicks \in Nat /\ clock + TicksPerSecond <= clock + LeaseTicks
    BY <1>1, Clocks DEF BeatsInTime
  <2> QED
    BY <2>1, <2>2, <2>3 DEF Fresh, Active, ActiveStates
<1>4. CASE Fit(u)
  <2>1. /\ thread[u].pc \in InHand /\ Active(runs[id])
        /\ runs[id].owner = Worker(u) /\ runs[id].expires = thread[u].expected
    BY <1>2, <1>4, HealthySteps DEF Fit, Healthy, Active
  <2>2. thread[u].expected \in Nat /\ thread[u].beat \in Int
    BY <1>1 DEF ThreadState
  <2>3. clock + TicksPerSecond <= thread[u].expected
    BY <1>1, <1>4, <2>2, Clocks DEF Fit, Healthy
  <2> QED
    BY <1>1, <1>2, <2>1, <2>2, <2>3 DEF Sound
<1> QED
  BY <1>3, <1>4 DEF Serves

(* An attempt goes on to another step of it. *)
LEMMA StaysHealthy ==
  ASSUME NEW me \in ThreadState, NEW row, NEW w, NEW now, Healthy(me, row, w, now),
         NEW pc \in DOMAIN StateAt, NEW new, NEW next, next = [me EXCEPT !.pc = pc],
         new.state = StateAt[pc], new.attempt = row.attempt, new.owner = row.owner,
         new.expires = row.expires, new.commit = IF pc = "pin" THEN Nil ELSE me.commit
  PROVE  Healthy(next, new, w, now)
<1>1. /\ next.pc = pc /\ next.attempt = me.attempt /\ next.expected = me.expected
      /\ next.commit = me.commit /\ next.cancelled = me.cancelled
      /\ next.beating = me.beating /\ next.beat = me.beat
  BY DEF ThreadState
<1> QED
  BY <1>1 DEF Healthy

LEMMA GoesOnHealthy ==
  ASSUME ServiceOK, NEW t \in Threads, Fit(t), clock' = clock,
         NEW pc \in DOMAIN StateAt, thread' = Goto(t, pc),
         LET new == runs'[thread[t].run]
             row == runs[thread[t].run] IN
         /\ new.state = StateAt[pc] /\ new.attempt = row.attempt /\ new.owner = row.owner
         /\ new.expires = row.expires
         /\ new.commit = IF pc = "pin" THEN Nil ELSE thread[t].commit
  PROVE  Fit(t)' /\ thread'[t].run = thread[t].run
<1>1. thread[t] \in ThreadState
  BY DEF ServiceOK, ThreadsOK
<1>2. thread'[t] = [thread[t] EXCEPT !.pc = pc]
  BY DEF Goto, ServiceOK, ThreadsOK
<1>3. thread'[t].run = thread[t].run
  BY <1>1, <1>2 DEF ThreadState
<1>4. Healthy(thread'[t], runs'[thread[t].run], Worker(t), clock)
  BY <1>1, <1>2, StaysHealthy DEF Fit
<1> QED
  BY <1>3, <1>4 DEF Fit

(* Where a healthy attempt goes, and what it finds there. *)
LEMMA HealthyOrder ==
  /\ \A pc \in DOMAIN PhaseChange :
       /\ pc \in DOMAIN StateAt /\ StateAt[pc] = PhaseChange[pc][1] /\ pc # "pin"
       /\ Following[pc] \in DOMAIN StateAt /\ Following[pc] # "pin"
       /\ StateAt[Following[pc]] = PhaseChange[pc][2]
  /\ \A pc \in Entries :
       /\ Following[pc] \in DOMAIN StateAt /\ Following[pc] # "pin" /\ pc # "pin"
       /\ StateAt[Following[pc]] = StateAt[pc]
<1>1. ASSUME NEW pc \in DOMAIN PhaseChange
      PROVE  /\ pc \in DOMAIN StateAt /\ StateAt[pc] = PhaseChange[pc][1] /\ pc # "pin"
             /\ Following[pc] \in DOMAIN StateAt /\ Following[pc] # "pin"
             /\ StateAt[Following[pc]] = PhaseChange[pc][2]
  <2>1. pc \in {"retrieving", "validating", "reviewing", "evaluating", "persisting"}
    BY DEF PhaseChange
  <2>2. /\ Following["retrieving"] = "source" /\ Following["validating"] = "results"
        /\ Following["reviewing"] = "review" /\ Following["evaluating"] = "evaluation"
        /\ Following["persisting"] = "report"
    BY DEF Following
  <2> QED
    BY <2>1, <2>2 DEF PhaseChange, StateAt
<1>2. ASSUME NEW pc \in Entries
      PROVE  /\ Following[pc] \in DOMAIN StateAt /\ Following[pc] # "pin" /\ pc # "pin"
             /\ StateAt[Following[pc]] = StateAt[pc]
  <2>1. pc \in {"results", "review", "evaluation", "report", "manifest"}
    BY DEF Entries, ArtifactNames
  <2>2. /\ Following["results"] = "reviewing" /\ Following["review"] = "evaluating"
        /\ Following["evaluation"] = "persisting" /\ Following["report"] = "manifest"
        /\ Following["manifest"] = "readback"
    BY DEF Following
  <2> QED
    BY <2>1, <2>2 DEF StateAt
<1> QED
  BY <1>1, <1>2

(* A step of a healthy attempt in which nothing fails. *)
GoesWell(t) ==
  \/ Fit(t)' /\ thread'[t].run = thread[t].run
  \/ /\ thread'[t].pc \in Resting
     /\ ~Active(runs'[thread[t].run])

LEMMA HealthyFiles ==
  ASSUME ServiceOK, StoreOK, HealthOK, NEW t \in Threads, Fit(t), UNCHANGED faults,
         UNCHANGED clock,
         \/ AcquireSource(t) \/ CreateWorkspace(t) \/ PutArtifacts(t) \/ PutManifest(t)
         \/ ReadBackManifest(t)
  PROVE  GoesWell(t)
<1> DEFINE row == runs[thread[t].run]
<1>1. /\ thread[t].pc \in DOMAIN StateAt /\ row.state = StateAt[thread[t].pc]
      /\ row.commit = (IF thread[t].pc = "pin" THEN Nil ELSE thread[t].commit)
      /\ ~thread[t].cancelled
  BY DEF Fit, Healthy
<1>2. faults \in Nat /\ faults' # faults + 1
  BY DEF HealthOK
<1>3. runs' = runs
  BY DEF AcquireSource, CreateWorkspace, PutArtifacts, PutManifest, ReadBackManifest, table
<1>4. ASSUME NEW pc \in DOMAIN StateAt, thread' = Goto(t, pc),
             StateAt[pc] = StateAt[thread[t].pc], pc # "pin", thread[t].pc # "pin"
      PROVE  GoesWell(t)
  BY <1>1, <1>3, <1>4, GoesOnHealthy DEF GoesWell
<1>5. CASE AcquireSource(t)
  <2>1. thread[t].pc = "source"
    BY <1>5 DEF AcquireSource, Ready
  <2>2. CASE thread[t].commit # Nil
    <3>1. thread' = Goto(t, "workspace")
      BY <1>1, <1>2, <1>5, <2>2 DEF AcquireSource, Fault
    <3>2. "workspace" \in DOMAIN StateAt /\ StateAt["workspace"] = StateAt["source"]
      BY DEF StateAt
    <3> QED
      BY <1>4, <2>1, <3>1, <3>2
  <2>3. CASE thread[t].commit = Nil
    <3>1. PICK c \in Commits : thread' = [Goto(t, "pin") EXCEPT ![t].commit = c]
      BY <1>1, <1>2, <1>5, <2>3 DEF AcquireSource, Fault
    <3>2. thread[t] \in ThreadState /\ thread \in [Threads -> ThreadState]
      BY DEF ServiceOK, ThreadsOK
    <3>3. thread'[t] = [thread[t] EXCEPT !.pc = "pin", !.commit = c]
      BY <3>1, <3>2 DEF Goto
    <3>4. /\ thread'[t].pc = "pin" /\ thread'[t].attempt = thread[t].attempt
          /\ thread'[t].expected = thread[t].expected /\ thread'[t].run = thread[t].run
          /\ thread'[t].cancelled = thread[t].cancelled
          /\ thread'[t].beating = thread[t].beating /\ thread'[t].beat = thread[t].beat
      BY <3>2, <3>3 DEF ThreadState
    <3>5. "pin" \in DOMAIN StateAt /\ StateAt["pin"] = StateAt["source"] /\ row.commit = Nil
      BY <1>1, <2>1, <2>3 DEF StateAt
    <3>6. Healthy(thread'[t], runs[thread[t].run], Worker(t), clock)
      BY <2>1, <3>4, <3>5 DEF Fit, Healthy
    <3> QED
      BY <1>3, <3>4, <3>6 DEF GoesWell, Fit
  <2> QED
    BY <2>2, <2>3
<1>6. CASE CreateWorkspace(t)
  <2>1. thread[t].pc = "workspace" /\ thread' = Goto(t, "validating")
    BY <1>1, <1>2, <1>6 DEF CreateWorkspace, Ready, Fault
  <2>2. "validating" \in DOMAIN StateAt /\ StateAt["validating"] = StateAt["workspace"]
    BY DEF StateAt
  <2> QED
    BY <1>4, <2>1, <2>2
<1>7. CASE PutArtifacts(t) \/ PutManifest(t)
  <2>1. thread[t].pc \in Entries /\ thread' = Goto(t, Following[thread[t].pc])
    BY <1>1, <1>2, <1>7 DEF PutArtifacts, PutManifest, Put, Ready, Fault, Entries
  <2> QED
    BY <1>4, <2>1, HealthyOrder
<1>8. CASE ReadBackManifest(t)
  <2>1. thread[t].pc = "readback"
    BY <1>8 DEF ReadBackManifest, Ready
  <2>2. store[Path(thread[t].run, thread[t].attempt, "manifest")] = Bytes(t)
    <3>1. "manifest" \in Written(thread[t].pc)
      BY <2>1 DEF Written, WrittenBefore, Entries
    <3> QED
      BY <3>1 DEF StoreOK, ArtifactsKept, Has
  <2>3. thread' = Goto(t, "complete")
    BY <1>1, <1>2, <1>8, <2>2 DEF ReadBackManifest, Unanswered, Fault
  <2>4. "complete" \in DOMAIN StateAt /\ StateAt["complete"] = StateAt["readback"]
    BY DEF StateAt
  <2> QED
    BY <1>4, <2>1, <2>3, <2>4
<1> QED
  BY <1>5, <1>6, <1>7, <1>8

LEMMA ReturnedRests ==
  ASSUME ServiceOK, NEW t \in Threads, NEW error, thread' = Returned(t, error)
  PROVE  /\ thread'[t].pc \in Resting /\ ~thread'[t].cancelled
         /\ thread'[t].pc # "idle" => IsLoop(t)
<1> DEFINE poll == thread[t].poll
           todo == IF error /\ poll = "expired" THEN {} ELSE thread[t].todo
           me   == IF IsLoop(t) THEN Polling(poll, todo) ELSE Idle
<1>1. thread'[t] = me
  BY DEF Returned, ServiceOK, ThreadsOK
<1>2. poll \in Resting
  BY DEF ServiceOK, ThreadsOK, ThreadState
<1> HIDE DEF poll, todo
<1>3. me.pc \in Resting /\ me.cancelled = FALSE /\ (me.pc # "idle" => IsLoop(t))
  BY <1>2 DEF Polling, Idle, Free, Resting
<1> HIDE DEF me
<1> QED
  BY <1>1, <1>3

(* A call of a healthy attempt does what it asks for, unless it fails. *)
LEMMA CallGoesWell ==
  ASSUME HealthOK, NEW t, ~thread[t].cancelled, UNCHANGED faults,
         NEW STATE can, can, NEW ACTION op, NEW ACTION ok, NEW ACTION error,
         Call(t, can, op, ok, error)
  PROVE  op /\ thread' = ok
<1>1. faults' # faults + 1
  BY DEF HealthOK
<1> QED
  BY <1>1 DEF Call, Unanswered, Fault

LEMMA HealthyStatements ==
  ASSUME ServiceOK, HealthOK, NEW t \in Threads, Fit(t), UNCHANGED faults, UNCHANGED clock,
         UpdatePhase(t) \/ PinSourceIfAbsent(t) \/ CompleteRun(t)
  PROVE  GoesWell(t)
<1> DEFINE me  == thread[t]
           id  == me.run
           row == runs[id]
<1>1. /\ me.pc \in DOMAIN StateAt /\ row.state = StateAt[me.pc]
      /\ row.attempt = me.attempt /\ row.owner = Worker(t)
      /\ row.commit = (IF me.pc = "pin" THEN Nil ELSE me.commit)
      /\ ~me.cancelled
  BY DEF Fit, Healthy
<1>2. id \in RunIds /\ row # Nil /\ row \in Row /\ runs \in [RunIds -> Row \cup {Nil}]
  BY <1>1, HealthySteps DEF ServiceOK, ThreadsOK, TableOK, RowOK, Sound
<1>3. CASE UpdatePhase(t)
  <2> DEFINE from == PhaseChange[me.pc][1]
             to   == PhaseChange[me.pc][2]
             pc   == Following[me.pc]
             new  == Repo!PhaseUpdated(row, to)
  <2>1. /\ me.pc \in DOMAIN PhaseChange
        /\ Call(t, CanUpdatePhase(row, me.attempt, Worker(t), from),
                Repo!UpdatePhase(id, me.attempt, Worker(t), from, to),
                Goto(t, pc), Goto(t, "fail"))
    BY <1>3 DEF UpdatePhase
  <2>2. /\ me.pc # "pin" /\ StateAt[me.pc] = from
        /\ pc \in DOMAIN StateAt /\ pc # "pin" /\ StateAt[pc] = to
    BY <2>1, HealthyOrder
  <2> HIDE DEF from, to, pc
  <2>3. CanUpdatePhase(row, me.attempt, Worker(t), from)
    BY <1>1, <2>2 DEF CanUpdatePhase, HeldBy
  <2>4. /\ Repo!UpdatePhase(id, me.attempt, Worker(t), from, to) /\ thread' = Goto(t, pc)
    BY <1>1, <2>1, <2>3, CallGoesWell
  <2>5. runs' = [runs EXCEPT ![id] = new]
    BY <2>4 DEF Repo!UpdatePhase
  <2>6. runs'[id] = new
    BY <1>2, <2>5
  <2>7. /\ new.state = to /\ new.attempt = row.attempt /\ new.owner = row.owner
        /\ new.expires = row.expires /\ new.commit = row.commit
    BY <1>2, AttemptRows
  <2> HIDE DEF new
  <2> QED
    BY <1>1, <2>2, <2>4, <2>6, <2>7, GoesOnHealthy DEF GoesWell
<1>4. CASE PinSourceIfAbsent(t)
  <2> DEFINE new == Repo!Pinned(row, me.commit)
  <2>1. /\ me.pc = "pin"
        /\ Call(t, CanPin(row, me.attempt, Worker(t)),
                Repo!PinSourceIfAbsent(id, me.attempt, Worker(t), me.commit),
                Goto(t, "workspace"), Goto(t, "fail"))
    BY <1>4 DEF PinSourceIfAbsent, Ready
  <2>2. /\ StateAt["pin"] = "RETRIEVING" /\ StateAt["workspace"] = "RETRIEVING"
        /\ "workspace" \in DOMAIN StateAt
    BY DEF StateAt
  <2>3. CanPin(row, me.attempt, Worker(t))
    BY <1>1, <2>1, <2>2 DEF CanPin, HeldBy
  <2>4. /\ Repo!PinSourceIfAbsent(id, me.attempt, Worker(t), me.commit)
        /\ thread' = Goto(t, "workspace")
    BY <1>1, <2>1, <2>3, CallGoesWell
  <2>5. runs' = [runs EXCEPT ![id] = new]
    BY <2>4 DEF Repo!PinSourceIfAbsent
  <2>6. runs'[id] = new
    BY <1>2, <2>5
  <2>7. /\ new.state = row.state /\ new.attempt = row.attempt /\ new.owner = row.owner
        /\ new.expires = row.expires /\ new.commit = me.commit
    BY <1>2, AttemptRows
  <2> HIDE DEF new
  <2> QED
    BY <1>1, <2>1, <2>2, <2>4, <2>6, <2>7, GoesOnHealthy DEF GoesWell
<1>5. CASE CompleteRun(t)
  <2> DEFINE new == Repo!Completed(row, me.attempt, Manifest(t))
  <2>1. /\ me.pc = "complete"
        /\ Call(t, CanComplete(row, me.attempt, Worker(t)),
                Repo!CompleteRun(id, me.attempt, Worker(t), Manifest(t)),
                Returned(t, FALSE), Goto(t, "fail"))
    BY <1>5 DEF CompleteRun, Ready
  <2>2. CanComplete(row, me.attempt, Worker(t))
    BY <1>1, <2>1 DEF CanComplete, HeldBy, StateAt
  <2>3. /\ Repo!CompleteRun(id, me.attempt, Worker(t), Manifest(t))
        /\ thread' = Returned(t, FALSE)
    BY <1>1, <2>1, <2>2, CallGoesWell
  <2>4. runs' = [runs EXCEPT ![id] = new]
    BY <2>3 DEF Repo!CompleteRun
  <2>5. runs'[id] = new
    BY <1>2, <2>4
  <2>6. new.state = "COMPLETED"
    BY <1>2, AttemptRows
  <2> HIDE DEF new
  <2>7. thread'[t].pc \in Resting
    BY <2>3, ReturnedRests
  <2> QED
    BY <2>5, <2>6, <2>7 DEF GoesWell, Active, ActiveStates
<1> QED
  BY <1>3, <1>4, <1>5

(* The beat of a healthy attempt moves its lease further than its next beat. *)
LEMMA HealthyBeat ==
  ASSUME ServiceOK, HealthOK, NEW t \in Threads, Fit(t), UNCHANGED faults, UNCHANGED clock,
         Beat(t)
  PROVE  GoesWell(t)
<1> DEFINE me   == thread[t]
           id   == me.run
           row  == runs[id]
           next == me.expected + 2 * HeartbeatTicks
           new  == Repo!Renewed(row, next)
<1>1. /\ me.pc \in DOMAIN StateAt /\ row.state = StateAt[me.pc]
      /\ row.attempt = me.attempt /\ row.owner = Worker(t) /\ row.expires = me.expected
      /\ row.commit = (IF me.pc = "pin" THEN Nil ELSE me.commit)
      /\ ~me.cancelled /\ me.beating
      /\ clock <= me.beat /\ me.beat + TicksPerSecond <= me.expected
  BY DEF Fit, Healthy
<1>2. id \in RunIds /\ row # Nil /\ row \in Row /\ runs \in [RunIds -> Row \cup {Nil}]
  BY <1>1, HealthySteps DEF ServiceOK, ThreadsOK, TableOK, RowOK, Sound
<1>3. me \in ThreadState /\ thread \in [Threads -> ThreadState] /\ clock \in Nat
  BY DEF ServiceOK, ThreadsOK
<1>4. me.beat \in Int /\ me.expected \in Nat
  BY <1>3 DEF ThreadState
<1>5. faults' # faults + 1
  BY DEF HealthOK
<1>6. CanRenew(row, me.attempt, Worker(t), me.expected)
  BY <1>1, HealthySteps DEF CanRenew, HeldBy, Active
<1>7. /\ Repo!RenewLease(id, me.attempt, Worker(t), me.expected, next)
      /\ thread' = [thread EXCEPT ![t].expected = next, ![t].beat = NextBeat(t)]
      /\ clock >= me.beat
  BY <1>5, <1>6 DEF Beat, BeatDue, Fault
<1>8. NextBeat(t) = me.beat + HeartbeatTicks
  <2>1. clock - me.beat = 0
    BY <1>1, <1>3, <1>4, <1>7
  <2>2. 0 \div HeartbeatTicks = 0
    BY Clocks
  <2> QED
    BY <2>1, <2>2, <1>4, Clocks DEF NextBeat
<1>9. runs'[id] = new
  <2>1. runs' = [runs EXCEPT ![id] = new]
    BY <1>7 DEF Repo!RenewLease
  <2> QED
    BY <1>2, <2>1
<1>10. /\ new.state = row.state /\ new.attempt = row.attempt /\ new.owner = row.owner
       /\ new.expires = next /\ new.commit = row.commit
  BY <1>2, AttemptRows
<1> DEFINE beat == me.beat + HeartbeatTicks
<1>11. /\ beat \in Int /\ clock <= beat /\ beat + TicksPerSecond <= next
  BY <1>1, <1>3, <1>4, Clocks
<1> HIDE DEF new, next, beat
<1>12. thread'[t] = [me EXCEPT !.expected = next, !.beat = beat]
  BY <1>3, <1>7, <1>8 DEF beat
<1>13. /\ thread'[t].pc = me.pc /\ thread'[t].attempt = me.attempt /\ thread'[t].run = id
       /\ thread'[t].commit = me.commit /\ thread'[t].cancelled = me.cancelled
       /\ thread'[t].beating = me.beating
       /\ thread'[t].expected = next /\ thread'[t].beat = beat
  BY <1>3, <1>12 DEF ThreadState
<1>14. Healthy(thread'[t], runs'[id], Worker(t), clock)
  BY <1>1, <1>9, <1>10, <1>11, <1>13 DEF Healthy
<1> QED
  BY <1>13, <1>14 DEF GoesWell, Fit

LEMMA HealthyAttemptsGoOn ==
  ASSUME ServiceOK, StoreOK, HealthOK, NEW t \in Threads, Fit(t), UNCHANGED faults, Acts(t)
  PROVE  GoesWell(t)
<1>1. thread[t].pc \in AttemptSteps \ {"fail"}
  BY HealthySteps DEF Fit, Healthy
<1>2. thread[t].pc \notin Resting \cup {"get", "claim"}
  BY <1>1, StepNames DEF Resting
<1>3. ~LoopStep(t) /\ ~Submit(t) /\ ~GetRun(t) /\ ~ClaimRun(t) /\ ~FailRun(t)
  BY <1>1, <1>2 DEF LoopStep, FindQueuedCandidates, ClaimQueued, FindReclaimCandidates,
       ReclaimExpired, Submit, GetRun, ClaimRun, FailRun, Ready, Resting
<1>4. UNCHANGED clock
  BY ThreadsLeaveTheWorld
<1> QED
  BY <1>3, <1>4, HealthyFiles, HealthyStatements, HealthyBeat DEF Acts, ProcessStep

-----------------------------------------------------------------------------
(* How attempts start. *)

LEMMA StartsHealthy ==
  ASSUME ServiceOK, HealthOK, BeatsInTime, NEW t \in Threads, UNCHANGED clock,
         thread[t].pc \in {"get", "claim"}, NEW row, Fresh(row, Worker(t), clock),
         thread' = Started(t, row), runs'[thread[t].run] = row
  PROVE  Fit(t)' /\ thread'[t].run = thread[t].run
<1> DEFINE expires == clock + LeaseTicks
           beat    == clock + HeartbeatTicks
<1>1. /\ thread \in [Threads -> ThreadState] /\ thread[t] \in ThreadState
      /\ clock \in Nat /\ InPlace(t)
  BY DEF ServiceOK, ThreadsOK, HealthOK
<1>2. beat \in Int /\ clock <= beat /\ beat + TicksPerSecond <= expires
  BY <1>1, Clocks DEF BeatsInTime
<1>3. row.state = "CLAIMED" /\ row.owner = Worker(t) /\ row.expires = expires
  BY DEF Fresh
<1> HIDE DEF expires
<1>4. thread' = [thread EXCEPT ![t].pc = "retrieving", ![t].attempt = row.attempt,
                   ![t].commit = row.commit, ![t].expected = row.expires,
                   ![t].beat = beat, ![t].beating = TRUE]
  BY DEF Started
<1> HIDE DEF beat
<1>5. /\ thread'[t].pc = "retrieving" /\ thread'[t].attempt = row.attempt
      /\ thread'[t].commit = row.commit /\ thread'[t].expected = row.expires
      /\ thread'[t].beat = beat /\ thread'[t].beating = TRUE
      /\ thread'[t].run = thread[t].run /\ thread'[t].cancelled = thread[t].cancelled
  BY <1>1, <1>4 DEF ThreadState
<1>6. ~thread[t].cancelled
  <2>1. thread[t].pc \notin AttemptSteps
    BY StepNames
  <2> QED
    BY <1>1, <2>1 DEF InPlace
<1>7. "retrieving" \in DOMAIN StateAt /\ StateAt["retrieving"] = "CLAIMED"
  BY DEF StateAt
<1>8. Healthy(thread'[t], row, Worker(t), clock)
  BY <1>2, <1>3, <1>5, <1>6, <1>7 DEF Healthy
<1> QED
  BY <1>5, <1>8 DEF Fit

(* What a thread between attempts comes to, whatever fails: it is between attempts
   again, has a run in hand, or has started a healthy attempt. *)
Comes(t) ==
  LET me  == thread'[t]
      row == runs'[me.run] IN
  \/ me.pc \in Resting /\ ~me.cancelled /\ (me.pc # "idle" => IsLoop(t))
  \/ me.pc = "claim" /\ ~IsLoop(t) /\ ~me.cancelled /\ row.owner # Worker(t)
  \/ /\ me.pc = "get" /\ ~me.cancelled
     /\ IF IsLoop(t) THEN Fresh(row, Worker(t), clock) ELSE row.owner # Worker(t)
  \/ Fit(t)'

LEMMA CandidatesTaken ==
  ASSUME ServiceOK, HealthOK, NEW t \in Threads, thread[t].pc \in {"queued", "expired"},
         NEW c \in thread[t].todo, NEW STATE can, NEW ACTION op, TakeCandidate(t, c, can, op),
         op => Fresh(runs'[c.run], Worker(t), clock)
  PROVE  /\ Comes(t)
         /\ UNCHANGED faults /\ ~UNCHANGED table =>
              thread'[t].pc = "get" /\ thread'[t].run = c.run /\ IsLoop(t)
<1>1. /\ thread \in [Threads -> ThreadState] /\ thread[t] \in ThreadState
      /\ InPlace(t)
  BY DEF ServiceOK, ThreadsOK, HealthOK
<1>2. IsLoop(t) /\ ~thread[t].cancelled
  <2>1. thread[t].pc \notin AttemptSteps
    BY StepNames
  <2> QED
    BY <1>1, <2>1 DEF InPlace
<1> DEFINE rest == thread[t].todo \ {c}
<1>3. ASSUME op, thread' = [thread EXCEPT ![t].pc = "get", ![t].run = c.run, ![t].todo = rest]
      PROVE  Comes(t) /\ thread'[t].pc = "get" /\ thread'[t].run = c.run
  <2>1. /\ thread'[t].pc = "get" /\ thread'[t].run = c.run
        /\ thread'[t].cancelled = thread[t].cancelled
    BY <1>1, <1>3 DEF ThreadState
  <2> QED
    BY <1>2, <1>3, <2>1 DEF Comes
<1>4. ASSUME thread' = [thread EXCEPT ![t] = Polling(@.poll, rest)]
      PROVE  Comes(t)
  <2>1. thread'[t] = Polling(thread[t].poll, rest) /\ thread[t].poll \in Resting
    BY <1>1, <1>4 DEF ThreadState
  <2> QED
    BY <1>2, <2>1 DEF Comes, Polling, Idle, Free, Resting
<1>5. ASSUME thread' = [thread EXCEPT ![t] = Idle]
      PROVE  Comes(t)
  BY <1>1, <1>5 DEF Comes, Idle, Free, Resting
<1>6. faults' = faults => faults' # faults + 1
  BY DEF HealthOK
<1> HIDE DEF rest
<1> QED
  BY <1>2, <1>3, <1>4, <1>5, <1>6 DEF TakeCandidate, Fault, rest

LEMMA BetweenAttempts ==
  ASSUME ServiceOK, NEW t \in Threads, Acts(t), ~Working(t)
  PROVE  LoopStep(t) \/ Submit(t) \/ GetRun(t) \/ ClaimRun(t)
<1>1. thread[t].pc \notin AttemptSteps /\ ~thread[t].beating
  BY DEF Working, ServiceOK, ThreadsOK, PollOK
<1>2. ~UpdatePhase(t) /\ ~AcquireSource(t) /\ ~PinSourceIfAbsent(t) /\ ~CreateWorkspace(t)
  BY <1>1, Phases, StepNames
     DEF UpdatePhase, AcquireSource, PinSourceIfAbsent, CreateWorkspace, Ready
<1>3. /\ ~PutArtifacts(t) /\ ~PutManifest(t) /\ ~ReadBackManifest(t) /\ ~CompleteRun(t)
      /\ ~FailRun(t) /\ ~Beat(t)
  BY <1>1, StepNames DEF PutArtifacts, ArtifactNames, PutManifest, ReadBackManifest, CompleteRun,
     FailRun, Beat, BeatDue, Ready
<1> QED
  BY <1>2, <1>3 DEF Acts, ProcessStep

LEMMA ThreadsTakeRuns ==
  ASSUME ServiceOK, HealthOK, BeatsInTime, NEW t \in Threads, Acts(t),
         ~Working(t)
  PROVE  Comes(t)
<1> DEFINE me  == thread[t]
           row == runs[me.run]
<1>1. /\ thread \in [Threads -> ThreadState] /\ me \in ThreadState /\ InPlace(t)
      /\ PollOK(me) /\ Sound(me, runs) /\ UNCHANGED clock
  BY ThreadsLeaveTheWorld DEF ServiceOK, ThreadsOK, HealthOK
<1>2. ~me.cancelled /\ ~me.beating
  BY <1>1 DEF InPlace, PollOK, Working
<1>3. CASE FindQueuedCandidates(t)
  <2>1. IsLoop(t) /\ \E todo : thread'[t] = Free("queued", todo)
    BY <1>1, <1>3 DEF FindQueuedCandidates
  <2> QED
    BY <2>1 DEF Comes, Free, Resting
<1>4. CASE FindReclaimCandidates(t)
  <2>1. me.pc = "queued" /\ \E todo : thread'[t] = Polling("expired", todo)
    BY <1>1, <1>4 DEF FindReclaimCandidates, Ready
  <2>2. IsLoop(t)
    BY <1>1, <2>1 DEF InPlace
  <2> QED
    BY <2>1, <2>2 DEF Comes, Polling, Free, Idle, Resting
<1>5. CASE ClaimQueued(t)
  <2>1. me.pc = "queued"
    BY <1>5 DEF ClaimQueued, Ready
  <2>2. PICK c \in me.todo :
          TakeCandidate(t, c, CanClaim(runs[c.run]), Repo!ClaimRun(c.run, Worker(t), clock))
    BY <1>5 DEF ClaimQueued
  <2>3. c.run \in RunIds
    BY <1>1 DEF ThreadState, Candidate
  <2>4. Repo!ClaimRun(c.run, Worker(t), clock) => Fresh(runs'[c.run], Worker(t), clock)
    BY <2>3, ClaimsRow DEF TakesQueued
  <2> QED
    BY <2>1, <2>2, <2>4, CandidatesTaken
<1>6. CASE ReclaimExpired(t)
  <2>1. me.pc = "expired"
    BY <1>6 DEF ReclaimExpired, Ready
  <2>2. PICK c \in me.todo :
          TakeCandidate(t, c, CanReclaim(runs[c.run], c.row, clock),
                        Repo!ReclaimExpiredRun(c.run, c.row, Worker(t), clock))
    BY <1>6 DEF ReclaimExpired
  <2>3. c \in Candidate /\ RowOK(c.row) /\ Active(c.row)
    BY <1>1, <2>1 DEF ThreadState, PollOK
  <2>4. Repo!ReclaimExpiredRun(c.run, c.row, Worker(t), clock)
          => Fresh(runs'[c.run], Worker(t), clock)
    BY <2>3, ReclaimsRow DEF TakesExpired
  <2> QED
    BY <2>1, <2>2, <2>4, CandidatesTaken
<1>7. CASE Submit(t)
  <2>1. /\ ~IsLoop(t) /\ t[2] \in RunIds
        /\ thread'[t].pc = "get" /\ thread'[t].run = t[2] /\ thread'[t].cancelled = me.cancelled
    BY <1>1, <1>7, WorkerOfThread DEF Submit, ThreadState
  <2>2. runs'[t[2]] = NewRun
    BY <1>7, <2>1, NewRow DEF Submit, Repo!CreateRun, ServiceOK, TableOK
  <2>3. NewRun.owner # Worker(t)
    <3>1. NewRun.owner = Nil
      BY DEF NewRun
    <3> QED
      BY <3>1, WorkerOfThread
  <2> QED
    BY <1>2, <2>1, <2>2, <2>3 DEF Comes
<1>8. CASE GetRun(t)
  <2>1. me.pc = "get" /\ runs' = runs
    BY <1>8 DEF GetRun, Ready, table
  <2>2. CASE row.state = "QUEUED" /\ thread' = Goto(t, "claim")
    <3>1. ~IsLoop(t) /\ row.owner # Worker(t)
      BY <1>1, <2>1, <2>2 DEF InPlace, Fresh
    <3>2. /\ thread'[t].pc = "claim" /\ thread'[t].run = me.run
          /\ thread'[t].cancelled = me.cancelled
      BY <1>1, <2>2 DEF Goto, ThreadState
    <3> QED
      BY <1>2, <2>1, <3>1, <3>2 DEF Comes
  <2>3. CASE row.state = "CLAIMED" /\ row.owner = Worker(t) /\ thread' = Started(t, row)
    <3>1. Fresh(row, Worker(t), clock)
      BY <1>1, <2>1, <2>3 DEF InPlace
    <3> QED
      BY <1>1, <2>1, <2>3, <3>1, StartsHealthy DEF Comes
  <2>4. CASE thread' = Returned(t, TRUE) \/ thread' = Returned(t, FALSE)
    BY <2>4, ReturnedRests DEF Comes
  <2> QED
    BY <1>8, <2>2, <2>3, <2>4 DEF GetRun
<1>9. CASE ClaimRun(t)
  <2>1. me.pc = "claim" /\ me.run \in RunIds
    BY <1>1, <1>9 DEF ClaimRun, Ready, Sound, InHand
  <2>2. \/ /\ Repo!ClaimRun(me.run, Worker(t), clock)
           /\ thread' = Started(t, Claimed(row, Worker(t), clock))
        \/ thread' = Returned(t, TRUE)
    BY <1>9 DEF ClaimRun, Call
  <2>3. ASSUME Repo!ClaimRun(me.run, Worker(t), clock),
               thread' = Started(t, Claimed(row, Worker(t), clock))
        PROVE  Comes(t)
    <3>1. /\ Fresh(runs'[me.run], Worker(t), clock)
          /\ runs'[me.run] = Claimed(row, Worker(t), clock)
      BY <2>1, <2>3, ClaimsRow DEF TakesQueued
    <3> QED
      BY <1>1, <2>1, <2>3, <3>1, StartsHealthy DEF Comes
  <2> QED
    BY <2>2, <2>3, ReturnedRests DEF Comes
<1> QED
  BY <1>3, <1>4, <1>5, <1>6, <1>7, <1>8, <1>9, BetweenAttempts DEF LoopStep

(* When nothing fails, a run that is handed out is in hand. *)
LEMMA TakenRunsAreServed ==
  ASSUME ServiceOK, HealthOK, BeatsInTime, NEW t \in Threads, Acts(t), UNCHANGED faults,
         NEW id \in RunIds, runs[id] # Nil, runs'[id].attempt # runs[id].attempt
  PROVE  Serves(t, id)'
<1> DEFINE me  == thread[t]
<1>1. /\ thread \in [Threads -> ThreadState] /\ me \in ThreadState /\ InPlace(t)
      /\ PollOK(me) /\ Sound(me, runs) /\ UNCHANGED clock /\ faults' # faults + 1
  BY ThreadsLeaveTheWorld DEF ServiceOK, ThreadsOK, HealthOK
<1>0. ~Working(t)
  BY EveryRowStep DEF RowStep, GoesOnWith, TakesQueued, TakesExpired
<1>2. ~UNCHANGED table
  BY DEF table
<1>3. CASE ClaimQueued(t)
  <2>1. me.pc = "queued"
    BY <1>3 DEF ClaimQueued, Ready
  <2>2. PICK c \in me.todo :
          TakeCandidate(t, c, CanClaim(runs[c.run]), Repo!ClaimRun(c.run, Worker(t), clock))
    BY <1>3 DEF ClaimQueued
  <2>3. c.run \in RunIds
    BY <1>1 DEF ThreadState, Candidate
  <2>4. Repo!ClaimRun(c.run, Worker(t), clock)
    BY <1>2, <2>2 DEF TakeCandidate, table
  <2>5. Fresh(runs'[c.run], Worker(t), clock) /\ c.run = id
    BY <2>3, <2>4, <1>0, ClaimsRow DEF TakesQueued, Repo!ClaimRun, ServiceOK, TableOK
  <2>6. thread'[t].pc = "get" /\ thread'[t].run = c.run /\ IsLoop(t)
    BY <1>2, <2>1, <2>2, <2>4, <2>5, CandidatesTaken
  <2> QED
    BY <2>5, <2>6 DEF Serves
<1>4. CASE ReclaimExpired(t)
  <2>1. me.pc = "expired"
    BY <1>4 DEF ReclaimExpired, Ready
  <2>2. PICK c \in me.todo :
          TakeCandidate(t, c, CanReclaim(runs[c.run], c.row, clock),
                        Repo!ReclaimExpiredRun(c.run, c.row, Worker(t), clock))
    BY <1>4 DEF ReclaimExpired
  <2>3. c \in Candidate /\ RowOK(c.row) /\ Active(c.row)
    BY <1>1, <2>1 DEF ThreadState, PollOK
  <2>4. Repo!ReclaimExpiredRun(c.run, c.row, Worker(t), clock)
    BY <1>2, <2>2 DEF TakeCandidate, table
  <2>5. Fresh(runs'[c.run], Worker(t), clock) /\ c.run = id
    BY <2>3, <2>4, <1>0, ReclaimsRow DEF TakesExpired, Repo!ReclaimExpiredRun, ServiceOK, TableOK
  <2>6. thread'[t].pc = "get" /\ thread'[t].run = c.run /\ IsLoop(t)
    BY <1>2, <2>1, <2>2, <2>4, <2>5, CandidatesTaken
  <2> QED
    BY <2>5, <2>6 DEF Serves
<1>5. CASE ClaimRun(t)
  <2>1. me.pc = "claim" /\ me.run \in RunIds
    BY <1>1, <1>5 DEF ClaimRun, Ready, Sound, InHand
  <2>2. Repo!ClaimRun(me.run, Worker(t), clock)
    BY <1>2, <1>5 DEF ClaimRun, Call, table
  <2>3. thread' = Started(t, Claimed(runs[me.run], Worker(t), clock))
    BY <1>1, <1>2, <1>5 DEF ClaimRun, Call, Fault, Unanswered, table
  <2>4. /\ Fresh(runs'[me.run], Worker(t), clock) /\ me.run = id
        /\ runs'[me.run] = Claimed(runs[me.run], Worker(t), clock)
    BY <2>1, <2>2, <1>0, ClaimsRow DEF TakesQueued, Repo!ClaimRun, ServiceOK, TableOK
  <2> QED
    BY <1>1, <2>1, <2>3, <2>4, StartsHealthy DEF Serves
<1>6. CASE Submit(t)
  <2>1. runs[t[2]] = Nil /\ runs' = [runs EXCEPT ![t[2]] = NewRun]
    BY <1>6, NewRow DEF Submit, Repo!CreateRun, Repo!Exists
  <2> QED
    BY <2>1 DEF ServiceOK, TableOK
<1>7. CASE FindQueuedCandidates(t) \/ FindReclaimCandidates(t) \/ GetRun(t)
  BY <1>2, <1>7 DEF FindQueuedCandidates, FindReclaimCandidates, GetRun
<1> QED
  BY <1>0, <1>3, <1>4, <1>5, <1>6, <1>7, BetweenAttempts DEF LoopStep

(* A step of a thread changes no other thread. *)
LEMMA OthersStay ==
  ASSUME ServiceOK, NEW t \in Threads, Acts(t), NEW u \in Threads, u # t
  PROVE  thread'[u] = thread[u]
<1>1. Step(t) \/ CompleteRun(t)
  BY FindQueuedStep, ClaimQueuedStep, FindReclaimStep, ReclaimExpiredStep,
     SubmitStep, GetRunStep, ClaimRunStep, UpdatePhaseStep, AcquireSourceStep, PinSourceStep,
     CreateWorkspaceStep, PutArtifactsStep, PutManifestStep, ReadBackStep, FailRunStep, BeatStep
     DEF Acts, LoopStep, ProcessStep
<1> QED
  BY <1>1, CompleteRunStep DEF Step, ThreadStep

(* An attempt goes on, or its thread returns. *)
LEMMA AttemptsGoOn ==
  ASSUME ServiceOK, NEW t \in Threads, Acts(t), Working(t)
  PROVE  \/ thread'[t].pc \in AttemptSteps
         \/ /\ thread'[t].pc \in Resting /\ ~thread'[t].cancelled
            /\ thread'[t].pc # "idle" => IsLoop(t)
<1>1. thread \in [Threads -> ThreadState] /\ thread[t] \in ThreadState
      /\ thread[t].pc \in AttemptSteps
  BY DEF ServiceOK, ThreadsOK, Working
<1>2. ~LoopStep(t) /\ ~Submit(t) /\ ~GetRun(t) /\ ~ClaimRun(t)
  BY <1>1, StepNames DEF LoopStep, FindQueuedCandidates, ClaimQueued, FindReclaimCandidates,
       ReclaimExpired, Submit, GetRun, ClaimRun, Ready
<1>3. ASSUME NEW pc \in AttemptSteps, thread' = Goto(t, pc)
      PROVE  thread'[t].pc \in AttemptSteps
  BY <1>1, <1>3 DEF Goto, ThreadState
<1>4. ASSUME NEW pc \in AttemptSteps, NEW c, thread' = [Goto(t, pc) EXCEPT ![t].commit = c]
      PROVE  thread'[t].pc \in AttemptSteps
  BY <1>1, <1>4 DEF Goto, ThreadState
<1>5. "fail" \in AttemptSteps /\ \A pc \in DOMAIN Following : Following[pc] \in AttemptSteps
  BY StepNames DEF Following
<1>6. CASE UpdatePhase(t)
  <2>1. thread[t].pc \in DOMAIN PhaseChange /\ DOMAIN PhaseChange \subseteq DOMAIN Following
    BY <1>6 DEF UpdatePhase, PhaseChange, Following
  <2> QED
    BY <1>3, <1>5, <1>6, <2>1 DEF UpdatePhase, Call
<1>7. CASE AcquireSource(t) \/ PinSourceIfAbsent(t) \/ CreateWorkspace(t)
  <2>1. {"pin", "workspace", "validating"} \subseteq AttemptSteps
    BY StepNames
  <2> QED
    BY <1>3, <1>4, <1>5, <1>7, <2>1 DEF AcquireSource, PinSourceIfAbsent, CreateWorkspace, Call
<1>8. CASE PutArtifacts(t) \/ PutManifest(t) \/ ReadBackManifest(t)
  <2>1. "complete" \in AttemptSteps /\ Entries \subseteq DOMAIN Following
    BY StepNames DEF Entries, ArtifactNames, Following
  <2> QED
    BY <1>3, <1>5, <1>8, <2>1
       DEF PutArtifacts, PutManifest, ReadBackManifest, Put, Entries, Ready
<1>9. CASE CompleteRun(t) \/ FailRun(t)
  BY <1>3, <1>5, <1>9, ReturnedRests DEF CompleteRun, FailRun, Call
<1>10. CASE Beat(t)
  <2>1. \/ thread' = thread
        \/ thread' = [thread EXCEPT ![t].beating = FALSE, ![t].cancelled = TRUE]
        \/ \E next, beat : thread' = [thread EXCEPT ![t].expected = next, ![t].beat = beat]
    BY <1>10 DEF Beat, CancelledBy
  <2>2. ASSUME NEW next, NEW beat,
               thread' = [thread EXCEPT ![t].expected = next, ![t].beat = beat]
        PROVE  thread'[t].pc = thread[t].pc
    BY <1>1, <2>2 DEF ThreadState
  <2>3. ASSUME thread' = [thread EXCEPT ![t].beating = FALSE, ![t].cancelled = TRUE]
        PROVE  thread'[t].pc = thread[t].pc
    BY <1>1, <2>3 DEF ThreadState
  <2> QED
    BY <1>1, <2>1, <2>2, <2>3
<1> QED
  BY <1>2, <1>6, <1>7, <1>8, <1>9, <1>10 DEF Acts, ProcessStep

(* A loop that has claimed a run starts the attempt. *)
LEMMA LoopsStart ==
  ASSUME ServiceOK, HealthOK, BeatsInTime, NEW t \in Threads, Acts(t), UNCHANGED faults,
         thread[t].pc = "get", IsLoop(t)
  PROVE  Fit(t)' /\ thread'[t].run = thread[t].run
<1> DEFINE row == runs[thread[t].run]
<1>1. InPlace(t) /\ UNCHANGED clock /\ faults' # faults + 1
  BY ThreadsLeaveTheWorld DEF HealthOK
<1>2. Fresh(row, Worker(t), clock)
  BY <1>1 DEF InPlace
<1>3. GetRun(t)
  <2>1. ~Working(t)
    BY StepNames DEF Working
  <2> QED
    BY <2>1, BetweenAttempts DEF LoopStep, FindQueuedCandidates, ClaimQueued,
       FindReclaimCandidates, ReclaimExpired, Submit, ClaimRun, Ready
<1>4. thread' = Started(t, row) /\ runs' = runs
  BY <1>1, <1>2, <1>3 DEF GetRun, Fresh, Fault, table
<1> QED
  BY <1>1, <1>2, <1>4, StartsHealthy

(* While nothing fails, who has a run in hand goes on with it, until it is over. *)
LEMMA ServedRunsGoOn ==
  ASSUME ServiceOK, StoreOK, HealthOK, OneThreadEach, BeatsInTime,
         NEW t \in Threads, Acts(t), UNCHANGED faults, NEW u \in Threads, NEW id, Serves(u, id)
  PROVE  Serves(u, id)' \/ ~Active(runs'[id])
<1>1. /\ id \in RunIds /\ runs[id] # Nil /\ Active(runs[id]) /\ runs[id].owner = Worker(u)
      /\ runs[id].expires \in Nat /\ clock + TicksPerSecond <= runs[id].expires
  BY ServedRow
<1>2. CASE u # t
  <2>1. runs'[id] = runs[id] /\ UNCHANGED clock
    BY <1>1, <1>2, OthersLeaveRow, ThreadsLeaveTheWorld
  <2>2. thread'[u] = thread[u]
    BY <1>2, OthersStay
  <2> QED
    BY <2>1, <2>2 DEF Serves, Fit
<1>3. CASE u = t /\ Fit(t)
  <2>1. GoesWell(t)
    BY <1>3, HealthyAttemptsGoOn
  <2> QED
    BY <1>3, <2>1 DEF GoesWell, Serves
<1>4. CASE u = t /\ thread[t].pc = "get" /\ IsLoop(t)
  BY <1>4, LoopsStart DEF Serves
<1> QED
  BY <1>2, <1>3, <1>4 DEF Serves

LEMMA ThreadsStayInPlace ==
  ASSUME ServiceOK, HealthOK, OneThreadEach, BeatsInTime,
         NEW t \in Threads, Acts(t), NEW u \in Threads
  PROVE  InPlace(u)'
<1>1. /\ UNCHANGED <<alive, clock, crashes>> /\ Worker(t) \in alive /\ InPlace(u)
      /\ clock \in Nat /\ thread[u] \in ThreadState /\ Sound(thread[u], runs)
  BY ThreadsLeaveTheWorld DEF HealthOK, ServiceOK, ThreadsOK
<1>2. CASE u # t
  <2> DEFINE id == thread[u].run
  <2>1. thread'[u] = thread[u] /\ Worker(t) # Worker(u)
    BY <1>2, OthersStay DEF OneThreadEach
  <2>2. ASSUME thread[u].pc \in {"get", "claim"}
        PROVE  IF IsLoop(u) THEN Fresh(runs'[id], Worker(u), clock)
                            ELSE runs'[id].owner # Worker(u)
    <3>1. id \in RunIds /\ runs[id] # Nil
      BY <1>1, <2>2 DEF Sound, InHand
    <3>2. CASE IsLoop(u)
      <4>1. Serves(u, id)
        BY <1>1, <2>2, <3>2 DEF Serves, InPlace
      <4>2. runs'[id] = runs[id]
        BY <1>2, <4>1, ServedRow, OthersLeaveRow
      <4> QED
        BY <1>1, <2>2, <3>2, <4>2 DEF InPlace
    <3>3. CASE ~IsLoop(u)
      <4>1. runs[id].owner # Worker(u)
        BY <1>1, <2>2, <3>3 DEF InPlace
      <4>2. RowStep(t, id, runs'[id])
        BY <3>1, EveryRowStep
      <4>3. Worker(u) # Nil
        BY WorkerOfThread
      <4> QED
        BY <2>1, <3>1, <3>3, <4>1, <4>2, <4>3
           DEF RowStep, TakesQueued, TakesExpired, GoesOnWith, Fresh
    <3> QED
      BY <3>2, <3>3
  <2> QED
    BY <1>1, <2>1, <2>2 DEF InPlace
<1>3. CASE u = t /\ ~Working(t)
  <2>1. Comes(t)
    BY <1>3, ThreadsTakeRuns
  <2>2. Fit(t)' => thread'[t].pc \in AttemptSteps
    BY HealthySteps DEF Fit, Healthy
  <2>3. \A pc \in AttemptSteps : pc \notin {"queued", "expired", "idle", "get", "claim"}
    BY StepNames
  <2> QED
    BY <1>1, <1>3, <2>1, <2>2, <2>3 DEF Comes, InPlace, Resting
<1>4. CASE u = t /\ Working(t)
  <2>1. \/ thread'[t].pc \in AttemptSteps
        \/ /\ thread'[t].pc \in Resting /\ ~thread'[t].cancelled
           /\ thread'[t].pc # "idle" => IsLoop(t)
    BY <1>4, AttemptsGoOn
  <2>2. \A pc \in AttemptSteps : pc \notin {"queued", "expired", "idle", "get", "claim"}
    BY StepNames
  <2> QED
    BY <1>1, <1>4, <2>1, <2>2 DEF InPlace, Resting
<1> QED
  BY <1>2, <1>3, <1>4

LEMMA ThreadsKeepHealth ==
  ASSUME ServiceOK, StoreOK, HealthOK, OneThreadEach, BeatsInTime, NEW t \in Threads, Acts(t)
  PROVE  HealthOK'
<1>1. /\ UNCHANGED <<alive, clock, crashes>> /\ crashes \in Nat /\ faults \in Nat
      /\ faults' = faults \/ faults' = faults + 1
  BY ThreadsLeaveTheWorld DEF HealthOK
<1>2. \A u \in Threads : InPlace(u)'
  BY ThreadsStayInPlace
<1>3. ASSUME faults' = 0, NEW u \in Threads, Working(u)'
      PROVE  Fit(u)'
  <2>1. faults = 0 /\ faults' = faults
    BY <1>1, <1>3
  <2>2. thread'[u].pc \in AttemptSteps /\ thread'[u].pc \notin Resting \cup {"get", "claim"}
    BY <1>3, StepNames DEF Working, Resting
  <2>3. CASE Working(u)
    <3>1. Fit(u)
      BY <2>1, <2>3 DEF HealthOK
    <3>2. Serves(u, thread[u].run)
      BY <3>1 DEF Serves
    <3>3. CASE u = t
      BY <2>1, <2>2, <3>1, <3>3, HealthyAttemptsGoOn DEF GoesWell
    <3>4. CASE u # t
      <4>1. runs'[thread[u].run] = runs[thread[u].run]
        BY <3>2, <3>4, ServedRow, OthersLeaveRow
      <4>2. thread'[u] = thread[u]
        BY <3>4, OthersStay
      <4> QED
        BY <1>1, <3>1, <4>1, <4>2 DEF Fit
    <3> QED
      BY <3>3, <3>4
  <2>4. CASE ~Working(u)
    <3>1. u = t
      BY <2>2, <2>4, OthersStay DEF Working
    <3>2. Comes(t)
      BY <2>4, <3>1, ThreadsTakeRuns
    <3> QED
      BY <2>2, <3>1, <3>2 DEF Comes
  <2> QED
    BY <2>3, <2>4
<1>4. ASSUME NEW id \in RunIds, runs'[id] # Nil
      PROVE  PaidFor(id)'
  <2> DEFINE old == runs[id]
             new == runs'[id]
  <2>1. RowStep(t, id, new)
    BY EveryRowStep
  <2>2. CASE old = Nil
    <3>1. new = NewRun
      BY <1>4, <2>1, <2>2 DEF RowStep
    <3> QED
      BY <1>1, <3>1 DEF PaidFor, NewRun, Active, ActiveStates
  <2>3. CASE old # Nil
    <3>1. /\ PaidFor(id) /\ old.attempt \in Nat
      BY <2>3 DEF HealthOK, ServiceOK, TableOK, RowOK, Row, Repo!Run
    <3>2. \A u \in Threads : Serves(u, id) => ~Repo!TextLeq(old.expires, clock)
      BY ServedRow, NotYetExpired DEF ServiceOK, ThreadsOK
    <3>3. TakesExpired(t, old, new) => old.attempt < 1 + crashes + faults
      BY <1>1, <3>1, <3>2 DEF TakesExpired, PaidFor
    <3>4. new.attempt <= 1 + crashes + faults
      BY <1>1, <2>1, <2>3, <3>1, <3>3 DEF RowStep, TakesQueued, GoesOnWith, PaidFor, TakesExpired
    <3>5. new.state = "FAILED" => faults' > 0
      <4>1. ASSUME faults = 0 PROVE Working(t) => thread[t].pc # "fail"
        BY <4>1, HealthySteps DEF HealthOK, Fit, Healthy
      <4> QED
        BY <1>1, <2>1, <2>3, <3>1, <4>1
           DEF RowStep, TakesQueued, GoesOnWith, PaidFor, TakesExpired, Fresh
    <3>6. ASSUME Active(new), new.attempt = 1 + crashes + faults'
          PROVE  \E u \in Threads : Serves(u, id)'
      <4>1. faults' = faults
        BY <1>1, <3>4, <3>6
      <4>2. CASE new.attempt # old.attempt
        BY <2>3, <4>1, <4>2, TakenRunsAreServed
      <4>3. CASE new.attempt = old.attempt
        <5>1. Active(old)
          BY <2>1, <2>3, <3>6, <4>3, <1>1
             DEF RowStep, TakesExpired, GoesOnWith, TakesQueued
        <5>2. PICK u \in Threads : Serves(u, id)
          BY <3>1, <3>6, <4>1, <4>3, <5>1 DEF PaidFor
        <5> QED
          BY <3>6, <4>1, <5>2, ServedRunsGoOn
      <4> QED
        BY <4>2, <4>3
    <3>7. new.attempt <= 1 + crashes' + faults'
      <4>1. new.attempt \in Int
        BY <1>1, <2>1, <2>3, <3>1 DEF RowStep, TakesQueued, GoesOnWith, TakesExpired
      <4> QED
        BY <1>1, <3>4, <4>1
    <3> QED
      BY <1>1, <3>5, <3>6, <3>7 DEF PaidFor
  <2> QED
    BY <2>2, <2>3
<1> QED
  BY <1>1, <1>2, <1>3, <1>4 DEF HealthOK

(* A thread that beats is never later than its beat, and one that has claimed a run
   has started the attempt before time passes. *)
LEMMA WorldKeepsHealth ==
  ASSUME ServiceOK, HealthOK, BeatsInTime,
         \/ \E w \in Workers : Crash(w) \/ Restart(w)
         \/ Tick /\ \A t \in Threads : ~Late(t)
         \/ UNCHANGED vars
  PROVE  HealthOK'
<1>1. /\ thread \in [Threads -> ThreadState] /\ clock \in Nat /\ crashes \in Nat /\ faults \in Nat
      /\ \A t \in Threads : InPlace(t)
  BY DEF ServiceOK, ThreadsOK, HealthOK
<1>2. ASSUME NEW w \in Workers, Crash(w) PROVE HealthOK'
  <2>1. /\ crashes' = crashes + 1 /\ runs' = runs /\ clock' = clock /\ faults' = faults
        /\ alive' = alive \ {w}
        /\ \A t \in Threads : thread'[t] = IF Worker(t) = w THEN Idle ELSE thread[t]
    BY <1>2 DEF Crash, table
  <2>2. Idle.pc = "idle" /\ ~Idle.cancelled
    BY DEF Idle, Free
  <2>3. ASSUME NEW t \in Threads PROVE InPlace(t)'
    BY <1>1, <2>1, <2>2 DEF InPlace
  <2>4. ASSUME faults' = 0, NEW t \in Threads, Working(t)' PROVE Fit(t)'
    <3>1. thread'[t] = thread[t]
      BY <2>1, <2>2, <2>4, StepNames DEF Working
    <3> QED
      BY <2>1, <2>4, <3>1 DEF HealthOK, Working, Fit
  <2>5. ASSUME NEW id \in RunIds, runs'[id] # Nil PROVE PaidFor(id)'
    <3>1. PaidFor(id) /\ runs[id].attempt \in Nat
      BY <2>1, <2>5 DEF HealthOK, ServiceOK, TableOK, RowOK, Row, Repo!Run
    <3>2. runs[id].attempt <= 1 + crashes' + faults' /\ runs[id].attempt # 1 + crashes' + faults'
      BY <1>1, <2>1, <3>1 DEF PaidFor
    <3> QED
      BY <2>1, <3>1, <3>2 DEF PaidFor
  <2> QED
    BY <1>1, <2>1, <2>3, <2>4, <2>5 DEF HealthOK
<1>3. ASSUME NEW w \in Workers, Restart(w) PROVE HealthOK'
  <2>1. /\ UNCHANGED <<runs, thread, clock, crashes, faults>> /\ alive' = alive \cup {w}
    BY <1>3 DEF Restart, table
  <2>2. \A t \in Threads : InPlace(t)'
    BY <1>1, <2>1 DEF InPlace
  <2>3. \A t \in Threads : Working(t)' => Working(t) /\ (Fit(t) => Fit(t)')
    BY <2>1 DEF Working, Fit
  <2>4. \A id \in RunIds : PaidFor(id) => PaidFor(id)'
    BY <2>1 DEF PaidFor, Serves, Fit
  <2> QED
    BY <2>1, <2>2, <2>3, <2>4 DEF HealthOK
<1>4. ASSUME Tick, \A t \in Threads : ~Late(t) PROVE HealthOK'
  <2>1. /\ UNCHANGED <<runs, thread, alive, crashes, faults>> /\ clock' = clock + 1
    BY <1>4 DEF Tick, table
  <2>2. \A t \in Threads : thread[t].pc # "get"
    BY <1>1, <1>4 DEF Late, InPlace
  <2>3. ASSUME NEW t \in Threads PROVE InPlace(t)'
    BY <1>1, <2>1, <2>2 DEF InPlace
  <2>4. ASSUME NEW t \in Threads, Fit(t) PROVE Fit(t)'
    <3>1. thread[t].beating /\ thread[t].beat \in Int /\ thread[t].pc # "idle"
      BY <1>1, <2>4, HealthySteps DEF Fit, Healthy, ThreadState
    <3>2. ~(clock >= thread[t].beat)
      BY <1>1, <1>4, <3>1 DEF Late, BeatDue, InPlace
    <3>3. clock' <= thread[t].beat
      BY <1>1, <2>1, <3>1, <3>2
    <3> QED
      BY <2>1, <2>4, <3>3 DEF Fit, Healthy
  <2>5. \A t \in Threads : Working(t)' => Working(t)
    BY <2>1 DEF Working
  <2>6. \A id \in RunIds : PaidFor(id) => PaidFor(id)'
    BY <2>1, <2>2, <2>4 DEF PaidFor, Serves
  <2> QED
    BY <2>1, <2>3, <2>4, <2>5, <2>6 DEF HealthOK
<1>5. ASSUME UNCHANGED vars PROVE HealthOK'
  <2>1. UNCHANGED <<runs, thread, alive, clock, crashes, faults>>
    BY <1>5 DEF vars, table, world
  <2>2. \A t \in Threads : (InPlace(t) => InPlace(t)') /\ (Fit(t) => Fit(t)')
    BY <2>1 DEF InPlace, Fit
  <2>3. \A t \in Threads : Working(t)' => Working(t)
    BY <2>1 DEF Working
  <2>4. \A id \in RunIds : PaidFor(id) => PaidFor(id)'
    BY <2>1, <2>2 DEF PaidFor, Serves
  <2> QED
    BY <2>1, <2>2, <2>3, <2>4 DEF HealthOK
<1> QED
  BY <1>2, <1>3, <1>4, <1>5

LEMMA InitHealthOK == Init => HealthOK
<1> SUFFICES ASSUME Init PROVE HealthOK
  OBVIOUS
<1>1. \A t \in Threads : thread[t].pc = "idle" /\ ~thread[t].cancelled
  BY DEF Init, Idle, Free
<1>2. \A t \in Threads : InPlace(t)
  BY <1>1 DEF InPlace
<1>3. \A t \in Threads : ~Working(t)
  BY <1>1, StepNames DEF Working
<1>4. ASSUME NEW id \in RunIds, runs[id] # Nil PROVE PaidFor(id)
  <2>1. runs[id] = NewRun
    BY <1>4 DEF Init
  <2> QED
    BY <2>1 DEF PaidFor, NewRun, Active, ActiveStates, Init
<1> QED
  BY <1>2, <1>3, <1>4 DEF HealthOK, Init

(* A worker whose threads keep their schedule is a worker of RunService. *)
LEMMA TimedStepsAreSteps == [TimedNext]_timedVars => [Next]_vars
BY DEF TimedNext, TimedStep, TimedTick, Next, timedVars

LEMMA NextKeepsHealth ==
  OneThreadEach /\ BeatsInTime /\ ServiceOK /\ StoreOK /\ HealthOK /\ [TimedNext]_timedVars
    => HealthOK'
<1> SUFFICES ASSUME OneThreadEach, BeatsInTime, ServiceOK, StoreOK, HealthOK,
                    [TimedNext]_timedVars
             PROVE  HealthOK'
  OBVIOUS
<1>1. ASSUME NEW t \in Threads, Acts(t) PROVE HealthOK'
  BY <1>1, ThreadsKeepHealth
<1>2. ASSUME \/ \E w \in Workers : Crash(w) \/ Restart(w)
             \/ Tick /\ \A t \in Threads : ~Late(t)
             \/ UNCHANGED vars
      PROVE  HealthOK'
  BY <1>2, WorldKeepsHealth
<1> QED
  BY <1>1, <1>2 DEF TimedNext, TimedStep, TimedTick, timedVars, Acts

(* However many runs and workers there are, and whatever crashes and fails: a run is
   FAILED only because something failed, and is attempted again only because of a
   crash or a failure, provided that no worker identity is shared by two threads
   and that a lease outlasts the first heartbeat by a second. *)
THEOREM HealthyAttemptsAreKept ==
  ASSUME OneThreadEach, BeatsInTime
  PROVE  TimedSpec => []HealthyAttemptsAreLeftAlone
<1>1. TimedInit => ServiceOK /\ StoreOK /\ HealthOK
  BY InitServiceOK, InitStoreOK, InitHealthOK DEF TimedInit
<1>2. ServiceOK /\ StoreOK /\ HealthOK /\ [TimedNext]_timedVars
        => ServiceOK' /\ StoreOK' /\ HealthOK'
  BY TimedStepsAreSteps, NextKeepsServiceOK, NextKeepsStoreOK, NextKeepsHealth
<1>3. HealthOK => HealthyAttemptsAreLeftAlone
  <2> SUFFICES ASSUME HealthOK, NEW id \in RunIds, Repo!Exists(id)
               PROVE  /\ runs[id].state = "FAILED" => faults > 0
                      /\ runs[id].attempt <= 1 + crashes + faults
    BY DEF HealthyAttemptsAreLeftAlone
  <2> QED
    BY DEF HealthOK, PaidFor, Repo!Exists
<1> QED
  BY <1>1, <1>2, <1>3, PTL DEF TimedSpec

=============================================================================
