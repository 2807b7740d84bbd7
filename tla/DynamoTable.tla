----------------------------- MODULE DynamoTable -----------------------------
(***************************************************************************)
(* The runs table in DynamoDB: items, the index the candidates are found   *)
(* in, and requests that are retried, delayed and delivered twice.         *)
(*                                                                         *)
(* DynamoDB compares and sets the same attributes as the statements of     *)
(* RunRecord, which therefore also describe an item: its condition         *)
(* expressions were compared with the WHERE clauses by reading, and a      *)
(* difference between the two could not show here.  What differs is that   *)
(* an item waiting in the queue has a lease_expires_at, without which the  *)
(* index would not contain it, and that what is read is decoded.  The      *)
(* index follows the items at its own pace.                                *)
(*                                                                         *)
(* A call is one UpdateItem of the SDK, which sends it again when no       *)
(* answer comes.  A request that was sent can reach the table long after,  *)
(* when its caller has given up and others have changed the item.  A       *)
(* caller acts on what it read when it made the call; one that is slow to  *)
(* make it is the same as one whose request is slow.                       *)
(***************************************************************************)
EXTENDS RunRecord

CONSTANTS
  RunIds,
  Clocks,       \* what the callers' clocks can say
  Expiries,     \* bound: the lease expiries that anyone acts on or asks for
  AttemptNos,   \* bound: the attempts that anyone acts on
  RenewTicks,   \* by how much a heartbeat extends a lease
  Calls         \* the calls that can be in progress at a time

ASSUME DynamoTableAssumption ==
  /\ Clocks \subseteq Nat
  /\ RenewTicks \in Nat \ {0}

VARIABLES
  items,                   \* the table
  index,                   \* what the state-and-lease index shows of each item
  call,                    \* the calls in progress: Nil, or a request and how it fares
  grants, completions      \* history: see RunRepository

vars == <<items, index, call, grants, completions>>

-----------------------------------------------------------------------------
(* Items. *)

NewItem(created) == [NewRun EXCEPT !.expires = created]

(* Mutant: whatever the item has is read. *)
DecodeAll(item) == item

(* A lease is read from active items only. *)
Decode(item) ==
  IF Active(item) THEN item ELSE [item EXCEPT !.owner = Nil, !.expires = Nil]

Decoded(item) == IF item = Nil THEN Nil ELSE Decode(item)

View == [id \in RunIds |-> Decoded(items[id])]

Table == INSTANCE RunRepository WITH runs <- View, Times <- Nat, AttemptNos <- Nat

-----------------------------------------------------------------------------
(* Making a call: the operation, by whom, on which run, what its caller has
   read of the row, and what else the operation is given. *)

Read(item) ==
  LET row == Decode(item) IN
  [state |-> row.state, attempt |-> row.attempt, owner |-> row.owner, expires |-> row.expires]

Send(c, op, id, worker, seen, arg) ==
  /\ call[c] = Nil
  /\ call' = [call EXCEPT ![c] =
       [ op |-> op, run |-> id, by |-> worker, seen |-> seen, arg |-> arg,
         effects |-> 0, answer |-> Nil ]]
  /\ UNCHANGED <<items, index, grants, completions>>

SendCreate(c, id, now) ==
  /\ items[id] = Nil
  /\ Send(c, "create", id, Nil, Nil, now)

InBounds(row) == row.attempt \in AttemptNos /\ row.expires \in Expiries

(* FindQueuedCandidates reads the index, GetRun the item. *)
SendClaim(c, id, worker, now) ==
  \E item \in {items[id], index[id]} :
    /\ item # Nil /\ item.state = "QUEUED"
    /\ Send(c, "claim", id, worker, Read(item), now)

(* FindReclaimCandidates reads the index only. *)
SendReclaim(c, id, worker, now) ==
  /\ index[id] # Nil /\ LooksExpired(index[id], now) /\ InBounds(index[id])
  /\ Send(c, "reclaim", id, worker, Read(index[id]), now)

(* What the owner of an attempt may ask for next. *)
SendOwners(c, id) ==
  LET row == items[id]
      SendOwn(op, arg) == Send(c, op, id, row.owner, Read(row), arg)
  IN
  /\ row # Nil /\ Active(row) /\ InBounds(row)
  /\ \/ row.state = "RETRIEVING" /\ row.commit = Nil /\ \E x \in Commits : SendOwn("pin", x)
     \/ row.expires + RenewTicks \in Expiries /\ SendOwn("renew", row.expires + RenewTicks)
     \/ \E p \in Table!PhaseOrder : p[1] = row.state /\ SendOwn("phase", p[2])
     \/ row.state = "PERSISTING" /\ \E m \in Manifests : SendOwn("complete", m)
     \/ SendOwn("fail", Nil)

-----------------------------------------------------------------------------
(* A request reaches the table. *)

(* What the table answers.  The caller need not hear it: then it is sent the
   answer to the next copy. *)
Answered(r, answer, effects) == [r EXCEPT !.effects = @ + effects, !.answer = answer]

(* updateConditional *)
Update(c, can, item, granted, completed) ==
  \/ /\ can
     /\ items' = [items EXCEPT ![call[c].run] = item]
     /\ grants' = grants \cup granted
     /\ completions' = completions \cup completed
     /\ call' = [call EXCEPT ![c] = Answered(@, "done", 1)]
  \/ /\ ~can
     /\ call' = [call EXCEPT ![c] = Answered(@, "conditional", 0)]
     /\ UNCHANGED <<items, grants, completions>>

Delivered(c, op) == call[c] # Nil /\ call[c].op = op

CreateRun(c) ==
  /\ Delivered(c, "create")
  /\ Update(c, items[call[c].run] = Nil, NewItem(call[c].arg), {}, {})
  /\ UNCHANGED index

ClaimRun(c) ==
  LET r == call[c]
      item == items[r.run]
  IN
  /\ Delivered(c, "claim")
  /\ Update(c, CanClaim(item), Claimed(item, r.by, r.arg), {Table!Grant(r.run, 1, r.by)}, {})
  /\ UNCHANGED index

PinSourceIfAbsent(c) ==
  LET r == call[c]
      item == items[r.run]
  IN
  /\ Delivered(c, "pin")
  /\ Update(c, CanPin(item, r.seen.attempt, r.by), Pinned(item, r.arg), {}, {})
  /\ UNCHANGED index

RenewLease(c) ==
  LET r == call[c]
      item == items[r.run]
  IN
  /\ Delivered(c, "renew")
  /\ Update(c, CanRenew(item, r.seen.attempt, r.by, r.seen.expires), Renewed(item, r.arg), {}, {})
  /\ UNCHANGED index

ReclaimExpiredRun(c) ==
  LET r == call[c]
      item == items[r.run]
  IN
  /\ Delivered(c, "reclaim")
  /\ Update(c, CanReclaim(item, r.seen, r.arg), Reclaimed(item, r.seen, r.by, r.arg),
            {Table!Grant(r.run, r.seen.attempt + 1, r.by)}, {})
  /\ UNCHANGED index

UpdatePhase(c) ==
  LET r == call[c]
      item == items[r.run]
  IN
  /\ Delivered(c, "phase")
  /\ Update(c, CanUpdatePhase(item, r.seen.attempt, r.by, r.seen.state),
            PhaseUpdated(item, r.arg), {}, {})
  /\ UNCHANGED index

CompleteRun(c) ==
  LET r == call[c]
      item == items[r.run]
  IN
  /\ Delivered(c, "complete")
  /\ Update(c, CanComplete(item, r.seen.attempt, r.by),
            Completed(item, r.seen.attempt, r.arg), {},
            {[run |-> r.run, attempt |-> r.seen.attempt, worker |-> r.by, manifest |-> r.arg]})
  /\ UNCHANGED index

FailRun(c) ==
  LET r == call[c]
      item == items[r.run]
  IN
  /\ Delivered(c, "fail")
  /\ Update(c, CanFail(item, r.seen.attempt, r.by), Failed(item), {}, {})
  /\ UNCHANGED index

(* The call is over and no copy of its request is left, whether or not any
   was delivered. *)
Forget(c) ==
  /\ call[c] # Nil
  /\ call' = [call EXCEPT ![c] = Nil]
  /\ UNCHANGED <<items, index, grants, completions>>

(* The index catches up with an item. *)
Propagate(id) ==
  /\ index[id] # items[id]
  /\ index' = [index EXCEPT ![id] = items[id]]
  /\ UNCHANGED <<items, call, grants, completions>>

-----------------------------------------------------------------------------
Init ==
  /\ items = [id \in RunIds |-> Nil]
  /\ index = [id \in RunIds |-> Nil]
  /\ call = [c \in Calls |-> Nil]
  /\ grants = {}
  /\ completions = {}

Deliver(c) ==
  \/ CreateRun(c) \/ ClaimRun(c) \/ PinSourceIfAbsent(c) \/ RenewLease(c)
  \/ ReclaimExpiredRun(c) \/ UpdatePhase(c) \/ CompleteRun(c) \/ FailRun(c)

Next ==
  \/ \E c \in Calls :
       \/ \E id \in RunIds :
            \/ \E now \in Clocks :
                 \/ SendCreate(c, id, now)
                 \/ \E w \in Workers : SendClaim(c, id, w, now) \/ SendReclaim(c, id, w, now)
            \/ SendOwners(c, id)
       \/ Deliver(c)
       \/ Forget(c)
  \/ \E id \in RunIds : Propagate(id)

Spec == Init /\ [][Next]_vars

-----------------------------------------------------------------------------
(* Properties                                                              *)

TypeOK ==
  /\ items \in [RunIds -> Run \cup {Nil}]
  /\ index \in [RunIds -> Run \cup {Nil}]
  /\ grants \subseteq [run : RunIds, attempt : Nat, worker : Workers]
  /\ completions \subseteq
       [run : RunIds, attempt : Nat, worker : Workers, manifest : Manifests]
  /\ \A c \in Calls : call[c] # Nil =>
       /\ call[c].op \in {"create", "claim", "pin", "renew", "reclaim", "phase", "complete", "fail"}
       /\ call[c].run \in RunIds
       /\ call[c].op # "create" => call[c].by \in Workers /\ call[c].seen.attempt \in Nat
       /\ call[c].effects \in Nat
       /\ call[c].answer \in {Nil, "done", "conditional"}

(* A call takes effect at most once, however often its request is delivered
   and however late: the item never again satisfies the condition it has
   satisfied once, not even after other callers have changed it. *)
EffectOnce == \A c \in Calls : call[c] # Nil => call[c].effects <= 1

(* The statement a call asks for, on the table of RunRepository. *)
Statement(c) ==
  LET r == call[c] IN
  CASE r.op = "create"   -> Table!CreateRun(r.run)
    [] r.op = "claim"    -> Table!ClaimRun(r.run, r.by, r.arg)
    [] r.op = "pin"      -> Table!PinSourceIfAbsent(r.run, r.seen.attempt, r.by, r.arg)
    [] r.op = "renew"    -> Table!RenewLease(r.run, r.seen.attempt, r.by, r.seen.expires, r.arg)
    [] r.op = "reclaim"  -> Table!ReclaimExpiredRun(r.run, r.seen, r.by, r.arg)
    [] r.op = "phase"    -> Table!UpdatePhase(r.run, r.seen.attempt, r.by, r.seen.state, r.arg)
    [] r.op = "complete" -> Table!CompleteRun(r.run, r.seen.attempt, r.by, r.arg)
    [] r.op = "fail"     -> Table!FailRun(r.run, r.seen.attempt, r.by)

(* What an item shows when it is read changes only by the statement that a
   call in progress asks for, done as SQLite would do it: retries, late
   requests and candidates from an index that lags behind add nothing, and no
   reader sees the lease_expires_at of a queued item. *)
WritesAreStatements ==
  [][<<View, grants, completions>>' # <<View, grants, completions>> =>
       \E c \in Calls : call[c] # Nil /\ Statement(c)]_vars

(* So the items, decoded, are the table of RunRepository. *)
ImplementsRunRepository == Table!Spec

(* What RecoverExpired and ProcessQueuedAndReclaim make of ErrConditional:
   another worker has won the race for the run, this call did nothing. *)
ConditionalMeansRaceLost ==
  \A c \in Calls :
    /\ call[c] # Nil /\ call[c].op \in {"claim", "reclaim"}
    /\ call[c].answer = "conditional"
    => call[c].effects = 0

=============================================================================
