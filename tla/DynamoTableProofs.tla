-------------------------- MODULE DynamoTableProofs --------------------------
(***************************************************************************)
(* The items, decoded, are the table of RunRepository, and no call takes   *)
(* effect twice: for every number of runs, workers and calls in progress.  *)
(***************************************************************************)
EXTENDS DynamoTable, RunRecordProofs

USE LeaseTimeAssumption, RunRecordAssumption, NilIsNoRow, DynamoTableAssumption

(* An item has a typed lease while it is active and no owner otherwise. *)
ItemOK(item) ==
  /\ item \in Run
  /\ Active(item) <=> item.owner # Nil
  /\ Active(item) => item.owner \in Workers /\ item.expires \in Nat

(* How far an attempt has come. *)
Rank(state) ==
  IF state = "CLAIMED" THEN 1 ELSE IF state = "RETRIEVING" THEN 2
  ELSE IF state = "VALIDATING" THEN 3 ELSE IF state = "REVIEWING" THEN 4
  ELSE IF state = "EVALUATING" THEN 5 ELSE 6

(* Where a write can take an item: never back. *)
Forward(old, new) ==
  /\ old.state # "QUEUED" => new.state # "QUEUED"
  /\ old.commit # Nil => new.commit # Nil
  /\ Terminal(old) => Terminal(new)
  /\ old.attempt <= new.attempt
  /\ Active(old) /\ old.attempt = new.attempt =>
       \/ Terminal(new)
       \/ /\ Active(new)
          /\ old.expires <= new.expires /\ Rank(old.state) <= Rank(new.state)

(* What a call gives the table is of the type its operation needs. *)
CallOK(r) ==
  /\ r = [ op |-> r.op, run |-> r.run, by |-> r.by, seen |-> r.seen, arg |-> r.arg,
           effects |-> r.effects, answer |-> r.answer ]
  /\ r.run \in RunIds
  /\ r.op \in {"create", "claim", "pin", "renew", "reclaim", "phase", "complete", "fail"}
  /\ r.op # "create" => r.by \in Workers /\ r.seen.attempt \in Nat
  /\ r.op \in {"create", "claim", "reclaim"} => r.arg \in Nat
  /\ r.op = "pin" => r.arg \in Commits
  /\ r.op = "renew" => r.seen.expires \in Nat /\ r.arg = r.seen.expires + RenewTicks
  /\ r.op = "reclaim" => r.seen \in Table!Seen
  /\ r.op = "phase" => <<r.seen.state, r.arg>> \in Table!PhaseOrder
  /\ r.op = "complete" => r.arg \in Manifests
  /\ r.effects \in {0, 1}
  /\ r.answer \in {Nil, "done", "conditional"}

(* The item is past the attempt a call speaks for. *)
Beyond(item, attempt) == Terminal(item) \/ attempt < item.attempt

(* The item is past what a call asks for: its condition fails for good. *)
Spent(r, item) ==
  /\ r.op = "claim" => item.state # "QUEUED"
  /\ r.op = "pin" => item.commit # Nil
  /\ r.op = "renew" =>
       \/ Beyond(item, r.seen.attempt)
       \/ item.attempt = r.seen.attempt /\ Active(item) /\ r.seen.expires < item.expires
  /\ r.op = "reclaim" => Beyond(item, r.seen.attempt)
  /\ r.op = "phase" =>
       \/ Beyond(item, r.seen.attempt)
       \/ /\ item.attempt = r.seen.attempt /\ Active(item)
          /\ Rank(r.seen.state) < Rank(item.state)
  /\ r.op \in {"complete", "fail"} => Terminal(item)

(* The inductive invariant: a call that has had its effect is spent. *)
CallInv(c) ==
  call[c] # Nil =>
    /\ CallOK(call[c])
    /\ call[c].op # "create" => items[call[c].run] # Nil
    /\ call[c].effects = 1 => items[call[c].run] # Nil /\ Spent(call[c], items[call[c].run])

IInv ==
  /\ items \in [RunIds -> Run \cup {Nil}]
  /\ index \in [RunIds -> Run \cup {Nil}]
  /\ \A id \in RunIds : items[id] # Nil => ItemOK(items[id])
  /\ \A id \in RunIds : index[id] # Nil => items[id] # Nil /\ ItemOK(index[id])
  /\ call = [c \in Calls |-> call[c]]
  /\ \A c \in Calls : CallInv(c)
  /\ grants \subseteq [run : RunIds, attempt : Nat, worker : Workers]
  /\ completions \subseteq
       [run : RunIds, attempt : Nat, worker : Workers, manifest : Manifests]

(* An empty table without calls satisfies the inductive invariant. *)
LEMMA InitEstablishes == Init => IInv
BY DEF Init, IInv, CallInv

(* A call that is spent stays so. *)
LEMMA SpentStays ==
  ASSUME NEW r, CallOK(r), NEW old, ItemOK(old), NEW new, ItemOK(new),
         Spent(r, old), Forward(old, new)
  PROVE  Spent(r, new)
<1>1. /\ old.attempt \in Nat /\ new.attempt \in Nat
      /\ r.op # "create" => r.seen.attempt \in Nat
      /\ Active(old) => old.expires \in Nat
      /\ Active(new) => new.expires \in Nat
  BY DEF ItemOK, Run, CallOK
<1>2. \A s : Rank(s) \in 1 .. 6
  BY DEF Rank
<1>3. /\ r.op = "claim" => new.state # "QUEUED"
      /\ r.op = "pin" => new.commit # Nil
      /\ r.op \in {"complete", "fail"} => Terminal(new)
  BY DEF Spent, Forward
<1>4. r.op # "create" /\ Beyond(old, r.seen.attempt) => Beyond(new, r.seen.attempt)
  BY <1>1 DEF Beyond, Forward
<1>5. ASSUME r.op # "create", old.attempt = r.seen.attempt, Active(old)
      PROVE  \/ Beyond(new, r.seen.attempt)
             \/ /\ new.attempt = r.seen.attempt /\ Active(new)
                /\ old.expires <= new.expires /\ Rank(old.state) <= Rank(new.state)
  BY <1>1, <1>5 DEF Beyond, Forward
<1>6. ASSUME r.op = "renew"
      PROVE  \/ Beyond(new, r.seen.attempt)
             \/ new.attempt = r.seen.attempt /\ Active(new) /\ r.seen.expires < new.expires
  <2>1. r.seen.expires \in Nat
    BY <1>6 DEF CallOK
  <2> QED
    BY <1>1, <1>4, <1>5, <1>6, <2>1 DEF Spent
<1>7. ASSUME r.op = "phase"
      PROVE  \/ Beyond(new, r.seen.attempt)
             \/ /\ new.attempt = r.seen.attempt /\ Active(new)
                /\ Rank(r.seen.state) < Rank(new.state)
  <2>1. /\ Rank(r.seen.state) \in Int /\ Rank(old.state) \in Int /\ Rank(new.state) \in Int
    BY <1>2
  <2> QED
    BY <1>4, <1>5, <1>7, <2>1 DEF Spent
<1> QED
  BY <1>3, <1>4, <1>6, <1>7 DEF Spent

-----------------------------------------------------------------------------
(* What each write makes of an item, and that it spends the call. *)

Effective(r, old, new) ==
  ItemOK(new) /\ Forward(old, new) /\ Spent(r, new) /\ ~Spent(r, old)

(* ClaimRun *)
LEMMA ClaimEffect ==
  ASSUME NEW r, CallOK(r), r.op = "claim", NEW item, ItemOK(item), CanClaim(item)
  PROVE  Effective(r, item, Claimed(item, r.by, r.arg))
<1> DEFINE new == Claimed(item, r.by, r.arg)
<1>1. item \in Run /\ r.by \in Workers /\ r.arg \in Nat /\ r.arg + LeaseTicks \in Nat
  BY DEF CallOK, ItemOK
<1>2. new \in Run
  BY <1>1, LeasedType DEF Claimed
<1>3. /\ new.state = "CLAIMED" /\ new.owner = r.by /\ new.attempt = 1
      /\ new.expires = r.arg + LeaseTicks /\ new.commit = item.commit
  BY <1>1 DEF Claimed, Leased, Run
<1>4. /\ item.state = "QUEUED" /\ item.attempt = 0
      /\ ~Active(item) /\ ~Terminal(item) /\ Active(new)
  BY <1>3, StatesDisjoint DEF CanClaim, Active, Terminal
<1>5. ItemOK(new)
  BY <1>1, <1>2, <1>3, <1>4 DEF ItemOK
<1>6. Forward(item, new)
  BY <1>3, <1>4 DEF Forward
<1>7. Spent(r, new) /\ ~Spent(r, item)
  BY <1>3, <1>4 DEF Spent
<1> QED
  BY <1>5, <1>6, <1>7 DEF Effective

(* PinSourceIfAbsent *)
LEMMA PinEffect ==
  ASSUME NEW r, CallOK(r), r.op = "pin", NEW item, ItemOK(item),
         CanPin(item, r.seen.attempt, r.by)
  PROVE  Effective(r, item, Pinned(item, r.arg))
<1> DEFINE new == Pinned(item, r.arg)
<1>1. item \in Run /\ r.by \in Workers /\ r.arg \in Commits
  BY DEF CallOK, ItemOK
<1>2. new \in Run
  BY <1>1, PinnedType
<1>3. /\ new.state = item.state /\ new.owner = item.owner /\ new.attempt = item.attempt
      /\ new.expires = item.expires /\ new.commit = r.arg
  BY <1>1 DEF Pinned, Run
<1>4. /\ item.commit = Nil /\ item.attempt \in Nat
      /\ Active(item) /\ ~Terminal(item) /\ Active(new)
  BY <1>1, <1>3, StatesDisjoint DEF CanPin, Run, Active, Terminal
<1>5. ItemOK(new)
  BY <1>2, <1>3, <1>4 DEF ItemOK
<1>6. Forward(item, new)
  <2>1. item.expires <= new.expires /\ Rank(item.state) <= Rank(new.state)
    BY <1>3, <1>4 DEF ItemOK, Rank
  <2> QED
    BY <1>3, <1>4, <2>1 DEF Forward
<1>7. Spent(r, new) /\ ~Spent(r, item)
  BY <1>1, <1>3, <1>4 DEF Spent
<1> QED
  BY <1>5, <1>6, <1>7 DEF Effective

(* RenewLease *)
LEMMA RenewEffect ==
  ASSUME NEW r, CallOK(r), r.op = "renew", NEW item, ItemOK(item),
         CanRenew(item, r.seen.attempt, r.by, r.seen.expires)
  PROVE  Effective(r, item, Renewed(item, r.arg))
<1> DEFINE new == Renewed(item, r.arg)
<1>1. /\ item \in Run /\ r.by \in Workers /\ r.seen.expires \in Nat
      /\ r.arg \in Nat /\ r.seen.expires < r.arg
  BY DEF CallOK, ItemOK
<1>2. new \in Run
  BY <1>1, RenewedType
<1>3. /\ new.state = item.state /\ new.owner = item.owner /\ new.attempt = item.attempt
      /\ new.expires = r.arg /\ new.commit = item.commit
  BY <1>1 DEF Renewed, Run
<1>4. /\ Active(item) /\ item.attempt = r.seen.attempt /\ item.expires = r.seen.expires
      /\ item.attempt \in Nat
  BY <1>1 DEF CanRenew, HeldBy, Run
<1>5. ~Terminal(item) /\ Rank(item.state) \in 1 .. 6
  BY <1>4, StatesDisjoint DEF Active, Terminal, Rank
<1> QED
  BY <1>1, <1>2, <1>3, <1>4, <1>5
  DEF Effective, ItemOK, Active, Terminal, Forward, Spent, Beyond

(* ReclaimExpiredRun *)
LEMMA ReclaimEffect ==
  ASSUME NEW r, CallOK(r), r.op = "reclaim", NEW item, ItemOK(item),
         CanReclaim(item, r.seen, r.arg)
  PROVE  Effective(r, item, Reclaimed(item, r.seen, r.by, r.arg))
<1> DEFINE new == Reclaimed(item, r.seen, r.by, r.arg)
<1>1. /\ item \in Run /\ r.by \in Workers /\ r.seen.attempt \in Nat
      /\ r.seen.attempt + 1 \in Nat /\ r.arg + LeaseTicks \in Nat
  BY DEF CallOK, ItemOK
<1>2. new \in Run
  BY <1>1, LeasedType DEF Reclaimed
<1>3. /\ new.state = "CLAIMED" /\ new.owner = r.by /\ new.attempt = r.seen.attempt + 1
      /\ new.expires = r.arg + LeaseTicks /\ new.commit = item.commit
  BY <1>1 DEF Reclaimed, Leased, Run
<1>4. /\ item.state = r.seen.state /\ item.attempt = r.seen.attempt
      /\ r.seen \in Table!Seen
  BY DEF CallOK, CanReclaim, HeldBy
<1>5. r.seen.state \in ActiveStates
  BY <1>4 DEF Table!Seen, Table!ActiveStates, ActiveStates
<1>6. Active(item) /\ ~Terminal(item) /\ item.state # "QUEUED" /\ Active(new)
  BY <1>3, <1>4, <1>5, StatesDisjoint DEF Active, Terminal
<1>7. ItemOK(new)
  BY <1>1, <1>2, <1>3, <1>6 DEF ItemOK
<1>8. Forward(item, new)
  BY <1>1, <1>3, <1>4, <1>6, StatesDisjoint DEF Forward
<1>9. Spent(r, new) /\ ~Spent(r, item)
  BY <1>1, <1>3, <1>4, <1>6 DEF Spent, Beyond
<1> QED
  BY <1>7, <1>8, <1>9 DEF Effective

(* UpdatePhase *)
LEMMA PhaseEffect ==
  ASSUME NEW r, CallOK(r), r.op = "phase", NEW item, ItemOK(item),
         CanUpdatePhase(item, r.seen.attempt, r.by, r.seen.state)
  PROVE  /\ Effective(r, item, PhaseUpdated(item, r.arg))
         /\ r.seen.state \in ActiveStates /\ r.arg \in ActiveStates
<1> DEFINE new == PhaseUpdated(item, r.arg)
<1>1. /\ item \in Run /\ r.by \in Workers /\ r.seen.attempt \in Nat
      /\ item.attempt = r.seen.attempt /\ item.state = r.seen.state
  BY DEF CallOK, ItemOK, CanUpdatePhase, HeldBy
<1>2. /\ r.seen.state \in ActiveStates /\ r.arg \in ActiveStates
      /\ Rank(r.seen.state) < Rank(r.arg)
  BY DEF CallOK, Table!PhaseOrder, ActiveStates, Rank
<1>3. new \in Run
  BY <1>1, <1>2, PhaseUpdatedType
<1>4. /\ new.state = r.arg /\ new.owner = item.owner /\ new.attempt = item.attempt
      /\ new.expires = item.expires /\ new.commit = item.commit
  BY <1>1 DEF PhaseUpdated, Run
<1>5. Rank(r.seen.state) \in Int /\ Rank(r.arg) \in Int
  BY DEF Rank
<1> QED
  BY <1>1, <1>2, <1>3, <1>4, <1>5, StatesDisjoint
  DEF Effective, ItemOK, Active, Terminal, Forward, Spent, Beyond

(* CompleteRun *)
LEMMA CompleteEffect ==
  ASSUME NEW r, CallOK(r), r.op = "complete", NEW item, ItemOK(item),
         CanComplete(item, r.seen.attempt, r.by)
  PROVE  Effective(r, item, Completed(item, r.seen.attempt, r.arg))
<1> DEFINE new == Completed(item, r.seen.attempt, r.arg)
<1>1. item \in Run /\ r.seen.attempt \in Nat /\ r.arg \in Manifests
  BY DEF CallOK, ItemOK
<1>2. new \in Run
  BY <1>1, CompletedType
<1>3. /\ new.state = "COMPLETED" /\ new.owner = Nil /\ new.attempt = item.attempt
      /\ new.commit = item.commit
  BY <1>1 DEF Completed, Run
<1>4. item.state = "PERSISTING" /\ item.attempt \in Nat
  BY <1>1 DEF CanComplete, Run
<1> QED
  BY <1>1, <1>2, <1>3, <1>4, StatesDisjoint
  DEF Effective, ItemOK, Active, Terminal, TerminalStates, Forward, Spent

(* FailRun *)
LEMMA FailEffect ==
  ASSUME NEW r, CallOK(r), r.op = "fail", NEW item, ItemOK(item),
         CanFail(item, r.seen.attempt, r.by)
  PROVE  Effective(r, item, Failed(item))
<1> DEFINE new == Failed(item)
<1>1. item \in Run /\ new \in Run
  BY FailedType DEF ItemOK
<1>2. /\ new.state = "FAILED" /\ new.owner = Nil /\ new.attempt = item.attempt
      /\ new.commit = item.commit
  BY <1>1 DEF Failed, Run
<1>3. item.state \in ActiveStates /\ item.attempt \in Nat
  BY <1>1 DEF CanFail, Active, Run
<1> QED
  BY <1>1, <1>2, <1>3, StatesDisjoint
  DEF Effective, ItemOK, Active, Terminal, TerminalStates, Forward, Spent

-----------------------------------------------------------------------------
(* The inductive invariant is kept. *)

(* What a caller has read of an item. *)
LEMMA ReadOK ==
  ASSUME NEW item, ItemOK(item)
  PROVE  /\ Read(item).attempt = item.attempt /\ Read(item).state = item.state
         /\ item.attempt \in Nat
         /\ Active(item) => /\ Read(item).expires = item.expires
                            /\ Read(item) \in Table!Seen
<1>1. item \in Run /\ item.attempt \in Nat
  BY DEF ItemOK, Run
<1>2. /\ Decode(item).attempt = item.attempt /\ Decode(item).state = item.state
      /\ Active(item) => Decode(item) = item
  BY <1>1 DEF Decode, Run
<1>3. Active(item) => /\ item.state \in ActiveStates /\ item.owner \in Workers
                      /\ item.expires \in Nat
  BY DEF ItemOK, Active
<1> QED
  BY <1>1, <1>2, <1>3 DEF Read, Table!Seen, Table!ActiveStates, ActiveStates

(* A call that has not reached the table yet has had no effect. *)
LEMMA SendKeeps ==
  ASSUME IInv, NEW c \in Calls, NEW op, NEW id, NEW worker, NEW seen, NEW arg,
         Send(c, op, id, worker, seen, arg), op # "create" => items[id] # Nil,
         CallOK([ op |-> op, run |-> id, by |-> worker, seen |-> seen, arg |-> arg,
                  effects |-> 0, answer |-> Nil ])
  PROVE  IInv'
<1> DEFINE r == [ op |-> op, run |-> id, by |-> worker, seen |-> seen, arg |-> arg,
                  effects |-> 0, answer |-> Nil ]
<1>1. /\ call' = [call EXCEPT ![c] = r] /\ UNCHANGED <<items, index, grants, completions>>
      /\ call = [d \in Calls |-> call[d]]
  BY DEF Send, IInv
<1>2. \A d \in Calls : CallInv(d)'
  <2> SUFFICES ASSUME NEW d \in Calls
               PROVE  CallInv(d)'
    OBVIOUS
  <2>1. CASE d = c
    BY <1>1, <2>1 DEF CallInv
  <2>2. CASE d # c
    BY <1>1, <2>2 DEF IInv, CallInv
  <2> QED
    BY <2>1, <2>2
<1> QED
  BY <1>1, <1>2 DEF IInv

(* A request that changes its item or creates it, and spends its call. *)
Fitting(r, new) ==
  /\ ItemOK(new) /\ Spent(r, new)
  /\ items[r.run] # Nil => Forward(items[r.run], new) /\ ~Spent(r, items[r.run])

(* The record of a call that was answered. *)
LEMMA AnsweredCall ==
  ASSUME NEW r, CallOK(r), NEW n \in {0, 1}, r.effects + n \in {0, 1},
         NEW a \in {Nil, "done", "conditional"}, NEW s, s = Answered(r, a, n)
  PROVE  /\ CallOK(s) /\ s.op = r.op /\ s.run = r.run /\ s.effects = r.effects + n
         /\ \A i : Spent(s, i) <=> Spent(r, i)
<1> DEFINE t == [ op |-> r.op, run |-> r.run, by |-> r.by, seen |-> r.seen, arg |-> r.arg,
                  effects |-> r.effects + n, answer |-> a ]
<1>1. r = [ op |-> r.op, run |-> r.run, by |-> r.by, seen |-> r.seen, arg |-> r.arg,
            effects |-> r.effects, answer |-> r.answer ]
  BY DEF CallOK
<1>2. s = t
  BY <1>1 DEF Answered
<1>3. CallOK(t)
  BY DEF CallOK
<1>4. \A i : Spent(t, i) <=> Spent(r, i)
  BY DEF Spent
<1> QED
  BY <1>2, <1>3, <1>4

(* A request that reaches the table keeps the invariant, and one that has an
   effect had none before. *)
LEMMA UpdateKeeps ==
  ASSUME IInv, NEW c \in Calls, call[c] # Nil, NEW STATE can, NEW STATE new,
         NEW STATE granted, NEW STATE completed,
         Update(c, can, new, granted, completed), UNCHANGED index,
         can => Fitting(call[c], new),
         granted \subseteq [run : RunIds, attempt : Nat, worker : Workers],
         completed \subseteq
           [run : RunIds, attempt : Nat, worker : Workers, manifest : Manifests]
  PROVE  IInv'
<1> DEFINE r == call[c]
<1>1. CallOK(r) /\ call = [d \in Calls |-> call[d]] /\ r.run \in RunIds
  BY DEF IInv, CallInv, CallOK
<1>2. r.op # "create" => items[r.run] # Nil
  BY DEF IInv, CallInv
<1>3. CASE can /\ items' = [items EXCEPT ![r.run] = new]
           /\ grants' = grants \cup granted /\ completions' = completions \cup completed
           /\ call' = [call EXCEPT ![c] = Answered(@, "done", 1)]
  <2>1. new \in Run /\ new # Nil /\ ItemOK(new) /\ Spent(r, new)
    BY <1>3 DEF Fitting, ItemOK
  <2>2. /\ items' \in [RunIds -> Run \cup {Nil}] /\ items'[r.run] = new
        /\ \A id \in RunIds : id # r.run => items'[id] = items[id]
    BY <1>1, <1>3, <2>1 DEF IInv
  <2>3. r.effects = 0
    BY <1>1, <1>3 DEF IInv, CallInv, CallOK, Fitting
  <2> DEFINE s == Answered(r, "done", 1)
  <2>4. call' = [d \in Calls |-> IF d = c THEN s ELSE call[d]]
    BY <1>1, <1>3
  <2>5. /\ CallOK(s) /\ s.op = r.op /\ s.run = r.run
        /\ \A i : Spent(s, i) <=> Spent(r, i)
    BY <1>1, <2>3, AnsweredCall
  <2> HIDE DEF s
  <2>8. \A d \in Calls : CallInv(d)'
    <3> SUFFICES ASSUME NEW d \in Calls
                 PROVE  CallInv(d)'
      OBVIOUS
    <3>1. CASE d = c
      <4>1. call'[d] = s
        BY <2>4, <3>1
      <4> QED
        BY <4>1, <2>1, <2>2, <2>5 DEF CallInv
    <3>2. CASE d # c /\ call[d] # Nil
      <4>1. call'[d] = call[d] /\ CallOK(call[d]) /\ call[d].run \in RunIds
        BY <2>4, <3>2 DEF IInv, CallInv, CallOK
      <4>2. CASE call[d].run # r.run
        BY <2>2, <3>2, <4>1, <4>2 DEF IInv, CallInv
      <4>3. CASE call[d].run = r.run
        <5>1. items'[call[d].run] = new
          BY <2>2, <4>3
        <5>2. ASSUME call[d].effects = 1
              PROVE  Spent(call[d], new)
          <6>1. items[r.run] # Nil /\ Spent(call[d], items[r.run])
            BY <3>2, <4>3, <5>2 DEF IInv, CallInv
          <6>2. ItemOK(items[r.run]) /\ Forward(items[r.run], new)
            BY <1>1, <1>3, <6>1 DEF IInv, Fitting
          <6> QED
            BY <2>1, <4>1, <6>1, <6>2, SpentStays
        <5> QED
          BY <2>1, <4>1, <5>1, <5>2 DEF CallInv
      <4> QED
        BY <4>2, <4>3
    <3>3. CASE d # c /\ call[d] = Nil
      BY <2>4, <3>3 DEF CallInv
    <3> QED
      BY <3>1, <3>2, <3>3
  <2>9. /\ \A id \in RunIds : items'[id] # Nil => ItemOK(items'[id])
        /\ \A id \in RunIds : index[id] # Nil => items'[id] # Nil /\ ItemOK(index[id])
    BY <2>1, <2>2 DEF IInv
  <2>10. call' = [d \in Calls |-> call'[d]]
    BY <2>4
  <2>11. /\ grants' \subseteq [run : RunIds, attempt : Nat, worker : Workers]
         /\ completions' \subseteq
              [run : RunIds, attempt : Nat, worker : Workers, manifest : Manifests]
    BY <1>3 DEF IInv
  <2> QED
    BY <2>2, <2>8, <2>9, <2>10, <2>11 DEF IInv
<1>4. CASE /\ call' = [call EXCEPT ![c] = Answered(@, "conditional", 0)]
           /\ UNCHANGED <<items, grants, completions>>
  <2> DEFINE s == Answered(r, "conditional", 0)
  <2>1. call' = [d \in Calls |-> IF d = c THEN s ELSE call[d]]
    BY <1>1, <1>4
  <2>2. r.effects + 0 = r.effects /\ r.effects \in {0, 1}
    BY <1>1 DEF CallOK
  <2>3. /\ CallOK(s) /\ s.op = r.op /\ s.run = r.run /\ s.effects = r.effects
        /\ \A i : Spent(s, i) <=> Spent(r, i)
    BY <1>1, <2>2, AnsweredCall
  <2> HIDE DEF s
  <2>5. \A d \in Calls : CallInv(d)'
    <3> SUFFICES ASSUME NEW d \in Calls
                 PROVE  CallInv(d)'
      OBVIOUS
    <3>1. CASE d = c
      <4>1. call'[d] = s
        BY <2>1, <3>1
      <4>2. r.effects = 1 => items[r.run] # Nil /\ Spent(r, items[r.run])
        BY DEF IInv, CallInv
      <4> QED
        BY <1>2, <1>4, <2>3, <4>1, <4>2 DEF CallInv
    <3>2. CASE d # c
      BY <1>4, <2>1, <3>2 DEF IInv, CallInv
    <3> QED
      BY <3>1, <3>2
  <2> QED
    BY <1>4, <2>1, <2>5 DEF IInv
<1> QED
  BY <1>3, <1>4 DEF Update

(* What the inductive invariant says of the call a request belongs to. *)
LEMMA CallFacts ==
  ASSUME IInv, NEW c \in Calls, call[c] # Nil
  PROVE  /\ CallOK(call[c]) /\ call[c].run \in RunIds
         /\ call[c].op # "create" =>
              /\ items[call[c].run] # Nil /\ ItemOK(items[call[c].run])
              /\ call[c].by \in Workers /\ call[c].seen.attempt \in Nat
BY DEF IInv, CallInv, CallOK

(* A created item is queued. *)
LEMMA NewItemOK == ASSUME NEW t \in Nat PROVE ItemOK(NewItem(t)) /\ Decode(NewItem(t)) = NewRun
<1>1. NewItem(t) \in Run
  BY NewRunType DEF NewItem, Run, Instant
<1>2. NewItem(t).state = "QUEUED" /\ NewItem(t).owner = Nil
  BY DEF NewItem, NewRun
<1>3. ~Active(NewItem(t))
  BY <1>2, StatesDisjoint DEF Active
<1>4. Decode(NewItem(t)) = NewRun
  BY <1>3 DEF Decode, NewItem, NewRun
<1> QED
  BY <1>1, <1>2, <1>3, <1>4 DEF ItemOK

(* Every request that reaches the table keeps the invariant. *)
LEMMA DeliverKeeps ==
  ASSUME IInv, NEW c \in Calls, Deliver(c)
  PROVE  IInv'
<1> DEFINE r == call[c]
           item == items[r.run]
<1>1. r # Nil
  BY DEF Deliver, Delivered, CreateRun, ClaimRun, PinSourceIfAbsent, RenewLease,
         ReclaimExpiredRun, UpdatePhase, CompleteRun, FailRun
<1>2. /\ CallOK(r) /\ r.run \in RunIds
      /\ r.op # "create" => /\ item # Nil /\ ItemOK(item)
                            /\ r.by \in Workers /\ r.seen.attempt \in Nat
  BY <1>1, CallFacts
<1>3. CASE CreateRun(c)
  <2>1. r.op = "create" /\ r.arg \in Nat
    BY <1>2, <1>3 DEF CreateRun, Delivered, CallOK
  <2>2. item = Nil => Fitting(r, NewItem(r.arg))
    BY <2>1, NewItemOK DEF Fitting, Spent
  <2> DEFINE free == item = Nil
  <2>3. Update(c, free, NewItem(r.arg), {}, {}) /\ UNCHANGED index
    BY <1>3 DEF CreateRun
  <2>4. free => Fitting(r, NewItem(r.arg))
    BY <2>2
  <2> HIDE DEF free
  <2> QED
    BY <1>1, <2>3, <2>4, UpdateKeeps
<1>4. CASE ClaimRun(c)
  <2>1. r.op = "claim"
    BY <1>4 DEF ClaimRun, Delivered
  <2>2. CanClaim(item) => Fitting(r, Claimed(item, r.by, r.arg))
    BY <1>2, <2>1, ClaimEffect DEF Effective, Fitting
  <2>3. {Table!Grant(r.run, 1, r.by)} \subseteq [run : RunIds, attempt : Nat, worker : Workers]
    BY <1>2, <2>1 DEF Table!Grant
  <2> QED
    BY <1>1, <1>4, <2>2, <2>3, UpdateKeeps DEF ClaimRun
<1>5. CASE PinSourceIfAbsent(c)
  <2>1. r.op = "pin"
    BY <1>5 DEF PinSourceIfAbsent, Delivered
  <2>2. CanPin(item, r.seen.attempt, r.by) => Fitting(r, Pinned(item, r.arg))
    BY <1>2, <2>1, PinEffect DEF Effective, Fitting
  <2> QED
    BY <1>1, <1>5, <2>2, UpdateKeeps DEF PinSourceIfAbsent
<1>6. CASE RenewLease(c)
  <2>1. r.op = "renew"
    BY <1>6 DEF RenewLease, Delivered
  <2>2. CanRenew(item, r.seen.attempt, r.by, r.seen.expires) => Fitting(r, Renewed(item, r.arg))
    BY <1>2, <2>1, RenewEffect DEF Effective, Fitting
  <2> QED
    BY <1>1, <1>6, <2>2, UpdateKeeps DEF RenewLease
<1>7. CASE ReclaimExpiredRun(c)
  <2>1. r.op = "reclaim"
    BY <1>7 DEF ReclaimExpiredRun, Delivered
  <2>2. CanReclaim(item, r.seen, r.arg) => Fitting(r, Reclaimed(item, r.seen, r.by, r.arg))
    BY <1>2, <2>1, ReclaimEffect DEF Effective, Fitting
  <2>3. {Table!Grant(r.run, r.seen.attempt + 1, r.by)}
          \subseteq [run : RunIds, attempt : Nat, worker : Workers]
    <3>1. r.seen.attempt + 1 \in Nat
      BY <1>2, <2>1
    <3> QED
      BY <1>2, <2>1, <3>1 DEF Table!Grant
  <2> QED
    BY <1>1, <1>7, <2>2, <2>3, UpdateKeeps DEF ReclaimExpiredRun
<1>8. CASE UpdatePhase(c)
  <2>1. r.op = "phase"
    BY <1>8 DEF UpdatePhase, Delivered
  <2>2. CanUpdatePhase(item, r.seen.attempt, r.by, r.seen.state) =>
          Fitting(r, PhaseUpdated(item, r.arg))
    BY <1>2, <2>1, PhaseEffect DEF Effective, Fitting
  <2> QED
    BY <1>1, <1>8, <2>2, UpdateKeeps DEF UpdatePhase
<1>9. CASE CompleteRun(c)
  <2>1. r.op = "complete" /\ r.arg \in Manifests
    BY <1>2, <1>9 DEF CompleteRun, Delivered, CallOK
  <2>2. CanComplete(item, r.seen.attempt, r.by) =>
          Fitting(r, Completed(item, r.seen.attempt, r.arg))
    BY <1>2, <2>1, CompleteEffect DEF Effective, Fitting
  <2>3. {[run |-> r.run, attempt |-> r.seen.attempt, worker |-> r.by, manifest |-> r.arg]}
          \subseteq [run : RunIds, attempt : Nat, worker : Workers, manifest : Manifests]
    BY <1>2, <2>1
  <2> QED
    BY <1>1, <1>9, <2>2, <2>3, UpdateKeeps DEF CompleteRun
<1>10. CASE FailRun(c)
  <2>1. r.op = "fail"
    BY <1>10 DEF FailRun, Delivered
  <2>2. CanFail(item, r.seen.attempt, r.by) => Fitting(r, Failed(item))
    BY <1>2, <2>1, FailEffect DEF Effective, Fitting
  <2> QED
    BY <1>1, <1>10, <2>2, UpdateKeeps DEF FailRun
<1> QED
  BY <1>3, <1>4, <1>5, <1>6, <1>7, <1>8, <1>9, <1>10 DEF Deliver

(* So does everything else. *)
LEMMA NextKeeps == IInv /\ [Next]_vars => IInv'
<1> SUFFICES ASSUME IInv, [Next]_vars
             PROVE  IInv'
  OBVIOUS
<1>1. ASSUME NEW c \in Calls, NEW id \in RunIds, NEW now \in Clocks, SendCreate(c, id, now)
      PROVE  IInv'
  <2>1. now \in Nat
    OBVIOUS
  <2>2. CallOK([ op |-> "create", run |-> id, by |-> Nil, seen |-> Nil, arg |-> now,
                 effects |-> 0, answer |-> Nil ])
    BY <2>1 DEF CallOK
  <2> QED
    BY <1>1, <2>2, SendKeeps DEF SendCreate
<1>2. ASSUME NEW c \in Calls, NEW id \in RunIds, NEW w \in Workers, NEW now \in Clocks,
             SendClaim(c, id, w, now)
      PROVE  IInv'
  <2>1. PICK item \in {items[id], index[id]} :
          item # Nil /\ Send(c, "claim", id, w, Read(item), now)
    BY <1>2 DEF SendClaim
  <2>2. ItemOK(item) /\ items[id] # Nil /\ now \in Nat
    BY <2>1 DEF IInv
  <2>3. Read(item).attempt \in Nat
    BY <2>2, ReadOK
  <2>4. CallOK([ op |-> "claim", run |-> id, by |-> w, seen |-> Read(item), arg |-> now,
                 effects |-> 0, answer |-> Nil ])
    BY <2>2, <2>3 DEF CallOK
  <2> QED
    BY <2>1, <2>2, <2>4, SendKeeps
<1>3. ASSUME NEW c \in Calls, NEW id \in RunIds, NEW w \in Workers, NEW now \in Clocks,
             SendReclaim(c, id, w, now)
      PROVE  IInv'
  <2>1. /\ index[id] # Nil /\ Active(index[id])
        /\ Send(c, "reclaim", id, w, Read(index[id]), now)
    BY <1>3 DEF SendReclaim, LooksExpired
  <2>2. ItemOK(index[id]) /\ items[id] # Nil /\ now \in Nat
    BY <2>1 DEF IInv
  <2>3. Read(index[id]) \in Table!Seen /\ Read(index[id]).attempt \in Nat
    BY <2>1, <2>2, ReadOK
  <2>4. CallOK([ op |-> "reclaim", run |-> id, by |-> w, seen |-> Read(index[id]), arg |-> now,
                 effects |-> 0, answer |-> Nil ])
    BY <2>2, <2>3 DEF CallOK
  <2> QED
    BY <2>1, <2>2, <2>4, SendKeeps
<1>4. ASSUME NEW c \in Calls, NEW id \in RunIds, SendOwners(c, id)
      PROVE  IInv'
  <2> DEFINE row == items[id]
  <2>1. row # Nil /\ Active(row) /\ ItemOK(row)
    BY <1>4 DEF SendOwners, IInv
  <2>2. /\ row.owner \in Workers /\ row.expires \in Nat
        /\ Read(row).attempt \in Nat /\ Read(row).state = row.state
        /\ Read(row).expires = row.expires
    BY <2>1, ReadOK DEF ItemOK
  <2>3. \A p \in Table!PhaseOrder : p = <<p[1], p[2]>>
    BY DEF Table!PhaseOrder
  <2>4. ASSUME NEW p \in Table!PhaseOrder, p[1] = row.state,
               Send(c, "phase", id, row.owner, Read(row), p[2])
        PROVE  IInv'
    <3>1. CallOK([ op |-> "phase", run |-> id, by |-> row.owner, seen |-> Read(row),
                   arg |-> p[2], effects |-> 0, answer |-> Nil ])
      BY <2>2, <2>3, <2>4 DEF CallOK
    <3> QED
      BY <2>1, <2>4, <3>1, SendKeeps
  <2>5. \/ \E x \in Commits : Send(c, "pin", id, row.owner, Read(row), x)
        \/ Send(c, "renew", id, row.owner, Read(row), row.expires + RenewTicks)
        \/ \E p \in Table!PhaseOrder :
             p[1] = row.state /\ Send(c, "phase", id, row.owner, Read(row), p[2])
        \/ \E m \in Manifests : Send(c, "complete", id, row.owner, Read(row), m)
        \/ Send(c, "fail", id, row.owner, Read(row), Nil)
    BY <1>4 DEF SendOwners
  <2>6. ASSUME NEW x \in Commits, Send(c, "pin", id, row.owner, Read(row), x)
        PROVE  IInv'
    <3>1. CallOK([ op |-> "pin", run |-> id, by |-> row.owner, seen |-> Read(row),
                   arg |-> x, effects |-> 0, answer |-> Nil ])
      BY <2>2 DEF CallOK
    <3> QED
      BY <2>1, <2>6, <3>1, SendKeeps
  <2>7. ASSUME Send(c, "renew", id, row.owner, Read(row), row.expires + RenewTicks)
        PROVE  IInv'
    <3>1. CallOK([ op |-> "renew", run |-> id, by |-> row.owner, seen |-> Read(row),
                   arg |-> row.expires + RenewTicks, effects |-> 0, answer |-> Nil ])
      BY <2>2 DEF CallOK
    <3> QED
      BY <2>1, <2>7, <3>1, SendKeeps
  <2>8. ASSUME NEW m \in Manifests, Send(c, "complete", id, row.owner, Read(row), m)
        PROVE  IInv'
    <3>1. CallOK([ op |-> "complete", run |-> id, by |-> row.owner, seen |-> Read(row),
                   arg |-> m, effects |-> 0, answer |-> Nil ])
      BY <2>2 DEF CallOK
    <3> QED
      BY <2>1, <2>8, <3>1, SendKeeps
  <2>9. ASSUME Send(c, "fail", id, row.owner, Read(row), Nil)
        PROVE  IInv'
    <3>1. CallOK([ op |-> "fail", run |-> id, by |-> row.owner, seen |-> Read(row),
                   arg |-> Nil, effects |-> 0, answer |-> Nil ])
      BY <2>2 DEF CallOK
    <3> QED
      BY <2>1, <2>9, <3>1, SendKeeps
  <2> QED
    BY <2>4, <2>5, <2>6, <2>7, <2>8, <2>9
<1>5. ASSUME NEW c \in Calls, Deliver(c)
      PROVE  IInv'
  BY <1>5, DeliverKeeps
<1>6. ASSUME NEW c \in Calls, Forget(c)
      PROVE  IInv'
  <2>1. /\ call' = [call EXCEPT ![c] = Nil] /\ UNCHANGED <<items, index, grants, completions>>
        /\ call = [d \in Calls |-> call[d]]
    BY <1>6 DEF Forget, IInv
  <2>2. \A d \in Calls : CallInv(d)'
    BY <2>1 DEF IInv, CallInv
  <2> QED
    BY <2>1, <2>2 DEF IInv
<1>7. ASSUME NEW id \in RunIds, Propagate(id)
      PROVE  IInv'
  <2>1. /\ index' = [index EXCEPT ![id] = items[id]]
        /\ UNCHANGED <<items, call, grants, completions>>
    BY <1>7 DEF Propagate
  <2>2. \A d \in Calls : CallInv(d)'
    BY <2>1 DEF IInv, CallInv
  <2> QED
    BY <2>1, <2>2 DEF IInv
<1>8. CASE UNCHANGED vars
  BY <1>8 DEF vars, IInv, CallInv
<1> QED
  BY <1>1, <1>2, <1>3, <1>4, <1>5, <1>6, <1>7, <1>8 DEF Next

(* The inductive invariant holds in every reachable state of the table. *)
LEMMA Invariance == Spec => []IInv
<1> QED
  BY InitEstablishes, NextKeeps, PTL DEF Spec

(* However often a request is delivered and however late, the table stays
   typed and the call takes effect once at most (dynamo.go, updateConditional
   under the SDK's retries). *)
THEOREM CallsTakeEffectOnce == Spec => [](TypeOK /\ EffectOnce)
<1>1. ASSUME IInv, NEW c \in Calls, call[c] # Nil
      PROVE  /\ call[c].op \in
                  {"create", "claim", "pin", "renew", "reclaim", "phase", "complete", "fail"}
             /\ call[c].run \in RunIds
             /\ call[c].op # "create" => call[c].by \in Workers /\ call[c].seen.attempt \in Nat
             /\ call[c].effects \in Nat /\ call[c].effects <= 1
             /\ call[c].answer \in {Nil, "done", "conditional"}
  <2>1. CallOK(call[c])
    BY <1>1, CallFacts
  <2> QED
    BY <2>1 DEF CallOK
<1>2. IInv => TypeOK
  <2> SUFFICES ASSUME IInv
               PROVE  TypeOK
    OBVIOUS
  <2>1. /\ items \in [RunIds -> Run \cup {Nil}]
        /\ index \in [RunIds -> Run \cup {Nil}]
        /\ grants \subseteq [run : RunIds, attempt : Nat, worker : Workers]
        /\ completions \subseteq
             [run : RunIds, attempt : Nat, worker : Workers, manifest : Manifests]
    BY DEF IInv
  <2> QED
    BY <1>1, <2>1 DEF TypeOK
<1>3. IInv => EffectOnce
  BY <1>1 DEF EffectOnce
<1> QED
  BY <1>2, <1>3, Invariance, PTL

-----------------------------------------------------------------------------
(* What the items show when they are read. *)

(* An item reads as itself while it is active, and never as no row. *)
LEMMA DecodeOK ==
  ASSUME NEW item, ItemOK(item)
  PROVE  /\ Decode(item) \in Run /\ Decode(item) # Nil
         /\ Decode(item).state = item.state /\ Decode(item).attempt = item.attempt
         /\ Active(item) => Decode(item) = item
<1>1. item \in Run
  BY DEF ItemOK
<1>2. Decode(item) \in Run
  BY <1>1 DEF Decode, Run
<1> QED
  BY <1>1, <1>2 DEF Decode, Run

(* A write to an item is a write to what is shown of it. *)
LEMMA ViewWritten ==
  ASSUME IInv, NEW id \in RunIds, NEW STATE new, ItemOK(new),
         items' = [items EXCEPT ![id] = new]
  PROVE  View' = [View EXCEPT ![id] = Decode(new)]
<1>1. new # Nil
  BY DEF ItemOK
<1>2. items' = [i \in RunIds |-> IF i = id THEN new ELSE items[i]]
  BY DEF IInv
<1>3. \A i \in RunIds : View'[i] = IF i = id THEN Decode(new) ELSE View[i]
  BY <1>1, <1>2 DEF View, Decoded
<1> QED
  BY <1>3 DEF View

(* The run is in the table when its item is, as it reads. *)
LEMMA Shown ==
  ASSUME IInv, NEW id \in RunIds
  PROVE  /\ Table!Exists(id) <=> items[id] # Nil
         /\ items[id] # Nil => View[id] = Decode(items[id])
BY DecodeOK DEF IInv, Table!Exists, View, Decoded

(* A request without effect shows nothing. *)
LEMMA Shows ==
  ASSUME NEW c \in Calls, NEW STATE can, NEW STATE new, NEW STATE granted,
         NEW STATE completed, Update(c, can, new, granted, completed),
         <<View, grants, completions>>' # <<View, grants, completions>>
  PROVE  /\ can /\ items' = [items EXCEPT ![call[c].run] = new]
         /\ grants' = grants \cup granted /\ completions' = completions \cup completed
<1>1. UNCHANGED items => UNCHANGED View
  BY DEF View, Decoded
<1> QED
  BY <1>1 DEF Update

(* The statement that a request in the table's hands does. *)
LEMMA DeliverIsStatement ==
  ASSUME IInv, NEW c \in Calls, Deliver(c),
         <<View, grants, completions>>' # <<View, grants, completions>>
  PROVE  call[c] # Nil /\ Statement(c)
<1> DEFINE r == call[c]
           item == items[r.run]
<1>1. r # Nil
  BY DEF Deliver, Delivered, CreateRun, ClaimRun, PinSourceIfAbsent, RenewLease,
         ReclaimExpiredRun, UpdatePhase, CompleteRun, FailRun
<1>2. /\ CallOK(r) /\ r.run \in RunIds
      /\ r.op # "create" => item # Nil /\ ItemOK(item)
  BY <1>1, CallFacts
<1>3. /\ r.op # "create" => Table!Exists(r.run) /\ View[r.run] = Decode(item)
      /\ r.op # "create" /\ Active(item) => View[r.run] = item
  BY <1>2, Shown, DecodeOK
<1>4. CASE CreateRun(c)
  <2>1. r.op = "create" /\ r.arg \in Nat
    BY <1>2, <1>4 DEF CreateRun, Delivered, CallOK
  <2> DEFINE free == item = Nil
  <2>2. Update(c, free, NewItem(r.arg), {}, {})
    BY <1>4 DEF CreateRun
  <2> HIDE DEF free
  <2>3. /\ free /\ items' = [items EXCEPT ![r.run] = NewItem(r.arg)]
        /\ grants' = grants \cup {} /\ completions' = completions \cup {}
    BY <2>2, Shows
  <2>4. View' = [View EXCEPT ![r.run] = NewRun]
    BY <1>2, <2>1, <2>3, NewItemOK, ViewWritten
  <2>5. ~Table!Exists(r.run)
    BY <1>2, <2>3, Shown DEF free
  <2>6. Table!CreateRun(r.run)
    BY <2>3, <2>4, <2>5 DEF Table!CreateRun, Table!NewRun, NewRun
  <2> QED
    BY <1>1, <2>1, <2>6 DEF Statement
<1>5. CASE ClaimRun(c)
  <2> DEFINE new == Claimed(item, r.by, r.arg)
  <2>1. r.op = "claim"
    BY <1>5 DEF ClaimRun, Delivered
  <2>2. /\ CanClaim(item) /\ items' = [items EXCEPT ![r.run] = new]
        /\ grants' = grants \cup {Table!Grant(r.run, 1, r.by)}
        /\ completions' = completions \cup {}
    BY <1>5, Shows DEF ClaimRun
  <2>3. ItemOK(new)
    BY <1>2, <2>1, <2>2, ClaimEffect DEF Effective
  <2>4. View' = [View EXCEPT ![r.run] = Decode(new)]
    BY <1>2, <2>2, <2>3, ViewWritten
  <2>5. Table!CanClaim(View[r.run])
    BY <1>2, <1>3, <2>1, <2>2, DecodeOK DEF CanClaim, Table!CanClaim
  <2>6. Decode(new) = Table!Claimed(View[r.run], r.by, r.arg)
    <3>1. item \in Run /\ new \in Run /\ Active(new) /\ View[r.run] = Decode(item)
      BY <1>2, <1>3, <2>1, <2>3, StatesDisjoint DEF ItemOK, Active, Claimed, Leased, Run
    <3>2. Decode(new) = new
      BY <2>3, <3>1, DecodeOK
    <3> QED
      BY <3>1, <3>2 DEF Decode, Run, Claimed, Leased, Table!Claimed, Table!Leased
  <2>7. Table!ClaimRun(r.run, r.by, r.arg)
    BY <1>3, <2>1, <2>2, <2>4, <2>5, <2>6
       DEF Table!ClaimRun, Table!CanClaim
  <2> QED
    BY <1>1, <2>1, <2>7 DEF Statement
<1>6. CASE PinSourceIfAbsent(c)
  <2> DEFINE new == Pinned(item, r.arg)
  <2>1. r.op = "pin"
    BY <1>6 DEF PinSourceIfAbsent, Delivered
  <2>2. /\ CanPin(item, r.seen.attempt, r.by)
        /\ items' = [items EXCEPT ![r.run] = new]
        /\ grants' = grants \cup {}
        /\ completions' = completions \cup {}
    BY <1>6, Shows DEF PinSourceIfAbsent
  <2>3. ItemOK(new)
    BY <1>2, <2>1, <2>2, PinEffect DEF Effective
  <2>4. View' = [View EXCEPT ![r.run] = Decode(new)]
    BY <1>2, <2>2, <2>3, ViewWritten
  <2>5. View[r.run] = item /\ Table!CanPin(item, r.seen.attempt, r.by)
    <3>1. Active(item)
      BY <2>2, StatesDisjoint DEF CanPin, Active
    <3> QED
      BY <1>3, <2>1, <2>2, <3>1
         DEF CanPin, HeldBy, Table!CanPin, Table!HeldBy
  <2>6. Decode(new) = Table!Pinned(item, r.arg)
    <3>1. Decode(new) = new
      <4>1. Active(new)
        BY <1>2, <2>1, <2>2, StatesDisjoint DEF ItemOK, Run, CanPin, Pinned, Active
      <4> QED
        BY <2>3, <4>1, DecodeOK
    <3> QED
      BY <3>1 DEF Pinned, Table!Pinned
  <2>7. Table!PinSourceIfAbsent(r.run, r.seen.attempt, r.by, r.arg)
    BY <1>3, <2>1, <2>2, <2>4, <2>5, <2>6
       DEF Table!PinSourceIfAbsent, Table!CanPin
  <2> QED
    BY <1>1, <2>1, <2>7 DEF Statement
<1>7. CASE RenewLease(c)
  <2> DEFINE new == Renewed(item, r.arg)
  <2>1. r.op = "renew"
    BY <1>7 DEF RenewLease, Delivered
  <2>2. /\ CanRenew(item, r.seen.attempt, r.by, r.seen.expires)
        /\ items' = [items EXCEPT ![r.run] = new]
        /\ grants' = grants \cup {}
        /\ completions' = completions \cup {}
    BY <1>7, Shows DEF RenewLease
  <2>3. ItemOK(new)
    BY <1>2, <2>1, <2>2, RenewEffect DEF Effective
  <2>4. View' = [View EXCEPT ![r.run] = Decode(new)]
    BY <1>2, <2>2, <2>3, ViewWritten
  <2>5. View[r.run] = item /\ Table!CanRenew(item, r.seen.attempt, r.by, r.seen.expires)
    <3>1. Active(item)
      BY <2>2 DEF CanRenew
    <3> QED
      BY <1>3, <2>1, <2>2, <3>1
         DEF CanRenew, HeldBy, Table!CanRenew, Table!HeldBy, Active,
             Table!Active, ActiveStates, Table!ActiveStates
  <2>6. Decode(new) = Table!Renewed(item, r.arg)
    <3>1. Decode(new) = new
      <4>1. Active(new)
        BY <1>2, <2>1, <2>2, StatesDisjoint DEF ItemOK, Run, CanRenew, Renewed, Active
      <4> QED
        BY <2>3, <4>1, DecodeOK
    <3> QED
      BY <3>1 DEF Renewed, Table!Renewed
  <2>7. Table!RenewLease(r.run, r.seen.attempt, r.by, r.seen.expires, r.arg)
    BY <1>3, <2>1, <2>2, <2>4, <2>5, <2>6
       DEF Table!RenewLease, Table!CanRenew
  <2> QED
    BY <1>1, <2>1, <2>7 DEF Statement
<1>8. CASE ReclaimExpiredRun(c)
  <2> DEFINE new == Reclaimed(item, r.seen, r.by, r.arg)
  <2>1. r.op = "reclaim"
    BY <1>8 DEF ReclaimExpiredRun, Delivered
  <2>2. /\ CanReclaim(item, r.seen, r.arg) /\ items' = [items EXCEPT ![r.run] = new]
        /\ grants' = grants \cup {Table!Grant(r.run, r.seen.attempt + 1, r.by)}
        /\ completions' = completions \cup {}
    BY <1>8, Shows DEF ReclaimExpiredRun
  <2>3. ItemOK(new)
    BY <1>2, <2>1, <2>2, ReclaimEffect DEF Effective
  <2>4. View' = [View EXCEPT ![r.run] = Decode(new)]
    BY <1>2, <2>2, <2>3, ViewWritten
  <2>5. View[r.run] = item /\ Table!CanReclaim(item, r.seen, r.arg)
    <3>1. Active(item)
      BY <1>2, <2>1, <2>2
         DEF CallOK, CanReclaim, Active, Table!Seen, Table!ActiveStates, ActiveStates
    <3> QED
      BY <1>3, <2>1, <2>2, <3>1
         DEF CanReclaim, HeldBy, Table!CanReclaim, Table!HeldBy, TextLeq, Table!TextLeq,
             WholeSeconds, Table!WholeSeconds, Fraction, Table!Fraction,
             FractionTextBefore, Table!FractionTextBefore, WrittenPrefix,
             Table!WrittenPrefix
  <2>6. Decode(new) = Table!Reclaimed(item, r.seen, r.by, r.arg)
    <3>1. Decode(new) = new
      <4>1. Active(new)
        BY <1>2, <2>1, <2>2, StatesDisjoint DEF ItemOK, Run, Reclaimed, Leased, Active
      <4> QED
        BY <2>3, <4>1, DecodeOK
    <3> QED
      BY <3>1 DEF Reclaimed, Table!Reclaimed, Leased, Table!Leased
  <2>7. Table!ReclaimExpiredRun(r.run, r.seen, r.by, r.arg)
    BY <1>3, <2>1, <2>2, <2>4, <2>5, <2>6
       DEF Table!ReclaimExpiredRun, Table!CanReclaim
  <2> QED
    BY <1>1, <2>1, <2>7 DEF Statement
<1>9. CASE UpdatePhase(c)
  <2> DEFINE new == PhaseUpdated(item, r.arg)
  <2>1. r.op = "phase"
    BY <1>9 DEF UpdatePhase, Delivered
  <2>2. /\ CanUpdatePhase(item, r.seen.attempt, r.by, r.seen.state)
        /\ items' = [items EXCEPT ![r.run] = new]
        /\ grants' = grants \cup {}
        /\ completions' = completions \cup {}
    BY <1>9, Shows DEF UpdatePhase
  <2>3. ItemOK(new)
    BY <1>2, <2>1, <2>2, PhaseEffect DEF Effective
  <2>4. View' = [View EXCEPT ![r.run] = Decode(new)]
    BY <1>2, <2>2, <2>3, ViewWritten
  <2>5. View[r.run] = item /\ Table!CanUpdatePhase(item, r.seen.attempt, r.by, r.seen.state)
    <3>1. Active(item)
      BY <1>2, <2>1, <2>2, PhaseEffect DEF CanUpdatePhase, Active
    <3> QED
      BY <1>3, <2>1, <2>2, <3>1
         DEF CanUpdatePhase, HeldBy, Table!CanUpdatePhase, Table!HeldBy
  <2>6. Decode(new) = Table!PhaseUpdated(item, r.arg)
    <3>1. Decode(new) = new
      <4>1. Active(new)
        BY <1>2, <2>1, <2>2, PhaseEffect DEF ItemOK, Run, PhaseUpdated, Active
      <4> QED
        BY <2>3, <4>1, DecodeOK
    <3> QED
      BY <3>1 DEF PhaseUpdated, Table!PhaseUpdated
  <2>7. Table!UpdatePhase(r.run, r.seen.attempt, r.by, r.seen.state, r.arg)
    BY <1>3, <2>1, <2>2, <2>4, <2>5, <2>6
       DEF Table!UpdatePhase, Table!CanUpdatePhase
  <2> QED
    BY <1>1, <2>1, <2>7 DEF Statement
<1>10. CASE CompleteRun(c)
  <2> DEFINE new == Completed(item, r.seen.attempt, r.arg)
  <2>1. r.op = "complete"
    BY <1>10 DEF CompleteRun, Delivered
  <2>2. /\ CanComplete(item, r.seen.attempt, r.by)
        /\ items' = [items EXCEPT ![r.run] = new]
        /\ grants' = grants \cup {}
        /\ completions' = completions \cup {[run |-> r.run, attempt |-> r.seen.attempt,
                                           worker |-> r.by, manifest |-> r.arg]}
    BY <1>10, Shows DEF CompleteRun
  <2>3. ItemOK(new)
    BY <1>2, <2>1, <2>2, CompleteEffect DEF Effective
  <2>4. View' = [View EXCEPT ![r.run] = Decode(new)]
    BY <1>2, <2>2, <2>3, ViewWritten
  <2>5. View[r.run] = item /\ Table!CanComplete(item, r.seen.attempt, r.by)
    <3>1. Active(item)
      BY <2>2, StatesDisjoint DEF CanComplete, Active
    <3> QED
      BY <1>3, <2>1, <2>2, <3>1
         DEF CanComplete, HeldBy, Table!CanComplete, Table!HeldBy
  <2>6. Decode(new) = Table!Completed(item, r.seen.attempt, r.arg)
    <3>1. Decode(new) = new
      BY <1>2, <2>1 DEF ItemOK, Run, Completed, Decode
    <3> QED
      BY <3>1 DEF Completed, Table!Completed
  <2>7. Table!CompleteRun(r.run, r.seen.attempt, r.by, r.arg)
    BY <1>3, <2>1, <2>2, <2>4, <2>5, <2>6
       DEF Table!CompleteRun, Table!CanComplete
  <2> QED
    BY <1>1, <2>1, <2>7 DEF Statement
<1>11. CASE FailRun(c)
  <2> DEFINE new == Failed(item)
  <2>1. r.op = "fail"
    BY <1>11 DEF FailRun, Delivered
  <2>2. /\ CanFail(item, r.seen.attempt, r.by)
        /\ items' = [items EXCEPT ![r.run] = new]
        /\ grants' = grants \cup {}
        /\ completions' = completions \cup {}
    BY <1>11, Shows DEF FailRun
  <2>3. ItemOK(new)
    BY <1>2, <2>1, <2>2, FailEffect DEF Effective
  <2>4. View' = [View EXCEPT ![r.run] = Decode(new)]
    BY <1>2, <2>2, <2>3, ViewWritten
  <2>5. View[r.run] = item /\ Table!CanFail(item, r.seen.attempt, r.by)
    <3>1. Active(item)
      BY <2>2 DEF CanFail
    <3> QED
      BY <1>3, <2>1, <2>2, <3>1
         DEF CanFail, HeldBy, Table!CanFail, Table!HeldBy, Active,
             Table!Active, ActiveStates, Table!ActiveStates
  <2>6. Decode(new) = Table!Failed(item)
    <3>1. Decode(new) = new
      BY <1>2, <2>1 DEF ItemOK, Run, Failed, Decode
    <3> QED
      BY <3>1 DEF Failed, Table!Failed
  <2>7. Table!FailRun(r.run, r.seen.attempt, r.by)
    BY <1>3, <2>1, <2>2, <2>4, <2>5, <2>6
       DEF Table!FailRun, Table!CanFail
  <2> QED
    BY <1>1, <2>1, <2>7 DEF Statement
<1> QED
  BY <1>4, <1>5, <1>6, <1>7, <1>8, <1>9, <1>10, <1>11 DEF Deliver

(* A call in progress asks for a statement that the callers of RunRepository
   can make. *)
LEMMA StatementIsStep ==
  ASSUME IInv, NEW c \in Calls, call[c] # Nil, Statement(c)
  PROVE  Table!Next
<1> DEFINE r == call[c]
<1>1. CallOK(r) /\ r.run \in RunIds
  BY CallFacts
<1>2. r.op # "create" => r.by \in Workers /\ r.seen.attempt \in Nat
  BY <1>1 DEF CallOK
<1>3. CASE r.op = "create"
  BY <1>1, <1>3 DEF Statement, Table!Next
<1>4. CASE r.op = "claim"
  <2>1. r.arg \in Nat /\ Table!ClaimRun(r.run, r.by, r.arg)
    BY <1>1, <1>4 DEF CallOK, Statement
  <2> QED
    BY <1>1, <1>2, <1>4, <2>1 DEF Table!Next
<1>5. CASE r.op = "pin"
  <2>1. r.arg \in Commits /\ Table!PinSourceIfAbsent(r.run, r.seen.attempt, r.by, r.arg)
    BY <1>1, <1>5 DEF CallOK, Statement
  <2> QED
    BY <1>1, <1>2, <1>5, <2>1 DEF Table!Next
<1>6. CASE r.op = "renew"
  <2>1. /\ r.seen.expires \in Nat /\ r.arg \in Nat
        /\ Table!RenewLease(r.run, r.seen.attempt, r.by, r.seen.expires, r.arg)
    BY <1>1, <1>6 DEF CallOK, Statement
  <2> QED
    BY <1>1, <1>2, <1>6, <2>1 DEF Table!Next
<1>7. CASE r.op = "reclaim"
  <2>1. /\ r.arg \in Nat /\ r.seen \in Table!Seen
        /\ Table!ReclaimExpiredRun(r.run, r.seen, r.by, r.arg)
    BY <1>1, <1>7 DEF CallOK, Statement
  <2> QED
    BY <1>1, <1>2, <1>7, <2>1 DEF Table!Next
<1>8. CASE r.op = "phase"
  <2>1. /\ <<r.seen.state, r.arg>> \in Table!PhaseOrder
        /\ Table!UpdatePhase(r.run, r.seen.attempt, r.by, r.seen.state, r.arg)
    BY <1>1, <1>8 DEF CallOK, Statement
  <2>2. \E p \in Table!PhaseOrder :
          Table!UpdatePhase(r.run, r.seen.attempt, r.by, p[1], p[2])
    BY <2>1
  <2> QED
    BY <1>1, <1>2, <1>8, <2>2 DEF Table!Next
<1>9. CASE r.op = "complete"
  <2>1. r.arg \in Manifests /\ Table!CompleteRun(r.run, r.seen.attempt, r.by, r.arg)
    BY <1>1, <1>9 DEF CallOK, Statement
  <2> QED
    BY <1>1, <1>2, <1>9, <2>1 DEF Table!Next
<1>10. CASE r.op = "fail"
  <2>1. Table!FailRun(r.run, r.seen.attempt, r.by)
    BY <1>10 DEF Statement
  <2> QED
    BY <1>1, <1>2, <1>10, <2>1 DEF Table!Next
<1> QED
  BY <1>1, <1>3, <1>4, <1>5, <1>6, <1>7, <1>8, <1>9, <1>10 DEF CallOK

(* What a step shows is the statement of a call in progress. *)
LEMMA StepIsStatement ==
  ASSUME IInv, [Next]_vars, <<View, grants, completions>>' # <<View, grants, completions>>
  PROVE  \E c \in Calls : call[c] # Nil /\ Statement(c)
<1>1. UNCHANGED items => UNCHANGED View
  BY DEF View, Decoded
<1>2. PICK c \in Calls : Deliver(c)
  BY <1>1 DEF Next, vars, SendCreate, SendClaim, SendReclaim, SendOwners, Send, Forget,
              Propagate
<1> QED
  BY <1>2, DeliverIsStatement

(* Retries, late requests and candidates from an index that lags behind never
   do anything but the statements that calls in progress ask for (dynamo.go,
   every operation that goes through updateConditional or PutItem). *)
THEOREM EveryWriteIsAStatement == Spec => WritesAreStatements
<1>1. IInv /\ [Next]_vars =>
        [<<View, grants, completions>>' # <<View, grants, completions>> =>
           \E c \in Calls : call[c] # Nil /\ Statement(c)]_vars
  BY StepIsStatement
<1> QED
  BY <1>1, Invariance, PTL DEF Spec, WritesAreStatements

(* The DynamoDB table implements the table of RunRepository, so all that is
   proved of that table holds of the items as they read. *)
THEOREM DynamoImplementsRepository == Spec => ImplementsRunRepository
<1>1. Init => Table!Init
  BY DEF Init, Table!Init, View, Decoded
<1>2. IInv /\ [Next]_vars => [Table!Next]_(Table!vars)
  BY StepIsStatement, StatementIsStep DEF Table!vars
<1> QED
  BY <1>1, <1>2, Invariance, PTL DEF Spec, ImplementsRunRepository, Table!Spec

=============================================================================
