------------------------- MODULE RunRepositoryProofs -------------------------
(***************************************************************************)
(* The repository's promises, for every number of runs, workers and        *)
(* attempts and for callers with any arguments and any clocks.             *)
(***************************************************************************)
EXTENDS RunRepository, RunRecordProofs

USE LeaseTimeAssumption, RunRecordAssumption, RunRepositoryAssumption, NilIsNoRow

(* Of the inductive invariant the repository's properties rest on, the part
   about one row: what the state column says about the other columns. *)
RowConsistent(run) ==
  /\ Active(run) <=> run.owner # Nil
  /\ Active(run) <=> run.expires # Nil
  /\ run.state = "QUEUED" => run.attempt = 0

(* The inductive invariant.  A grant names an attempt the row has reached,
   which is what makes the next reclaim's grant a new one; a queued row has
   reached none, which makes the first claim's grant a new one. *)
IInv ==
  /\ TypeOK
  /\ \A id \in RunIds : Exists(id) => RowConsistent(runs[id])
  /\ \A g \in grants : Exists(g.run) /\ 1 <= g.attempt /\ g.attempt <= runs[g.run].attempt
  /\ \A id \in RunIds : Exists(id) /\ Active(runs[id]) =>
       Grant(id, runs[id].attempt, runs[id].owner) \in grants
  /\ OneGrantPerAttempt
  /\ OneWinner

(* A table nobody has worked on satisfies the inductive invariant. *)
LEMMA InitEstablishes == Init => IInv
<1> SUFFICES ASSUME Init
             PROVE  IInv
  OBVIOUS
<1>1. NewRun \in Run /\ RowConsistent(NewRun)
  BY NewRunType, StatesDisjoint DEF NewRun, RowConsistent, Active
<1>2. \A id \in RunIds : Exists(id) => runs[id] = NewRun
  BY DEF Init, Exists
<1>3. \A id \in RunIds : Exists(id) => ~Active(runs[id])
  BY <1>2, StatesDisjoint DEF NewRun, Active
<1> QED
  BY <1>1, <1>2, <1>3 DEF Init, IInv, TypeOK, OneGrantPerAttempt, OneWinner

(* Phases are changed between active states. *)
LEMMA PhasesActive == \A p \in PhaseOrder : p[1] \in ActiveStates /\ p[2] \in ActiveStates
BY DEF ActiveStates, PhaseOrder

(* Replacing one row. *)
LEMMA ReplaceRow ==
  ASSUME TypeOK, NEW id \in RunIds, NEW new \in Run, runs' = [runs EXCEPT ![id] = new]
  PROVE  /\ runs' \in [RunIds -> Run \cup {Nil}]
         /\ runs'[id] = new
         /\ \A other \in RunIds : other # id => runs'[other] = runs[other]
BY DEF TypeOK

(* A statement that leaves the attempt where it was and the row with its
   owner or with none, of a run that is not completed, keeps the invariant:
   pin, renewal, phase update and failure. *)
LEMMA AttemptKept ==
  ASSUME IInv, NEW id \in RunIds, Exists(id), runs[id].state # "COMPLETED",
         NEW new \in Run, runs' = [runs EXCEPT ![id] = new],
         RowConsistent(new), new.attempt = runs[id].attempt,
         Active(new) => Active(runs[id]) /\ new.owner = runs[id].owner,
         UNCHANGED <<grants, completions>>
  PROVE  IInv'
<1>1. /\ runs' \in [RunIds -> Run \cup {Nil}] /\ runs'[id] = new
      /\ \A other \in RunIds : other # id => runs'[other] = runs[other]
  BY ReplaceRow DEF IInv
<1>2. TypeOK'
  BY <1>1 DEF IInv, TypeOK
<1>3. \A r \in RunIds : Exists(r)' = Exists(r)
  BY <1>1 DEF Exists
<1>4. (\A r \in RunIds : Exists(r) => RowConsistent(runs[r]))'
  BY <1>1, <1>3 DEF IInv, Exists
<1>5. (\A g \in grants : Exists(g.run) /\ 1 <= g.attempt /\ g.attempt <= runs[g.run].attempt)'
  <2> SUFFICES ASSUME NEW g \in grants
               PROVE  /\ Exists(g.run)' /\ 1 <= g.attempt
                      /\ g.attempt <= runs'[g.run].attempt
    OBVIOUS
  <2>1. g.run \in RunIds
    BY DEF IInv, TypeOK
  <2>2. CASE g.run = id
    BY <1>1, <1>3, <2>1, <2>2 DEF IInv
  <2>3. CASE g.run # id
    BY <1>1, <1>3, <2>1, <2>3 DEF IInv
  <2> QED
    BY <2>2, <2>3
<1>6. (\A r \in RunIds : Exists(r) /\ Active(runs[r]) =>
         Grant(r, runs[r].attempt, runs[r].owner) \in grants)'
  <2> SUFFICES ASSUME NEW r \in RunIds, Exists(r), Active(runs'[r])
               PROVE  Grant(r, runs'[r].attempt, runs'[r].owner) \in grants
    BY <1>3 DEF Active, Grant
  <2>1. CASE r = id
    BY <1>1, <2>1 DEF IInv
  <2>2. CASE r # id
    BY <1>1, <2>2 DEF IInv
  <2> QED
    BY <2>1, <2>2
<1>7. OneGrantPerAttempt'
  BY DEF IInv, OneGrantPerAttempt
<1>8. OneWinner'
  <2> SUFFICES ASSUME NEW c \in completions
               PROVE  c.run # id /\ c.run \in RunIds
    BY <1>1 DEF IInv, OneWinner, Grant
  <2> QED
    BY DEF IInv, OneWinner, TypeOK
<1> QED
  BY <1>2, <1>4, <1>5, <1>6, <1>7, <1>8 DEF IInv

(* Claim and reclaim: the attempt grows by one, so the new grant is of an
   attempt that no earlier grant has. *)
LEMMA AttemptGranted ==
  ASSUME IInv, NEW id \in RunIds, Exists(id), ~Terminal(runs[id]), NEW w \in Workers,
         NEW new \in Run, runs' = [runs EXCEPT ![id] = new],
         RowConsistent(new), new.attempt = runs[id].attempt + 1, new.owner = w,
         grants' = grants \cup {Grant(id, new.attempt, w)},
         UNCHANGED completions
  PROVE  IInv'
<1>1. /\ runs' \in [RunIds -> Run \cup {Nil}] /\ runs'[id] = new
      /\ \A other \in RunIds : other # id => runs'[other] = runs[other]
  BY ReplaceRow DEF IInv
<1>2. runs[id].attempt \in Nat /\ new.attempt \in Nat /\ 1 <= new.attempt
  BY DEF IInv, TypeOK, Run, Exists
<1>3. TypeOK'
  BY <1>1, <1>2 DEF IInv, TypeOK, Grant
<1>4. \A r \in RunIds : Exists(r)' = Exists(r)
  BY <1>1 DEF Exists
<1>5. (\A r \in RunIds : Exists(r) => RowConsistent(runs[r]))'
  BY <1>1, <1>4 DEF IInv, Exists
<1>6. \A g \in grants : g.run \in RunIds /\ g.attempt \in Nat
  BY DEF IInv, TypeOK
<1>7. \A g \in grants : g.run = id => g.attempt < new.attempt
  <2> SUFFICES ASSUME NEW g \in grants, g.run = id
               PROVE  g.attempt < new.attempt
    OBVIOUS
  <2>1. g.attempt <= runs[id].attempt
    BY DEF IInv
  <2> QED
    BY <2>1, <1>2, <1>6
<1>8. (\A g \in grants : Exists(g.run) /\ 1 <= g.attempt /\ g.attempt <= runs[g.run].attempt)'
  <2> SUFFICES ASSUME NEW g \in grants'
               PROVE  /\ Exists(g.run)' /\ 1 <= g.attempt
                      /\ g.attempt <= runs'[g.run].attempt
    OBVIOUS
  <2>1. CASE g = Grant(id, new.attempt, w)
    BY <1>1, <1>2, <1>4, <2>1 DEF Grant
  <2>2. CASE g \in grants /\ g.run = id
    BY <1>1, <1>2, <1>4, <1>6, <1>7, <2>2 DEF IInv
  <2>3. CASE g \in grants /\ g.run # id
    BY <1>1, <1>4, <1>6, <2>3 DEF IInv
  <2> QED
    BY <2>1, <2>2, <2>3
<1>9. (\A r \in RunIds : Exists(r) /\ Active(runs[r]) =>
         Grant(r, runs[r].attempt, runs[r].owner) \in grants)'
  <2> SUFFICES ASSUME NEW r \in RunIds, Exists(r), Active(runs'[r])
               PROVE  Grant(r, runs'[r].attempt, runs'[r].owner) \in grants'
    BY <1>4 DEF Active, Grant
  <2>1. CASE r = id
    BY <1>1, <2>1
  <2>2. CASE r # id
    BY <1>1, <2>2 DEF IInv
  <2> QED
    BY <2>1, <2>2
<1>10. OneGrantPerAttempt'
  <2> SUFFICES ASSUME NEW g \in grants', NEW h \in grants', g.run = h.run,
                      g.attempt = h.attempt
               PROVE  g = h
    BY DEF OneGrantPerAttempt
  <2>1. CASE g \in grants /\ h \in grants
    BY <2>1 DEF IInv, OneGrantPerAttempt
  <2>2. CASE g = Grant(id, new.attempt, w) /\ h \in grants
    BY <1>2, <1>6, <1>7, <2>2 DEF Grant
  <2>3. CASE h = Grant(id, new.attempt, w) /\ g \in grants
    BY <1>2, <1>6, <1>7, <2>3 DEF Grant
  <2> QED
    BY <2>1, <2>2, <2>3
<1>11. OneWinner'
  <2>1. \A c \in completions : c.run # id /\ c.run \in RunIds
    BY DEF IInv, OneWinner, TypeOK, Terminal, TerminalStates
  <2> QED
    BY <1>1, <2>1 DEF IInv, OneWinner, Grant
<1> QED
  BY <1>3, <1>5, <1>8, <1>9, <1>10, <1>11 DEF IInv

(* A created run has been granted to nobody. *)
LEMMA CreateKeeps ==
  ASSUME IInv, NEW id \in RunIds, CreateRun(id)
  PROVE  IInv'
<1>1. /\ runs' \in [RunIds -> Run \cup {Nil}] /\ runs'[id] = NewRun
      /\ \A other \in RunIds : other # id => runs'[other] = runs[other]
  BY NewRunType, ReplaceRow DEF IInv, CreateRun
<1>2. \A g \in grants : g.run # id /\ g.run \in RunIds
  BY DEF IInv, CreateRun, TypeOK
<1>3. \A c \in completions : c.run # id /\ c.run \in RunIds
  BY <1>2 DEF IInv, OneWinner, Grant, TypeOK
<1>4. UNCHANGED <<grants, completions>>
  BY DEF CreateRun
<1>5. ~Active(NewRun) /\ RowConsistent(NewRun)
  BY StatesDisjoint DEF NewRun, Active, RowConsistent
<1>6. TypeOK'
  BY <1>1, <1>4 DEF IInv, TypeOK
<1>7. (\A r \in RunIds : Exists(r) => RowConsistent(runs[r]))'
  BY <1>1, <1>5 DEF IInv, Exists
<1>8. (\A g \in grants : Exists(g.run) /\ 1 <= g.attempt /\ g.attempt <= runs[g.run].attempt)'
  BY <1>1, <1>2, <1>4 DEF IInv, Exists
<1>9. (\A r \in RunIds : Exists(r) /\ Active(runs[r]) =>
         Grant(r, runs[r].attempt, runs[r].owner) \in grants)'
  BY <1>1, <1>4, <1>5 DEF IInv, Exists
<1>10. OneGrantPerAttempt' /\ OneWinner'
  BY <1>1, <1>3, <1>4 DEF IInv, OneGrantPerAttempt, OneWinner
<1> QED
  BY <1>6, <1>7, <1>8, <1>9, <1>10 DEF IInv

(* The completing attempt is the newest one and its owner holds its grant;
   an earlier completion would have left the row COMPLETED. *)
LEMMA CompleteKeeps ==
  ASSUME IInv, NEW id \in RunIds, NEW a \in AttemptNos, NEW w \in Workers,
         NEW m \in Manifests, CompleteRun(id, a, w, m)
  PROVE  IInv'
<1> DEFINE new == Completed(runs[id], a, m)
           won == [run |-> id, attempt |-> a, worker |-> w, manifest |-> m]
<1>1. runs[id] \in Run /\ Exists(id) /\ new \in Run
  BY CompletedType DEF IInv, TypeOK, CompleteRun, Exists
<1>2. /\ runs[id].attempt = a /\ runs[id].owner = w /\ runs[id].state = "PERSISTING"
      /\ Active(runs[id])
  BY StatesDisjoint DEF CompleteRun, CanComplete, HeldBy, Active
<1>3. /\ new.state = "COMPLETED" /\ new.attempt = a /\ new.winning = a
      /\ new.manifest = m /\ new.owner = Nil /\ new.expires = Nil
  BY <1>1, <1>2 DEF Completed, Run
<1>4. /\ runs' \in [RunIds -> Run \cup {Nil}] /\ runs'[id] = new
      /\ \A other \in RunIds : other # id => runs'[other] = runs[other]
  BY <1>1, ReplaceRow DEF IInv, CompleteRun
<1>5. grants' = grants /\ completions' = completions \cup {won}
  BY DEF CompleteRun
<1>6. \A c \in completions : c.run # id /\ c.run \in RunIds
  BY <1>2 DEF IInv, OneWinner, TypeOK
<1>7. Grant(id, a, w) \in grants
  BY <1>1, <1>2 DEF IInv
<1>8. TypeOK'
  <2>1. won \in [run : RunIds, attempt : Nat, worker : Workers, manifest : Manifests]
    OBVIOUS
  <2> QED
    BY <1>4, <1>5, <2>1 DEF IInv, TypeOK
<1>9. \A r \in RunIds : Exists(r)' = Exists(r)
  BY <1>1, <1>4 DEF Exists
<1>10. (\A r \in RunIds : Exists(r) => RowConsistent(runs[r]))'
  <2>1. RowConsistent(new)
    BY <1>3, StatesDisjoint DEF RowConsistent, Active
  <2> QED
    BY <1>4, <1>9, <2>1 DEF IInv, Exists
<1>11. (\A g \in grants : Exists(g.run) /\ 1 <= g.attempt /\ g.attempt <= runs[g.run].attempt)'
  <2> SUFFICES ASSUME NEW g \in grants
               PROVE  /\ Exists(g.run)' /\ 1 <= g.attempt
                      /\ g.attempt <= runs'[g.run].attempt
    BY <1>5
  <2>1. g.run \in RunIds
    BY DEF IInv, TypeOK
  <2>2. CASE g.run = id
    BY <1>2, <1>3, <1>4, <1>9, <2>1, <2>2 DEF IInv
  <2>3. CASE g.run # id
    BY <1>4, <1>9, <2>1, <2>3 DEF IInv
  <2> QED
    BY <2>2, <2>3
<1>12. (\A r \in RunIds : Exists(r) /\ Active(runs[r]) =>
         Grant(r, runs[r].attempt, runs[r].owner) \in grants)'
  <2>1. ~Active(new)
    BY <1>3, StatesDisjoint DEF Active
  <2> QED
    BY <1>4, <1>5, <1>9, <2>1 DEF IInv, Grant, Active
<1>13. OneGrantPerAttempt'
  BY <1>5 DEF IInv, OneGrantPerAttempt
<1>14. OneWinner'
  <2>1. \A c, d \in completions' : c.run = d.run => c = d
    BY <1>5, <1>6 DEF IInv, OneWinner
  <2>2. ASSUME NEW c \in completions'
        PROVE  /\ Grant(c.run, c.attempt, c.worker) \in grants'
               /\ runs'[c.run].state = "COMPLETED"
               /\ runs'[c.run].winning = c.attempt /\ runs'[c.run].attempt = c.attempt
               /\ runs'[c.run].manifest = c.manifest
    <3>1. CASE c = won
      BY <1>3, <1>4, <1>5, <1>7, <3>1
    <3>2. CASE c \in completions
      BY <1>4, <1>5, <1>6, <3>2 DEF IInv, OneWinner
    <3> QED
      BY <1>5, <2>2, <3>1, <3>2
  <2> QED
    BY <2>1, <2>2 DEF OneWinner, Grant
<1> QED
  BY <1>8, <1>10, <1>11, <1>12, <1>13, <1>14 DEF IInv

(* Every statement keeps the invariant. *)
LEMMA NextKeeps == IInv /\ [Next]_vars => IInv'
<1> SUFFICES ASSUME IInv, [Next]_vars
             PROVE  IInv'
  OBVIOUS
<1>1. ASSUME NEW id \in RunIds, CreateRun(id)
      PROVE  IInv'
  BY <1>1, CreateKeeps
<1>2. ASSUME NEW id \in RunIds, NEW w \in Workers, NEW now \in Times, ClaimRun(id, w, now)
      PROVE  IInv'
  <2> DEFINE new == Claimed(runs[id], w, now)
  <2>1. runs[id] \in Run /\ now + LeaseTicks \in Nat
    BY <1>2 DEF IInv, TypeOK, ClaimRun, Exists
  <2>2. new \in Run
    BY <2>1, LeasedType DEF Claimed
  <2>3. new.state = "CLAIMED" /\ new.attempt = 1 /\ new.owner = w /\ new.expires = now + LeaseTicks
    BY <2>1 DEF Claimed, Leased, Run
  <2>4. RowConsistent(new)
    BY <2>1, <2>3, StatesDisjoint DEF RowConsistent, Active
  <2>5. new.attempt = runs[id].attempt + 1 /\ ~Terminal(runs[id])
    BY <1>2, <2>3, StatesDisjoint DEF ClaimRun, CanClaim, Terminal
  <2> QED
    BY <1>2, <2>2, <2>3, <2>4, <2>5, AttemptGranted DEF ClaimRun
<1>3. ASSUME NEW id \in RunIds, NEW w \in Workers, NEW seen \in Seen, NEW now \in Times,
             ReclaimExpiredRun(id, seen, w, now)
      PROVE  IInv'
  <2> DEFINE new == Reclaimed(runs[id], seen, w, now)
  <2>1. runs[id] \in Run /\ now + LeaseTicks \in Nat
    BY <1>3 DEF IInv, TypeOK, ReclaimExpiredRun, Exists
  <2>2. seen.attempt \in AttemptNos /\ seen.state \in ActiveStates
    BY DEF Seen
  <2>3. seen.attempt + 1 \in Nat
    <3>1. \A n \in AttemptNos : n + 1 \in Nat
      OBVIOUS
    <3> QED
      BY <2>2, <3>1, Zenon
  <2>4. new \in Run
    BY <2>1, <2>3, LeasedType DEF Reclaimed
  <2>5. /\ new.state = "CLAIMED" /\ new.attempt = seen.attempt + 1
        /\ new.owner = w /\ new.expires = now + LeaseTicks
    BY <2>1 DEF Reclaimed, Leased, Run
  <2>6. RowConsistent(new)
    BY <2>1, <2>5, StatesDisjoint DEF RowConsistent, Active
  <2>7. seen.attempt = runs[id].attempt /\ ~Terminal(runs[id])
    BY <1>3, <2>2, StatesDisjoint DEF ReclaimExpiredRun, CanReclaim, HeldBy, Terminal
  <2> QED
    BY <1>3, <2>4, <2>5, <2>6, <2>7, AttemptGranted DEF ReclaimExpiredRun
<1>4. ASSUME NEW id \in RunIds, NEW w \in Workers, NEW a \in AttemptNos, NEW c \in Commits,
             PinSourceIfAbsent(id, a, w, c)
      PROVE  IInv'
  <2> DEFINE new == Pinned(runs[id], c)
  <2>1. runs[id] \in Run /\ new \in Run /\ Active(runs[id])
    BY <1>4, PinnedType, StatesDisjoint
       DEF IInv, TypeOK, PinSourceIfAbsent, Exists, CanPin, Active
  <2>2. /\ new.state = runs[id].state /\ new.attempt = runs[id].attempt
        /\ new.owner = runs[id].owner /\ new.expires = runs[id].expires
    BY <2>1 DEF Pinned, Run
  <2> QED
    BY <1>4, <2>1, <2>2, StatesDisjoint, AttemptKept
       DEF IInv, RowConsistent, Active, PinSourceIfAbsent
<1>5. ASSUME NEW id \in RunIds, NEW w \in Workers, NEW a \in AttemptNos, NEW e \in Times,
             NEW n \in Times, RenewLease(id, a, w, e, n)
      PROVE  IInv'
  <2> DEFINE new == Renewed(runs[id], n)
  <2>1. runs[id] \in Run /\ new \in Run /\ Active(runs[id]) /\ n # Nil
    BY <1>5, RenewedType DEF IInv, TypeOK, RenewLease, Exists, CanRenew
  <2>2. /\ new.state = runs[id].state /\ new.attempt = runs[id].attempt
        /\ new.owner = runs[id].owner /\ new.expires = n
    BY <2>1 DEF Renewed, Run
  <2> QED
    BY <1>5, <2>1, <2>2, StatesDisjoint, AttemptKept DEF IInv, RowConsistent, Active, RenewLease
<1>6. ASSUME NEW id \in RunIds, NEW w \in Workers, NEW a \in AttemptNos, NEW p \in PhaseOrder,
             UpdatePhase(id, a, w, p[1], p[2])
      PROVE  IInv'
  <2> DEFINE new == PhaseUpdated(runs[id], p[2])
  <2>1. p[1] \in ActiveStates /\ p[2] \in ActiveStates
    BY StatesDisjoint, PhasesActive
  <2>2. runs[id] \in Run /\ new \in Run /\ Active(runs[id])
    BY <1>6, <2>1, PhaseUpdatedType
       DEF IInv, TypeOK, UpdatePhase, Exists, CanUpdatePhase, Active
  <2>3. /\ new.state = p[2] /\ new.attempt = runs[id].attempt
        /\ new.owner = runs[id].owner /\ new.expires = runs[id].expires
    BY <2>2 DEF PhaseUpdated, Run
  <2> QED
    BY <1>6, <2>1, <2>2, <2>3, StatesDisjoint, PhasesActive, AttemptKept
       DEF IInv, RowConsistent, Active, UpdatePhase
<1>7. ASSUME NEW id \in RunIds, NEW w \in Workers, NEW a \in AttemptNos, NEW m \in Manifests,
             CompleteRun(id, a, w, m)
      PROVE  IInv'
  BY <1>7, CompleteKeeps
<1>8. ASSUME NEW id \in RunIds, NEW w \in Workers, NEW a \in AttemptNos, FailRun(id, a, w)
      PROVE  IInv'
  <2> DEFINE new == Failed(runs[id])
  <2>1. runs[id] \in Run /\ new \in Run /\ Active(runs[id])
    BY <1>8, FailedType DEF IInv, TypeOK, FailRun, Exists, CanFail
  <2>2. new.state = "FAILED" /\ new.attempt = runs[id].attempt /\ new.owner = Nil /\ new.expires = Nil
    BY <2>1 DEF Failed, Run
  <2> QED
    BY <1>8, <2>1, <2>2, StatesDisjoint, AttemptKept DEF IInv, RowConsistent, Active, FailRun
<1>9. CASE UNCHANGED vars
  BY <1>9 DEF vars, IInv, TypeOK, Exists, RowConsistent, Active, OneGrantPerAttempt, OneWinner, Grant
<1> QED
  BY <1>1, <1>2, <1>3, <1>4, <1>5, <1>6, <1>7, <1>8, <1>9 DEF Next

(* The inductive invariant holds in every reachable state of the table. *)
LEMMA Invariance == Spec => []IInv
<1> QED
  BY InitEstablishes, NextKeeps, PTL DEF Spec

-----------------------------------------------------------------------------

(* The lease columns of a row are filled exactly while
   its state is active (sqlite.go, every statement that sets or clears them). *)
THEOREM TableWellFormed == Spec => []LeaseExactlyWhileActive
<1>1. IInv => LeaseExactlyWhileActive
  BY DEF IInv, LeaseExactlyWhileActive, RowConsistent
<1> QED
  BY <1>1, Invariance, PTL

(* Every row has the columns the statements rely on, and every grant and every
   completion is of a run. *)
THEOREM TableTyped == Spec => []TypeOK
<1>1. IInv => TypeOK
  BY DEF IInv
<1> QED
  BY <1>1, Invariance, PTL

(* No two successful calls of ClaimRun or ReclaimExpiredRun give out the same
   attempt. *)
THEOREM AttemptIsAFencingToken == Spec => []OneGrantPerAttempt
<1>1. IInv => OneGrantPerAttempt
  BY DEF IInv
<1> QED
  BY <1>1, Invariance, PTL

(* The owner of an active row was given the row's attempt, the newest there is. *)
THEOREM OwnerIsTheNewest == Spec => []OwnerHoldsNewestGrant
<1>1. IInv => OwnerHoldsNewestGrant
  BY DEF IInv, OwnerHoldsNewestGrant
<1> QED
  BY <1>1, Invariance, PTL

(* A run is completed at most once, by the holder of its newest attempt, and
   keeps that attempt's manifest. *)
THEOREM CompletedOnce == Spec => []OneWinner
<1>1. IInv => OneWinner
  BY DEF IInv
<1> QED
  BY <1>1, Invariance, PTL

(* What one step can do to one row that exists. *)
RowChange(r) ==
  \/ runs'[r] = runs[r]
  \/ \E w \in Workers, now \in Times :
       CanClaim(runs[r]) /\ runs'[r] = Claimed(runs[r], w, now)
  \/ \E w \in Workers, seen \in Seen, now \in Times :
       CanReclaim(runs[r], seen, now) /\ runs'[r] = Reclaimed(runs[r], seen, w, now)
  \/ \E w \in Workers, a \in AttemptNos, c \in Commits :
       CanPin(runs[r], a, w) /\ runs'[r] = Pinned(runs[r], c)
  \/ \E w \in Workers, a \in AttemptNos, e \in Times, n \in Times :
       CanRenew(runs[r], a, w, e) /\ runs'[r] = Renewed(runs[r], n)
  \/ \E w \in Workers, a \in AttemptNos, p \in PhaseOrder :
       CanUpdatePhase(runs[r], a, w, p[1]) /\ runs'[r] = PhaseUpdated(runs[r], p[2])
  \/ \E w \in Workers, a \in AttemptNos, m \in Manifests :
       CanComplete(runs[r], a, w) /\ runs'[r] = Completed(runs[r], a, m)
  \/ \E w \in Workers, a \in AttemptNos :
       CanFail(runs[r], a, w) /\ runs'[r] = Failed(runs[r])

LEMMA RowStep ==
  ASSUME IInv, [Next]_vars, NEW r \in RunIds, Exists(r)
  PROVE  RowChange(r)
<1>1. runs \in [RunIds -> Run \cup {Nil}]
  BY DEF IInv, TypeOK
<1>2. CASE UNCHANGED vars
  BY <1>2 DEF vars, RowChange
<1>3. ASSUME NEW id \in RunIds, CreateRun(id)
      PROVE  RowChange(r)
  BY <1>1, <1>3 DEF CreateRun, Exists, RowChange
<1>4. ASSUME NEW id \in RunIds, NEW w \in Workers, NEW now \in Times, ClaimRun(id, w, now)
      PROVE  RowChange(r)
  <2>1. runs'[r] = runs[r] \/ (CanClaim(runs[r]) /\ runs'[r] = Claimed(runs[r], w, now))
    BY <1>1, <1>4 DEF ClaimRun
  <2>2. \/ runs'[r] = runs[r]
        \/ \E v \in Workers, t \in Times : CanClaim(runs[r]) /\ runs'[r] = Claimed(runs[r], v, t)
    BY <2>1
  <2> QED
    BY <2>2, Zenon DEF RowChange
<1>5. ASSUME NEW id \in RunIds, NEW w \in Workers, NEW seen \in Seen, NEW now \in Times,
             ReclaimExpiredRun(id, seen, w, now)
      PROVE  RowChange(r)
  <2>1. \/ runs'[r] = runs[r]
        \/ CanReclaim(runs[r], seen, now) /\ runs'[r] = Reclaimed(runs[r], seen, w, now)
    BY <1>1, <1>5 DEF ReclaimExpiredRun
  <2>2. \/ runs'[r] = runs[r]
        \/ \E v \in Workers, s \in Seen, t \in Times :
             CanReclaim(runs[r], s, t) /\ runs'[r] = Reclaimed(runs[r], s, v, t)
    BY <2>1
  <2> QED
    BY <2>2, Zenon DEF RowChange
<1>6. ASSUME NEW id \in RunIds, NEW w \in Workers, NEW a \in AttemptNos, NEW c \in Commits,
             PinSourceIfAbsent(id, a, w, c)
      PROVE  RowChange(r)
  <2>1. runs'[r] = runs[r] \/ (CanPin(runs[r], a, w) /\ runs'[r] = Pinned(runs[r], c))
    BY <1>1, <1>6 DEF PinSourceIfAbsent
  <2>2. \/ runs'[r] = runs[r]
        \/ \E v \in Workers, b \in AttemptNos, d \in Commits :
             CanPin(runs[r], b, v) /\ runs'[r] = Pinned(runs[r], d)
    BY <2>1
  <2> QED
    BY <2>2, Zenon DEF RowChange
<1>7. ASSUME NEW id \in RunIds, NEW w \in Workers, NEW a \in AttemptNos, NEW e \in Times,
             NEW n \in Times, RenewLease(id, a, w, e, n)
      PROVE  RowChange(r)
  <2>1. runs'[r] = runs[r] \/ (CanRenew(runs[r], a, w, e) /\ runs'[r] = Renewed(runs[r], n))
    BY <1>1, <1>7 DEF RenewLease
  <2>2. \/ runs'[r] = runs[r]
        \/ \E v \in Workers, b \in AttemptNos, f \in Times, g \in Times :
             CanRenew(runs[r], b, v, f) /\ runs'[r] = Renewed(runs[r], g)
    BY <2>1
  <2> QED
    BY <2>2, Zenon DEF RowChange
<1>8. ASSUME NEW id \in RunIds, NEW w \in Workers, NEW a \in AttemptNos, NEW p \in PhaseOrder,
             UpdatePhase(id, a, w, p[1], p[2])
      PROVE  RowChange(r)
  <2>1. \/ runs'[r] = runs[r]
        \/ CanUpdatePhase(runs[r], a, w, p[1]) /\ runs'[r] = PhaseUpdated(runs[r], p[2])
    BY <1>1, <1>8 DEF UpdatePhase
  <2>2. \/ runs'[r] = runs[r]
        \/ \E v \in Workers, b \in AttemptNos, q \in PhaseOrder :
             CanUpdatePhase(runs[r], b, v, q[1]) /\ runs'[r] = PhaseUpdated(runs[r], q[2])
    BY <2>1
  <2> QED
    BY <2>2, Zenon DEF RowChange
<1>9. ASSUME NEW id \in RunIds, NEW w \in Workers, NEW a \in AttemptNos, NEW m \in Manifests,
             CompleteRun(id, a, w, m)
      PROVE  RowChange(r)
  <2>1. \/ runs'[r] = runs[r]
        \/ CanComplete(runs[r], a, w) /\ runs'[r] = Completed(runs[r], a, m)
    BY <1>1, <1>9 DEF CompleteRun
  <2>2. \/ runs'[r] = runs[r]
        \/ \E v \in Workers, b \in AttemptNos, l \in Manifests :
             CanComplete(runs[r], b, v) /\ runs'[r] = Completed(runs[r], b, l)
    BY <2>1
  <2> QED
    BY <2>2, Zenon DEF RowChange
<1>10. ASSUME NEW id \in RunIds, NEW w \in Workers, NEW a \in AttemptNos, FailRun(id, a, w)
      PROVE  RowChange(r)
  <2>1. runs'[r] = runs[r] \/ (CanFail(runs[r], a, w) /\ runs'[r] = Failed(runs[r]))
    BY <1>1, <1>10 DEF FailRun
  <2>2. \/ runs'[r] = runs[r]
        \/ \E v \in Workers, b \in AttemptNos :
             CanFail(runs[r], b, v) /\ runs'[r] = Failed(runs[r])
    BY <2>1
  <2> QED
    BY <2>2, Zenon DEF RowChange
<1> QED
  BY <1>2, <1>3, <1>4, <1>5, <1>6, <1>7, <1>8, <1>9, <1>10 DEF Next

(* Nothing leads out of COMPLETED or FAILED: every statement's WHERE clause
   asks for QUEUED, for an active state or for an owner. *)
THEOREM TerminalRowsStay == Spec => TerminalIsFinal
<1>1. ASSUME IInv, [Next]_vars, NEW r \in RunIds, Exists(r), Terminal(runs[r])
      PROVE  runs'[r] = runs[r]
  <2>1. /\ runs[r].owner = Nil /\ runs[r].state # "QUEUED" /\ ~Active(runs[r])
        /\ runs[r].state # "RETRIEVING" /\ runs[r].state # "PERSISTING"
        /\ \A p \in PhaseOrder : runs[r].state # p[1]
    BY <1>1, StatesDisjoint, PhasesActive DEF IInv, RowConsistent, Terminal, Active
  <2>2. ~CanClaim(runs[r])
    BY <2>1 DEF CanClaim
  <2>3. \A seen \in Seen, now \in Times : ~CanReclaim(runs[r], seen, now)
    BY <2>1 DEF CanReclaim, HeldBy, Seen
  <2>4. \A w \in Workers, a \in AttemptNos : ~HeldBy(runs[r], a, w)
    BY <2>1 DEF HeldBy
  <2> QED
    BY <1>1, <2>2, <2>3, <2>4, RowStep DEF RowChange, CanPin, CanRenew, CanUpdatePhase, CanComplete, CanFail
<1>2. IInv /\ [Next]_vars =>
        [\A id \in RunIds : Exists(id) /\ Terminal(runs[id]) => runs'[id] = runs[id]]_vars
  BY <1>1
<1> QED
  BY <1>2, Invariance, PTL DEF Spec, TerminalIsFinal

(* The columns each statement leaves alone. *)
LEMMA RowFields ==
  ASSUME NEW run \in Run
  PROVE  /\ \A a, w, t : Leased(run, a, w, t).commit = run.commit
         /\ \A a, w, t : Leased(run, a, w, t).expires = t
         /\ \A a, w, t : Leased(run, a, w, t).attempt = a
         /\ \A c : Pinned(run, c).attempt = run.attempt
         /\ \A n : Renewed(run, n).commit = run.commit /\ Renewed(run, n).attempt = run.attempt
         /\ \A s : PhaseUpdated(run, s).commit = run.commit /\ PhaseUpdated(run, s).attempt = run.attempt
         /\ \A a, m : Completed(run, a, m).commit = run.commit /\ Completed(run, a, m).attempt = run.attempt
         /\ Failed(run).commit = run.commit /\ Failed(run).attempt = run.attempt
BY DEF Run, Leased, Pinned, Renewed, PhaseUpdated, Completed, Failed

(* A row stays a row. *)
LEMMA RowsStay ==
  ASSUME IInv, [Next]_vars, NEW r \in RunIds, Exists(r)
  PROVE  Exists(r)' /\ runs[r] \in Run /\ runs'[r] \in Run
<1>1. IInv'
  BY NextKeeps
<1>2. runs[r] \in Run
  BY DEF IInv, TypeOK, Exists
<1>3. runs'[r] # Nil
  <2>1. runs[r] # Nil
    BY DEF Exists
  <2>2. \A w \in Workers, a \in Nat, t \in Nat : Leased(runs[r], a, w, t) # Nil
    BY <1>2, LeasedType
  <2>3. \A w \in Workers, now \in Times : Claimed(runs[r], w, now) # Nil
    BY <2>2 DEF Claimed
  <2>4. \A w \in Workers, seen \in Seen, now \in Times : Reclaimed(runs[r], seen, w, now) # Nil
    <3> SUFFICES ASSUME NEW w \in Workers, NEW seen \in Seen, NEW now \in Times
                 PROVE  Leased(runs[r], seen.attempt + 1, w, now + LeaseTicks) # Nil
      BY DEF Reclaimed
    <3>1. seen.attempt \in AttemptNos
      BY DEF Seen
    <3>2. \A n \in AttemptNos : n + 1 \in Nat
      OBVIOUS
    <3>3. now + LeaseTicks \in Nat
      OBVIOUS
    <3> QED
      BY <2>2, <3>1, <3>2, <3>3, Zenon
  <2>5. \A c \in Commits : Pinned(runs[r], c) # Nil
    BY <1>2, PinnedType
  <2>6. \A n \in Times : Renewed(runs[r], n) # Nil
    BY <1>2, RenewedType
  <2>7. \A p \in PhaseOrder : PhaseUpdated(runs[r], p[2]) # Nil
    BY <1>2, PhaseUpdatedType, StatesDisjoint, PhasesActive
  <2>8. \A a \in AttemptNos, m \in Manifests : Completed(runs[r], a, m) # Nil
    BY <1>2, CompletedType
  <2>9. Failed(runs[r]) # Nil
    BY <1>2, FailedType
  <2> QED
    BY RowStep, <2>1, <2>3, <2>4, <2>5, <2>6, <2>7, <2>8, <2>9 DEF RowChange
<1> QED
  BY <1>1, <1>2, <1>3 DEF IInv, TypeOK, Exists

(* PinSourceIfAbsent is the only statement that sets commit_oid and it asks
   for NULL, so the attempt that pins first decides for every later one. *)
THEOREM CommitStaysPinned == Spec => CommitPinnedOnce
<1>1. ASSUME IInv, [Next]_vars, NEW r \in RunIds, Exists(r), runs[r].commit # Nil
      PROVE  Exists(r)' /\ runs'[r].commit = runs[r].commit
  <2>1. runs[r] \in Run /\ Exists(r)'
    BY <1>1, RowsStay
  <2>2. \A w, a : ~CanPin(runs[r], a, w)
    BY <1>1 DEF CanPin
  <2> QED
    BY <1>1, <2>1, <2>2, RowStep, RowFields DEF RowChange, Claimed, Reclaimed
<1>2. IInv /\ [Next]_vars =>
        [\A id \in RunIds : Exists(id) /\ runs[id].commit # Nil =>
           Exists(id)' /\ runs'[id].commit = runs[id].commit]_vars
  BY <1>1
<1> QED
  BY <1>2, Invariance, PTL DEF Spec, CommitPinnedOnce

(* However the instants are written, taking a lease over is less than one
   second early by the taker's own clock. *)
THEOREM ReclaimIsPunctual == Spec => ReclaimNotASecondEarly
<1>1. ASSUME IInv, [Next]_vars, NEW r \in RunIds, Exists(r), Active(runs[r]),
             runs'[r].attempt # runs[r].attempt
      PROVE  runs[r].expires < (runs'[r].expires - LeaseTicks) + TicksPerSecond
  <2>1. runs[r] \in Run
    BY <1>1, RowsStay
  <2>2. ~CanClaim(runs[r])
    BY <1>1, StatesDisjoint DEF CanClaim, Active
  <2>3. PICK w \in Workers, seen \in Seen, now \in Times :
          CanReclaim(runs[r], seen, now) /\ runs'[r] = Reclaimed(runs[r], seen, w, now)
    BY <1>1, <2>1, <2>2, RowStep, RowFields DEF RowChange
  <2>4. runs'[r].expires = now + LeaseTicks
    BY <2>1, <2>3, RowFields DEF Reclaimed
  <2>5. runs[r].expires \in Instant /\ TextLeq(runs[r].expires, now)
    BY <2>1, <2>3 DEF CanReclaim, Run
  <2>6. now \in Instant
    BY DEF Instant
  <2>7. runs[r].expires < now + TicksPerSecond
    BY <2>5, <2>6, TextOrderWithinASecond
  <2> QED
    BY <2>4, <2>5, <2>7 DEF Instant
<1>2. IInv /\ [Next]_vars =>
        [\A id \in RunIds :
           Exists(id) /\ Active(runs[id]) /\ runs'[id].attempt # runs[id].attempt =>
             runs[id].expires < (runs'[id].expires - LeaseTicks) + TicksPerSecond]_vars
  BY <1>1
<1> QED
  BY <1>2, Invariance, PTL DEF Spec, ReclaimNotASecondEarly

-----------------------------------------------------------------------------
(* The table implements AnalysisJob. *)

(* Every row is of exactly one phase. *)
LEMMA JobPhases ==
  /\ JobPhase(Nil) = "absent"
  /\ \A run \in Run :
       /\ run.state = "QUEUED" => JobPhase(run) = "waiting"
       /\ run.state \in ActiveStates => JobPhase(run) = "held"
       /\ run.state = "COMPLETED" => JobPhase(run) = "succeeded"
       /\ run.state = "FAILED" => JobPhase(run) = "failed"
BY DEF JobPhase, ActiveStates

(* The view of a row, and of the table after a row was replaced. *)
LEMMA ViewOfRow ==
  ASSUME NEW id \in RunIds, Exists(id)
  PROVE  /\ ViewPhase[id] = JobPhase(runs[id]) /\ ViewAttempt[id] = runs[id].attempt
         /\ ViewHolder[id] = runs[id].owner /\ ViewSource[id] = runs[id].commit
         /\ ViewResult[id] = runs[id].manifest
BY DEF ViewPhase, ViewAttempt, ViewHolder, ViewSource, ViewResult

(* Replacing one row changes what is shown of that run and of no other. *)
LEMMA ViewReplaced ==
  ASSUME NEW id \in RunIds, NEW new \in Run, runs \in [RunIds -> Run \cup {Nil}],
         runs' = [runs EXCEPT ![id] = new]
  PROVE  /\ ViewPhase' = [ViewPhase EXCEPT ![id] = JobPhase(new)]
         /\ ViewAttempt' = [ViewAttempt EXCEPT ![id] = new.attempt]
         /\ ViewHolder' = [ViewHolder EXCEPT ![id] = new.owner]
         /\ ViewSource' = [ViewSource EXCEPT ![id] = new.commit]
         /\ ViewResult' = [ViewResult EXCEPT ![id] = new.manifest]
<1>1. /\ new # Nil /\ runs'[id] = new
      /\ \A r \in RunIds : r # id => runs'[r] = runs[r]
  OBVIOUS
<1>2. Exists(id)' /\ \A r \in RunIds : r # id => Exists(r)' = Exists(r)
  BY <1>1 DEF Exists
<1>3. ViewPhase' = [ViewPhase EXCEPT ![id] = JobPhase(new)]
  BY <1>1 DEF ViewPhase
<1>4. ViewAttempt' = [ViewAttempt EXCEPT ![id] = new.attempt]
  BY <1>1, <1>2 DEF ViewAttempt
<1>5. ViewHolder' = [ViewHolder EXCEPT ![id] = new.owner]
  BY <1>1, <1>2 DEF ViewHolder
<1>6. ViewSource' = [ViewSource EXCEPT ![id] = new.commit]
  BY <1>1, <1>2 DEF ViewSource
<1>7. ViewResult' = [ViewResult EXCEPT ![id] = new.manifest]
  BY <1>1, <1>2 DEF ViewResult
<1> QED
  BY <1>3, <1>4, <1>5, <1>6, <1>7

(* Writing back what was there changes nothing. *)
LEMMA SameEntry ==
  /\ \A id \in RunIds : [ViewPhase EXCEPT ![id] = ViewPhase[id]] = ViewPhase
  /\ \A id \in RunIds : [ViewAttempt EXCEPT ![id] = ViewAttempt[id]] = ViewAttempt
  /\ \A id \in RunIds : [ViewHolder EXCEPT ![id] = ViewHolder[id]] = ViewHolder
  /\ \A id \in RunIds : [ViewSource EXCEPT ![id] = ViewSource[id]] = ViewSource
  /\ \A id \in RunIds : [ViewResult EXCEPT ![id] = ViewResult[id]] = ViewResult
BY DEF ViewPhase, ViewAttempt, ViewHolder, ViewSource, ViewResult

(* Runs that were created before are jobs that wait. *)
LEMMA InitRefines == Init => Jobs!Init
<1>1. NewRun \in Run /\ NewRun.state = "QUEUED"
  BY NewRunType DEF NewRun
<1>2. JobPhase(NewRun) = "waiting" /\ JobPhase(Nil) = "absent"
  BY <1>1, JobPhases
<1> QED
  BY <1>2 DEF Init, Jobs!Init, Exists, NewRun,
              ViewPhase, ViewAttempt, ViewHolder, ViewSource, ViewResult

(* A claim or a reclaim hands the job out; renewals and phase updates are
   not visible to the submitter. *)
LEMMA StepRefines == IInv /\ [Next]_vars => [Jobs!Next]_(Jobs!job)
<1> SUFFICES ASSUME IInv, [Next]_vars
             PROVE  Jobs!Next \/ UNCHANGED Jobs!job
  OBVIOUS
<1>1. runs \in [RunIds -> Run \cup {Nil}]
  BY DEF IInv, TypeOK
<1>2. \A id \in RunIds : Exists(id) => runs[id] \in Run
  BY <1>1 DEF Exists
<1>3. ASSUME NEW id \in RunIds, CreateRun(id)
      PROVE  Jobs!Submit(id)
  <2>1. /\ ViewPhase[id] = "absent" /\ ViewAttempt[id] = 0 /\ ViewHolder[id] = Nil
        /\ ViewSource[id] = Nil /\ ViewResult[id] = Nil
    BY <1>3, JobPhases
       DEF CreateRun, Exists, ViewPhase, ViewAttempt, ViewHolder, ViewSource, ViewResult
  <2>2. /\ JobPhase(NewRun) = "waiting" /\ NewRun.attempt = 0 /\ NewRun.owner = Nil
        /\ NewRun.commit = Nil /\ NewRun.manifest = Nil
    BY NewRunType, JobPhases DEF NewRun
  <2>3. /\ ViewPhase' = [ViewPhase EXCEPT ![id] = JobPhase(NewRun)]
        /\ ViewAttempt' = [ViewAttempt EXCEPT ![id] = NewRun.attempt]
        /\ ViewHolder' = [ViewHolder EXCEPT ![id] = NewRun.owner]
        /\ ViewSource' = [ViewSource EXCEPT ![id] = NewRun.commit]
        /\ ViewResult' = [ViewResult EXCEPT ![id] = NewRun.manifest]
    BY <1>1, <1>3, NewRunType, ViewReplaced DEF CreateRun
  <2>4. UNCHANGED <<ViewAttempt, ViewHolder, ViewSource, ViewResult>>
    BY <2>1, <2>2, <2>3, SameEntry
  <2> QED
    BY <2>1, <2>2, <2>3, <2>4 DEF Jobs!Submit
<1>4. ASSUME NEW id \in RunIds, Exists(id), NEW w \in Workers, NEW t \in Nat,
             runs[id].state = "QUEUED" \/ Active(runs[id]), runs[id].attempt \in Nat,
             runs' = [runs EXCEPT ![id] = Leased(runs[id], runs[id].attempt + 1, w, t)]
      PROVE  Jobs!HandOut(id, w)
  <2> DEFINE new == Leased(runs[id], runs[id].attempt + 1, w, t)
  <2>1. runs[id] \in Run /\ new \in Run
    <3>1. runs[id] \in Run
      BY <1>2, <1>4
    <3>2. runs[id].attempt + 1 \in Nat
      BY <1>4
    <3> QED
      BY <3>1, <3>2, LeasedType
  <2>2. /\ new.state = "CLAIMED" /\ new.attempt = runs[id].attempt + 1 /\ new.owner = w
        /\ new.commit = runs[id].commit /\ new.manifest = runs[id].manifest
    BY <2>1 DEF Leased, Run
  <2>3. JobPhase(new) = "held"
    BY <2>1, <2>2, StatesDisjoint, JobPhases
  <2>4. ViewPhase[id] \in {"waiting", "held"}
    BY <1>4, <2>1, JobPhases, ViewOfRow DEF Active
  <2>5. /\ ViewPhase' = [ViewPhase EXCEPT ![id] = JobPhase(new)]
        /\ ViewAttempt' = [ViewAttempt EXCEPT ![id] = new.attempt]
        /\ ViewHolder' = [ViewHolder EXCEPT ![id] = new.owner]
        /\ ViewSource' = [ViewSource EXCEPT ![id] = new.commit]
        /\ ViewResult' = [ViewResult EXCEPT ![id] = new.manifest]
    BY <1>1, <1>4, <2>1, ViewReplaced
  <2> HIDE DEF new
  <2>6. UNCHANGED <<ViewSource, ViewResult>> /\ new.attempt = ViewAttempt[id] + 1
    BY <1>4, <2>2, <2>5, ViewOfRow, SameEntry
  <2> QED
    BY <2>2, <2>3, <2>4, <2>5, <2>6 DEF Jobs!HandOut
<1>5. ASSUME NEW id \in RunIds, NEW w \in Workers, NEW now \in Times, ClaimRun(id, w, now)
      PROVE  Jobs!HandOut(id, w)
  <2>1. /\ Exists(id) /\ runs[id].state = "QUEUED" /\ runs[id].attempt = 0
        /\ now + LeaseTicks \in Nat
    BY <1>5 DEF ClaimRun, CanClaim
  <2>2. runs' = [runs EXCEPT ![id] = Leased(runs[id], runs[id].attempt + 1, w, now + LeaseTicks)]
    <3>1. runs[id].attempt + 1 = 1
      BY <2>1
    <3> QED
      BY <1>5, <3>1 DEF ClaimRun, Claimed
  <2>3. runs[id].attempt \in Nat
    BY <2>1
  <2> QED
    BY <1>4, <2>1, <2>2, <2>3
<1>6. ASSUME NEW id \in RunIds, NEW w \in Workers, NEW seen \in Seen, NEW now \in Times,
             ReclaimExpiredRun(id, seen, w, now)
      PROVE  Jobs!HandOut(id, w)
  <2>1. Exists(id) /\ Active(runs[id]) /\ now + LeaseTicks \in Nat
    BY <1>6 DEF ReclaimExpiredRun, CanReclaim, Seen, Active
  <2>2. runs' = [runs EXCEPT ![id] = Leased(runs[id], runs[id].attempt + 1, w, now + LeaseTicks)]
    BY <1>6 DEF ReclaimExpiredRun, CanReclaim, HeldBy, Reclaimed
  <2>3. runs[id].attempt \in Nat
    BY <1>2, <2>1 DEF Run
  <2> QED
    BY <1>4, <2>1, <2>2, <2>3
<1>7. ASSUME NEW id \in RunIds, NEW w \in Workers, NEW a \in AttemptNos, NEW c \in Commits,
             PinSourceIfAbsent(id, a, w, c)
      PROVE  Jobs!FixSource(id, c)
  <2> DEFINE new == Pinned(runs[id], c)
  <2>1. /\ Exists(id) /\ runs[id] \in Run /\ new \in Run
        /\ runs[id].state = "RETRIEVING" /\ runs[id].commit = Nil
    BY <1>2, <1>7, PinnedType DEF PinSourceIfAbsent, CanPin
  <2>2. /\ new.state = "RETRIEVING" /\ new.attempt = runs[id].attempt
        /\ new.owner = runs[id].owner /\ new.commit = c /\ new.manifest = runs[id].manifest
    BY <2>1 DEF Pinned, Run
  <2>3. JobPhase(new) = "held" /\ JobPhase(runs[id]) = "held"
    BY <2>1, <2>2, StatesDisjoint, JobPhases
  <2>4. /\ ViewPhase' = [ViewPhase EXCEPT ![id] = JobPhase(new)]
        /\ ViewAttempt' = [ViewAttempt EXCEPT ![id] = new.attempt]
        /\ ViewHolder' = [ViewHolder EXCEPT ![id] = new.owner]
        /\ ViewSource' = [ViewSource EXCEPT ![id] = new.commit]
        /\ ViewResult' = [ViewResult EXCEPT ![id] = new.manifest]
    BY <1>1, <1>7, <2>1, ViewReplaced DEF PinSourceIfAbsent
  <2> HIDE DEF new
  <2>5. UNCHANGED <<ViewPhase, ViewAttempt, ViewHolder, ViewResult>>
    BY <2>1, <2>2, <2>3, <2>4, ViewOfRow, SameEntry
  <2> QED
    BY <2>1, <2>2, <2>3, <2>4, <2>5, ViewOfRow DEF Jobs!FixSource
<1>8. ASSUME NEW id \in RunIds, Exists(id), NEW new \in Run, runs' = [runs EXCEPT ![id] = new],
             Active(new), Active(runs[id]), new.attempt = runs[id].attempt,
             new.owner = runs[id].owner, new.commit = runs[id].commit,
             new.manifest = runs[id].manifest
      PROVE  UNCHANGED Jobs!job
  <2>1. JobPhase(new) = JobPhase(runs[id])
    BY <1>2, <1>8, JobPhases DEF Active
  <2>2. /\ ViewPhase' = [ViewPhase EXCEPT ![id] = JobPhase(new)]
        /\ ViewAttempt' = [ViewAttempt EXCEPT ![id] = new.attempt]
        /\ ViewHolder' = [ViewHolder EXCEPT ![id] = new.owner]
        /\ ViewSource' = [ViewSource EXCEPT ![id] = new.commit]
        /\ ViewResult' = [ViewResult EXCEPT ![id] = new.manifest]
    BY <1>1, <1>8, ViewReplaced
  <2> QED
    BY <1>8, <2>1, <2>2, ViewOfRow, SameEntry DEF Jobs!job
<1>9. ASSUME NEW id \in RunIds, NEW w \in Workers, NEW a \in AttemptNos, NEW e \in Times,
             NEW n \in Times, RenewLease(id, a, w, e, n)
      PROVE  UNCHANGED Jobs!job
  <2>1. /\ Exists(id) /\ runs[id] \in Run /\ Renewed(runs[id], n) \in Run /\ Active(runs[id])
        /\ runs' = [runs EXCEPT ![id] = Renewed(runs[id], n)]
    BY <1>2, <1>9, RenewedType DEF RenewLease, CanRenew
  <2> QED
    BY <1>8, <2>1 DEF Renewed, Run, Active
<1>10. ASSUME NEW id \in RunIds, NEW w \in Workers, NEW a \in AttemptNos, NEW p \in PhaseOrder,
              UpdatePhase(id, a, w, p[1], p[2])
       PROVE  UNCHANGED Jobs!job
  <2>1. p[1] \in ActiveStates /\ p[2] \in ActiveStates
    BY StatesDisjoint, PhasesActive
  <2>2. /\ Exists(id) /\ runs[id] \in Run /\ PhaseUpdated(runs[id], p[2]) \in Run
        /\ Active(runs[id]) /\ runs' = [runs EXCEPT ![id] = PhaseUpdated(runs[id], p[2])]
    BY <1>2, <1>10, <2>1, PhaseUpdatedType DEF UpdatePhase, CanUpdatePhase, Active
  <2> QED
    BY <1>8, <2>1, <2>2 DEF PhaseUpdated, Run, Active
<1>11. ASSUME NEW id \in RunIds, NEW w \in Workers, NEW a \in AttemptNos, NEW m \in Manifests,
              CompleteRun(id, a, w, m)
       PROVE  Jobs!Succeed(id, m)
  <2> DEFINE new == Completed(runs[id], a, m)
  <2>1. /\ Exists(id) /\ runs[id] \in Run /\ new \in Run
        /\ runs[id].state = "PERSISTING"
    BY <1>2, <1>11, CompletedType DEF CompleteRun, CanComplete
  <2>2. /\ new.state = "COMPLETED" /\ new.attempt = runs[id].attempt
        /\ new.owner = Nil /\ new.commit = runs[id].commit /\ new.manifest = m
    BY <2>1 DEF Completed, Run
  <2>3. JobPhase(new) = "succeeded" /\ JobPhase(runs[id]) = "held"
    BY <2>1, <2>2, StatesDisjoint, JobPhases
  <2>4. /\ ViewPhase' = [ViewPhase EXCEPT ![id] = JobPhase(new)]
        /\ ViewAttempt' = [ViewAttempt EXCEPT ![id] = new.attempt]
        /\ ViewHolder' = [ViewHolder EXCEPT ![id] = new.owner]
        /\ ViewSource' = [ViewSource EXCEPT ![id] = new.commit]
        /\ ViewResult' = [ViewResult EXCEPT ![id] = new.manifest]
    BY <1>1, <1>11, <2>1, ViewReplaced DEF CompleteRun
  <2> HIDE DEF new
  <2>5. UNCHANGED <<ViewAttempt, ViewSource>>
    BY <2>1, <2>2, <2>4, ViewOfRow, SameEntry
  <2> QED
    BY <2>1, <2>2, <2>3, <2>4, <2>5, ViewOfRow DEF Jobs!Succeed
<1>12. ASSUME NEW id \in RunIds, NEW w \in Workers, NEW a \in AttemptNos, FailRun(id, a, w)
       PROVE  Jobs!Fail(id)
  <2> DEFINE new == Failed(runs[id])
  <2>1. Exists(id) /\ runs[id] \in Run /\ new \in Run /\ runs[id].state \in ActiveStates
    BY <1>2, <1>12, FailedType DEF FailRun, CanFail, Active
  <2>2. /\ new.state = "FAILED" /\ new.attempt = runs[id].attempt
        /\ new.owner = Nil /\ new.commit = runs[id].commit /\ new.manifest = runs[id].manifest
    BY <2>1 DEF Failed, Run
  <2>3. JobPhase(new) = "failed" /\ JobPhase(runs[id]) = "held"
    BY <2>1, <2>2, JobPhases
  <2>4. /\ ViewPhase' = [ViewPhase EXCEPT ![id] = JobPhase(new)]
        /\ ViewAttempt' = [ViewAttempt EXCEPT ![id] = new.attempt]
        /\ ViewHolder' = [ViewHolder EXCEPT ![id] = new.owner]
        /\ ViewSource' = [ViewSource EXCEPT ![id] = new.commit]
        /\ ViewResult' = [ViewResult EXCEPT ![id] = new.manifest]
    BY <1>1, <1>12, <2>1, ViewReplaced DEF FailRun
  <2> HIDE DEF new
  <2>5. UNCHANGED <<ViewAttempt, ViewSource, ViewResult>>
    BY <2>1, <2>2, <2>4, ViewOfRow, SameEntry
  <2> QED
    BY <2>1, <2>2, <2>3, <2>4, <2>5, ViewOfRow DEF Jobs!Fail
<1>13. CASE UNCHANGED vars
  BY <1>13 DEF vars, Jobs!job, ViewPhase, ViewAttempt, ViewHolder, ViewSource, ViewResult, Exists
<1> QED
  BY <1>3, <1>5, <1>6, <1>7, <1>9, <1>10, <1>11, <1>12, <1>13 DEF Next, Jobs!Next

(* The runs table implements AnalysisJob, whoever calls it and whatever their
   clocks say. *)
THEOREM TableImplementsAnalysisJob == Spec => ImplementsAnalysisJob
<1> QED
  BY InitRefines, StepRefines, Invariance, PTL DEF Spec, Jobs!Spec, ImplementsAnalysisJob

=============================================================================
