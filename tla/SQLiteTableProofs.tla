-------------------------- MODULE SQLiteTableProofs --------------------------
(***************************************************************************)
(* What the SQLite table promises, for every pool of connections and any   *)
(* number of processes, runs and interrupted statements.                   *)
(***************************************************************************)
EXTENDS SQLiteTable, TLAPS

USE SQLiteTableAssumption

Database == [RunIds -> Nat \cup {Nil}]

Steps == {"begin", "update", "commit", "conditional", "error"}

Call == {Free} \cup [step : Steps, run : RunIds, expected : Nat]

TypeOK ==
  /\ committed \in Database
  /\ tx \in [Conns -> Database \cup {Nil}]
  /\ call \in [Conns -> Call]
  /\ answer \in [Conns -> {Nil, "done", "conditional", "error"}]
  /\ interruptions \in Nat

(* BEGIN IMMEDIATE: one connection at most has a transaction, stray or not. *)
OneTransaction == \A c, d \in Conns : tx[c] # Nil /\ tx[d] # Nil => c = d

(* What the transaction of a call that goes on holds: the database as it is,
   until the UPDATE, then the database with that one update. *)
Holds(c) ==
  /\ At(c, "update") => tx[c] = committed
  /\ At(c, "conditional") =>
       tx[c] = committed /\ committed[call[c].run] # call[c].expected
  /\ At(c, "commit") =>
       /\ committed[call[c].run] = call[c].expected
       /\ tx[c] = [committed EXCEPT ![call[c].run] = call[c].expected + 1]

(* The inductive invariant. A call past its BEGIN has the only transaction, so
   that nobody else can change the database under it. *)
IInv == TypeOK /\ OneTransaction /\ \A c \in Conns : Holds(c)

(* A call that is under way has all its fields. *)
LEMMA CallFields ==
  ASSUME TypeOK, NEW c \in Conns
  PROVE  /\ At(c, "free") => call[c] = Free
         /\ ~At(c, "free") => /\ call[c] \in [step : Steps, run : RunIds, expected : Nat]
                              /\ call[c] # Free
BY DEF TypeOK, Call, Free, At, Steps

(* What a call of one step looks like after the step. *)
LEMMA GotoKeeps ==
  ASSUME TypeOK, NEW c \in Conns, ~At(c, "free"), NEW s \in Steps, Goto(c, s)
  PROVE  /\ call' \in [Conns -> Call]
         /\ call'[c].step = s /\ call'[c].run = call[c].run
         /\ call'[c].expected = call[c].expected
         /\ \A d \in Conns : d # c => call'[d] = call[d]
         /\ answer' = answer
<1>1. call[c] \in [step : Steps, run : RunIds, expected : Nat]
  BY CallFields
<1>2. call' = [call EXCEPT ![c] = [call[c] EXCEPT !.step = s]]
  BY DEF Goto
<1>3. [call[c] EXCEPT !.step = s] \in [step : Steps, run : RunIds, expected : Nat]
  BY <1>1
<1> QED
  BY <1>1, <1>2, <1>3 DEF TypeOK, Call, Goto

(* What a call that returns leaves. *)
LEMMA AnswerFrees ==
  ASSUME TypeOK, NEW c \in Conns, NEW a \in {"done", "conditional", "error"}, Answer(c, a)
  PROVE  /\ call' \in [Conns -> Call] /\ call'[c] = Free
         /\ \A d \in Conns : d # c => call'[d] = call[d]
         /\ answer' \in [Conns -> {Nil, "done", "conditional", "error"}]
         /\ answer'[c] = a
BY DEF TypeOK, Call, Answer

(* A connection whose call, transaction and database stay as they are holds what it held. *)
LEMMA HoldsKept ==
  ASSUME NEW d \in Conns, Holds(d), call'[d] = call[d], tx'[d] = tx[d], committed' = committed
  PROVE  Holds(d)'
BY DEF Holds, At

(* A free connection, and one that has not begun or has failed, holds nothing. *)
LEMMA HoldsNothing ==
  ASSUME NEW d \in Conns, call'[d] = Free \/ call'[d].step \in {"begin", "error"}
  PROVE  Holds(d)'
BY DEF Holds, At, Free

(* Nobody is past a BEGIN while no transaction is open. *)
LEMMA NobodyHolds ==
  ASSUME IInv, NEW d \in Conns, tx[d] = Nil
  PROVE  ~At(d, "update") /\ ~At(d, "conditional") /\ ~At(d, "commit")
<1>1. committed # Nil /\ committed \in Database
  BY DEF IInv, TypeOK, Database
<1>2. ASSUME At(d, "commit") PROVE FALSE
  <2>1. tx[d] = [committed EXCEPT ![call[d].run] = call[d].expected + 1]
    BY <1>2 DEF IInv, Holds
  <2>2. call[d] \in [step : Steps, run : RunIds, expected : Nat]
    BY <1>2, CallFields DEF IInv, At
  <2>3. [committed EXCEPT ![call[d].run] = call[d].expected + 1] \in Database
    BY <1>1, <2>2 DEF Database
  <2> QED
    BY <2>1, <2>3 DEF Database
<1> QED
  BY <1>1, <1>2 DEF IInv, Holds

(* All the connections that hold something are the one with the transaction. *)
LEMMA OthersHoldNothing ==
  ASSUME IInv, NEW c \in Conns, tx[c] # Nil, NEW d \in Conns, d # c, call'[d] = call[d]
  PROVE  tx[d] = Nil /\ Holds(d)'
<1>1. tx[d] = Nil
  BY DEF IInv, OneTransaction
<1> QED
  BY <1>1, NobodyHolds DEF Holds, At

(* An empty database with no connection in use satisfies it. *)
LEMMA InitEstablishes == Init => IInv
BY DEF Init, IInv, TypeOK, Database, Call, OneTransaction, Holds, At, Free

(* INSERT. *)
LEMMA CreateRunKeeps ==
  ASSUME IInv, NEW c \in Conns, NEW r \in RunIds, CreateRun(c, r)
  PROVE  IInv'
<1>0. TypeOK /\ At(c, "free")
  BY DEF IInv, CreateRun
<1>1. PICK a \in {"done", "error"} : Answer(c, a)
  BY DEF CreateRun
<1>2. /\ call' \in [Conns -> Call] /\ call'[c] = Free
      /\ \A d \in Conns : d # c => call'[d] = call[d]
      /\ answer' \in [Conns -> {Nil, "done", "conditional", "error"}]
  BY <1>0, <1>1, AnswerFrees
<1>3. interruptions' \in Nat
  BY <1>0 DEF CreateRun, Interrupted, TypeOK
<1>4. CASE tx[c] # Nil /\ tx' = [tx EXCEPT ![c][r] = 0] /\ UNCHANGED committed
  <2>1. tx[c] \in Database
    BY <1>0, <1>4 DEF TypeOK
  <2>2. tx' = [tx EXCEPT ![c] = [tx[c] EXCEPT ![r] = 0]] /\ [tx[c] EXCEPT ![r] = 0] \in Database
    BY <1>4, <2>1 DEF Database
  <2>3. TypeOK'
    BY <1>0, <1>2, <1>3, <1>4, <2>2 DEF TypeOK
  <2>4. OneTransaction'
    BY <1>0, <1>4, <2>2 DEF IInv, OneTransaction, TypeOK
  <2>5. \A d \in Conns : Holds(d)'
    BY <1>2, <1>4, HoldsNothing, OthersHoldNothing
  <2> QED
    BY <2>3, <2>4, <2>5 DEF IInv
<1>5. CASE ~Locked /\ committed' = [committed EXCEPT ![r] = 0] /\ UNCHANGED tx
  <2>1. TypeOK'
    BY <1>0, <1>2, <1>3, <1>5 DEF TypeOK, Database
  <2>2. \A d \in Conns : tx[d] = Nil
    BY <1>5 DEF Locked
  <2>3. ASSUME NEW d \in Conns PROVE Holds(d)'
    <3>1. CASE d = c
      BY <3>1, <1>2, HoldsNothing
    <3>2. CASE d # c
      BY <3>2, <1>2, <2>2, NobodyHolds DEF Holds, At
    <3> QED
      BY <3>1, <3>2
  <2> QED
    BY <1>5, <2>1, <2>3 DEF IInv, OneTransaction
<1>6. CASE UNCHANGED <<committed, tx>>
  <2>1. ASSUME NEW d \in Conns PROVE Holds(d)'
    <3>1. CASE d = c
      BY <3>1, <1>2, HoldsNothing
    <3>2. CASE d # c
      BY <3>2, <1>2, <1>6, HoldsKept DEF IInv
    <3> QED
      BY <3>1, <3>2
  <2> QED
    BY <1>0, <1>2, <1>3, <1>6, <2>1 DEF IInv, TypeOK, OneTransaction
<1> QED
  BY <1>4, <1>5, <1>6 DEF CreateRun, Insert

(* A caller sends the version it has read. *)
LEMMA RequestKeeps ==
  ASSUME IInv, NEW c \in Conns, NEW r \in RunIds, Request(c, r)
  PROVE  IInv'
<1>0. TypeOK /\ At(c, "free")
  BY DEF IInv, Request
<1>1. PICK d \in Conns :
        /\ Seen(d)[r] \in 0 .. MaxVersion - 1
        /\ call' = [call EXCEPT ![c] = [step |-> "begin", run |-> r, expected |-> Seen(d)[r]]]
  BY DEF Request
<1>2. call' \in [Conns -> Call] /\ call'[c].step = "begin"
  BY <1>0, <1>1 DEF TypeOK, Call, Steps
<1>3. TypeOK'
  BY <1>0, <1>2 DEF TypeOK, Request
<1>4. ASSUME NEW e \in Conns PROVE Holds(e)'
  <2>1. CASE e = c
    BY <2>1, <1>2, HoldsNothing
  <2>2. CASE e # c
    BY <2>2, <1>0, <1>1, HoldsKept DEF IInv, TypeOK, Request
  <2> QED
    BY <2>1, <2>2
<1> QED
  BY <1>3, <1>4 DEF IInv, OneTransaction, Request

(* BEGIN IMMEDIATE. *)
LEMMA BeginKeeps ==
  ASSUME IInv, NEW c \in Conns, Begin(c)
  PROVE  IInv'
<1>0. TypeOK /\ At(c, "begin") /\ ~At(c, "free") /\ committed' = committed
  BY DEF IInv, Begin, At
<1>1. CASE ~Locked /\ tx' = Opened(c) /\ Goto(c, "update") /\ UNCHANGED interruptions
  <2>1. /\ call' \in [Conns -> Call] /\ call'[c].step = "update" /\ answer' = answer
        /\ \A d \in Conns : d # c => call'[d] = call[d]
    BY <1>0, <1>1, GotoKeeps DEF Steps
  <2>2. \A d \in Conns : tx[d] = Nil
    BY <1>1 DEF Locked
  <2>3. tx'[c] = committed /\ \A d \in Conns : d # c => tx'[d] = Nil
    BY <1>0, <1>1, <2>2 DEF Opened, TypeOK
  <2>4. TypeOK'
    BY <1>0, <1>1, <2>1 DEF TypeOK, Opened
  <2>5. ASSUME NEW d \in Conns PROVE Holds(d)'
    <3>1. CASE d = c
      BY <3>1, <1>0, <2>1, <2>3 DEF Holds, At
    <3>2. CASE d # c
      BY <3>2, <2>1, <2>2, NobodyHolds DEF Holds, At
    <3> QED
      BY <3>1, <3>2
  <2> QED
    BY <2>3, <2>4, <2>5 DEF IInv, OneTransaction
<1>2. CASE /\ Answer(c, "error") /\ interruptions' \in Nat
           /\ tx' = tx \/ (~Locked /\ tx' = Opened(c))
  <2>1. /\ call' \in [Conns -> Call] /\ call'[c] = Free
        /\ \A d \in Conns : d # c => call'[d] = call[d]
        /\ answer' \in [Conns -> {Nil, "done", "conditional", "error"}]
    BY <1>0, <1>2, AnswerFrees
  <2>2. TypeOK' /\ OneTransaction'
    <3>1. CASE tx' = tx
      BY <3>1, <1>0, <1>2, <2>1 DEF IInv, TypeOK, OneTransaction
    <3>2. CASE ~Locked /\ tx' = Opened(c)
      BY <3>2, <1>0, <1>2, <2>1 DEF TypeOK, OneTransaction, Opened, Locked
    <3> QED
      BY <3>1, <3>2, <1>2
  <2>3. ASSUME NEW d \in Conns PROVE Holds(d)'
    <3>1. CASE d = c
      BY <3>1, <2>1, HoldsNothing
    <3>2. CASE d # c
      <4>1. tx'[d] = tx[d]
        BY <3>2, <1>0, <1>2 DEF Opened, TypeOK
      <4> QED
        BY <3>2, <4>1, <1>0, <2>1, HoldsKept DEF IInv
    <3> QED
      BY <3>1, <3>2
  <2> QED
    BY <2>2, <2>3 DEF IInv
<1> QED
  BY <1>0, <1>1, <1>2 DEF Begin, Interrupted, TypeOK

(* The UPDATE. *)
LEMMA UpdateKeeps ==
  ASSUME IInv, NEW c \in Conns, Update(c)
  PROVE  IInv'
<1>0. TypeOK /\ At(c, "update") /\ ~At(c, "free") /\ tx[c] # Nil /\ committed' = committed
  BY DEF IInv, Update, At
<1>1. call[c] \in [step : Steps, run : RunIds, expected : Nat] /\ tx[c] = committed
  BY <1>0, CallFields DEF IInv, Holds
<1>2. ASSUME NEW s \in {"commit", "conditional", "error"}, Goto(c, s), interruptions' \in Nat,
             NEW new \in Database, tx' = [tx EXCEPT ![c] = new],
             s = "conditional" =>
               new = committed /\ committed[call[c].run] # call[c].expected,
             s = "commit" =>
               /\ committed[call[c].run] = call[c].expected
               /\ new = [committed EXCEPT ![call[c].run] = call[c].expected + 1]
      PROVE  IInv'
  <2>1. /\ call' \in [Conns -> Call] /\ call'[c].step = s /\ call'[c].run = call[c].run
        /\ call'[c].expected = call[c].expected /\ answer' = answer
        /\ \A d \in Conns : d # c => call'[d] = call[d]
    BY <1>0, <1>2, GotoKeeps DEF Steps
  <2>2. tx'[c] = new /\ \A d \in Conns : d # c => tx'[d] = tx[d]
    BY <1>0, <1>2 DEF TypeOK
  <2>3. TypeOK'
    BY <1>0, <1>2, <2>1 DEF TypeOK
  <2>4. OneTransaction'
    BY <1>0, <2>2 DEF IInv, OneTransaction
  <2>5. Holds(c)'
    BY <1>0, <1>2, <2>1, <2>2 DEF Holds, At
  <2>6. \A d \in Conns : d # c => Holds(d)'
    BY <1>0, <2>1, OthersHoldNothing
  <2> QED
    BY <2>3, <2>4, <2>5, <2>6 DEF IInv
<1>3. committed \in Database
  BY <1>0 DEF TypeOK
<1>4. tx = [tx EXCEPT ![c] = committed]
  BY <1>0, <1>1 DEF TypeOK
<1>5. CASE /\ tx[c][call[c].run] = call[c].expected
           /\ tx' = [tx EXCEPT ![c][call[c].run] = @ + 1]
  <2> DEFINE new == [committed EXCEPT ![call[c].run] = call[c].expected + 1]
  <2>1. new \in Database
    BY <1>1, <1>3 DEF Database
  <2>2. tx' = [tx EXCEPT ![c] = new]
    BY <1>1, <1>5
  <2>3. \/ Goto(c, "commit") /\ interruptions' = interruptions
        \/ Goto(c, "error") /\ interruptions' = interruptions + 1
    BY <1>0, <1>5 DEF Update, Interrupted
  <2>4. interruptions' \in Nat
    BY <1>0, <2>3 DEF TypeOK
  <2> HIDE DEF new
  <2>5. CASE Goto(c, "commit")
    BY <1>1, <1>2, <1>5, <2>1, <2>2, <2>4, <2>5 DEF new
  <2>6. CASE Goto(c, "error")
    BY <1>2, <2>1, <2>2, <2>4, <2>6
  <2> QED
    BY <2>3, <2>5, <2>6
<1>6. CASE Goto(c, "conditional") /\ tx[c][call[c].run] # call[c].expected
           /\ UNCHANGED <<tx, interruptions>>
  BY <1>0, <1>1, <1>2, <1>3, <1>4, <1>6 DEF TypeOK
<1>7. CASE Goto(c, "error") /\ tx' = tx /\ interruptions' = interruptions + 1
  BY <1>0, <1>2, <1>3, <1>4, <1>7 DEF TypeOK
<1> QED
  BY <1>5, <1>6, <1>7 DEF Update, Interrupted

(* ROLLBACK. *)
LEMMA RollbackKeeps ==
  ASSUME IInv, NEW c \in Conns, Rollback(c)
  PROVE  IInv'
<1>0. TypeOK /\ call[c].step \in {"conditional", "error"}
      /\ UNCHANGED <<committed, interruptions>> /\ tx' = [tx EXCEPT ![c] = Nil]
  BY DEF IInv, Rollback, At
<1>1. /\ call' \in [Conns -> Call] /\ call'[c] = Free
      /\ \A d \in Conns : d # c => call'[d] = call[d]
      /\ answer' \in [Conns -> {Nil, "done", "conditional", "error"}]
  BY <1>0, AnswerFrees DEF Rollback
<1>2. \A d \in Conns : d # c => Holds(d)'
  BY <1>0, <1>1, HoldsKept DEF IInv, TypeOK
<1>3. TypeOK' /\ OneTransaction'
  BY <1>0, <1>1 DEF IInv, TypeOK, OneTransaction
<1> QED
  BY <1>1, <1>2, <1>3, HoldsNothing DEF IInv

(* COMMIT. *)
LEMMA CommitKeeps ==
  ASSUME IInv, NEW c \in Conns, Commit(c)
  PROVE  IInv'
<1>0. TypeOK /\ At(c, "commit") /\ interruptions' \in Nat
  BY DEF IInv, Commit, Interrupted, TypeOK
<1>1. tx[c] # Nil /\ tx[c] \in Database
  BY <1>0, NobodyHolds DEF TypeOK
<1>2. PICK a \in {"done", "error"} : Answer(c, a)
  BY DEF Commit
<1>3. /\ call' \in [Conns -> Call] /\ call'[c] = Free
      /\ \A d \in Conns : d # c => call'[d] = call[d]
      /\ answer' \in [Conns -> {Nil, "done", "conditional", "error"}]
  BY <1>0, <1>2, AnswerFrees
<1>4. \A d \in Conns : Holds(d)'
  BY <1>1, <1>3, HoldsNothing, OthersHoldNothing
<1>5. TypeOK' /\ OneTransaction'
  <2>1. CASE committed' = tx[c] /\ tx' = [tx EXCEPT ![c] = Nil]
    BY <2>1, <1>0, <1>1, <1>3 DEF IInv, TypeOK, OneTransaction
  <2>2. CASE UNCHANGED <<committed, tx>>
    BY <2>2, <1>0, <1>3 DEF IInv, TypeOK, OneTransaction
  <2> QED
    BY <2>1, <2>2 DEF Commit
<1> QED
  BY <1>4, <1>5 DEF IInv

(* The pool drops a connection. *)
LEMMA DropKeeps ==
  ASSUME IInv, NEW c \in Conns, Drop(c)
  PROVE  IInv'
<1>0. TypeOK /\ call[c] = Free /\ tx' = [tx EXCEPT ![c] = Nil]
      /\ UNCHANGED <<committed, call, answer, interruptions>>
  BY CallFields DEF IInv, Drop
<1>1. \A d \in Conns : d # c => Holds(d)'
  BY <1>0, HoldsKept DEF IInv, TypeOK
<1>2. Holds(c)'
  BY <1>0, HoldsNothing
<1> QED
  BY <1>0, <1>1, <1>2 DEF IInv, TypeOK, OneTransaction

(* A process dies. *)
LEMMA CrashKeeps ==
  ASSUME IInv, NEW p \in Processes, Crash(p)
  PROVE  IInv'
<1>1. ASSUME NEW d \in Conns PROVE Holds(d)'
  <2>1. CASE Process(d) = p
    BY <2>1, HoldsNothing DEF Crash
  <2>2. CASE Process(d) # p
    BY <2>2, HoldsKept DEF Crash, IInv
  <2> QED
    BY <2>1, <2>2
<1>2. TypeOK' /\ OneTransaction'
  BY DEF IInv, TypeOK, OneTransaction, Crash, Call
<1> QED
  BY <1>1, <1>2 DEF IInv

-----------------------------------------------------------------------------
(* Every step keeps the inductive invariant. *)
LEMMA NextKeeps == IInv /\ [Next]_vars => IInv'
<1> SUFFICES ASSUME IInv, [Next]_vars PROVE IInv'
  OBVIOUS
<1>1. ASSUME NEW c \in Conns, NEW r \in RunIds, CreateRun(c, r) \/ Request(c, r)
      PROVE  IInv'
  BY <1>1, CreateRunKeeps, RequestKeeps
<1>2. ASSUME NEW c \in Conns, Immediate(c) \/ Drop(c) PROVE IInv'
  BY <1>2, BeginKeeps, UpdateKeeps, RollbackKeeps, CommitKeeps, DropKeeps DEF Immediate
<1>3. ASSUME NEW p \in Processes, Crash(p) PROVE IInv'
  BY <1>3, CrashKeeps
<1>4. CASE UNCHANGED vars
  BY <1>4 DEF vars, IInv, TypeOK, OneTransaction, Holds, At
<1> QED
  BY <1>1, <1>2, <1>3, <1>4 DEF Next

(* The table's transactions: at most one is open, and the one of a call under way
   is what the database is, or will be when the call commits. *)
THEOREM TransactionsAreConsistent == Spec => []IInv
BY InitEstablishes, NextKeeps, PTL DEF Spec

-----------------------------------------------------------------------------
(* A step of CommitsAreStatements. *)
Statement ==
  committed' # committed =>
    \E c \in Conns, r \in RunIds :
      \/ /\ committed[r] = Nil
         /\ committed' = [committed EXCEPT ![r] = 0]
      \/ /\ At(c, "commit") /\ call[c].run = r
         /\ committed[r] = call[c].expected
         /\ committed' = [committed EXCEPT ![r] = call[c].expected + 1]

(* Only an INSERT and a COMMIT change the database. *)
LEMMA StepIsAStatement == IInv /\ [Next]_vars => Statement
<1> SUFFICES ASSUME IInv, [Next]_vars, committed' # committed
             PROVE  \E c \in Conns, r \in RunIds :
                      \/ /\ committed[r] = Nil
                         /\ committed' = [committed EXCEPT ![r] = 0]
                      \/ /\ At(c, "commit") /\ call[c].run = r
                         /\ committed[r] = call[c].expected
                         /\ committed' = [committed EXCEPT ![r] = call[c].expected + 1]
  BY DEF Statement
<1>1. ASSUME NEW c \in Conns, NEW r \in RunIds, CreateRun(c, r)
      PROVE  committed[r] = Nil /\ committed' = [committed EXCEPT ![r] = 0]
  <2>1. ~Locked /\ committed' = [committed EXCEPT ![r] = 0]
    BY <1>1 DEF CreateRun, Insert
  <2> QED
    BY <1>1, <2>1 DEF CreateRun, Seen, Locked
<1>2. ASSUME NEW c \in Conns, Commit(c)
      PROVE  /\ At(c, "commit") /\ call[c].run \in RunIds
             /\ committed[call[c].run] = call[c].expected
             /\ committed' = [committed EXCEPT ![call[c].run] = call[c].expected + 1]
  <2>1. At(c, "commit") /\ ~At(c, "free") /\ committed' = tx[c]
    BY <1>2 DEF Commit, At
  <2> QED
    BY <2>1, CallFields DEF IInv, Holds
<1>3. (\E c \in Conns : (\E r \in RunIds : CreateRun(c, r)) \/ Commit(c))
  BY DEF Next, Immediate, Request, Begin, Update, Rollback, Drop, Crash, vars
<1> QED
  BY <1>1, <1>2, <1>3

(* A step of AnswersAreTrue. *)
TrueAnswer ==
  \A c \in Conns : call[c] # Free /\ call'[c] = Free =>
    /\ answer'[c] = "done" => committed'[call[c].run] = call[c].expected + 1
    /\ answer'[c] = "conditional" => committed'[call[c].run] # call[c].expected

(* Of the steps that end a call, COMMIT alone answers done and ROLLBACK alone
   answers that the condition failed. *)
LEMMA StepAnswersTruly == IInv /\ [Next]_vars => TrueAnswer
<1> SUFFICES ASSUME IInv, [Next]_vars, NEW c \in Conns, call[c] # Free, call'[c] = Free
             PROVE  /\ answer'[c] = "done" =>
                         committed'[call[c].run] = call[c].expected + 1
                    /\ answer'[c] = "conditional" =>
                         committed'[call[c].run] # call[c].expected
  BY DEF TrueAnswer
<1>0. TypeOK /\ ~At(c, "free")
  BY CallFields DEF IInv
<1>1. call[c] \in [step : Steps, run : RunIds, expected : Nat]
  BY <1>0, CallFields
<1>2. ASSUME NEW d \in Conns,
             (\E r \in RunIds : CreateRun(d, r) \/ Request(d, r)) \/ Update(d) \/ Drop(d)
      PROVE  FALSE
  <2>1. CASE Update(d)
    <3>1. ~At(d, "free") /\ \E s \in {"commit", "conditional", "error"} : Goto(d, s)
      BY <2>1 DEF Update, At
    <3>2. call'[d].step # "free" /\ \A e \in Conns : e # d => call'[e] = call[e]
      BY <1>0, <3>1, GotoKeeps DEF Steps
    <3> QED
      BY <3>2 DEF Free
  <2>2. CASE \E r \in RunIds : CreateRun(d, r)
    <3>1. d # c /\ \E a \in {"done", "error"} : Answer(d, a)
      BY <1>0, <2>2 DEF CreateRun
    <3> QED
      BY <1>0, <3>1 DEF Answer, TypeOK
  <2>3. CASE \E r \in RunIds : Request(d, r)
    BY <1>0, <2>3 DEF Request, TypeOK
  <2>4. CASE Drop(d)
    BY <2>4 DEF Drop
  <2> QED
    BY <1>2, <2>1, <2>2, <2>3, <2>4
<1>3. ASSUME NEW d \in Conns, Begin(d) PROVE answer'[c] = "error"
  <2>1. ~At(d, "free") /\ (Goto(d, "update") \/ Answer(d, "error"))
    BY <1>3 DEF Begin, At
  <2>2. CASE Goto(d, "update")
    BY <1>0, <2>1, <2>2, GotoKeeps DEF Steps, Free
  <2>3. CASE Answer(d, "error")
    BY <1>0, <2>3 DEF Answer, TypeOK
  <2> QED
    BY <2>1, <2>2, <2>3
<1>4. ASSUME NEW d \in Conns, Rollback(d)
      PROVE  answer'[c] = "error" \/
               (answer'[c] = "conditional" /\ committed'[call[c].run] # call[c].expected)
  <2>1. d = c
    BY <1>0, <1>4 DEF Rollback, Answer, TypeOK
  <2>2. answer'[c] = call[c].step /\ committed' = committed
    BY <1>0, <1>4, <2>1 DEF Rollback, Answer, TypeOK
  <2>3. At(c, "error") \/ At(c, "conditional")
    BY <1>4, <2>1 DEF Rollback
  <2> QED
    BY <2>2, <2>3 DEF IInv, Holds, At
<1>5. ASSUME NEW d \in Conns, Commit(d)
      PROVE  answer'[c] = "error" \/
               (answer'[c] = "done" /\ committed'[call[c].run] = call[c].expected + 1)
  <2>1. d = c
    BY <1>0, <1>5 DEF Commit, Answer, TypeOK
  <2>2. CASE Answer(c, "error")
    BY <1>0, <2>2 DEF Answer, TypeOK
  <2>3. CASE Answer(c, "done") /\ committed' = tx[c]
    <3>1. answer'[c] = "done"
      BY <1>0, <2>3 DEF Answer, TypeOK
    <3>2. At(c, "commit")
      BY <1>5, <2>1 DEF Commit
    <3> QED
      BY <1>0, <1>1, <2>3, <3>1, <3>2 DEF IInv, Holds, TypeOK, Database
  <2> QED
    BY <1>5, <2>1, <2>2, <2>3 DEF Commit
<1>6. ASSUME NEW p \in Processes, Crash(p) PROVE answer'[c] = Nil
  BY <1>6 DEF Crash
<1>7. CASE UNCHANGED vars
  BY <1>7 DEF vars
<1> QED
  BY <1>2, <1>3, <1>4, <1>5, <1>6, <1>7 DEF Next, Immediate

(* The database changes by one statement at a time, and no update is lost,
   whatever is interrupted and whichever processes die. *)
THEOREM DatabaseChangesByStatements == Spec => CommitsAreStatements
<1>1. IInv /\ [Next]_vars => [Statement]_vars
  BY StepIsAStatement
<1> QED
  BY <1>1, TransactionsAreConsistent, PTL DEF Spec, CommitsAreStatements, Statement

(* What a conditional statement answers is true of the database. *)
THEOREM CallsAnswerTruly == Spec => AnswersAreTrue
<1>1. IInv /\ [Next]_vars => [TrueAnswer]_vars
  BY StepAnswersTruly
<1> QED
  BY <1>1, TransactionsAreConsistent, PTL DEF Spec, AnswersAreTrue, TrueAnswer

-----------------------------------------------------------------------------
(* NoStrayTransaction in its inductive form: a call that has not begun has no
   transaction either, and one that is about to roll back after an error has been
   interrupted. *)
NoStrayBefore ==
  \A c \in Conns :
    tx[c] # Nil /\ call[c].step \notin {"update", "conditional", "commit"} => interruptions > 0

(* Interruptions are only counted up. *)
LEMMA InterruptionsGrow ==
  ASSUME TypeOK, [Next]_vars PROVE interruptions' >= interruptions
<1>1. interruptions' = interruptions \/ interruptions' = interruptions + 1
  BY DEF Next, vars, Immediate, Interrupted, CreateRun, Request, Begin, Update, Rollback,
         Commit, Drop, Crash
<1> QED
  BY <1>1 DEF TypeOK

(* Every step keeps it. *)
LEMMA StrayKeeps == IInv /\ NoStrayBefore /\ [Next]_vars => NoStrayBefore'
<1> SUFFICES ASSUME IInv, NoStrayBefore, [Next]_vars, NEW c \in Conns,
                    tx'[c] # Nil, call'[c].step \notin {"update", "conditional", "commit"}
             PROVE  interruptions' > 0
  BY DEF NoStrayBefore
<1>0. TypeOK /\ interruptions' >= interruptions /\ interruptions \in Nat /\ interruptions' \in Nat
      /\ (interruptions > 0 => interruptions' > 0)
  <2>1. TypeOK /\ interruptions \in Nat /\ interruptions' \in Nat
    BY NextKeeps DEF IInv, TypeOK
  <2>2. interruptions' >= interruptions
    BY <2>1, InterruptionsGrow
  <2> QED
    BY <2>1, <2>2
<1>1. CASE tx[c] # Nil /\ call[c].step \notin {"update", "conditional", "commit"}
  BY <1>0, <1>1 DEF NoStrayBefore
<1>2. CASE Interrupted
  BY <1>0, <1>2 DEF Interrupted
<1>3. CASE ~Interrupted /\ (tx[c] = Nil \/ call[c].step \in {"update", "conditional", "commit"})
  <2>1. ASSUME NEW d \in Conns, NEW r \in RunIds, CreateRun(d, r) PROVE FALSE
    <3>1. d # c => tx'[c] = tx[c] /\ call'[c] = call[c]
      BY <1>0, <2>1 DEF CreateRun, Insert, Answer, TypeOK
    <3>2. d = c => At(c, "free") /\ (tx'[c] # Nil => tx[c] # Nil)
      BY <1>0, <2>1 DEF CreateRun, Insert, TypeOK
    <3> QED
      BY <1>3, <3>1, <3>2 DEF At
  <2>2. ASSUME NEW d \in Conns, NEW r \in RunIds, Request(d, r) PROVE FALSE
    BY <1>0, <1>3, <2>2 DEF Request, At, TypeOK
  <2>3. ASSUME NEW d \in Conns, Begin(d) PROVE FALSE
    <3>1. CASE ~Locked /\ tx' = Opened(d) /\ Goto(d, "update")
      <4>1. ~At(d, "free")
        BY <2>3 DEF Begin, At
      <4>2. call'[d].step = "update" /\ \A e \in Conns : e # d => call'[e] = call[e]
        BY <1>0, <3>1, <4>1, GotoKeeps DEF Steps
      <4>3. c # d => tx'[c] = tx[c]
        BY <1>0, <3>1 DEF Opened, TypeOK
      <4> QED
        BY <1>3, <4>2, <4>3
    <3>2. CASE Locked /\ Answer(d, "error") /\ tx' = tx
      BY <1>0, <1>3, <2>3, <3>2 DEF Begin, Answer, TypeOK, At
    <3> QED
      BY <1>3, <2>3, <3>1, <3>2 DEF Begin
  <2>4. ASSUME NEW d \in Conns, Update(d) PROVE FALSE
    <3>1. /\ ~At(d, "free")
          /\ Goto(d, "commit") \/ Goto(d, "conditional")
          /\ tx' = tx \/ tx' = [tx EXCEPT ![d][call[d].run] = @ + 1]
      BY <1>3, <2>4 DEF Update, At
    <3>2. /\ call'[d].step \in {"commit", "conditional"}
          /\ \A e \in Conns : e # d => call'[e] = call[e]
      BY <1>0, <3>1, GotoKeeps DEF Steps
    <3>3. c # d => tx'[c] = tx[c]
      BY <1>0, <3>1 DEF TypeOK
    <3> QED
      BY <1>3, <3>2, <3>3
  <2>5. ASSUME NEW d \in Conns, Rollback(d) \/ Drop(d) PROVE FALSE
    <3>1. tx'[d] = Nil /\ (c # d => tx'[c] = tx[c] /\ call'[c] = call[c])
      BY <1>0, <2>5 DEF Rollback, Drop, Answer, TypeOK
    <3> QED
      BY <1>3, <3>1
  <2>6. ASSUME NEW d \in Conns, Commit(d) PROVE FALSE
    <3>1. tx'[d] = Nil /\ (c # d => tx'[c] = tx[c] /\ call'[c] = call[c])
      BY <1>0, <1>3, <2>6 DEF Commit, Answer, TypeOK
    <3> QED
      BY <1>3, <3>1
  <2>7. ASSUME NEW p \in Processes, Crash(p) PROVE FALSE
    BY <1>0, <1>3, <2>7 DEF Crash, TypeOK
  <2>8. CASE UNCHANGED vars
    BY <1>3, <2>8 DEF vars
  <2> QED
    BY <2>1, <2>2, <2>3, <2>4, <2>5, <2>6, <2>7, <2>8 DEF Next, Immediate
<1> QED
  BY <1>1, <1>2, <1>3

(* Only an interrupted statement leaves its transaction open on a connection that
   goes back to the pool. *)
THEOREM TransactionsEndWithTheirCalls == Spec => []NoStrayTransaction
<1>1. Init => NoStrayBefore
  BY DEF Init, NoStrayBefore
<1>2. NoStrayBefore => NoStrayTransaction
  BY DEF NoStrayBefore, NoStrayTransaction, At
<1> QED
  BY <1>1, <1>2, StrayKeeps, TransactionsAreConsistent, PTL DEF Spec

=============================================================================
