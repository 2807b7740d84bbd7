----------------------------- MODULE SQLiteTable -----------------------------
(***************************************************************************)
(* The runs table in SQLite: connections, transactions and the write lock  *)
(* below the statements that RunRepository takes for atomic.               *)
(*                                                                         *)
(* Each process has a pool of connections. A conditional statement takes   *)
(* one for itself, begins an IMMEDIATE transaction on it, updates and      *)
(* commits; an INSERT and the queries use whichever is free. The           *)
(* connection goes back to the pool as it is, with a transaction that is   *)
(* still open too: one that nobody will end ("stray" below) keeps the      *)
(* write lock until its connection is dropped or its process dies.         *)
(*                                                                         *)
(* A row is its version. What a caller expects of a row is a version it    *)
(* has read, perhaps long ago, perhaps on a connection with a stray        *)
(* transaction. A statement finds any newer version changed, which is      *)
(* stricter than a WHERE clause that does not look at what has changed (a  *)
(* renewal, for UpdatePhase); no property is easier for it.                *)
(***************************************************************************)
EXTENDS Integers

CONSTANTS
  Conns,             \* pairs: a process and one of its connections
  RunIds,
  MaxVersion,        \* bound on the changes of a row
  MaxInterruptions,  \* bound on the statements that are interrupted
  Nil

ASSUME SQLiteTableAssumption ==
  /\ {MaxVersion, MaxInterruptions} \subseteq Nat
  /\ Nil \notin Nat \cup {"done", "conditional", "error"}
  /\ Nil \notin [RunIds -> Nat \cup {Nil}]

VARIABLES
  committed,      \* the database: a version of each run, or Nil
  tx,             \* connection -> the database as its open transaction sees it, or Nil
  call,           \* connection -> the call that has it: its step, run and expected version
  answer,         \* connection -> what its latest call has returned, Nil while it goes on
  interruptions   \* how many statements have been interrupted

vars == <<committed, tx, call, answer, interruptions>>

Process(c) == c[1]
Processes == {Process(c) : c \in Conns}
Free == [step |-> "free"]

Init ==
  /\ committed = [r \in RunIds |-> Nil]
  /\ tx = [c \in Conns |-> Nil]
  /\ call = [c \in Conns |-> Free]
  /\ answer = [c \in Conns |-> Nil]
  /\ interruptions = 0

At(c, step) == call[c].step = step

Goto(c, step) ==
  call' = [call EXCEPT ![c].step = step] /\ UNCHANGED answer

(* conn.Close: the call returns and its connection is free. *)
Answer(c, what) ==
  call' = [call EXCEPT ![c] = Free] /\ answer' = [answer EXCEPT ![c] = what]

Locked == \E c \in Conns : tx[c] # Nil

(* What a query on this connection returns. *)
Seen(c) == IF tx[c] # Nil THEN tx[c] ELSE committed

(* An interrupted statement reports an error, with or without its effect. *)
Interrupted == interruptions < MaxInterruptions /\ interruptions' = interruptions + 1

-----------------------------------------------------------------------------
(* CreateRun: one INSERT, in the stray transaction if the connection has one. *)
Insert(c, r) ==
  \/ /\ tx[c] # Nil
     /\ tx' = [tx EXCEPT ![c][r] = 0] /\ UNCHANGED committed
  \/ /\ ~Locked
     /\ committed' = [committed EXCEPT ![r] = 0] /\ UNCHANGED tx

CreateRun(c, r) ==
  /\ At(c, "free") /\ Seen(c)[r] = Nil
  /\ \/ /\ Insert(c, r)
        /\ \/ Answer(c, "done") /\ UNCHANGED interruptions
           \/ Answer(c, "error") /\ Interrupted
     \/ /\ Locked /\ tx[c] = Nil
        /\ Answer(c, "error")
        /\ UNCHANGED <<committed, tx, interruptions>>

(* A caller that has read the run on some connection of its process asks for a
   change; what it read may have changed by the time it has a transaction. *)
Request(c, r) ==
  /\ At(c, "free")
  /\ \E d \in Conns :
       /\ Process(d) = Process(c) /\ Seen(d)[r] \in 0 .. MaxVersion - 1
       /\ call' = [call EXCEPT ![c] = [step |-> "begin", run |-> r, expected |-> Seen(d)[r]]]
  /\ answer' = [answer EXCEPT ![c] = Nil]
  /\ UNCHANGED <<committed, tx, interruptions>>

-----------------------------------------------------------------------------
(* immediate *)

Opened(c) == [tx EXCEPT ![c] = committed]

(* Mutant: the error of BEGIN is not looked at. *)
BeginRegardless(c) ==
  /\ At(c, "begin")
  /\ Goto(c, "update")
  /\ tx' = IF Locked THEN tx ELSE Opened(c)
  /\ UNCHANGED <<committed, interruptions>>

(* BEGIN IMMEDIATE takes the write lock. It fails inside a stray transaction, and
   when somebody else has the lock for longer than the busy timeout, which is
   only set on the connection that ran initialize: the others do not wait. *)
Begin(c) ==
  /\ At(c, "begin")
  /\ \/ /\ ~Locked
        /\ tx' = Opened(c) /\ Goto(c, "update")
        /\ UNCHANGED interruptions
     \/ /\ Locked
        /\ Answer(c, "error")
        /\ UNCHANGED <<tx, interruptions>>
     \/ /\ Interrupted
        /\ tx' \in {tx} \cup (IF Locked THEN {} ELSE {Opened(c)})
        /\ Answer(c, "error")
  /\ UNCHANGED committed

(* The UPDATE with its condition, and the row read back. *)
Update(c) ==
  LET r == call[c].run IN
  /\ At(c, "update") /\ tx[c] # Nil
  /\ \/ /\ tx[c][r] = call[c].expected
        /\ tx' = [tx EXCEPT ![c][r] = @ + 1]
        /\ Goto(c, "commit")
        /\ UNCHANGED interruptions
     \/ /\ tx[c][r] # call[c].expected
        /\ Goto(c, "conditional")
        /\ UNCHANGED <<tx, interruptions>>
     \/ /\ Interrupted
        /\ tx' \in {tx} \cup
             (IF tx[c][r] = call[c].expected THEN {[tx EXCEPT ![c][r] = @ + 1]} ELSE {})
        /\ Goto(c, "error")
  /\ UNCHANGED committed

(* Mutant: an error of the statement returns at once. *)
ReturnWithoutRollback(c) ==
  /\ At(c, "conditional") \/ At(c, "error")
  /\ Answer(c, call[c].step)
  /\ UNCHANGED <<committed, tx, interruptions>>

(* ROLLBACK does not use the caller's context. *)
Rollback(c) ==
  /\ At(c, "conditional") \/ At(c, "error")
  /\ tx' = [tx EXCEPT ![c] = Nil]
  /\ Answer(c, call[c].step)
  /\ UNCHANGED <<committed, interruptions>>

(* Mutant: done is answered before the COMMIT. *)
CommitLater(c) ==
  /\ At(c, "commit")
  /\ \/ Interrupted /\ Answer(c, "done") /\ UNCHANGED <<committed, tx>>
     \/ /\ committed' = tx[c] /\ tx' = [tx EXCEPT ![c] = Nil]
        /\ Answer(c, "done") /\ UNCHANGED interruptions

(* After a COMMIT that failed nothing is rolled back. *)
Commit(c) ==
  /\ At(c, "commit")
  /\ \/ /\ committed' = tx[c] /\ tx' = [tx EXCEPT ![c] = Nil]
        /\ \/ Answer(c, "done") /\ UNCHANGED interruptions
           \/ Answer(c, "error") /\ Interrupted
     \/ /\ Interrupted /\ Answer(c, "error")
        /\ UNCHANGED <<committed, tx>>

-----------------------------------------------------------------------------
(* The pool finds that a connection is no longer usable; a process dies and
   another one starts in its place. *)
Drop(c) ==
  /\ At(c, "free") /\ tx[c] # Nil
  /\ tx' = [tx EXCEPT ![c] = Nil]
  /\ UNCHANGED <<committed, call, answer, interruptions>>

Crash(p) ==
  /\ tx' = [c \in Conns |-> IF Process(c) = p THEN Nil ELSE tx[c]]
  /\ call' = [c \in Conns |-> IF Process(c) = p THEN Free ELSE call[c]]
  /\ answer' = [c \in Conns |-> IF Process(c) = p THEN Nil ELSE answer[c]]
  /\ UNCHANGED <<committed, interruptions>>

Immediate(c) == Begin(c) \/ Update(c) \/ Rollback(c) \/ Commit(c)

Next ==
  \/ \E c \in Conns :
       \/ \E r \in RunIds : CreateRun(c, r) \/ Request(c, r)
       \/ Immediate(c) \/ Drop(c)
  \/ \E p \in Processes : Crash(p)

Spec == Init /\ [][Next]_vars

-----------------------------------------------------------------------------
(* Properties *)

(* The database changes by one statement at a time, each applied to the row that
   was the latest, by the call that asked for it and while that call goes on: no
   update is lost, and what a stray transaction has done is never committed
   later, along with somebody else's statement. *)
CommitsAreStatements ==
  [][committed' # committed =>
       \E c \in Conns, r \in RunIds :
         \/ /\ committed[r] = Nil
            /\ committed' = [committed EXCEPT ![r] = 0]
         \/ /\ At(c, "commit") /\ call[c].run = r
            /\ committed[r] = call[c].expected
            /\ committed' = [committed EXCEPT ![r] = call[c].expected + 1]]_vars

(* A conditional statement that is answered done is in the database, and one that
   is answered ErrConditional would not have applied to it: unlike the DynamoDB
   calls, only an error leaves its caller in doubt. *)
AnswersAreTrue ==
  [][\A c \in Conns : call[c] # Free /\ call'[c] = Free =>
       /\ answer'[c] = "done" => committed'[call[c].run] = call[c].expected + 1
       /\ answer'[c] = "conditional" =>
            committed'[call[c].run] # call[c].expected]_vars

(* A transaction only outlives its call after an interruption; in particular a
   statement whose condition fails does not leave one behind. *)
NoStrayTransaction ==
  \A c \in Conns : At(c, "free") /\ tx[c] # Nil => interruptions > 0

=============================================================================
