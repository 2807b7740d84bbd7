------------------------------ MODULE FileLock ------------------------------
(***************************************************************************)
(* The repository lock: a file created with O_EXCL next to a source cache, *)
(* held by whoever created it and broken by anyone who finds that the      *)
(* process named in it is dead.  It keeps the goroutines of all processes  *)
(* of a host apart while they fetch into a cache or add and remove its     *)
(* worktrees.                                                              *)
(*                                                                         *)
(* Each system call is a step of its own.  A file is known by the thread   *)
(* that created it; what its name refers to may be another file by the     *)
(* time a thread acts on what it read.                                     *)
(***************************************************************************)
CONSTANTS
  Threads,      \* pairs: a process and one of its goroutines
  Host,         \* the host of each process
  CrashProne,   \* the processes that may die
  None

Process(t) == t[1]
Processes == DOMAIN Host

ASSUME FileLockAssumption ==
  /\ \A t \in Threads : Process(t) \in Processes
  /\ CrashProne \subseteq Processes
  /\ None \notin Processes
  /\ None \notin [by : Threads, owner : Processes \cup {None}]

VARIABLES
  file,    \* what the lock's path names: None, or who created it and the owner in it
  pc,      \* where each thread is in AcquireFileLock; "failed": it has returned an
           \* error of the file system, with nothing done
  read,    \* the owner each thread has just read: None for none that can be parsed
  late,    \* the threads whose timeout has passed
  dead     \* the processes that have died

lockVars == <<file, pc, read, late, dead>>

GoesTo(t, where) == pc' = [pc EXCEPT ![t] = where]

AtCall(t, where) == pc[t] = where /\ Process(t) \notin dead

LockInit ==
  /\ file = None
  /\ pc = [t \in Threads |-> "idle"]
  /\ read = [t \in Threads |-> None]
  /\ late = {}
  /\ dead = {}

(* The caller's attempt; MkdirAll may fail. *)
Start(t) ==
  /\ AtCall(t, "idle") \/ AtCall(t, "failed")
  /\ GoesTo(t, "open") \/ GoesTo(t, "failed")
  /\ late' = late \ {t}
  /\ UNCHANGED <<file, read, dead>>

(* OpenFile with O_CREATE and O_EXCL. It may fail for another reason than that the
   file exists, whether it exists or not. *)
Open(t) ==
  /\ AtCall(t, "open")
  /\ \/ file = None /\ file' = [by |-> t, owner |-> None] /\ GoesTo(t, "write")
     \/ file # None /\ GoesTo(t, "read") /\ UNCHANGED file
     \/ GoesTo(t, "failed") /\ UNCHANGED file
  /\ UNCHANGED <<read, late, dead>>

(* The owner goes to the file that was created, whatever the path names now;
   if that fails, what the path names is removed, or not even that. *)
WriteOwner(t) ==
  /\ AtCall(t, "write")
  /\ \/ /\ file' = IF file # None /\ file.by = t THEN [file EXCEPT !.owner = Process(t)] ELSE file
        /\ GoesTo(t, "held")
     \/ file' \in {file, None} /\ GoesTo(t, "idle")
  /\ UNCHANGED <<read, late, dead>>

(* staleLock, its first half: a file that is gone or holds no owner yet is
   not taken for stale. *)
ReadOwner(t) ==
  /\ AtCall(t, "read")
  /\ read' = [read EXCEPT ![t] = IF file = None THEN None ELSE file.owner]
  /\ GoesTo(t, "judge")
  /\ UNCHANGED <<file, late, dead>>

(* Mutants: a file without an owner is stale; only foreign owners are. *)
StaleUnlessAlive(t) == read[t] = None \/ read[t] \in dead
StaleForeign(t) == read[t] # None /\ Host[read[t]] # Host[Process(t)] /\ read[t] \in dead

(* staleLock, its second half: whether a process lives can be told of this host only. *)
Stale(t) == read[t] # None /\ Host[read[t]] = Host[Process(t)] /\ read[t] \in dead

(* Mutant: the timeout is not looked at. *)
JudgePatiently(t) ==
  /\ AtCall(t, "judge")
  /\ GoesTo(t, IF Stale(t) THEN "break" ELSE "open")
  /\ read' = [read EXCEPT ![t] = None]
  /\ UNCHANGED <<file, late, dead>>

Judge(t) ==
  /\ AtCall(t, "judge")
  /\ GoesTo(t, IF Stale(t) THEN "break" ELSE IF t \in late THEN "idle" ELSE "open")
  /\ read' = [read EXCEPT ![t] = None]
  /\ UNCHANGED <<file, late, dead>>

Break(t) ==
  /\ AtCall(t, "break")
  /\ file' = None
  /\ GoesTo(t, "open")
  /\ UNCHANGED <<read, late, dead>>

(* The error of os.Remove is ignored: the loop starts again, without sleeping
   and without having looked at its deadline. *)
BreakFails(t) ==
  /\ AtCall(t, "break") /\ file # None
  /\ GoesTo(t, "open")
  /\ UNCHANGED <<file, read, late, dead>>

(* When the file cannot be removed its owner has gone and the lock has not. *)
Close(t) ==
  /\ AtCall(t, "held")
  /\ file' \in {file, None}
  /\ GoesTo(t, "idle")
  /\ UNCHANGED <<read, late, dead>>

Acquiring(t) == pc[t] \in {"open", "write", "read", "judge", "break"}

Expire(t) ==
  /\ Acquiring(t) /\ t \notin late
  /\ late' = late \cup {t}
  /\ UNCHANGED <<file, pc, read, dead>>

(* The threads of a process die with it; a file stays as it is. *)
Die(p) ==
  /\ p \in CrashProne \ dead
  /\ dead' = dead \cup {p}
  /\ pc' = [t \in Threads |-> IF Process(t) = p THEN "idle" ELSE pc[t]]
  /\ UNCHANGED <<file, read, late>>

LockStep(t) == Open(t) \/ WriteOwner(t) \/ ReadOwner(t) \/ Judge(t) \/ Break(t) \/ BreakFails(t)

LockNext ==
  \/ \E t \in Threads : Start(t) \/ LockStep(t) \/ Close(t) \/ Expire(t)
  \/ \E p \in Processes : Die(p)

(* Goroutines are scheduled and the minute a caller waits passes.  A holder
   need not ever finish.  A thread that tries to remove a stale file again and
   again succeeds in the end: the code relies on that, since nothing else ends
   its loop. *)
LockSpec ==
  /\ LockInit /\ [][LockNext]_lockVars
  /\ \A t \in Threads :
       WF_lockVars(LockStep(t)) /\ WF_lockVars(Expire(t)) /\ SF_lockVars(Break(t))

-----------------------------------------------------------------------------
(* Properties                                                              *)

Holders == {t \in Threads : pc[t] = "held"}

(* As long as no process has died, at most one thread is past AcquireFileLock
   and the lock file is its own, also while another thread has created the
   file and not yet put its name in it. *)
OneHolderUntilACrash ==
  dead = {} =>
    /\ \A t, u \in Holders : t = u
    /\ \A t \in Holders : file # None /\ file.by = t

(* AcquireFileLock returns, with the lock or without it, even when the holder
   never closes, when it could not remove its file, and when it has died. *)
AcquireReturns ==
  \A t \in Threads : Acquiring(t) ~> ~Acquiring(t)

(* A lock that names a dead process of the host of a thread that tries to get
   it does not stay, whatever the thread's patience, unless the thread dies too or
   the file system refuses it the attempt. *)
DeadOwnersLockIsBroken ==
  \A t \in Threads, p \in Processes :
    (/\ file # None /\ file.owner = p /\ p \in dead
     /\ AtCall(t, "open") /\ Host[Process(t)] = Host[p])
    ~> (file = None \/ file.owner # p \/ pc[t] = "failed" \/ Process(t) \in dead)

(* The hardening report: dead owners' locks can be recovered, live and unknown
   owners are retained.  So a thread that breaks a lock breaks one of a process
   that is dead. *)
LiveOwnersLockIsRetained ==
  [][\A t \in Threads :
       AtCall(t, "break") /\ pc'[t] = "open" /\ file # None /\ file' = None =>
         Process(file.by) \in dead]_lockVars

=============================================================================
