----------------------------- MODULE RunService -----------------------------
(***************************************************************************)
(* The workers: what Service.Process, the worker loop, the request handler *)
(* and the heartbeat do with the runs table and the artifact store.        *)
(*                                                                         *)
(* A thread is a goroutine of a worker process: <<w, "loop">> is its       *)
(* WorkerLoop, <<w, r>> the goroutine POST /analysis starts for run r (the *)
(* analyze command does the same in its main goroutine).  All threads of a *)
(* process share one worker identity.  A heartbeat goroutine belongs to    *)
(* the attempt of its thread and steps on its own.                         *)
(*                                                                         *)
(* Every step of a thread contains at most one call to the table or the    *)
(* store.  Between two steps anything may happen, for any time: a thread   *)
(* may be suspended past the end of its lease and then go on.              *)
(***************************************************************************)
EXTENDS RunRecord, FiniteSets

CONSTANTS
  RunIds,
  Presubmitted,    \* the runs that are QUEUED to begin with
  Threads,         \* a subset of Workers \X ({"loop"} \cup RunIds)
  HeartbeatTicks,  \* Config.HeartbeatSeconds
  Faults,          \* the kinds of failure that can happen: "unavailable" (a call
                   \* has no effect and fails), "ack lost" (it has its effect
                   \* and fails), "stage" (git or an artifact write fails) and
                   \* "crash" (a process dies)
  MaxFailures,     \* bound on the faults and crashes in a behaviour
  MaxTime          \* bound on the clock

ASSUME RunServiceAssumption ==
  /\ Presubmitted \subseteq RunIds
  /\ Threads \subseteq Workers \X ({"loop"} \cup RunIds)
  /\ Nil \notin RunIds
  /\ HeartbeatTicks \in Nat \ {0}
  /\ Faults \subseteq {"unavailable", "ack lost", "stage", "crash"}
  /\ {MaxFailures, MaxTime} \subseteq Nat

(* What manifest_uri and manifest_hash can say: the path of a manifest and the
   bytes that were stored there (see Path and Bytes). The Manifests of RunRecord
   are not used here. *)
ServiceManifests ==
  [ uri  : RunIds \X Nat \X {"manifest"},
    hash : [by : Threads, attempt : Nat, commit : Commits] ]

VARIABLES
  runs, grants, completions,   \* the table: see RunRepository
  store,      \* the artifact store: from paths to the bytes written there
  thread,     \* where each thread is, with its local variables
  alive,      \* the worker processes that are running
  clock,      \* the time every worker reads
  crashes, faults              \* how many there have been

table == <<runs, grants, completions>>
world == <<alive, clock, crashes>>
vars == <<table, store, thread, world, faults>>

Repo ==
  INSTANCE RunRepository WITH
    Times <- Nat, AttemptNos <- Nat, Manifests <- ServiceManifests

ASSUME NilIsNoServiceRow == Nil \notin Repo!Run \cup ServiceManifests

Worker(t) == t[1]
IsLoop(t) == t[2] = "loop"

-----------------------------------------------------------------------------
(* The steps of an attempt, in the order Process takes them. *)

PhaseChange ==
  [ retrieving |-> <<"CLAIMED", "RETRIEVING">>,
    validating |-> <<"RETRIEVING", "VALIDATING">>,
    reviewing  |-> <<"VALIDATING", "REVIEWING">>,
    evaluating |-> <<"REVIEWING", "EVALUATING">>,
    persisting |-> <<"EVALUATING", "PERSISTING">> ]

(* The artifacts an attempt writes, one for each group Process writes together. *)
ArtifactNames == {"results", "review", "evaluation", "report"}

Following ==
  [ retrieving |-> "source", workspace |-> "validating", validating |-> "results",
    results |-> "reviewing", reviewing |-> "review", review |-> "evaluating",
    evaluating |-> "evaluation", evaluation |-> "persisting", persisting |-> "report",
    report |-> "manifest", manifest |-> "readback", readback |-> "complete" ]

AttemptSteps == DOMAIN Following \cup {"source", "pin", "complete", "fail"}

(* A thread with no attempt in hand. *)
Free(pc, todo) ==
  [ pc |-> pc, poll |-> pc, todo |-> todo, run |-> Nil, attempt |-> 0, commit |-> Nil,
    expected |-> 0, beat |-> 0, beating |-> FALSE, cancelled |-> FALSE ]

Idle == Free("idle", {})

(* A loop with candidates left to try, which for the expired ones ends the poll. *)
Polling(poll, todo) ==
  IF poll = "expired" /\ todo = {} THEN Idle ELSE Free(poll, todo)

Goto(t, pc) == [thread EXCEPT ![t].pc = pc]

(* Process returns to its caller.  RecoverExpired gives up the rest of its
   candidates on an error, the loop over queued runs does not. *)
Returned(t, error) ==
  [thread EXCEPT ![t] =
     IF IsLoop(t)
     THEN Polling(@.poll, IF error /\ @.poll = "expired" THEN {} ELSE @.todo)
     ELSE Idle]

(* Mutant: the heartbeat waits until the lease expires. *)
StartedWithoutMargin(t, row) ==
  [thread EXCEPT ![t].pc = "retrieving", ![t].attempt = row.attempt,
     ![t].commit = row.commit, ![t].expected = row.expires,
     ![t].beat = row.expires, ![t].beating = TRUE]

(* Process has the row it is to work on: the heartbeat starts. *)
Started(t, row) ==
  [thread EXCEPT ![t].pc = "retrieving", ![t].attempt = row.attempt,
     ![t].commit = row.commit, ![t].expected = row.expires,
     ![t].beat = clock + HeartbeatTicks, ![t].beating = TRUE]

-----------------------------------------------------------------------------
(* The outcomes of a call. *)

Possible(kind) == kind \in Faults /\ faults + crashes < MaxFailures

Fault(kind) == Possible(kind) /\ faults' = faults + 1

Unanswered(t) ==
  \/ thread[t].cancelled /\ UNCHANGED faults
  \/ Fault("unavailable")

(* A conditional statement op, whose WHERE clause is can. *)
Call(t, can, op, ok, error) ==
  \/ ~thread[t].cancelled /\ op /\ thread' = ok /\ UNCHANGED faults
  \/ op /\ Fault("ack lost") /\ thread' = error
  \/ ~can /\ thread' = error /\ UNCHANGED <<table, faults>>
  \/ Unanswered(t) /\ thread' = error /\ UNCHANGED table

Ready(t, pc) == thread[t].pc = pc /\ Worker(t) \in alive

-----------------------------------------------------------------------------
(* The worker loop, one poll after another. *)

Created == {id \in RunIds : Repo!Exists(id)}

(* The rows of a query, as they are when it is made. *)
Candidates(ids) == {[run |-> id, row |-> runs[id]] : id \in ids}

FindQueuedCandidates(t) ==
  /\ Ready(t, "idle") /\ IsLoop(t)
  /\ thread' = [thread EXCEPT ![t] =
       Free("queued", Candidates({id \in Created : runs[id].state = "QUEUED"}))]
  /\ UNCHANGED <<table, store, world, faults>>

(* A poll takes its candidates one by one; those another worker took are skipped. *)
TakeCandidate(t, candidate, can, op) ==
  LET rest == thread[t].todo \ {candidate} IN
  \/ /\ op /\ UNCHANGED faults
     /\ thread' = [thread EXCEPT ![t].pc = "get", ![t].run = candidate.run, ![t].todo = rest]
  \/ /\ ~can /\ UNCHANGED <<table, faults>>
     /\ thread' = [thread EXCEPT ![t] = Polling(@.poll, rest)]
  \/ op /\ Fault("ack lost") /\ thread' = [thread EXCEPT ![t] = Idle]
  \/ Fault("unavailable") /\ thread' = [thread EXCEPT ![t] = Idle] /\ UNCHANGED table

ClaimQueued(t) ==
  /\ Ready(t, "queued")
  /\ \E c \in thread[t].todo :
       TakeCandidate(t, c, CanClaim(runs[c.run]), Repo!ClaimRun(c.run, Worker(t), clock))
  /\ UNCHANGED <<store, world>>

FindReclaimCandidates(t) ==
  /\ Ready(t, "queued") /\ thread[t].todo = {}
  /\ thread' = [thread EXCEPT ![t] =
       Polling("expired", Candidates({id \in Created : LooksExpired(runs[id], clock)}))]
  /\ UNCHANGED <<table, store, world, faults>>

ReclaimExpired(t) ==
  /\ Ready(t, "expired")
  /\ \E c \in thread[t].todo :
       TakeCandidate(t, c, CanReclaim(runs[c.run], c.row, clock),
                     Repo!ReclaimExpiredRun(c.run, c.row, Worker(t), clock))
  /\ UNCHANGED <<store, world>>

(* POST /analysis and the analyze command: create the run, then Process it. *)
Submit(t) ==
  /\ Ready(t, "idle") /\ ~IsLoop(t)
  /\ Repo!CreateRun(t[2])
  /\ thread' = [thread EXCEPT ![t].pc = "get", ![t].run = t[2]]
  /\ UNCHANGED <<store, world, faults>>

-----------------------------------------------------------------------------
(* Process. *)

GetRun(t) ==
  /\ Ready(t, "get")
  /\ LET row == runs[thread[t].run] IN
     \/ row.state = "QUEUED" /\ thread' = Goto(t, "claim") /\ UNCHANGED faults
     \/ /\ row.state = "CLAIMED" /\ row.owner = Worker(t)
        /\ thread' = Started(t, row) /\ UNCHANGED faults
     \/ /\ row.state # "QUEUED" /\ ~(row.state = "CLAIMED" /\ row.owner = Worker(t))
        /\ thread' = Returned(t, FALSE) /\ UNCHANGED faults
     \/ Fault("unavailable") /\ thread' = Returned(t, TRUE)
  /\ UNCHANGED <<table, store, world>>

ClaimRun(t) ==
  LET id == thread[t].run IN
  /\ Ready(t, "claim")
  /\ Call(t, CanClaim(runs[id]), Repo!ClaimRun(id, Worker(t), clock),
          Started(t, Claimed(runs[id], Worker(t), clock)), Returned(t, TRUE))
  /\ UNCHANGED <<store, world>>

UpdatePhase(t) ==
  LET me == thread[t] IN
  /\ me.pc \in DOMAIN PhaseChange /\ Ready(t, me.pc)
  /\ LET from == PhaseChange[me.pc][1]
         to   == PhaseChange[me.pc][2]
     IN Call(t, CanUpdatePhase(runs[me.run], me.attempt, Worker(t), from),
             Repo!UpdatePhase(me.run, me.attempt, Worker(t), from, to),
             Goto(t, Following[me.pc]), Goto(t, "fail"))
  /\ UNCHANGED <<store, world>>

(* Mutant: a run that is pinned has its reference resolved again. *)
AcquireSourceAgain(t) ==
  /\ Ready(t, "source")
  /\ \E c \in Commits :
       thread' = [Goto(t, IF thread[t].commit = Nil THEN "pin" ELSE "workspace")
                    EXCEPT ![t].commit = c]
  /\ UNCHANGED <<table, store, world, faults>>

(* An unpinned reference resolves to whatever it points to now. *)
AcquireSource(t) ==
  /\ Ready(t, "source")
  /\ \/ /\ thread[t].commit = Nil
        /\ \E c \in Commits : thread' = [Goto(t, "pin") EXCEPT ![t].commit = c]
        /\ UNCHANGED faults
     \/ /\ thread[t].commit # Nil
        /\ thread' = Goto(t, "workspace")
        /\ UNCHANGED faults
     \/ /\ (thread[t].cancelled /\ UNCHANGED faults) \/ Fault("stage")
        /\ thread' = Goto(t, "fail")
  /\ UNCHANGED <<table, store, world>>

PinSourceIfAbsent(t) ==
  LET me == thread[t] IN
  /\ Ready(t, "pin")
  /\ Call(t, CanPin(runs[me.run], me.attempt, Worker(t)),
          Repo!PinSourceIfAbsent(me.run, me.attempt, Worker(t), me.commit),
          Goto(t, "workspace"), Goto(t, "fail"))
  /\ UNCHANGED <<store, world>>

CreateWorkspace(t) ==
  /\ Ready(t, "workspace")
  /\ \/ thread' = Goto(t, "validating") /\ UNCHANGED faults
     \/ /\ (thread[t].cancelled /\ UNCHANGED faults) \/ Fault("stage")
        /\ thread' = Goto(t, "fail")
  /\ UNCHANGED <<table, store, world>>

(* Mutant: the path leaves out the attempt. *)
PathOfRun(run, attempt, name) == <<run, 0, name>>

(* attemptArtifacts.path *)
Path(run, attempt, name) == <<run, attempt, name>>

(* The bytes an attempt produces: they show the commit, the attempt and, in
   their times and measurements, whose execution it was. *)
Bytes(t) == [by |-> t, attempt |-> thread[t].attempt, commit |-> thread[t].commit]

Stored(path, bytes) ==
  [p \in DOMAIN store \cup {path} |-> IF p = path THEN bytes ELSE store[p]]

(* The file store does not look at the context, S3 does. *)
Put(t, name) ==
  LET path == Path(thread[t].run, thread[t].attempt, name) IN
  \/ /\ store' = Stored(path, Bytes(t))
     /\ \/ thread' = Goto(t, Following[thread[t].pc]) /\ UNCHANGED faults
        \/ thread' = Goto(t, "fail") /\ Fault("ack lost")
  \/ /\ (thread[t].cancelled /\ UNCHANGED faults) \/ Fault("stage")
     /\ thread' = Goto(t, "fail")
     /\ UNCHANGED store

PutArtifacts(t) ==
  /\ thread[t].pc \in ArtifactNames /\ Ready(t, thread[t].pc)
  /\ Put(t, thread[t].pc)
  /\ UNCHANGED <<table, world>>

PutManifest(t) ==
  /\ Ready(t, "manifest")
  /\ Put(t, "manifest")
  /\ UNCHANGED <<table, world>>

ReadBackManifest(t) ==
  LET path == Path(thread[t].run, thread[t].attempt, "manifest") IN
  /\ Ready(t, "readback")
  /\ \/ /\ store[path] = Bytes(t)
        /\ thread' = Goto(t, "complete") /\ UNCHANGED faults
     \/ /\ (store[path] # Bytes(t) /\ UNCHANGED faults) \/ Unanswered(t)
        /\ thread' = Goto(t, "fail")
  /\ UNCHANGED <<table, store, world>>

(* What CompleteRun is given: where the manifest is and the hash of its bytes. *)
Manifest(t) ==
  [uri |-> Path(thread[t].run, thread[t].attempt, "manifest"), hash |-> Bytes(t)]

CompleteRun(t) ==
  LET me == thread[t] IN
  /\ Ready(t, "complete")
  /\ Call(t, CanComplete(runs[me.run], me.attempt, Worker(t)),
          Repo!CompleteRun(me.run, me.attempt, Worker(t), Manifest(t)),
          Returned(t, FALSE), Goto(t, "fail"))
  /\ UNCHANGED <<store, world>>

(* The closure fail: it does not use the attempt's context, so a cancelled
   attempt calls FailRun like any other. *)
FailRun(t) ==
  LET me == thread[t] IN
  /\ Ready(t, "fail")
  /\ \/ /\ Repo!FailRun(me.run, me.attempt, Worker(t))
        /\ \/ thread' = Returned(t, FALSE) /\ UNCHANGED faults
           \/ thread' = Returned(t, TRUE) /\ Fault("ack lost")
     \/ /\ \/ ~CanFail(runs[me.run], me.attempt, Worker(t)) /\ UNCHANGED faults
           \/ Fault("unavailable")
        /\ thread' = Returned(t, TRUE)
        /\ UNCHANGED table
  /\ UNCHANGED <<store, world>>

-----------------------------------------------------------------------------
(* The heartbeat. *)

BeatDue(t) == thread[t].beating /\ Worker(t) \in alive /\ clock >= thread[t].beat

(* The ticker holds one tick for a late receiver and drops the others. *)
NextBeat(t) ==
  LET missed == (clock - thread[t].beat) \div HeartbeatTicks
  IN thread[t].beat + HeartbeatTicks * (IF missed > 1 THEN missed ELSE 1)

CancelledBy(t) == [thread EXCEPT ![t].beating = FALSE, ![t].cancelled = TRUE]

RetryWindowOpen(t) == clock < thread[t].expected - HeartbeatTicks

(* renewLeaseWithRetry: a call that may be retried leaves the heartbeat where
   it was, the lease expiry it expects included. *)
Beat(t) ==
  LET me   == thread[t]
      next == me.expected + 2 * HeartbeatTicks
      renewal == Repo!RenewLease(me.run, me.attempt, Worker(t), me.expected, next)
      retryOrGiveUp == \/ RetryWindowOpen(t) /\ UNCHANGED thread
                       \/ thread' = CancelledBy(t)
  IN
  /\ BeatDue(t)
  /\ \/ /\ renewal
        /\ thread' = [thread EXCEPT ![t].expected = next, ![t].beat = NextBeat(t)]
        /\ UNCHANGED faults
     \/ /\ ~CanRenew(runs[me.run], me.attempt, Worker(t), me.expected)
        /\ thread' = CancelledBy(t)
        /\ UNCHANGED <<table, faults>>
     \/ renewal /\ Fault("ack lost") /\ retryOrGiveUp
     \/ Fault("unavailable") /\ retryOrGiveUp /\ UNCHANGED table
  /\ UNCHANGED <<store, world>>

-----------------------------------------------------------------------------
(* The processes and time. *)

Crash(w) ==
  /\ w \in alive /\ Possible("crash")
  /\ alive' = alive \ {w}
  /\ crashes' = crashes + 1
  /\ thread' = [t \in Threads |-> IF Worker(t) = w THEN Idle ELSE thread[t]]
  /\ UNCHANGED <<table, store, clock, faults>>

Restart(w) ==
  /\ w \notin alive
  /\ alive' = alive \cup {w}
  /\ UNCHANGED <<table, store, thread, clock, crashes, faults>>

Tick ==
  /\ clock < MaxTime
  /\ clock' = clock + 1
  /\ UNCHANGED <<table, store, thread, alive, crashes, faults>>

-----------------------------------------------------------------------------
(* The read-only handlers, which see the row and the store of their own time. *)

Get(path) == IF path \in DOMAIN store THEN store[path] ELSE Nil

(* loadCatalog: the manifest the row points to, if its hash is the row's. *)
CatalogOf(id) ==
  LET manifest == runs[id].manifest IN
  IF manifest # Nil /\ Get(manifest.uri) = manifest.hash THEN manifest ELSE Nil

(* The names in a manifest, and its own. *)
Entries == ArtifactNames \cup {"manifest"}

(* serveNamedArtifact: the path is the manifest's, with another last part. *)
Served(id, name) ==
  IF CatalogOf(id) = Nil THEN Nil
  ELSE Get([CatalogOf(id).uri EXCEPT ![3] = name])

-----------------------------------------------------------------------------
Init ==
  /\ runs = [id \in RunIds |-> IF id \in Presubmitted THEN NewRun ELSE Nil]
  /\ grants = {}
  /\ completions = {}
  /\ store = [path \in {} |-> Nil]
  /\ thread = [t \in Threads |-> Idle]
  /\ alive = {Worker(t) : t \in Threads}
  /\ clock = 0
  /\ crashes = 0
  /\ faults = 0

LoopStep(t) ==
  \/ FindQueuedCandidates(t) \/ ClaimQueued(t)
  \/ FindReclaimCandidates(t) \/ ReclaimExpired(t)

ProcessStep(t) ==
  \/ GetRun(t) \/ ClaimRun(t) \/ UpdatePhase(t) \/ AcquireSource(t) \/ PinSourceIfAbsent(t)
  \/ CreateWorkspace(t) \/ PutArtifacts(t) \/ PutManifest(t) \/ ReadBackManifest(t)
  \/ CompleteRun(t) \/ FailRun(t)

Next ==
  \/ \E t \in Threads : LoopStep(t) \/ Submit(t) \/ ProcessStep(t) \/ Beat(t)
  \/ \E w \in Workers : Crash(w) \/ Restart(w)
  \/ Tick

Spec == Init /\ [][Next]_vars

-----------------------------------------------------------------------------
(* Properties                                                              *)

Working(t) == thread[t].pc \in AttemptSteps

(* Two goroutines may both start Process for one attempt - the request handler
   and the worker loop of a process have the same identity and both accept a
   run that is CLAIMED by it - but only one gets past the first UpdatePhase:
   an attempt has at most one executor. *)
OneExecutorPerAttempt ==
  \A t, u \in Threads :
    /\ Working(t) /\ thread[t].pc \notin {"retrieving", "fail"}
    /\ Working(u) /\ thread[u].pc \notin {"retrieving", "fail"}
    /\ thread[t].run = thread[u].run /\ thread[t].attempt = thread[u].attempt
    => t = u

(* Every attempt that has its source works on the commit the run is pinned
   to, even one that has lost its lease, and even when the branch has moved
   between two attempts. *)
EveryAttemptUsesThePinnedCommit ==
  \A t \in Threads :
    Working(t) /\ thread[t].pc \notin {"retrieving", "source", "pin", "fail"} =>
      /\ thread[t].commit # Nil
      /\ thread[t].commit = runs[thread[t].run].commit

(* A reader of a COMPLETED run is served its manifest and every artifact it
   lists, with the bytes it lists, written by the winning attempt's executor from
   the pinned commit; and it stays so, whatever the attempts that lost their
   lease still write. The handlers look at the hash of the manifest alone. *)
ManifestIsAuthentic ==
  \A id \in RunIds : Repo!Exists(id) /\ runs[id].state = "COMPLETED" =>
    LET hash == runs[id].manifest.hash IN
    /\ hash.commit = runs[id].commit /\ hash.attempt = runs[id].winning
    /\ \A name \in Entries : Served(id, name) = hash

(* A thread whose run has been handed out again does not change the row any
   more, in whatever step of its attempt the reclaim found it, and although
   the new attempt may have the same worker identity. *)
FencedThreadsChangeNothing ==
  [][\A t \in Threads :
       /\ Working(t) /\ thread'[t] # thread[t]
       /\ thread[t].attempt # runs[thread[t].run].attempt
       => runs' = runs]_vars

(* The design: if the renewal of a lease cannot be confirmed, the worker
   cancels the attempt and leaves the run to expire and be reclaimed.  So the
   step of a cancelled attempt does not end the run. *)
UncertainRenewalLeavesRunRecoverable ==
  [][\A t \in Threads :
       Working(t) /\ thread[t].cancelled /\ thread'[t] # thread[t] =>
         ~(Active(runs[thread[t].run]) /\ runs'[thread[t].run].state = "FAILED")]_vars

=============================================================================
