# Platform Lens: specifications and proofs

Platform Lens takes a Git repository and a reference, checks the Terraform and
Kubernetes files it finds there, and stores a report with its evidence. A
*run* is created over HTTP or the command line, claimed by a worker under a
lease, worked on in numbered *attempts*, and ends COMPLETED or FAILED. Any
number of workers share one table of runs (SQLite on one machine, DynamoDB in
the cloud) and one artifact store (a directory or S3). Nothing else coordinates
them: no queue, no leader. What makes a run end once, with one answer about one
commit, is the condition of each update of the table, the lease and its
heartbeat, and the paths artifacts are written to. That is what is specified
here.

This directory holds TLA+ modules for that core, TLC configurations that check
them on small instances, and TLAPS proofs of the statements that carry the rest
for every size of instance. `PROJECT.json` maps definitions to source lines and
lists the runs, the mutants that show each property can fail, the hazards the
properties are for, the disagreements between code and documents that were met,
and the theorems.

    tlc -config MCRunRepository.cfg MCRunRepository     # any run
    tlapm RunRepositoryProofs.tla                       # any proof module

## 1. Inventory

| Component | Source (src/internal unless said) | State it keeps | Operations |
|---|---|---|---|
| Run table, SQLite | runs/sqlite.go, runs/repository.go, domain/models.go | one row for each run: state, attempt number, lease owner and expiry, commit, winning attempt, manifest | CreateRun, ClaimRun, PinSourceIfAbsent, RenewLease, ReclaimExpiredRun, UpdatePhase, CompleteRun, FailRun; FindQueuedCandidates, FindReclaimCandidates, GetRun |
| Run table, DynamoDB | runs/dynamo.go, cloudaws/config.go | the same as an item; an index on state and lease expiry | the same, as conditional writes |
| Lease time encoding | encodeTime, encodeDynamoTime | none | instants to text; texts compared |
| Worker service | app/service.go, app/review_stage.go, cmd/platformlens/main.go | local variables of each attempt | Submit, Process, ProcessQueuedAndReclaim, RecoverExpired, WorkerLoop |
| Heartbeat | app/heartbeat.go | the expiry it has confirmed last | renew, retry, cancel the attempt |
| Artifact store | storage/storage.go, app/artifacts.go, report/manifest.go | bytes by path | Put, Get; a manifest lists the artifacts of its attempt with hashes |
| File lock | source/git.go 32-104 | a file with the owner's process id and host | AcquireFileLock, Close |
| SQLite transactions | runs/sqlite.go 22-68, 183-208, 270-288 | a pool of connections, the write lock, open transactions | BEGIN IMMEDIATE, the statement, ROLLBACK or COMMIT; INSERT and queries on any connection |
| Source cache, workspaces | source/git.go | a bare repository for each URL, its refs; worktrees | Acquire, AcquirePinned, CreateWorkspace, CleanupWorkspace, SweepWorkspaces |
| Command runner | execution/runner.go | a process and its capped output | Run, with timeout and grace period |
| Validation | validation/, discovery/ | none | BuildPlan, Execute, BuildProvenance, Outcome (app/service.go 347-376) |
| Evidence, review, evaluation | evidence/, review/, evaluation/, app/review_stage.go | none | redact, build context, review, validate findings, evaluate |
| HTTP API | api/ | none | create, read, serve artifacts |
| Run listing | runs/list*.go, web/src/pages/RunsPage.tsx | the reader's offset | ListRuns, next page |
| Configuration and tools | runtime/, security/ | none | load, validate, check tool versions |
| Web console | src/web | none of its own | reads the API |

**How they interact.** `POST /analysis` creates a row and starts a goroutine
that calls Process for it; the WorkerLoop of every process polls the same table
and claims the same row. Process reads the row, claims it if it is QUEUED,
starts a heartbeat goroutine, and then alternates between the table
(UpdatePhase, PinSourceIfAbsent), the source cache (under the file lock), the
tools (child processes) and the artifact store, until CompleteRun. Every failure
goes through one closure that calls FailRun. The heartbeat shares a cancellable
context with the attempt. After a crash nothing is told to anybody: the lease
runs out, another poll finds the row and ReclaimExpiredRun hands it out under
the next attempt number.

**What is hard.** Two goroutines of one process have one worker identity. A
worker may be suspended between any two steps for longer than its lease and go
on afterwards. Calls may take effect and report an error. DynamoDB calls are
retried below the program, and candidates come from an index that lags behind.
Lease expiries are compared as texts. The branch may move between two attempts.
The file lock is broken by whoever believes its owner dead. A statement of SQLite
can be interrupted between taking effect and saying so, on a connection that
goes back to a pool. Commands end, time out and are cancelled in any order, and
what they print may be cut off anywhere. Pages of a listing are cut from a table
that changes. `hazards` in
PROJECT.json has each with its line.

**What makes each component correct.**

* Run table: an attempt number is given out once; a row has a lease exactly
  while somebody may work on it; a commit once pinned stays; a run is completed
  at most once, by the holder of its last attempt; final rows stay; a lease is
  not taken while it runs.
* SQLite transactions: a statement takes effect alone and on the latest row, an
  answer is true, and no transaction outlives its call unless it was interrupted.
* DynamoDB: the same as the run table, and a call has its effect at most once whatever happens
  to its requests.
* Service: one executor for an attempt; every attempt works on the pinned
  commit; a fenced thread changes nothing; a COMPLETED run's manifest and
  artifacts are there, by the winning attempt, and are what the API serves; every run ends; healthy attempts
  are neither reclaimed nor failed.
* File lock: at most one holder, until a process has died; locks of dead owners do not stay; callers return in time.
* Source cache: a branch, a tag or HEAD is resolved to a commit that the remote had for
  it while the attempt ran; a pinned commit is found without the remote; a
  workspace shows the pinned commit, is not swept while in use and stays only
  after a crash or a removal that failed; commands on a cache run under its lock
  until an attempt has died on its host.
* Command runner: Run returns whatever the command does, and nobody writes to
  the output that it hands over.
* Validation: each planned step has one result; NO_FINDINGS and COMPLETE are
  said only of what the tools have judged, in time or not (section 6, 8); a finding
  is not lost to a failure; provenance is only called complete when it is of the commit's own lock file.
* Evidence, review, evaluation: everything that failed or could not be judged has
  a finding, and every finding exactly one verdict, whichever of evidence,
  reviewer and evaluator is missing.
* Listing: a run that nobody touches is shown; without changes the pages are a
  partition.

## 2. Modules

| Module | Models | Used by |
|---|---|---|
| `LeaseTime` | text comparison of RFC3339Nano instants | RunRecord |
| `RunRecord` | one row; the WHERE clause (`Can...`) and SET list of each statement | RunRepository, RunService, DynamoTable |
| `RunRepository` | the table under any caller that asks for a phase and its successor and reclaims what it has seen leased | instantiated by RunService and DynamoTable |
| `AnalysisJob` | abstract: what a run promises its submitter | refined by RunRepository |
| `RunService` | threads, heartbeats, artifact store, crashes, lost answers | RunServiceTimed |
| `RunServiceTimed` | the same with processes that keep their schedule; fairness | |
| `FileLock` | the repository lock by system calls | |
| `DynamoTable` | items, index, requests in flight | refines RunRepository |
| `SQLiteTable` | connections, transactions and the write lock below the statements | |
| `SourceCache` | a remote whose references move, the cached references, the commands of Acquire and AcquirePinned, workspaces and their sweep | |
| `CommandRunner` | a process, its descendants, the select and the grace period of Run | ValidationRun |
| `ValidationRun` | the plan, the order of the commands, their adapters, the outcome | AttemptReport |
| `AttemptReport` | diagnostics, provenance, review and evaluation of a validation | |
| `RunListing` | the windows of both stores, and a reader who turns pages | |
| `RunRecordProofs` | theorems about LeaseTime and RunRecord | the proofs of whoever has rows |
| `RunServiceProofs` | theorems about RunService and RunServiceTimed | |
| `RunRepositoryProofs`, `SQLiteTableProofs`, `DynamoTableProofs` | theorems about the module of that name | |
| `SourceCacheProofs` | theorems about SourceCache and FileLock, whose names are kept apart for that | |
| `RunListingProofs` | the order of the texts is total; theorems about RunListing | |
| `ValidationRunProofs` | theorems about CommandRunner, ValidationRun and AttemptReport | |
| `MC...` | finite instances | |

The layers are deliberate. `RunRepository` assumes two things of its callers: an
UpdatePhase is asked for with a phase and the one after it (`PhaseOrder`), and the
row that a reclaim was shown was active (`Seen`); attempts, workers, clocks and
expiries are any. What holds there holds under `RunService`, whose actions are conjunctions of
repository actions with steps of a thread, and under every future caller.
`DynamoTable` has the same statements, so it can be shown to be a
`RunRepository` for whoever reads it through `decode`. Both use the conditions of
`RunRecord`: that the condition expressions of dynamo.go and the WHERE clauses of
sqlite.go are the same was found by reading them, and no run or proof here would
show a difference; what `DynamoTable` adds is items, the index and requests. `SQLiteTable` is the layer
below for the other store: it says why a statement may be taken for one step.

### State and actions against the code

*Rows.* `runs[id]` is Nil before CreateRun, or QUEUED from before the start, and
then a record of the columns
that some statement tests or that a property needs. `commit` stands for
commit_oid, resolved_ref and ref_type, `manifest` for manifest_uri and
manifest_hash: each group is written by one statement. Columns that only carry
text (updated_at, outcome, failure code) are left out. `grants` and
`completions` are history variables; no guard reads them.

*Statements.* SQLite runs each in `BEGIN IMMEDIATE ... COMMIT`, DynamoDB as one
conditional UpdateItem: one step. A statement whose condition fails changes
nothing and tells its caller ErrConditional or ErrFencingLost.

*Threads.* `thread[t]` holds the local variables of Process: run, attempt,
commit, the candidates of the poll, the heartbeat's expected expiry and next
tick, and whether the attempt's context is cancelled. A step contains at most
one call on the table or the store. `Call` lists the outcomes of a conditional
statement: done; done and the answer lost; condition false; not reached. A
cancelled context prevents every later call that takes it. FailRun takes
`context.Background()`, as in the code, so `FailRun(t)` does not look at
`cancelled`; the file store does not either.

*Artifacts.* Those that Process writes together are one object of the model
(`results`, `review`, `evaluation`, `report`, and the manifest). Their bytes
record thread, attempt and commit, which is all the properties tell apart: two
executions never produce equal bytes, since these contain times and
measurements. The configured reviewer and evaluator cannot fail and always
return a value, so both stages only write. `Served` is what the artifact
endpoints answer, reading the row, the manifest and the artifact one after the
other; the artifact's bytes are not compared with the hash that the manifest lists.
A manifest of the table is what CompleteRun is given: the manifest's path and the
bytes that were read back (`ServiceManifests`). The table's own `Manifests` are not
used by the service and are empty in its instances.

*Transactions.* `call[c]` is the call that has taken connection c from its pool,
`tx[c]` the database as the open transaction of c sees it. A row is its version,
and a statement is what all of them are: it changes the row that its caller has
read, or finds another one. An interrupted statement (its context ends, or the
file cannot be written) has taken effect or not. A version has changed with every
update, while an UpdatePhase of the code still finds its row after a renewal: the
model refuses more, and no property is easier for it. A transaction whose COMMIT was
interrupted is still open when the connection goes back, since nothing is rolled
back after it; it then has the write lock of all processes until its connection
is dropped or its process dies, and whoever gets that connection for a query or
for CreateRun's INSERT works inside it. `busy_timeout` is a setting of one
connection and `initialize` makes it on whichever it got: BEGIN on the others
fails at once while anybody else has the lock (`Begin`).

*File lock.* A file is known by the thread that created it, so that a remove by
path can be seen to hit the wrong file. Open, write, read, judge, remove are
five steps. Removing can fail, after which the loop starts again at once. Creating
the directory or the file can fail, which ends the call (`failed`), and so can
writing the owner, which leaves the file behind or not.

*Source cache.* One repository, with a remote whose environment moves, deletes
and creates references and switches the default branch.
Each attempt of a run is a sequence of git commands (init, remote add or
set-url, the fetches of the candidates, ls-remote, show-ref, rev-parse and cat-file,
worktree add and remove), one step each, each of which can fail or be killed with or
without its effect; the lock is taken and given back where the code does it.
`Faults` says what may go wrong in an instance:

| Fault | What fails |
|---|---|
| `crash` | the process of an attempt dies |
| `remote` | a command that asks the remote: fetch, ls-remote |
| `write` | a command or call that changes something here: init, remote add, worktree add, the marker, worktree remove, RemoveAll |
| `read` | a command that only reads, or repeats what is there: set-url, rev-parse, cat-file, show-ref |
| `lock` | AcquireFileLock returns an error, or Close cannot remove the file |

An attempt ends `failed` (the run fails with SOURCE_ERROR), `done`, or `left`: its
cleanup could not get the lock or could not remove the directory, an error that
service.go 104 drops, or its marker and then its worktree's removal failed
(git.go 441). `lock` is the lock file by what `FileLock` promises of it. As long as
nobody has died on a host (`died`) it excludes. Once somebody has, whoever waits may
remove the file of anybody (`BreakLock`), as git.go 62-64 can, so two attempts of one
host run their commands in any order among each other, and a Close removes whatever
is there. A file that nobody will remove is an `orphan`. `past` is the history
of the remote; `since` says where in it an attempt began. `had` and `lost` are history
of an attempt: whether the cache had the pinned commit when it got the lock, and
whether a command under `read` has failed in it. No guard looks at them.

*Commands.* `process` is the process of the command, `held` whether one of its
descendants has the output open, which keeps Wait from returning. Write, Exit
and the end of descendants are theirs to choose; the context's kill, SIGTERM
(which may be ignored) and SIGKILL to the group are Run's. That Run stops
waiting for a timer or for its context is one action: the code records which it
was, and decides nothing by it. Not starting stands for every reason not to:
context, version check, missing executable or directory, no schema location.

*Validation.* `at` is the command whose turn it is, `results` the results by
subject and tool, which determine kind and required flag. `said` is a history
variable, written by the processes and not by their adapters: what a tool meant
by its exit code or wrote about a subject; `late` is an init that its timeout had
interrupted before it exited (`Overdue`), and `other` a status of kubeconform that the
adapter does not know. The properties compare the report
with it, so that an adapter that misread its tool would be seen.

*Report.* A diagnostic is known by its subject, its tool and whether it is the
first; the text does not matter. `Convert` and `KubeDiagnostics` say which there
are. `lockfile` is the lock file as it lies in the workspace, which terraform
init may write unless it is told not to; `locked` what discovery noted of it
before. BuildContext keeps all evidence or none, so its budget is one choice. Every
diagnostic has one piece of evidence of its own attempt, and evaluation.Validate
checks just that. Steps that end in an error of the store or of the attempt's
context are RunService's.

*Listing.* `rows` has what the order and the filter look at. `lagging` has the
earlier versions of a row that a scan without consistent reads may still
return. The reader is the console: it adds its limit to its offset as long as
there is more.

*DynamoDB.* A call is made (`Send...`, with what its caller had read), is
delivered any number of times at any time, also after others have changed the
item, and is forgotten once no copy is left. A slow caller needs no step of its
own: it is the same as a slow request. The number of copies is not bounded.

## 3. Runs

| Run | Instance | Shows |
|---|---|---|
| repository | one run, 2 workers, 2 commits, 2 manifests, times 0..5 at two ticks a second, attempts 0..3 | all table properties and the refinement of AnalysisJob |
| service | one run, w1 with loop and request handler, w2 with loop, one crash, lost answer or failed stage, time 0..2 with lease 2 and heartbeat 1 | the four service properties under arbitrary suspension |
| service_uncertain | two loops, one call that does not reach the table, time 0..3 | violation (finding 1) |
| service_timed | two loops, one failure of any kind, crash included | EveryRunEnds, HealthyAttemptsAreLeftAlone |
| service_twice | loop and request handler of one process, no failure | violation (finding 2) |
| file_lock | three processes on two hosts, one of which may die | exclusion, return, recovery, with system calls that fail |
| file_lock_race | two threads of a live process and one that dies | violation (finding 3) |
| source_cache | run r1 with two attempts (on h1, where it may crash, then on h1 or h2) that asks for the name n, HEAD or a commit, run r2 with one on h1 that asks for branch n; two changes at the remote, where branch n moves, goes away, becomes a tag or the default; all faults | the references, replay, workspaces and the lock |
| validation | no or one Terraform target (of two found), up to two resources, any exit code, any interruption; review and evaluation with any of budget, reviewer and evaluator missing | the report agrees with the tools; findings are complete and judged once; every validation ends |
| dynamo_table | one run, 2 workers, 2 calls at a time, clocks 0..1, attempts 1..2 | effect once, writes are statements |
| sqlite | two processes, one with two connections, two runs, versions 0..2, two interrupted statements | one statement at a time, true answers, no stray transaction without an interruption |
| listing | up to three runs, one on a page, MaxListOffset 2, instants 0..2 at two ticks a second, two changes while the reader reads | untouched runs are listed; quiet pages are a partition |

Six more instances are kept beside these, to be run by hand. Five have a
counterexample that is worth reading (section 6): `MCRunRepositoryEarly.cfg`, the
exact form of ReclaimNotASecondEarly; `MCDynamoTableRetry.cfg`, a claim that its
own retry denies; `MCValidationRunLimits.cfg` and `MCValidationRunSkipped.cfg`, what
discovery leaves out of a report; `MCValidationRunTimeout.cfg`, an init that passes
after its timeout. `MCValidationRun.cfg` is ValidationRun alone
with two targets (1.7 million states).

    tlc -config MCRunRepositoryEarly.cfg MCRunRepository
    tlc -config MCDynamoTableRetry.cfg MCDynamoTable
    tlc -config MCValidationRunLimits.cfg MCValidationRun
    tlc -config MCValidationRunSkipped.cfg MCValidationRun
    tlc -config MCValidationRunTimeout.cfg MCValidationRun
    tlc -config MCValidationRun.cfg MCValidationRun

**Bounds, and why they are enough.** Rows of different runs never meet in a
statement, so one run shows what a statement can do; the theorems of section 5
cover any number. Two workers give every pair of rivals; the third thread of
`service` is there because the rivals may share an identity. `Times` 0..5 with
two ticks a second is three whole seconds: the text comparison differs from the
numeric one only inside a second, and a lease (2 ticks) ends in a later second
than it began. `AttemptNos` 0..3 lets a row be reclaimed twice and a caller
present older, equal and newer numbers. `MaxTime` 2 in `service` allows a lease
to expire and the run to be reclaimed while the first attempt still runs; each
further reclaim repeats the same situation. `MaxFailures` is one failed call or
one crash; refused statements, cancelled contexts and lost races are not
counted, so one failure at any call is followed by everything it entails, the
failure path and the other workers' recovery included. In `dynamo_table` the bounds are on
what callers act on (`Expiries`, `AttemptNos`), not on deliveries. `MaxTime` in
the timed runs is never reached: time stops by itself when no lease is running,
see below. CHECK_DEADLOCK is off where the system may come to rest (all runs
ended, or a bound is reached); it is on for the file lock.

In `source_cache` (`Places`, `Moves`, `MaxChanges`) one change can make
a cached reference stale and a second one ambiguous, the second attempt meets
the cache the first left behind or an empty one, and the second run fetches in
between; the last attempt of a run does not crash, so that what it leaves is
its own doing. All faults occur, any number of times; what a failing command of `read`
excuses is said in the two properties that are about it. In `validation` two directories
against `MaxTargets` 1 make discovery drop one; two resources are needed for
kubeconform to report one and leave the other out. One
resource can be valid, without schema, or of a status that the adapter does not
know, the other valid or invalid, and either can be left out of the output; a plan can
have one of them alone. What a target hands to the next is
nothing but its results, which `MCValidationRun.cfg` checks with two targets and a
resource against `MaxTargets * ResultsPerTarget` (the code's factor is 100,
there 4). What is skipped decides nothing but UnsupportedShowsInReport, so
`SkipReasons` is empty in the others.

In `sqlite` the pair of connections of one process is what lets a call get a
connection with a stray transaction while another one is going on, and the
second process is the one that is locked out; two interruptions let the COMMIT
of one call and any statement of a later one fail. In `listing` a limit of 1 makes
every run a page of its own, so that one change can move a run across the border
between two pages; three runs are as many as `MaxOffset + Limit`, the longest
listing whose pages all differ. QuietPagesPartition is about listings that end
before a page begins beyond `MaxOffset` (`FitsUncut`): a limit that does not divide
MaxListOffset, which 25 does, gives a reader of more than ten thousand runs a page
that is cut down to begin within the one before.

CHECK_DEADLOCK is off for these as well: attempts, validations, changes and
readers come to an end.

**Symmetry** is used for commits in `service`, for workers and calls in
`dynamo_table` and for runs in `sqlite`; no liveness property is checked there.

**Mutants.** Each property of a passing run is violated by a mutated statement
or step that stands next to the original in the same module, with a comment
that says what it gets wrong.

## 4. Time and fairness

`RunService` lets a process be suspended anywhere and has no fairness: its
properties are those that fencing must guarantee without any timing.

`RunServiceTimed` adds what leases are for. Time passes only if no live thread
is late: a heartbeat that is due is sent, an attempt that was claimed is
started, and an attempt ends within `WorkTicks`, the limits of the configuration
(command timeouts). Fairness is weak fairness of the steps of each goroutine,
of each heartbeat, of the restart of each process and of time. The code
justifies it: goroutines are scheduled by the Go runtime and share no lock for
the duration of an attempt, tickers fire, each command has a timeout, and the
deployment restarts workers. Nothing makes a client submit or a process crash.
Weak fairness is enough because no action of one thread disables another's for
ever. The lease of the instance (2) is longer than the heartbeat (1), as the
defaults are (60 and 15 seconds, runtime/config.go 58-59); the configuration
does not require it (line 136), and with a heartbeat not below the lease
HealthyAttemptsAreLeftAlone is false. The theorem about it has this as a
hypothesis, `BeatsInTime`.

`ValidationRun` has weak fairness of the timer and of the goroutines of Run and
Execute. Commands and their descendants owe nothing: they may run, and ignore
SIGTERM, for ever. Starting a tool includes asking it for its version, for
which the code has no limit (toolchain.go 78); ExecuteReturns assumes that this
ends. It also assumes that descendants stay in the process group, since Run
waits without limit for whoever has the output open (runner.go 126).

`FileLock` has weak fairness of the steps of AcquireFileLock and of the
caller's timeout, and strong fairness of the removal of a stale file: a thread
that tries it again and again succeeds in the end. The code relies on that, since
it looks at its deadline only when the lock is not stale (git.go 62-70): where the
directory cannot be written the caller never returns. A holder need not ever
close, so that AcquireReturns says something.

## 5. What is proved

All theorems hold for every value of the constants that satisfies the named
assumptions: any sets of runs, workers, threads, commits, manifests and clock
values, any positive lease, any resolution of the clock and any set of written
digits that contains the whole second and the tick, any hosts, references,
targets, resources and tools (`LeaseTimeAssumption`, `DigitsNest`, `RunRecordAssumption`,
`NilIsNoRow`, `RunRepositoryAssumption`, `NilIsNoServiceRow`,
`DynamoTableAssumption`, `FileLockAssumption`, `NilIsNothing`, `RunListingAssumption`, `NilIsNoListedRow`,
`CommandRunnerAssumption`, `ValidationRunAssumption`, `NilIsNoAnswer`; TLC
evaluates each on the instances). `DigitsNest` says that the units of the digits
divide each other, as powers of ten do. The other assumptions that begin with Nil say that
the value that stands for nothing is none of the values it is compared with. A
theorem that needs more says so in its hypothesis.

Every proof of an invariant has the same shape: a strengthened invariant holds
initially, each action keeps it (one lemma or one case for each), and it implies
the property. What makes the strengthening necessary is said here.

* `RunRecordProofs`. Each statement takes a row to a row.
  `TextOrderWithinASecond`: if the text of a is not after the text of b, then a is
  less than a second after b. It follows from quotient and remainder alone;
  nothing about digits is needed.
* `RunRepositoryProofs`. The inductive invariant `IInv` is TypeOK; a row's
  consistency (owner and expiry exactly while active, attempt zero while
  queued); every grant's attempt at least one and at most its row's; the row's
  owner holds the grant of the row's attempt; OneGrantPerAttempt; OneWinner. The
  bounds on grants are what makes the attempt number of the next claim or
  reclaim fresh, and the owner's grant is what makes a completion one of a
  grantee: neither OneGrantPerAttempt nor OneWinner is inductive without them.
  Five theorems state the invariants; three state action properties, which
  follow from the invariant and the lemma RowStep, what one step can do to one
  row. `TableImplementsAnalysisJob` maps each statement to
  its abstract step, or to a stutter (RenewLease, UpdatePhase).
* `RunServiceProofs`. `ServiceUsesTheRepository`: the service is a RunRepository,
  each of its steps being one of the table's statements or leaving the table alone,
  so every theorem of RunRepositoryProofs holds under the service.
  The invariant `ServiceOK` has the table's consistency and, for each thread that
  is in an attempt, what its local variables have to do with its row: the row's
  attempt is at least the thread's, and the commit it works on is the row's
  once it is past the pin. The latter is kept by CommitPinnedOnce, the former by
  attempts that only grow; together with the condition on attempt and owner in
  each statement they give `AttemptsUseThePinnedCommit` and `FencingHolds`.
  `OneExecutor` needs no typing: the first UpdatePhase moves the row out of
  CLAIMED, and only from there can a second thread get past it.
  `ReadersGetWhatWasCompleted` is about bytes. Its invariant `StoreOK` says
  that what an attempt's executor has put is still there while it goes on
  (nobody else writes to the paths of its attempt, which is OneExecutorPerAttempt),
  that the executor of a completed attempt is done, and so that the artifacts of a
  COMPLETED run, of which no path belongs to any other attempt, stay.
  `HealthyAttemptsAreKept` is about RunServiceTimed and has two hypotheses.
  `OneThreadEach`: no two threads share a worker identity, since a request and the
  loop of one process can fail each other's run (section 6, 2). `BeatsInTime`: a lease
  outlasts the first heartbeat by a second, the second by which the order of the
  texts can be wrong; the defaults do, the configuration does not require it. Its
  invariant `HealthOK` says of an attempt that nothing has failed in (`Fit`) that its row
  is at the step where the thread is, held by its worker, and that its next beat
  comes a second before the expiry; time does not pass a beat that is due, so
  the lease never looks expired to anyone. A loop that is about to start an
  attempt has claimed its run just now. For the attempts already lost it counts:
  each but the first is paid for by a crash or a fault, and the last that is paid
  for is in the hands of somebody fit as long as its row is active.
* `SourceCacheProofs`, for all faults. `TypesOK` types each job by its step.
  `CommandsRunUnderTheLock` is inductive with it; it says of a host on which an attempt has
  died no more than that locks do not stay in the name of attempts that are past
  their commands, since exclusion is not to be had there (section 6, 3). Nothing
  that follows uses the lock: it holds of attempts that run their commands together.
  `WorkspacesOK` says of every directory which attempt made it and of which commit,
  and of every attempt at which steps it has one: from it `WorkspacesAreOfThePin`,
  `WorkspacesInUseStay` and `AttemptsCleanUp`. What the last one leaves out is what
  can stay in the code: the workspaces of attempts that have crashed or that
  ended `left`, and directories without a marker of attempts that failed.
  `CachesOK` says what an acquisition knows of the cache, whoever else changes it:
  once a fetch has succeeded, some candidate has in the cache a value that the remote had for
  it after the acquisition began, and whatever replaces that value is one, too
  (`GrowingKeepsFetchedNow`); two candidates in the cache are an error;
  objects only become more (`CachesGrow`), so a commit that was there when the replay got the
  lock is there until it returns. From it `SourcesAreOfTheRemote` and
  `ReplaysDoWithoutTheRemote`. Their exceptions are in the properties, by `lost`: a show-ref that
  fails makes another reference be taken for the only one, and a set-url,
  rev-parse or cat-file that fails ends the replay or sends it to the remote.
  At the end of the module, about FileLock: `LockExcludes`, for any threads and hosts, and
  whatever fails short of a crash. The invariant `Exclusion` says what OneHolderUntilACrash is
  silent about: a thread that has created the file and not yet written its name
  owns it already, and while nobody is dead no thread is about to remove a file
  it takes for stale. Without either, an owner could lose the file unnoticed.
* `SQLiteTableProofs`. The invariant says that at most one transaction is open, and
  what it may hold: a call before its UPDATE sees the database itself, a call
  before its COMMIT the database with its own row one version on. The one
  transaction is what makes it inductive: nobody changes the database under an
  open one. `DatabaseChangesByStatements` and `CallsAnswerTruly` follow for the step
  of each action, for any number of processes, connections and interruptions.
* `DynamoTableProofs`. The argument for `CallsTakeEffectOnce` is that a
  statement's condition, once satisfied and acted upon, is never satisfied
  again: an item only moves forward in attempt number, then in phase, and
  within a phase in lease expiry, from nothing to a commit, and into final
  states. `IInv` says that a call that had its effect is *spent*: its item has
  moved beyond what the call's condition asks for; `Forward` steps keep a spent
  call spent. From it, `EveryWriteIsAStatement`, and the refinement
  `DynamoImplementsRepository`: the decoded items are a RunRepository. This is
  not also a run of TLC, which is too slow on it; the action property
  WritesAreStatements, which is, is its core. With it every theorem about
  `RunRepository` holds for DynamoDB as well.
* `RunListingProofs`, for any runs, instants, page size and number of writes, and
  with the texts of both orders. That the texts of instants are in a total order is not
  plain, since a fraction can be before or behind the fractions its digits begin
  (`TextsAreComparable`, `TextsAreOrdered`): it rests on `DigitsNest`. So each row has a place
  of its own, the number of rows ahead of it, and by counting every place below their
  number is some row's (`PlacesAreTaken`): the list that Sorted describes by places
  exists without sorting anything (`ListIsSorted`). The two ways to cut it, a LIMIT of one
  row more and the bounds of a slice, give one page (`PagesAgree`).
  `UntouchedAreListed`: the invariant `UntouchedOK` says that an untouched run is on a page
  already or at a place the reader has not come to. A write that gives its run a later
  text moves the others to later places if at all (`PlacesGrow`), and a page leaves
  out nothing between its offset and the next (`PageReaches`).
  `QuietPagesArePartitioned`: the invariant `QuietOK` says that the pages so far are the
  beginning of the list, and that the offset is a multiple of the limit on it.
* `ValidationRunProofs`, on three levels.
  The command: `ReturnedOutputIsFinal`. Its invariant `GroupIsGone` says it also of
  the time between two calls, from which the next starts, and of the wait
  after SIGKILL, which Run leaves without another check.
  The validation: `ValidationOK`. `CommandOK` follows one command from its start to
  its adapter: the exit code that is handed over is the process's own or
  dropped, and its output is on record in `said`. `StepsOK` says with `Behind`
  which planned steps have had their turn, and that these, and no others, have a
  result, and one; that the steps are as many as the results is then a bijection,
  which is how every count is proved here. `ResultsOK` says that a PASS or FAIL is
  the tool's own, a late one included, and that what is SKIPPED has a failed init behind it;
  `FindingsKept` that what a tool has found wrong is a result or in the hands of the
  command whose turn it is. From it `StepsAreCovered`, `NoFindingsIsEarned`,
  `CompleteIsEarned` and `FindingsSurvive`.
  The report: `ReportsAreValidations` shows AttemptReport to be a ValidationRun, so all of
  this holds of it, and `AttemptOK` adds what the review is made of: diagnostics
  do not change after it (no command is left), `KubeconformOK` (what kubeconform has
  said is in its output until it is judged, which tells a resource that was passed
  over from one whose line was lost), `DiagnosedOK`, and for the provenance `Ended`,
  `LocksOK` and `PreparedOK`. From it `EveryFindingIsJudged`, `FailuresAreExplained` and
  `ProvenanceIsHonest`.

Two forms of definitions were chosen for the provers: where the cases of a CASE
overlap it is written as IF ... ELSE, since TLA+ leaves open which of two true
cases is taken, and no `@` stands inside another EXCEPT.

Only model-checked:

* EveryRunEnds, AcquireReturns, DeadOwnersLockIsBroken and ExecuteReturns: liveness
  under fairness, which needs ENABLED.

Every invariant and every action property of a passing run is stated by a theorem.
No module declares a RECURSIVE operator.

## 6. Disagreements found

1. **Renewal uncertainty ends the run** (`service_uncertain`). The design lets
   the lease expire and the run be reclaimed when a renewal cannot be confirmed.
   The code cancels the attempt and its failure path then calls FailRun with a
   fresh context: the run is FAILED for good (service.go 107-108).
2. **A run fails because it was started twice** (`service_twice`). The request
   goroutine and the worker loop of one process can both start an attempt that
   carries their common identity; the loser of the first UpdatePhase fails the
   run (service.go 89-120, server.go 59). OneExecutorPerAttempt still holds: the
   two never both work.
3. **A live owner's file lock can be removed** (`file_lock_race`). Reading the
   owner and removing the path are separate (git.go 62-64). After a crash two
   attempts of one host can so run commands on one cache at a time, which
   `SourceCache` lets them: the commits that they return and the workspaces that
   they check out are right all the same (section 5).

Five more have a counterexample but no run of their own:

4. **A lease can be taken early** (`MCRunRepositoryEarly.cfg`). Expiries are
   compared as RFC3339Nano texts, which drop trailing zeros (sqlite.go 118, 124,
   290; dynamo.go 134, 391), where the design (825) says
   `lease_expires_at <= observer_now`. Never by a second or more (proved), and the
   fence keeps the table safe (proved).
5. **ErrConditional does not mean that another worker won**
   (`MCDynamoTableRetry.cfg`). The SDK's own retry of an applied claim reports it;
   the run then waits for its lease to expire (dynamo.go 198, service.go 263-265 and
   293-295).
6. **Targets beyond the limit are ignored silently**
   (`MCValidationRunLimits.cfg`). Discovery keeps the first MaxTargets directories
   (discovery.go 75); the run can be NO_FINDINGS with coverage COMPLETE, where the
   design (1602) asks that truncation shows in the coverage or as INCONCLUSIVE.
7. **Skipped documents do not reduce the coverage**
   (`MCValidationRunSkipped.cfg`). Outcome counts a result SKIPPED_UNSUPPORTED as
   partial (service.go 359), but what discovery skips never becomes a result
   (engine.go 56), as the design (1094, 1144) has it.
8. **An init that was timed out can pass** (`MCValidationRunTimeout.cfg`). The status of
   terraform init is that of its exit code alone (engine.go 178), so one that its
   timeout interrupts and that then exits with 0 is PASS, and the run can be NO_FINDINGS.
   The design has "exit 0 -> PREPARATION PASS" (1192) and "non-zero/timeout/dependency
   failure -> PREPARATION ERROR" (1193), which disagree on this case; the code
   follows the first.

## 7. Not modelled

* In the source cache: objects that are not commits, reference names that are
  directories of each other, and garbage collection. A commit that is no longer
  reachable at the remote is served or not, as the server likes.
* In the source cache there are behaviours that no property forbids, each of
  them listed in `hazards`: a show-ref that fails counts as a reference that does
  not exist, so that a stale one can be returned (git.go 366); HEAD can be an old commit when the default
  branch is switched while the attempt runs, since the code asks for it twice (git.go
  312, 352); a stale cached
  reference can make a unique name ambiguous for good (git.go 370), an error and
  never a wrong commit; a crash between init and remote add leaves a cache that
  no later attempt can use (git.go 295); a killed `worktree add` leaves a
  directory without a marker (git.go 435); a cleanup that cannot have the
  lock or cannot remove a file reports an error that is dropped (service.go 104) and leaves
  its workspace to the sweep, which only a test calls (git.go 465), or for good
  once its marker is gone.
* Git processes that outlive a killed server, and the lock files of git itself: a
  command that meets one fails, which is one of the failures under `remote`, `write`
  or `read`.
* In the validation: which directories are Terraform roots, which warnings a tool
  prints beside its verdict, the hashes of module trees, and an opt-in delay for
  acceptance tests. Descendants of
  a command that do not have its output open survive a timeout when they ignore
  SIGTERM; they change nothing in the model.
* The parsing of tool output, redaction, the wording of reports, presentation
  records, configuration and toolchain files, path checks, the web console and
  the deployment files: text and pure input or output.
* In SQLite: a ROLLBACK that fails (its context cannot end), and three behaviours
  of the model that no property forbids: other writers fail while a stray
  transaction is open, a CreateRun inside one is answered and may be lost, and
  only one connection has a busy_timeout (sqlite.go 51, 63, 284).
* In the listing: a run that leaves the state that is asked for, or whose clock is
  behind, can make the reader miss another; a lagging scan of DynamoDB can as well;
  past MaxListOffset the console shows the last window over and over.
* A Put is one step. A crash within os.WriteFile leaves part of a file, but on the
  path of an attempt that then never completes, which no manifest names.
* Reused process ids in AcquireFileLock.

## 8. Plan

Done, in this order: LeaseTime, RunRecord, RunRepository with AnalysisJob and
its proofs; RunService; RunServiceTimed; FileLock; DynamoTable and its proofs;
SourceCache; CommandRunner and ValidationRun with a first proof; AttemptReport;
SQLiteTable and its proofs; RunListing; the served artifacts in RunService; removes
that fail in FileLock and the proof that it excludes; what discovery leaves out; the
proofs about RunService, RunServiceTimed, SourceCache, ValidationRun and AttemptReport;
the listing's order by the places of the rows, and the proofs about it.

Next:

1. SQLiteTable below RunRepository: the refinement, with versions for rows.
2. Heartbeat: retry of a renewal whose answer was lost, and what it is taken for.
3. Documents that discovery cannot read.
