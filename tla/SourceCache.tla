----------------------------- MODULE SourceCache -----------------------------
(***************************************************************************)
(* The source cache of one remote repository: a bare repository on each    *)
(* host, into which the attempts of runs fetch, in which they resolve what *)
(* was asked for, and from which they check out their workspaces.          *)
(*                                                                         *)
(* A git command is a step.  The commands of Acquire, of AcquirePinned, of *)
(* CreateWorkspace and of CleanupWorkspace run under the repository lock   *)
(* of their host, which is modelled here by what FileLock promises of it:  *)
(* one holder as long as no process has died on the host, and none of that *)
(* afterwards, when whoever waits may remove the lock file of anybody.     *)
(* The remote changes at any time.                                         *)
(***************************************************************************)
EXTENDS Integers, FiniteSets, SequencesExt

CONSTANTS
  Hosts, Runs, Names, Commits,
  History,       \* for each commit, the commits fetched along with it
  Requests,      \* run -> the references it may ask for
  FirstRemote,   \* what the remote holds at first
  Faults,        \* what may go wrong: a worker dies ("crash"), a command that asks the
                 \* remote fails ("remote"), one that writes here ("write") or one that
                 \* only reads or repeats what is there ("read"), the lock ("lock")
  Places,        \* bound: run -> for each of its attempts, the hosts that may work on it
  Moves,         \* bound: for the references of the remote that change, what to
  MaxChanges,    \* bound: the changes of the remote
  Nil

Refs == [kind : {"branch", "tag"}, name : Names]
Branch(n) == [kind |-> "branch", name |-> n]
Tag(n) == [kind |-> "tag", name |-> n]

Remotes == [at : [Refs -> Commits \cup {Nil}], default : Names]

(* What NormalizeRef lets through: names, qualified names, HEAD and full commit ids. *)
Forms == [form : {"name", "branch", "tag"}, of : Names]
         \cup [form : {"commit"}, of : Commits] \cup [form : {"HEAD"}, of : {Nil}]

ASSUME SourceCacheAssumption ==
  /\ History \in [Commits -> SUBSET Commits] /\ \A c \in Commits : c \in History[c]
  /\ Requests \in [Runs -> SUBSET Forms]
  /\ Places \in [Runs -> Seq(SUBSET Hosts)] /\ DOMAIN Moves \subseteq Refs
  /\ \A ref \in DOMAIN Moves : Moves[ref] \subseteq Commits \cup {Nil}
  /\ FirstRemote \in Remotes
  /\ Faults \subseteq {"crash", "remote", "write", "read", "lock"}

(* A lock that is free or nobody's has no run as its holder, and the type of no
   source is no type. *)
ASSUME NilIsNothing ==
  Nil \notin Runs /\ Nil \notin {"branch", "tag", "head", "commit"} /\ "orphan" \notin Runs \cup {Nil}

VARIABLES
  past,         \* the states of the remote so far; the last one is the present
  cache,        \* host -> its cache
  lock,         \* host -> its lock file: Nil, the run whose attempt holds it, or "orphan":
                \* that of an attempt that has died or could not remove it
  died,         \* the hosts on which the process of an attempt has died
  request,      \* run -> what it asks for
  pin,          \* run -> the source its row names, or Nil
  job,          \* run -> its current attempt
  workspaces    \* the directories under WorkspaceDir

vars == <<past, cache, lock, died, request, pin, job, workspaces>>

Remote == Last(past)

(* What a cache may be: no HEAD yet, initialised without a remote, or complete. *)
NoCache == [stage |-> "absent", refs |-> [r \in Refs |-> Nil], objects |-> {}]

NoSource == [commit |-> Nil, ref |-> Nil, type |-> Nil]

(* History, which no guard reads: had, that the cache had the pinned commit when
   the attempt got the lock, and lost, that a command of it that only reads or
   repeats has failed. *)
Resting == [pc |-> "idle", attempt |-> 0, host |-> Nil, since |-> 0, todo |-> <<>>,
            fetched |-> FALSE, got |-> NoSource, had |-> FALSE, lost |-> FALSE]

Init ==
  /\ past = <<FirstRemote>>
  /\ cache = [h \in Hosts |-> NoCache]
  /\ lock = [h \in Hosts |-> Nil]
  /\ died = {}
  /\ request \in [Runs -> Forms] /\ \A r \in Runs : request[r] \in Requests[r]
  /\ pin = [r \in Runs |-> NoSource]
  /\ job = [r \in Runs |-> Resting]
  /\ workspaces = {}

Pinned(r) == pin[r] # NoSource
HostOf(r) == job[r].host
CacheOf(r) == cache[HostOf(r)]
At(r, where) == job[r].pc = where

Goto(r, where) == job' = [job EXCEPT ![r].pc = where]

SetCache(r, field, value) == cache' = [cache EXCEPT ![HostOf(r)] = [@ EXCEPT ![field] = value]]

SetLock(r, to) == lock' = [lock EXCEPT ![HostOf(r)] = to]

(* The deferred Close of the lock, which removes the file that is at its path,
   whoever created that; or the file stays. *)
Release(r) ==
  \/ SetLock(r, Nil)
  \/ "lock" \in Faults /\ SetLock(r, IF lock[HostOf(r)] = r THEN "orphan" ELSE lock[HostOf(r)])

End(r, how, lost) ==
  job' = [job EXCEPT ![r] = [Resting EXCEPT !.pc = how, !.attempt = job[r].attempt, !.lost = lost]]

(* Mutant: the way out of a failure forgets the lock. *)
FailHolding(r) == End(r, "failed", job[r].lost) /\ UNCHANGED lock

(* An error of Acquire or CreateWorkspace: the run fails with SOURCE_ERROR. *)
Fail(r) == End(r, "failed", job[r].lost) /\ Release(r)

Lose(r) == "read" \in Faults /\ End(r, "failed", TRUE) /\ Release(r)

Return(r, source) ==
  /\ job' = [job EXCEPT ![r] = [@ EXCEPT !.pc = "acquired", !.got = source,
                                         !.since = 0, !.todo = <<>>, !.fetched = FALSE,
                                         !.had = FALSE, !.lost = FALSE]]
  /\ Release(r)

-----------------------------------------------------------------------------
(* The remote                                                              *)

Becomes(remote) ==
  /\ Len(past) <= MaxChanges
  /\ past' = Append(past, remote)
  /\ UNCHANGED <<cache, lock, died, request, pin, job, workspaces>>

(* A reference is created, moved, or deleted. *)
Push(ref, to) ==
  Remote.at[ref] # to /\ Becomes([Remote EXCEPT !.at[ref] = to])

SwitchDefault(n) ==
  Remote.default # n /\ Remote.at[Branch(n)] # Nil /\ Becomes([Remote EXCEPT !.default = n])

Reachable(remote) == UNION {History[c] : c \in {remote.at[ref] : ref \in Refs} \ {Nil}}

(* A commit no reference leads to any more may still be there to be fetched. *)
MayServe(c) == \E i \in DOMAIN past : c \in Reachable(past[i])
MustServe(c) == c \in Reachable(Remote)

-----------------------------------------------------------------------------
(* Acquire and AcquirePinned                                               *)

Begin(r, h) ==
  /\ At(r, "idle") /\ job[r].attempt < Len(Places[r]) /\ h \in Places[r][job[r].attempt + 1]
  /\ job' = [job EXCEPT ![r] = [@ EXCEPT !.pc = "lock", !.attempt = job[r].attempt + 1,
                                         !.host = h, !.since = Len(past)]]
  /\ UNCHANGED <<past, cache, lock, died, request, pin, workspaces>>

(* What each caller of AcquireFileLock does once it has the lock. *)
AfterLock == [lock |-> "ensure", pinned |-> "add", working |-> "remove"]

Waiting(r) == job[r].pc \in DOMAIN AfterLock

(* The file is created and its owner is written. *)
TakeLock(r) ==
  /\ Waiting(r) /\ lock[HostOf(r)] = Nil
  /\ SetLock(r, r)
  /\ job' = [job EXCEPT ![r] = [@ EXCEPT !.pc = AfterLock[job[r].pc],
                                         !.had = pin[r].commit \in CacheOf(r).objects]]
  /\ UNCHANGED <<past, cache, died, request, pin, workspaces>>

(* Once a process has died, a thread that has read its name may remove what is at
   the path by then: between the two the file can have become anybody's. *)
BreakLock(r) ==
  /\ Waiting(r) /\ HostOf(r) \in died /\ lock[HostOf(r)] # Nil
  /\ SetLock(r, Nil)
  /\ UNCHANGED <<past, cache, died, request, pin, job, workspaces>>

(* AcquireFileLock returns an error: it has waited in vain, or the directory, the
   file or the owner in it could not be written.  A file that was created stays if
   it cannot be removed.  The error of the deferred CleanupWorkspace is dropped, its
   directory stays. *)
LockFails(r) ==
  /\ "lock" \in Faults /\ Waiting(r)
  /\ End(r, IF At(r, "working") THEN "left" ELSE "failed", FALSE)
  /\ UNCHANGED lock \/ (lock[HostOf(r)] = Nil /\ SetLock(r, "orphan"))
  /\ UNCHANGED <<past, cache, died, request, pin, workspaces>>

(* Both candidates of an unqualified name, the branch first. *)
Candidates(q) ==
  CASE q.form = "name"   -> <<Branch(q.of), Tag(q.of)>>
    [] q.form = "branch" -> <<Branch(q.of)>>
    [] q.form = "tag"    -> <<Tag(q.of)>>
    [] OTHER             -> <<>>

(* What follows ensureCache. *)
Entry(r) ==
  IF Pinned(r) THEN "look"
  ELSE CASE request[r].form = "commit" -> "exact"
         [] request[r].form = "HEAD"   -> "ask"
         [] OTHER                      -> "fetch"

Ensured(r) ==
  /\ job' = [job EXCEPT ![r] = [@ EXCEPT !.pc = Entry(r), !.todo = Candidates(request[r])]]
  /\ UNCHANGED lock

FindNoCache(r) ==
  /\ At(r, "ensure") /\ CacheOf(r).stage = "absent"
  /\ Goto(r, "init")
  /\ UNCHANGED <<past, cache, lock, died, request, pin, workspaces>>

(* A cache that another attempt has made meanwhile is left as it is. *)
Initialised(r) ==
  IF CacheOf(r).stage = "absent" THEN SetCache(r, "stage", "bare") ELSE UNCHANGED cache

InitCache(r) ==
  /\ At(r, "init")
  /\ \/ Initialised(r) /\ Goto(r, "origin") /\ UNCHANGED lock
     \/ "write" \in Faults /\ Fail(r) /\ (Initialised(r) \/ UNCHANGED cache)
  /\ UNCHANGED <<past, died, request, pin, workspaces>>

(* It fails where there is an origin. *)
AddOrigin(r) ==
  /\ At(r, "origin")
  /\ \/ CacheOf(r).stage = "bare" /\ SetCache(r, "stage", "ready") /\ Ensured(r)
     \/ (CacheOf(r).stage = "ready" \/ "write" \in Faults) /\ Fail(r) /\ UNCHANGED cache
  /\ UNCHANGED <<past, died, request, pin, workspaces>>

(* A cache whose HEAD exists is only given the URL again, which fails for one
   that never got its remote. *)
SetOrigin(r) ==
  /\ At(r, "ensure") /\ CacheOf(r).stage # "absent"
  /\ \/ CacheOf(r).stage = "ready" /\ Ensured(r)
     \/ CacheOf(r).stage = "bare" /\ Fail(r)
     \/ Lose(r)
  /\ UNCHANGED <<past, cache, died, request, pin, workspaces>>

(* fetch --prune with one explicit refspec: nothing outside it is pruned, and
   tags of fetched commits come along unless the cache has tags of their names. *)
Fetched(k, ref) ==
  LET objects == k.objects \cup History[Remote.at[ref]]
      follows(t) == t.kind = "tag" /\ k.refs[t] = Nil /\ Remote.at[t] \in objects
  IN [k EXCEPT !.objects = objects,
               !.refs = [t \in Refs |-> IF t = ref \/ follows(t) THEN Remote.at[t] ELSE @[t]]]

(* Mutant: the errors of fetch are not looked at. *)
NextCandidateRegardless(r, successful) ==
  IF Len(job[r].todo) > 1
  THEN job' = [job EXCEPT ![r].todo = Tail(@)] /\ UNCHANGED lock
  ELSE Goto(r, "resolve") /\ UNCHANGED lock

(* One candidate is done; fetch is successful if any of them was. *)
NextCandidate(r, successful) ==
  IF Len(job[r].todo) > 1
  THEN /\ job' = [job EXCEPT ![r] = [@ EXCEPT !.todo = Tail(job[r].todo), !.fetched = successful]]
       /\ UNCHANGED lock
  ELSE IF successful THEN Goto(r, "resolve") /\ UNCHANGED lock ELSE Fail(r)

FetchCandidate(r) ==
  LET ref == Head(job[r].todo)
      update == cache' = [cache EXCEPT ![HostOf(r)] = Fetched(CacheOf(r), ref)]
  IN
  /\ At(r, "fetch")
  /\ \/ Remote.at[ref] # Nil /\ update /\ NextCandidate(r, TRUE)
     \/ Remote.at[ref] = Nil /\ UNCHANGED cache /\ NextCandidate(r, job[r].fetched)
     \/ /\ "remote" \in Faults
        /\ (Remote.at[ref] # Nil /\ update) \/ UNCHANGED cache
        /\ NextCandidate(r, job[r].fetched)
  /\ UNCHANGED <<past, died, request, pin, workspaces>>

(* remoteHead: the default branch, if the remote has it. *)
Advertised == Remote.at[Branch(Remote.default)] # Nil

AskHead(r) ==
  /\ At(r, "ask")
  /\ \/ /\ Advertised
        /\ job' = [job EXCEPT ![r] = [@ EXCEPT !.pc = "fetch", !.todo = <<Branch(Remote.default)>>]]
        /\ UNCHANGED lock
     \/ (~Advertised \/ "remote" \in Faults) /\ Fail(r)
  /\ UNCHANGED <<past, cache, died, request, pin, workspaces>>

(* Mutant: a pinned commit is fetched like a requested one. *)
LookAway(r) ==
  /\ At(r, "look")
  /\ Goto(r, "exact")
  /\ UNCHANGED <<past, cache, lock, died, request, pin, workspaces>>

(* A rev-parse that fails for whatever reason sends the replay to the remote. *)
LookForPin(r) ==
  /\ At(r, "look")
  /\ \/ Goto(r, IF pin[r].commit \in CacheOf(r).objects THEN "rev" ELSE "exact")
     \/ "read" \in Faults /\ job' = [job EXCEPT ![r] = [@ EXCEPT !.pc = "exact", !.lost = TRUE]]
  /\ UNCHANGED <<past, cache, lock, died, request, pin, workspaces>>

FetchExact(r) ==
  LET c == IF Pinned(r) THEN pin[r].commit ELSE request[r].of IN
  /\ At(r, "exact")
  /\ \/ /\ MayServe(c)
        /\ SetCache(r, "objects", CacheOf(r).objects \cup History[c])
        /\ Goto(r, "rev") /\ UNCHANGED lock
     \/ (~MustServe(c) \/ "remote" \in Faults) /\ Fail(r) /\ UNCHANGED cache
  /\ UNCHANGED <<past, died, request, pin, workspaces>>

Found(r, ref, lost) ==
  /\ job' = [job EXCEPT ![r] = [@ EXCEPT !.pc = "rev", !.todo = <<ref>>, !.lost = lost]]
  /\ UNCHANGED lock

Existing(r) == {ref \in ToSet(Candidates(request[r])) : CacheOf(r).refs[ref] # Nil}

(* A show-ref that does not get to answer counts as one that found nothing. *)
Seen(r) == IF "read" \in Faults THEN SUBSET Existing(r) ELSE {Existing(r)}

ResolveName(r) ==
  \E seen \in Seen(r) :
    IF Cardinality(seen) = 1
    THEN \E ref \in seen : Found(r, ref, seen # Existing(r))
    ELSE Fail(r)

(* The remote is asked for its default branch once more. *)
ResolveHead(r) ==
  \/ Advertised /\ Found(r, Branch(Remote.default), FALSE)
  \/ (~Advertised \/ "remote" \in Faults) /\ Fail(r)

Resolve(r) ==
  /\ At(r, "resolve")
  /\ IF request[r].form = "HEAD" THEN ResolveHead(r) ELSE ResolveName(r)
  /\ UNCHANGED <<past, cache, died, request, pin, workspaces>>

(* What is known of the source before rev-parse and cat-file have said that its
   commit is there. *)
Answer(r) ==
  IF Pinned(r) THEN pin[r]
  ELSE IF request[r].form = "commit"
  THEN [commit |-> request[r].of, ref |-> request[r].of, type |-> "commit"]
  ELSE LET ref == Head(job[r].todo) IN
       [commit |-> CacheOf(r).refs[ref], ref |-> ref,
        type   |-> IF request[r].form = "HEAD" THEN "head" ELSE ref.kind]

ReadCommit(r) ==
  LET there == Answer(r).commit \in CacheOf(r).objects IN
  /\ At(r, "rev")
  /\ \/ there /\ Return(r, Answer(r))
     \/ ~there /\ Fail(r)
     \/ Lose(r)
  /\ UNCHANGED <<past, cache, died, request, pin, workspaces>>

-----------------------------------------------------------------------------
(* The pin and the workspace                                               *)

(* PinSourceIfAbsent of the run's row; a pinned attempt goes on with its pin. *)
PinSource(r) ==
  /\ At(r, "acquired")
  /\ pin' = [pin EXCEPT ![r] = IF Pinned(r) THEN @ ELSE job[r].got]
  /\ Goto(r, "pinned")
  /\ UNCHANGED <<past, cache, lock, died, request, workspaces>>

(* Mutant: the reference is checked out instead of the commit. *)
CheckedOutRef(r) ==
  LET ref == job[r].got.ref IN IF ref \in Refs THEN CacheOf(r).refs[ref] ELSE ref

CheckedOut(r) == job[r].got.commit

Workspace(r) ==
  [run |-> r, attempt |-> job[r].attempt, host |-> HostOf(r), commit |-> CheckedOut(r), marked |-> FALSE]

IsWorkspaceOf(w, r) == w.run = r /\ w.attempt = job[r].attempt

(* The path is returned only when all went well, so a directory that a killed
   worktree add leaves behind is nobody's. *)
AddWorktree(r) ==
  /\ At(r, "add")
  /\ \/ workspaces' = workspaces \cup {Workspace(r)} /\ Goto(r, "mark") /\ UNCHANGED lock
     \/ /\ "write" \in Faults /\ Fail(r)
        /\ workspaces' = workspaces \cup {Workspace(r)} \/ UNCHANGED workspaces
  /\ UNCHANGED <<past, cache, died, request, pin>>

Others(r) == {w \in workspaces : ~IsWorkspaceOf(w, r)}

Marked(r) == {[w EXCEPT !.marked = w.marked \/ IsWorkspaceOf(w, r)] : w \in workspaces}
Unmarked(r) == {[w EXCEPT !.marked = w.marked /\ ~IsWorkspaceOf(w, r)] : w \in workspaces}

(* Whether the worktree of an unwritten marker is removed is not looked at. *)
WriteMarker(r) ==
  /\ At(r, "mark") /\ Release(r)
  /\ \/ workspaces' = Marked(r) /\ Goto(r, "working")
     \/ "write" \in Faults /\ workspaces' = Others(r) /\ End(r, "failed", FALSE)
     \/ "write" \in Faults /\ workspaces' \in {workspaces, Marked(r)} /\ End(r, "left", FALSE)
  /\ UNCHANGED <<past, cache, died, request, pin>>

(* 'worktree remove', which may fail at any of the files. *)
Unregister(r) ==
  /\ At(r, "remove")
  /\ workspaces' = Others(r) \/ ("write" \in Faults /\ workspaces' \in {workspaces, Unmarked(r)})
  /\ Goto(r, "delete")
  /\ UNCHANGED <<past, cache, lock, died, request, pin>>

(* Mutant: the worktree is unregistered and its directory is not removed. *)
ForgetWorkspace(r) ==
  /\ At(r, "delete")
  /\ End(r, "done", FALSE) /\ Release(r)
  /\ UNCHANGED <<past, cache, died, request, pin, workspaces>>

(* RemoveAll, whose error is CleanupWorkspace's and dropped by its caller. *)
RemoveWorkspace(r) ==
  /\ At(r, "delete") /\ Release(r)
  /\ \/ workspaces' = Others(r) /\ End(r, "done", FALSE)
     \/ "write" \in Faults /\ workspaces' \in {workspaces, Unmarked(r)} /\ End(r, "left", FALSE)
  /\ UNCHANGED <<past, cache, died, request, pin>>

(* Mutant: whose directory it is, is not asked. *)
UnprotectedAny(w) == w.marked

Unprotected(w) == w.marked /\ job[w.run].pc \in {"failed", "done", "left", "dead"}

(* SweepWorkspaces, with the runs that have not ended protected, as its test
   does.  Any of the others may be old enough.  Nothing holds the lock. *)
Sweep(h) ==
  /\ \E w \in workspaces :
       /\ w.host = h /\ Unprotected(w)
       /\ \/ workspaces' = workspaces \ {w}
          \/ "write" \in Faults /\ workspaces' = (workspaces \ {w}) \cup {[w EXCEPT !.marked = FALSE]}
  /\ UNCHANGED <<past, cache, lock, died, request, pin, job>>

Over == {"idle", "failed", "done", "left", "dead"}

(* The process dies, and its lock file stays, also one that it has just created
   to take the lock.  A run that was not finished is given to another attempt.
   Bound: the last attempt of Places does not crash. *)
Crash(r) ==
  /\ "crash" \in Faults /\ job[r].pc \notin Over /\ job[r].attempt < Len(Places[r])
  /\ \/ SetLock(r, IF lock[HostOf(r)] = r THEN "orphan" ELSE lock[HostOf(r)])
     \/ Waiting(r) /\ lock[HostOf(r)] = Nil /\ SetLock(r, "orphan")
  /\ died' = died \cup {HostOf(r)}
  /\ End(r, IF job[r].pc \in {"remove", "delete"} THEN "dead" ELSE "idle", FALSE)
  /\ UNCHANGED <<past, cache, request, pin, workspaces>>

-----------------------------------------------------------------------------

RemoteStep ==
  \/ \E ref \in DOMAIN Moves : \E to \in Moves[ref] : Push(ref, to)
  \/ \E n \in Names : SwitchDefault(n)

AcquireStep(r) ==
  \/ TakeLock(r) \/ BreakLock(r) \/ LockFails(r)
  \/ FindNoCache(r) \/ InitCache(r) \/ AddOrigin(r) \/ SetOrigin(r)
  \/ AskHead(r) \/ FetchCandidate(r) \/ LookForPin(r) \/ FetchExact(r)
  \/ Resolve(r) \/ ReadCommit(r)

WorkspaceStep(r) ==
  PinSource(r) \/ AddWorktree(r) \/ WriteMarker(r) \/ Unregister(r) \/ RemoveWorkspace(r)

AttemptStep(r) == AcquireStep(r) \/ WorkspaceStep(r)

Next ==
  \/ RemoteStep
  \/ \E h \in Hosts : Sweep(h)
  \/ \E r \in Runs : AttemptStep(r) \/ Crash(r) \/ \E h \in Hosts : Begin(r, h)

Spec == Init /\ [][Next]_vars

-----------------------------------------------------------------------------
(* Properties                                                              *)

InAcquire == {"ensure", "init", "origin", "fetch", "ask", "look", "exact", "resolve", "rev"}

Commanding == InAcquire \cup {"add", "mark", "remove", "delete"}

(* A branch, a tag or HEAD resolves to a commit that it had at the remote at some
   moment while Acquire ran: never to one that an earlier attempt left in the
   cache, although the error of one of the two fetches is dropped, and also while
   another attempt fetches into the same cache. There are two exceptions: a
   show-ref that fails is taken for a reference that is not there, and HEAD when
   the remote's default branch is switched meanwhile, where the second answer is
   looked up among the references of earlier attempts. *)
SourceWasAtTheRemote ==
  [][\A r \in Runs :
       /\ At(r, "rev") /\ At(r, "acquired")'
       /\ ~Pinned(r) /\ request[r].form # "commit" /\ ~job[r].lost
       =>
       LET during == {past[i] : i \in job[r].since..Len(past)}
           ref    == job'[r].got.ref
       IN \/ \E remote \in during :
               /\ remote.at[ref] = job'[r].got.commit
               /\ request[r].form = "HEAD" => ref = Branch(remote.default)
          \/ /\ request[r].form = "HEAD"
             /\ \E before, after \in during : before.default # after.default]_vars

(* Where the cache of the host had the pinned commit when a replay got the lock,
   the replay does not need the remote: nothing that happens to the references,
   to the network or in another attempt makes it fail to acquire its source, as
   long as its own commands that only read work. *)
ReplayNeedsNoRemote ==
  [][\A r \in Runs :
       Pinned(r) /\ job[r].pc \in InAcquire /\ At(r, "failed")'
       => ~job[r].had \/ job'[r].lost]_vars

(* Every workspace, those of crashed attempts included, is a checkout of its
   run's pinned commit, however the references moved in the cache in between. *)
WorkspacesShowThePin ==
  \A w \in workspaces : w.commit = pin[w.run].commit

(* An attempt that fails before its workspace is complete leaves none that has a
   marker, and one whose cleanup reports no error leaves nothing. What else stays is of
   attempts that crashed, or whose removal or lock failed ("left"), an error which
   the code drops. *)
OnlyFailedRemovalsLeaveWorkspaces ==
  \A w \in workspaces :
    IsWorkspaceOf(w, w.run) =>
      /\ ~At(w.run, "done")
      /\ w.marked => ~At(w.run, "failed")

(* The workspace of an attempt that works in it is there, whoever sweeps. *)
WorkspaceStaysWhileInUse ==
  \A r \in Runs :
    At(r, "working") => \E w \in workspaces : IsWorkspaceOf(w, r) /\ w.marked /\ w.host = HostOf(r)

(* As long as no attempt has died on a host, the commands of an attempt there run
   while it holds the lock. Whatever fails and whoever has died, a lock
   does not stay in the name of an attempt that is past its commands. *)
LockIsHeldForCommands ==
  /\ \A r \in Runs :
       job[r].pc \in Commanding /\ HostOf(r) \notin died => lock[HostOf(r)] = r
  /\ \A r \in Runs, h \in Hosts :
       lock[h] = r => HostOf(r) = h /\ job[r].pc \in Commanding

=============================================================================
