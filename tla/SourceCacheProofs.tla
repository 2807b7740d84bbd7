-------------------------- MODULE SourceCacheProofs --------------------------
(* Proofs about the source cache: its lock, the workspaces, the pin and what a
   reference resolves to, for any hosts, runs, references and histories; and, at the
   end, about FileLock, the lock itself. *)
EXTENDS SourceCache, FileLock, FiniteSetTheorems, SequenceTheorems, TLAPS

-----------------------------------------------------------------------------
(* Types *)

Sources == [commit : Commits, ref : Refs \cup Commits, type : {"branch", "tag", "head", "commit"}]

Caches == [stage : {"absent", "bare", "ready"}, refs : [Refs -> Commits \cup {Nil}],
           objects : SUBSET Commits]

Pcs == Over \cup Commanding \cup {"lock", "acquired", "pinned", "working"}

Jobs == [pc : Pcs, attempt : Nat, host : Hosts \cup {Nil}, since : Nat, todo : Seq(Refs),
         fetched : BOOLEAN, got : Sources \cup {NoSource}, had : BOOLEAN, lost : BOOLEAN]

LockFilesOf == Runs \cup {Nil, "orphan"}

Directories == [run : Runs, attempt : Nat, host : Hosts, commit : Commits, marked : BOOLEAN]

TypeOK ==
  /\ past \in Seq(Remotes) /\ Len(past) > 0
  /\ cache \in [Hosts -> Caches]
  /\ lock \in [Hosts -> LockFilesOf]
  /\ died \subseteq Hosts
  /\ request \in [Runs -> Forms]
  /\ pin \in [Runs -> Sources \cup {NoSource}]
  /\ job \in [Runs -> Jobs]
  /\ workspaces \subseteq Directories

(* Where an attempt is in its life decides what it has: a host, candidates to
   fetch, a source. *)
HasItsSource == {"pinned", "add", "mark", "working", "remove", "delete"}

JobOK(r) ==
  /\ job[r].pc \notin Over => HostOf(r) \in Hosts /\ job[r].attempt > 0
  /\ At(r, "acquired") => job[r].got \in Sources /\ (Pinned(r) => job[r].got = pin[r])
  /\ job[r].pc \in HasItsSource => Pinned(r) /\ job[r].got = pin[r]
  /\ At(r, "look") => Pinned(r)
  /\ At(r, "exact") /\ ~Pinned(r) => request[r].form = "commit"
  /\ At(r, "ask") => request[r].form = "HEAD" /\ ~Pinned(r)
  /\ At(r, "fetch") => request[r].form # "commit" /\ ~Pinned(r) /\ job[r].todo # <<>>
  /\ At(r, "resolve") => request[r].form # "commit" /\ ~Pinned(r)
  /\ At(r, "rev") /\ ~Pinned(r) /\ request[r].form # "commit" => job[r].todo # <<>>

JobsOK == \A r \in Runs : JobOK(r)

LEMMA NoSourceIsNone == NoSource \notin Sources
BY NilIsNothing DEF NoSource, Sources

LEMMA RemoteIsTyped == TypeOK => Remote \in Remotes
BY DEF TypeOK, Remote, Last

(* The candidates of a request are references. *)
LEMMA CandidatesAreRefs ==
  ASSUME NEW q \in Forms
  PROVE  /\ Candidates(q) \in Seq(Refs)
         /\ q.form \in {"name", "branch", "tag"} => Candidates(q) # <<>>
         /\ q.form \in {"name", "branch", "tag", "commit", "HEAD"}
         /\ q.form = "commit" => q.of \in Commits
<1>1. CASE q \in [form : {"name", "branch", "tag"}, of : Names]
  <2>1. Branch(q.of) \in Refs /\ Tag(q.of) \in Refs
    BY <1>1 DEF Branch, Tag, Refs
  <2>2. CASE q.form = "name"
    <3>1. Candidates(q) = <<Branch(q.of), Tag(q.of)>>
      BY <2>2 DEF Candidates
    <3> QED
      BY <2>1, <2>2, <3>1
  <2>3. CASE q.form = "branch"
    <3>1. Candidates(q) = <<Branch(q.of)>>
      BY <2>3 DEF Candidates
    <3> QED
      BY <2>1, <2>3, <3>1
  <2>4. CASE q.form = "tag"
    <3>1. Candidates(q) = <<Tag(q.of)>>
      BY <2>4 DEF Candidates
    <3> QED
      BY <2>1, <2>4, <3>1
  <2> QED
    BY <1>1, <2>2, <2>3, <2>4
<1>2. CASE q \in [form : {"commit"}, of : Commits] \cup [form : {"HEAD"}, of : {Nil}]
  <2>1. Candidates(q) = <<>>
    BY <1>2 DEF Candidates
  <2> QED
    BY <1>2, <2>1
<1> QED
  BY <1>1, <1>2 DEF Forms

LEMMA TailOfCandidates ==
  ASSUME NEW s \in Seq(Refs)
  PROVE  /\ s # <<>> => Head(s) \in Refs
         /\ Len(s) > 1 => s # <<>> /\ Tail(s) \in Seq(Refs) /\ Tail(s) # <<>>
<1>1. ASSUME s # <<>>
      PROVE  Head(s) \in Refs /\ Tail(s) \in Seq(Refs) /\ Len(Tail(s)) = Len(s) - 1
  BY <1>1, HeadTailProperties
<1>2. Len(s) \in Nat /\ (s = <<>> => Len(s) = 0) /\ (Tail(s) = <<>> => Len(Tail(s)) = 0)
  BY EmptySeq, LenProperties
<1> QED
  BY <1>1, <1>2

LEMMA FetchedIsTyped ==
  ASSUME TypeOK, NEW k \in Caches, NEW ref \in Refs, Remote.at[ref] # Nil
  PROVE  Fetched(k, ref) \in Caches
<1>1. Remote.at \in [Refs -> Commits \cup {Nil}]
  BY RemoteIsTyped DEF Remotes
<1>2. k.objects \cup History[Remote.at[ref]] \subseteq Commits
  BY <1>1, SourceCacheAssumption DEF Caches, SourceCacheAssumption
<1> QED
  BY <1>1, <1>2 DEF Fetched, Caches

LEMMA RestingIsAJob == Resting \in Jobs
<1>1. <<>> \in Seq(Refs)
  OBVIOUS
<1> QED
  BY <1>1 DEF Jobs, Resting, Pcs, Over

-----------------------------------------------------------------------------
(* Every step keeps the types *)

TypesOK == TypeOK /\ JobsOK

(* The state of everything that is not a job. *)
RestIsTyped ==
  /\ cache \in [Hosts -> Caches]
  /\ lock \in [Hosts -> LockFilesOf]
  /\ died \subseteq Hosts
  /\ workspaces \subseteq Directories

(* A step that gives one run a new job, and neither the remote nor a pin changes. *)
LEMMA OneJobChanges ==
  ASSUME TypesOK, NEW r \in Runs, NEW new \in Jobs,
         job' = [job EXCEPT ![r] = new], RestIsTyped', JobOK(r)',
         UNCHANGED <<past, request, pin>>
  PROVE  TypesOK'
<1>1. TypeOK'
  BY DEF TypesOK, TypeOK, RestIsTyped
<1>2. ASSUME NEW s \in Runs, s # r
      PROVE  JobOK(s)'
  <2>1. JobOK(s) /\ job'[s] = job[s] /\ HostOf(s)' = HostOf(s)
    BY <1>2 DEF TypesOK, TypeOK, JobsOK, HostOf
  <2> QED
    BY <2>1 DEF JobOK, At, Pinned
<1> QED
  BY <1>1, <1>2 DEF TypesOK, JobsOK

LEMMA EndIsTyped ==
  ASSUME TypesOK, NEW r \in Runs, NEW how \in Over, NEW lost \in BOOLEAN, End(r, how, lost),
         RestIsTyped', UNCHANGED <<past, request, pin>>
  PROVE  TypesOK'
<1> DEFINE new == [Resting EXCEPT !.pc = how, !.attempt = job[r].attempt, !.lost = lost]
<1>1. how \in Pcs
  BY DEF Pcs
<1>2. new \in Jobs /\ new.pc = how /\ job' = [job EXCEPT ![r] = new] /\ job \in [Runs -> Jobs]
  BY <1>1, RestingIsAJob DEF Jobs, TypesOK, TypeOK, End
<1> HIDE DEF new
<1>3. job'[r].pc = how
  BY <1>2
<1>4. JobOK(r)'
  BY <1>3 DEF JobOK, At, Over, HasItsSource
<1> QED
  BY <1>2, <1>4, OneJobChanges

LEMMA GotoIsTyped ==
  ASSUME TypesOK, NEW r \in Runs, NEW where \in Pcs, Goto(r, where), RestIsTyped',
         JobOK(r)', UNCHANGED <<past, request, pin>>
  PROVE  TypesOK'
<1> DEFINE new == [job[r] EXCEPT !.pc = where]
<1>1. new \in Jobs /\ job' = [job EXCEPT ![r] = new]
  BY DEF Jobs, TypesOK, TypeOK, Goto
<1> HIDE DEF new
<1> QED
  BY <1>1, OneJobChanges

(* What Goto leaves alone. *)
LEMMA GotoKeeps ==
  ASSUME TypesOK, NEW r \in Runs, NEW where, Goto(r, where)
  PROVE  /\ job'[r].pc = where /\ job'[r].host = job[r].host /\ job'[r].attempt = job[r].attempt
         /\ job'[r].since = job[r].since /\ job'[r].todo = job[r].todo
         /\ job'[r].fetched = job[r].fetched /\ job'[r].got = job[r].got
         /\ job'[r].had = job[r].had /\ job'[r].lost = job[r].lost
         /\ \A s \in Runs \ {r} : job'[s] = job[s]
BY DEF TypesOK, TypeOK, Jobs, Goto

LEMMA SetLockIsTyped ==
  ASSUME TypesOK, NEW r \in Runs, NEW to \in LockFilesOf, SetLock(r, to)
  PROVE  lock' \in [Hosts -> LockFilesOf]
BY DEF TypesOK, TypeOK, SetLock

LEMMA ReleaseIsTyped ==
  ASSUME TypesOK, NEW r \in Runs, HostOf(r) \in Hosts, Release(r)
  PROVE  lock' \in [Hosts -> LockFilesOf]
<1>1. lock[HostOf(r)] \in LockFilesOf
  BY DEF TypesOK, TypeOK
<1>2. PICK to \in LockFilesOf : SetLock(r, to)
  BY <1>1 DEF Release, LockFilesOf
<1> QED
  BY <1>2, SetLockIsTyped

LEMMA SetCacheIsTyped ==
  ASSUME TypesOK, NEW r \in Runs, HostOf(r) \in Hosts, NEW stage \in {"absent", "bare", "ready"},
         NEW objects \in SUBSET Commits
  PROVE  /\ SetCache(r, "stage", stage) => cache' \in [Hosts -> Caches]
         /\ SetCache(r, "objects", objects) => cache' \in [Hosts -> Caches]
<1>1. cache \in [Hosts -> Caches]
  BY DEF TypesOK, TypeOK
<1>2. /\ [cache[HostOf(r)] EXCEPT !["stage"] = stage] \in Caches
      /\ [cache[HostOf(r)] EXCEPT !["objects"] = objects] \in Caches
  BY <1>1 DEF Caches
<1> QED
  BY <1>1, <1>2 DEF SetCache

(* The fields of an attempt that runs. *)
LEMMA Attempting ==
  ASSUME TypesOK, NEW r \in Runs, job[r].pc \notin Over
  PROVE  HostOf(r) \in Hosts /\ job[r].attempt \in Nat \ {0} /\ job[r] \in Jobs /\ JobOK(r)
         /\ CacheOf(r) \in Caches
BY DEF TypesOK, TypeOK, JobsOK, JobOK, Jobs, CacheOf

LEMMA BeginIsTyped ==
  ASSUME TypesOK, NEW r \in Runs, NEW h \in Hosts, Begin(r, h)
  PROVE  TypesOK'
<1> DEFINE new == [job[r] EXCEPT !.pc = "lock", !.attempt = job[r].attempt + 1,
                               !.host = h, !.since = Len(past)]
<1>1. Len(past) \in Nat /\ job[r] \in Jobs
  BY DEF TypesOK, TypeOK
<1>2. new \in Jobs /\ new.pc = "lock" /\ new.host = h /\ new.attempt > 0
      /\ job' = [job EXCEPT ![r] = new] /\ job \in [Runs -> Jobs]
  <2>1. ASSUME NEW j \in Jobs, NEW moment \in Nat
        PROVE  [j EXCEPT !.pc = "lock", !.attempt = j.attempt + 1, !.host = h, !.since = moment] \in Jobs
    <3>1. "lock" \in Pcs
      BY DEF Pcs
    <3>2. j.attempt + 1 \in Nat
      BY DEF Jobs
    <3> QED
      BY <3>1, <3>2 DEF Jobs
  <2>4. new \in Jobs
    BY <1>1, <2>1
  <2>3. new.pc = "lock" /\ new.host = h /\ new.attempt > 0
    BY <1>1 DEF Jobs
  <2>2. job' = [job EXCEPT ![r] = new]
    BY Zenon DEF Begin
  <2> HIDE DEF new
  <2> QED
    BY <2>4, <2>2, <2>3 DEF TypesOK, TypeOK
<1> HIDE DEF new
<1>3. job'[r] = new
  BY <1>2
<1>4. JobOK(r)'
  BY <1>2, <1>3 DEF JobOK, At, HasItsSource, HostOf
<1>5. RestIsTyped'
  BY DEF TypesOK, TypeOK, RestIsTyped, Begin
<1> QED
  BY <1>2, <1>4, <1>5, OneJobChanges DEF Begin

LEMMA FailIsTyped ==
  ASSUME TypesOK, NEW r \in Runs, job[r].pc \notin Over, Fail(r) \/ Lose(r),
         cache' \in [Hosts -> Caches], workspaces' \subseteq Directories,
         UNCHANGED <<past, request, pin, died>>
  PROVE  TypesOK'
<1>1. HostOf(r) \in Hosts /\ job[r].lost \in BOOLEAN
  BY Attempting DEF Jobs
<1>2. Release(r) /\ \E lost \in BOOLEAN : End(r, "failed", lost)
  BY <1>1 DEF Fail, Lose
<1>3. RestIsTyped'
  BY <1>1, <1>2, ReleaseIsTyped DEF RestIsTyped, TypesOK, TypeOK
<1> QED
  BY <1>2, <1>3, EndIsTyped DEF Over

(* An attempt that waits for the lock. *)
LEMMA WaitingAttempt ==
  ASSUME TypesOK, NEW r \in Runs, Waiting(r)
  PROVE  /\ job[r].pc \in {"lock", "pinned", "working"} /\ job[r].pc \notin Over
         /\ job[r].pc \notin Commanding /\ HostOf(r) \in Hosts
         /\ job[r].pc = "lock" => AfterLock[job[r].pc] = "ensure"
         /\ job[r].pc = "pinned" => AfterLock[job[r].pc] = "add"
         /\ job[r].pc = "working" => AfterLock[job[r].pc] = "remove"
<1>1. job[r].pc \in {"lock", "pinned", "working"}
  BY DEF Waiting, AfterLock
<1>2. job[r].pc \notin Over /\ job[r].pc \notin Commanding
  BY <1>1 DEF Over, Commanding, InAcquire
<1> QED
  BY <1>1, <1>2, Attempting DEF AfterLock

LEMMA TakeLockTakes ==
  ASSUME TypesOK, NEW r \in Runs, TakeLock(r)
  PROVE  LET new == [job[r] EXCEPT !.pc = AfterLock[job[r].pc],
                                   !.had = pin[r].commit \in CacheOf(r).objects]
         IN  /\ job' = [job EXCEPT ![r] = new] /\ job'[r] = new /\ new \in Jobs
             /\ new.pc = AfterLock[job[r].pc] /\ new.host = job[r].host
             /\ new.attempt = job[r].attempt /\ new.got = job[r].got /\ new.since = job[r].since
             /\ new.fetched = job[r].fetched /\ new.todo = job[r].todo /\ new.lost = job[r].lost
             /\ new.had = (pin[r].commit \in CacheOf(r).objects)
<1> DEFINE where == AfterLock[job[r].pc]
           there == pin[r].commit \in CacheOf(r).objects
           new == [job[r] EXCEPT !.pc = where, !.had = there]
<1>1. where \in Pcs
  BY WaitingAttempt DEF TakeLock, Pcs, Commanding, InAcquire
<1>2. there \in BOOLEAN
  OBVIOUS
<1>3. job' = [job EXCEPT ![r] = [@ EXCEPT !.pc = where, !.had = there]]
  BY Zenon DEF TakeLock
<1>4. job[r] \in Jobs /\ job \in [Runs -> Jobs]
  BY DEF TypesOK, TypeOK
<1> HIDE DEF where, there
<1>5. job' = [job EXCEPT ![r] = new] /\ job'[r] = new
  BY <1>3, <1>4
<1>6. new \in Jobs /\ new.pc = where /\ new.host = job[r].host
      /\ new.attempt = job[r].attempt /\ new.got = job[r].got /\ new.since = job[r].since
      /\ new.fetched = job[r].fetched /\ new.todo = job[r].todo /\ new.lost = job[r].lost
      /\ new.had = there
  BY <1>1, <1>2, <1>4 DEF Jobs
<1> QED
  BY <1>5, <1>6 DEF where, there

LEMMA TakeLockIsTyped ==
  ASSUME TypesOK, NEW r \in Runs, TakeLock(r)
  PROVE  TypesOK'
<1>1. /\ job[r].pc \in {"lock", "pinned", "working"} /\ job[r].pc \notin Over
      /\ HostOf(r) \in Hosts /\ JobOK(r) /\ SetLock(r, r) /\ r \in LockFilesOf
      /\ UNCHANGED <<past, cache, died, request, pin, workspaces>>
  BY WaitingAttempt, Attempting DEF TakeLock, LockFilesOf
<1> DEFINE new == [job[r] EXCEPT !.pc = AfterLock[job[r].pc],
                                 !.had = pin[r].commit \in CacheOf(r).objects]
<1>2. /\ job' = [job EXCEPT ![r] = new] /\ job'[r] = new /\ new \in Jobs
      /\ new.pc = AfterLock[job[r].pc]
      /\ new.host = job[r].host /\ new.attempt = job[r].attempt /\ new.got = job[r].got
  BY TakeLockTakes
<1> HIDE DEF new
<1>5. /\ job[r].pc = "lock" => new.pc = "ensure"
      /\ job[r].pc = "pinned" => new.pc = "add"
      /\ job[r].pc = "working" => new.pc = "remove"
  BY <1>2, WaitingAttempt DEF TakeLock
<1>3. JobOK(r)'
  BY <1>1, <1>2, <1>5 DEF JobOK, At, Over, HasItsSource, HostOf, Pinned
<1>4. RestIsTyped'
  BY <1>1, SetLockIsTyped DEF TypesOK, TypeOK, RestIsTyped
<1> QED
  BY <1>1, <1>2, <1>3, <1>4, OneJobChanges

LEMMA NoLockIsTyped ==
  ASSUME TypesOK, NEW r \in Runs, BreakLock(r) \/ LockFails(r)
  PROVE  TypesOK'
<1>1. lock' \in [Hosts -> LockFilesOf]
  <2>1. Nil \in LockFilesOf /\ "orphan" \in LockFilesOf
    BY DEF LockFilesOf
  <2>2. UNCHANGED lock \/ SetLock(r, Nil) \/ SetLock(r, "orphan")
    BY DEF BreakLock, LockFails
  <2> QED
    BY <2>1, <2>2, SetLockIsTyped DEF TypesOK, TypeOK
<1>2. RestIsTyped' /\ UNCHANGED <<past, request, pin>>
  BY <1>1 DEF TypesOK, TypeOK, RestIsTyped, BreakLock, LockFails
<1>3. CASE BreakLock(r)
  BY <1>2, <1>3 DEF BreakLock, RestIsTyped, TypesOK, TypeOK, JobsOK, JobOK, At, HostOf, Pinned
<1>4. CASE LockFails(r)
  BY <1>2, <1>4, EndIsTyped DEF LockFails, Over
<1> QED
  BY <1>3, <1>4

(* The commands that make the cache and give it its origin. *)
LEMMA EnsuredIsTyped ==
  ASSUME TypesOK, NEW r \in Runs, job[r].pc \notin Over, Ensured(r),
         cache' \in [Hosts -> Caches], UNCHANGED <<past, request, pin, died, workspaces>>
  PROVE  TypesOK'
<1> DEFINE todo == Candidates(request[r])
           where == Entry(r)
           new == [job[r] EXCEPT !.pc = where, !.todo = todo]
<1>1. request[r] \in Forms /\ job[r] \in Jobs
  BY DEF TypesOK, TypeOK
<1>2. todo \in Seq(Refs)
  BY <1>1, CandidatesAreRefs
<1>3. /\ where \in {"look", "exact", "ask", "fetch"}
      /\ where = "look" => Pinned(r)
      /\ where = "exact" => ~Pinned(r) /\ request[r].form = "commit"
      /\ where = "ask" => ~Pinned(r) /\ request[r].form = "HEAD"
      /\ where = "fetch" => ~Pinned(r) /\ request[r].form \in {"name", "branch", "tag"}
  <2>1. request[r].form \in {"name", "branch", "tag", "commit", "HEAD"}
    BY <1>1, CandidatesAreRefs
  <2>2. CASE Pinned(r)
    BY <2>2 DEF Entry
  <2>3. CASE ~Pinned(r) /\ request[r].form = "commit"
    BY <2>3 DEF Entry
  <2>4. CASE ~Pinned(r) /\ request[r].form = "HEAD"
    BY <2>4 DEF Entry
  <2>5. CASE ~Pinned(r) /\ request[r].form \in {"name", "branch", "tag"}
    BY <2>5 DEF Entry
  <2> QED
    BY <2>1, <2>2, <2>3, <2>4, <2>5
<1>4. where = "fetch" => todo # <<>>
  BY <1>1, <1>3, CandidatesAreRefs
<1>5. job' = [job EXCEPT ![r] = new] /\ UNCHANGED lock
  BY Zenon DEF Ensured
<1> HIDE DEF todo, where
<1>6. where \in Pcs
  BY <1>3 DEF Pcs, Commanding, InAcquire
<1>7. new \in Jobs /\ new.pc = where /\ new.todo = todo /\ new.host = job[r].host
      /\ new.attempt = job[r].attempt
  BY <1>1, <1>2, <1>6 DEF Jobs
<1> HIDE DEF new
<1>8. job'[r] = new
  BY <1>5 DEF TypesOK, TypeOK
<1>9. JobOK(r)'
  BY <1>3, <1>4, <1>7, <1>8, Attempting DEF JobOK, At, Over, HasItsSource, HostOf, Pinned
<1>10. RestIsTyped'
  BY <1>5 DEF TypesOK, TypeOK, RestIsTyped
<1> QED
  BY <1>5, <1>7, <1>9, <1>10, OneJobChanges

LEMMA FindNoCacheIsTyped ==
  ASSUME TypesOK, NEW r \in Runs, FindNoCache(r)
  PROVE  TypesOK'
<1>1. job[r].pc = "ensure" /\ job[r].pc \notin Over /\ Goto(r, "init") /\ "init" \in Pcs
  BY DEF FindNoCache, At, Over, Pcs, Commanding, InAcquire
<1>2. JobOK(r)'
  BY <1>1, Attempting, GotoKeeps DEF JobOK, At, Over, HasItsSource, HostOf
<1>3. RestIsTyped' /\ UNCHANGED <<past, request, pin>>
  BY DEF RestIsTyped, FindNoCache, TypesOK, TypeOK
<1> QED
  BY <1>1, <1>2, <1>3, GotoIsTyped

LEMMA InitCacheIsTyped ==
  ASSUME TypesOK, NEW r \in Runs, InitCache(r)
  PROVE  TypesOK'
<1>1. job[r].pc = "init" /\ job[r].pc \notin Over
  BY DEF InitCache, At, Over
<1>2. cache' \in [Hosts -> Caches]
  BY <1>1, Attempting, SetCacheIsTyped DEF InitCache, Initialised, TypesOK, TypeOK
<1>3. CASE Fail(r)
  BY <1>1, <1>2, <1>3, FailIsTyped DEF InitCache, TypesOK, TypeOK
<1>4. CASE Goto(r, "origin") /\ UNCHANGED lock
  <2>1. "origin" \in Pcs
    BY DEF Pcs, Commanding, InAcquire
  <2>2. JobOK(r)'
    BY <1>1, <1>4, Attempting, GotoKeeps DEF JobOK, At, Over, HasItsSource, HostOf
  <2>3. RestIsTyped' /\ UNCHANGED <<past, request, pin>>
    BY <1>2, <1>4 DEF RestIsTyped, InitCache, TypesOK, TypeOK
  <2> QED
    BY <1>4, <2>1, <2>2, <2>3, GotoIsTyped
<1> QED
  BY <1>3, <1>4 DEF InitCache

LEMMA OriginIsTyped ==
  ASSUME TypesOK, NEW r \in Runs, AddOrigin(r) \/ SetOrigin(r)
  PROVE  TypesOK'
<1>1. job[r].pc \notin Over
  BY DEF AddOrigin, SetOrigin, At, Over
<1>2. cache' \in [Hosts -> Caches]
  BY <1>1, Attempting, SetCacheIsTyped DEF AddOrigin, SetOrigin, TypesOK, TypeOK
<1>3. workspaces' \subseteq Directories /\ UNCHANGED <<past, died, request, pin, workspaces>>
  BY DEF AddOrigin, SetOrigin, TypesOK, TypeOK
<1>4. Fail(r) \/ Lose(r) \/ Ensured(r)
  BY DEF AddOrigin, SetOrigin
<1> QED
  BY <1>1, <1>2, <1>3, <1>4, FailIsTyped, EnsuredIsTyped

LEMMA AskHeadIsTyped ==
  ASSUME TypesOK, NEW r \in Runs, AskHead(r)
  PROVE  TypesOK'
<1>1. job[r].pc = "ask" /\ job[r].pc \notin Over /\ workspaces' \subseteq Directories
      /\ cache' \in [Hosts -> Caches] /\ UNCHANGED <<past, cache, died, request, pin, workspaces>>
  BY DEF AskHead, At, Over, TypesOK, TypeOK
<1>2. CASE Fail(r)
  BY <1>1, <1>2, FailIsTyped
<1> DEFINE ref == Branch(Remote.default)
           new == [job[r] EXCEPT !.pc = "fetch", !.todo = <<ref>>]
<1>3. CASE job' = [job EXCEPT ![r] = new] /\ UNCHANGED lock
  <2>1. ref \in Refs /\ job[r] \in Jobs
    BY RemoteIsTyped DEF Remotes, Branch, Refs, TypesOK, TypeOK
  <2>2. <<ref>> \in Seq(Refs) /\ <<ref>> # <<>>
    BY <2>1
  <2> HIDE DEF ref
  <2>3. "fetch" \in Pcs
    BY DEF Pcs, Commanding, InAcquire
  <2>4. new \in Jobs /\ new.pc = "fetch" /\ new.todo = <<ref>> /\ new.host = job[r].host
        /\ new.attempt = job[r].attempt
    BY <2>1, <2>2, <2>3 DEF Jobs
  <2> HIDE DEF new
  <2>5. job'[r] = new
    BY <1>3 DEF TypesOK, TypeOK
  <2>6. JobOK(r)'
    BY <1>1, <2>2, <2>4, <2>5, Attempting DEF JobOK, At, Over, HasItsSource, HostOf, Pinned
  <2>7. RestIsTyped'
    BY <1>1, <1>3 DEF RestIsTyped, TypesOK, TypeOK
  <2> QED
    BY <1>1, <1>3, <2>4, <2>6, <2>7, OneJobChanges
<1> QED
  BY Zenon, <1>2, <1>3 DEF AskHead

(* The fetch of one candidate, whatever became of it. *)
LEMMA NextCandidateIsTyped ==
  ASSUME TypesOK, NEW r \in Runs, At(r, "fetch"), NEW successful \in BOOLEAN,
         NextCandidate(r, successful), cache' \in [Hosts -> Caches],
         UNCHANGED <<past, died, request, pin, workspaces>>
  PROVE  TypesOK'
<1>1. job[r].pc = "fetch" /\ job[r].pc \notin Over /\ workspaces' \subseteq Directories
  BY DEF At, Over, TypesOK, TypeOK
<1>2. CASE Fail(r)
  BY <1>1, <1>2, FailIsTyped
<1>3. CASE Goto(r, "resolve") /\ UNCHANGED lock
  <2>1. "resolve" \in Pcs
    BY DEF Pcs, Commanding, InAcquire
  <2>2. JobOK(r)'
    BY <1>1, <1>3, Attempting, GotoKeeps DEF JobOK, At, Over, HasItsSource, HostOf, Pinned
  <2>3. RestIsTyped'
    BY <1>1, <1>3 DEF RestIsTyped, TypesOK, TypeOK
  <2> QED
    BY <1>3, <2>1, <2>2, <2>3, GotoIsTyped
<1> DEFINE new == [job[r] EXCEPT !.todo = Tail(job[r].todo), !.fetched = successful]
<1>4. CASE /\ Len(job[r].todo) > 1 /\ UNCHANGED lock
           /\ job' = [job EXCEPT ![r] = new]
  <2>1. job[r] \in Jobs /\ job[r].todo \in Seq(Refs)
    BY DEF TypesOK, TypeOK, Jobs
  <2>2. Tail(job[r].todo) \in Seq(Refs) /\ Tail(job[r].todo) # <<>>
    BY <1>4, <2>1, TailOfCandidates
  <2>3. new \in Jobs /\ new.pc = "fetch" /\ new.todo = Tail(job[r].todo)
        /\ new.host = job[r].host /\ new.attempt = job[r].attempt
    BY <1>1, <2>1, <2>2 DEF Jobs
  <2> HIDE DEF new
  <2>4. job'[r] = new
    BY <1>4 DEF TypesOK, TypeOK
  <2>5. JobOK(r)'
    BY <1>1, <2>2, <2>3, <2>4, Attempting DEF JobOK, At, Over, HasItsSource, HostOf, Pinned
  <2>6. RestIsTyped'
    BY <1>1, <1>4 DEF RestIsTyped, TypesOK, TypeOK
  <2> QED
    BY <1>1, <1>4, <2>3, <2>5, <2>6, OneJobChanges
<1> QED
  BY Zenon, <1>2, <1>3, <1>4 DEF NextCandidate

LEMMA FetchCandidateIsTyped ==
  ASSUME TypesOK, NEW r \in Runs, FetchCandidate(r)
  PROVE  TypesOK'
<1> DEFINE ref == Head(job[r].todo)
           update == cache' = [cache EXCEPT ![HostOf(r)] = Fetched(CacheOf(r), ref)]
<1>1. At(r, "fetch") /\ UNCHANGED <<past, died, request, pin, workspaces>> /\ job[r].pc \notin Over
  BY DEF FetchCandidate, At, Over
<1>2. /\ (Remote.at[ref] # Nil /\ update) \/ UNCHANGED cache
      /\ \E successful \in BOOLEAN : NextCandidate(r, successful)
  <2>1. job[r].fetched \in BOOLEAN
    BY DEF TypesOK, TypeOK, Jobs
  <2> QED
    BY Zenon, <2>1 DEF FetchCandidate
<1>3. ref \in Refs
  <2>1. job[r].todo \in Seq(Refs) /\ job[r].todo # <<>>
    BY <1>1 DEF TypesOK, TypeOK, Jobs, JobsOK, JobOK
  <2> QED
    BY <2>1
<1> HIDE DEF ref
<1>4. cache' \in [Hosts -> Caches]
  <2>1. CASE UNCHANGED cache
    BY <2>1 DEF TypesOK, TypeOK
  <2>2. CASE Remote.at[ref] # Nil /\ update
    <3>1. Fetched(CacheOf(r), ref) \in Caches /\ cache \in [Hosts -> Caches] /\ HostOf(r) \in Hosts
      BY <1>1, <1>3, <2>2, Attempting, FetchedIsTyped DEF TypesOK, TypeOK
    <3> QED
      BY <2>2, <3>1
  <2> QED
    BY <1>2, <2>1, <2>2
<1> QED
  BY <1>1, <1>2, <1>4, NextCandidateIsTyped

(* Either the pinned commit is found, or the remote is asked for it. *)
LEMMA LookForPinLooks ==
  ASSUME TypesOK, NEW r \in Runs, LookForPin(r)
  PROVE  /\ job'[r] \in Jobs /\ job' = [job EXCEPT ![r] = job'[r]]
         /\ job'[r].pc \in {"rev", "exact"} /\ job'[r].host = job[r].host
         /\ job'[r].attempt = job[r].attempt /\ job'[r].since = job[r].since
         /\ job'[r].had = job[r].had /\ (job[r].lost => job'[r].lost)
         /\ job'[r].pc = "exact" => pin[r].commit \notin CacheOf(r).objects \/ job'[r].lost
         /\ \A s \in Runs \ {r} : job'[s] = job[s]
<1>1. job[r] \in Jobs /\ job \in [Runs -> Jobs]
  BY DEF TypesOK, TypeOK
<1>2. "rev" \in Pcs /\ "exact" \in Pcs
  BY DEF Pcs, Commanding, InAcquire
<1>3. CASE Goto(r, IF pin[r].commit \in CacheOf(r).objects THEN "rev" ELSE "exact")
  <2> DEFINE where == IF pin[r].commit \in CacheOf(r).objects THEN "rev" ELSE "exact"
             new == [job[r] EXCEPT !.pc = where]
  <2>1. where \in {"rev", "exact"} /\ (where = "exact" => pin[r].commit \notin CacheOf(r).objects)
    OBVIOUS
  <2>2. job' = [job EXCEPT ![r].pc = where]
    BY <1>3 DEF Goto
  <2> HIDE DEF where
  <2>3. job' = [job EXCEPT ![r] = new] /\ job'[r] = new
    BY <1>1, <2>2
  <2>4. /\ new \in Jobs /\ new.pc = where /\ new.host = job[r].host /\ new.attempt = job[r].attempt
        /\ new.since = job[r].since /\ new.had = job[r].had /\ new.lost = job[r].lost
    BY <1>1, <1>2, <2>1 DEF Jobs
  <2> HIDE DEF new
  <2> QED
    BY <1>1, <2>1, <2>3, <2>4
<1>4. CASE job' = [job EXCEPT ![r] = [@ EXCEPT !.pc = "exact", !.lost = TRUE]]
  <2> DEFINE new == [job[r] EXCEPT !.pc = "exact", !.lost = TRUE]
  <2>1. job' = [job EXCEPT ![r] = new] /\ job'[r] = new
    BY <1>1, <1>4
  <2>2. /\ new \in Jobs /\ new.pc = "exact" /\ new.host = job[r].host /\ new.attempt = job[r].attempt
        /\ new.since = job[r].since /\ new.had = job[r].had /\ new.lost = TRUE
    BY <1>1, <1>2 DEF Jobs
  <2> HIDE DEF new
  <2> QED
    BY <1>1, <2>1, <2>2
<1> QED
  BY Zenon, <1>3, <1>4 DEF LookForPin

LEMMA LookForPinIsTyped ==
  ASSUME TypesOK, NEW r \in Runs, LookForPin(r)
  PROVE  TypesOK'
<1>1. job[r].pc = "look" /\ job[r].pc \notin Over /\ UNCHANGED <<past, cache, lock, died, request, pin, workspaces>>
  BY DEF LookForPin, At, Over
<1>2. JobOK(r)'
  BY <1>1, LookForPinLooks, Attempting DEF JobOK, At, Over, HasItsSource, HostOf, Pinned
<1>3. RestIsTyped'
  BY <1>1 DEF RestIsTyped, TypesOK, TypeOK
<1> QED
  BY <1>1, <1>2, <1>3, LookForPinLooks, OneJobChanges

(* What FetchExact fetches is a commit. *)
Exact(r) == IF Pinned(r) THEN pin[r].commit ELSE request[r].of

LEMMA ExactIsACommit ==
  ASSUME TypesOK, NEW r \in Runs, At(r, "exact")
  PROVE  Exact(r) \in Commits
<1>1. CASE Pinned(r)
  BY <1>1 DEF Exact, Pinned, TypesOK, TypeOK, Sources
<1>2. CASE ~Pinned(r)
  <2>1. request[r] \in Forms /\ request[r].form = "commit"
    BY <1>2 DEF TypesOK, TypeOK, JobsOK, JobOK
  <2> QED
    BY <1>2, <2>1, CandidatesAreRefs DEF Exact
<1> QED
  BY <1>1, <1>2

LEMMA FetchExactIsTyped ==
  ASSUME TypesOK, NEW r \in Runs, FetchExact(r)
  PROVE  TypesOK'
<1>1. job[r].pc = "exact" /\ job[r].pc \notin Over /\ At(r, "exact")
      /\ UNCHANGED <<past, died, request, pin, workspaces>>
  BY DEF FetchExact, At, Over
<1>2. \/ /\ SetCache(r, "objects", CacheOf(r).objects \cup History[Exact(r)])
         /\ Goto(r, "rev") /\ UNCHANGED lock
      \/ Fail(r) /\ UNCHANGED cache
  BY Zenon DEF FetchExact, Exact
<1>3. CacheOf(r).objects \cup History[Exact(r)] \in SUBSET Commits
  BY <1>1, Attempting, ExactIsACommit, SourceCacheAssumption DEF Caches, SourceCacheAssumption
<1>4. cache' \in [Hosts -> Caches]
  BY <1>1, <1>2, <1>3, Attempting, SetCacheIsTyped DEF TypesOK, TypeOK
<1>5. CASE Fail(r)
  BY <1>1, <1>4, <1>5, FailIsTyped DEF TypesOK, TypeOK
<1>6. CASE Goto(r, "rev") /\ UNCHANGED lock
  <2>1. "rev" \in Pcs
    BY DEF Pcs, Commanding, InAcquire
  <2>2. JobOK(r)'
    BY <1>1, <1>6, Attempting, GotoKeeps DEF JobOK, At, Over, HasItsSource, HostOf, Pinned
  <2>3. RestIsTyped'
    BY <1>1, <1>4, <1>6 DEF RestIsTyped, TypesOK, TypeOK
  <2> QED
    BY <1>1, <1>6, <2>1, <2>2, <2>3, GotoIsTyped
<1> QED
  BY <1>2, <1>5, <1>6

LEMMA ReturnIsTyped ==
  ASSUME TypesOK, NEW r \in Runs, job[r].pc \notin Over, NEW source \in Sources,
         Return(r, source), Pinned(r) => source = pin[r],
         UNCHANGED <<past, cache, died, request, pin, workspaces>>
  PROVE  TypesOK'
<1> DEFINE new == [job[r] EXCEPT !.pc = "acquired", !.got = source, !.since = 0, !.todo = <<>>,
                                 !.fetched = FALSE, !.had = FALSE, !.lost = FALSE]
<1>1. job[r] \in Jobs /\ <<>> \in Seq(Refs) /\ "acquired" \in Pcs
  BY DEF TypesOK, TypeOK, Pcs
<1>2. new \in Jobs /\ new.pc = "acquired" /\ new.got = source /\ new.host = job[r].host
      /\ new.attempt = job[r].attempt
  BY <1>1 DEF Jobs
<1>3. job' = [job EXCEPT ![r] = new]
  BY Zenon DEF Return
<1> HIDE DEF new
<1>4. job'[r] = new
  BY <1>3 DEF TypesOK, TypeOK
<1>5. JobOK(r)'
  BY <1>2, <1>4, Attempting DEF JobOK, At, Over, HasItsSource, HostOf, Pinned
<1>6. RestIsTyped'
  BY ReleaseIsTyped, Attempting DEF Return, RestIsTyped, TypesOK, TypeOK
<1> QED
  BY <1>2, <1>3, <1>5, <1>6, OneJobChanges

LEMMA FoundIsFound ==
  ASSUME TypesOK, NEW r \in Runs, NEW ref \in Refs, NEW lost \in BOOLEAN, Found(r, ref, lost)
  PROVE  /\ job'[r] \in Jobs /\ job' = [job EXCEPT ![r] = job'[r]]
         /\ job'[r].pc = "rev" /\ job'[r].todo = <<ref>> /\ job'[r].lost = lost
         /\ job'[r].host = job[r].host /\ job'[r].attempt = job[r].attempt
         /\ job'[r].since = job[r].since /\ job'[r].had = job[r].had
         /\ \A s \in Runs \ {r} : job'[s] = job[s]
         /\ UNCHANGED lock
<1> DEFINE todo == <<ref>>
           new == [job[r] EXCEPT !.pc = "rev", !.todo = todo, !.lost = lost]
<1>1. job[r] \in Jobs /\ job \in [Runs -> Jobs] /\ todo \in Seq(Refs) /\ "rev" \in Pcs
  BY DEF TypesOK, TypeOK, Pcs, Commanding, InAcquire
<1>2. job' = [job EXCEPT ![r] = [@ EXCEPT !.pc = "rev", !.todo = todo, !.lost = lost]] /\ UNCHANGED lock
  BY Zenon DEF Found
<1> HIDE DEF todo
<1>3. job' = [job EXCEPT ![r] = new] /\ job'[r] = new
  BY <1>1, <1>2
<1>4. /\ new \in Jobs /\ new.pc = "rev" /\ new.todo = todo /\ new.lost = lost
      /\ new.host = job[r].host /\ new.attempt = job[r].attempt
      /\ new.since = job[r].since /\ new.had = job[r].had
  BY <1>1 DEF Jobs
<1> HIDE DEF new
<1> QED
  BY <1>1, <1>2, <1>3, <1>4 DEF todo

(* What show-ref or the remote has said of which reference it is. *)
LEMMA ResolvedIsAReference ==
  ASSUME TypesOK, NEW r \in Runs, Resolve(r), ~Fail(r)
  PROVE  \/ /\ request[r].form = "HEAD" /\ Branch(Remote.default) \in Refs
            /\ Found(r, Branch(Remote.default), FALSE)
         \/ /\ request[r].form # "HEAD"
            /\ \E ref \in Existing(r) \cap Refs, lost \in BOOLEAN :
                 /\ Found(r, ref, lost)
                 /\ ~lost => Cardinality(Existing(r)) = 1
<1>1. CASE request[r].form = "HEAD"
  <2>1. Branch(Remote.default) \in Refs
    BY RemoteIsTyped DEF Remotes, Branch, Refs, TypesOK
  <2>2. Found(r, Branch(Remote.default), FALSE)
    BY Zenon, <1>1 DEF Resolve, ResolveHead
  <2> QED
    BY <1>1, <2>1, <2>2
<1>2. CASE request[r].form # "HEAD"
  <2>1. PICK seen \in Seen(r) : /\ Cardinality(seen) = 1
                                /\ \E ref \in seen : Found(r, ref, seen # Existing(r))
    BY Zenon, <1>2 DEF Resolve, ResolveName
  <2>2. PICK ref \in seen : Found(r, ref, seen # Existing(r))
    BY <2>1
  <2>3. ref \in Existing(r)
    BY <2>2 DEF Seen
  <2>4. Existing(r) \subseteq Refs
    <3>1. Candidates(request[r]) \in Seq(Refs)
      BY CandidatesAreRefs DEF TypesOK, TypeOK
    <3> HIDE DEF Candidates
    <3> QED
      BY <3>1, LenProperties DEF ToSet, Existing
  <2> DEFINE lost == seen # Existing(r)
  <2>5. lost \in BOOLEAN /\ (~lost => Cardinality(Existing(r)) = 1)
    BY <2>1
  <2>6. Found(r, ref, lost)
    BY <2>2
  <2> HIDE DEF lost
  <2> QED
    BY <1>2, <2>3, <2>4, <2>5, <2>6
<1> QED
  BY <1>1, <1>2

LEMMA ResolveIsTyped ==
  ASSUME TypesOK, NEW r \in Runs, Resolve(r)
  PROVE  TypesOK'
<1>1. job[r].pc \notin Over /\ UNCHANGED <<past, cache, died, request, pin, workspaces>>
      /\ cache' \in [Hosts -> Caches] /\ workspaces' \subseteq Directories /\ At(r, "resolve")
  BY DEF Resolve, At, Over, TypesOK, TypeOK
<1>2. CASE Fail(r)
  BY <1>1, <1>2, FailIsTyped
<1>3. CASE ~Fail(r)
  <2>1. PICK ref \in Refs, lost \in BOOLEAN : Found(r, ref, lost)
    BY <1>3, ResolvedIsAReference
  <2>2. <<ref>> # <<>>
    OBVIOUS
  <2>3. JobOK(r)'
    BY <1>1, <2>1, <2>2, FoundIsFound, Attempting DEF JobOK, At, Over, HasItsSource, HostOf, Pinned
  <2>4. RestIsTyped'
    BY <1>1, <2>1, FoundIsFound DEF RestIsTyped, TypesOK, TypeOK
  <2> QED
    BY <1>1, <2>1, <2>3, <2>4, FoundIsFound, OneJobChanges
<1> QED
  BY <1>2, <1>3

(* The answer is the pin, or a source of a commit that is there. *)
LEMMA AnswerIsASource ==
  ASSUME TypesOK, NEW r \in Runs, At(r, "rev"), Answer(r).commit \in CacheOf(r).objects
  PROVE  Answer(r) \in Sources /\ (Pinned(r) => Answer(r) = pin[r])
<1>1. CacheOf(r) \in Caches /\ request[r] \in Forms /\ job[r] \in Jobs /\ JobOK(r)
  <2>1. job[r].pc \notin Over
    BY DEF At, Over
  <2> QED
    BY <2>1, Attempting DEF TypesOK, TypeOK
<1>2. CASE Pinned(r)
  BY <1>2 DEF Pinned, Answer, TypesOK, TypeOK
<1>3. CASE ~Pinned(r) /\ request[r].form = "commit"
  <2>1. request[r].of \in Commits
    BY <1>1, <1>3, CandidatesAreRefs
  <2> QED
    BY <1>3, <2>1 DEF Answer, Sources
<1>4. CASE ~Pinned(r) /\ request[r].form # "commit"
  <2> DEFINE ref == Head(job[r].todo)
             type == IF request[r].form = "HEAD" THEN "head" ELSE ref.kind
  <2>1. ref \in Refs
    <3>1. job[r].todo # <<>> /\ job[r].todo \in Seq(Refs)
      BY <1>1, <1>4 DEF JobOK, Jobs
    <3> QED
      BY <3>1
  <2>2. type \in {"branch", "tag", "head", "commit"}
    BY <2>1 DEF Refs
  <2>3. Answer(r) = [commit |-> CacheOf(r).refs[ref], ref |-> ref, type |-> type]
    BY <1>4 DEF Answer
  <2> HIDE DEF ref, type
  <2>4. CacheOf(r).refs[ref] \in Commits
    BY <1>1, <2>3 DEF Caches
  <2> QED
    BY <1>4, <2>1, <2>2, <2>3, <2>4 DEF Sources
<1> QED
  BY <1>2, <1>3, <1>4

LEMMA ReadCommitIsTyped ==
  ASSUME TypesOK, NEW r \in Runs, ReadCommit(r)
  PROVE  TypesOK'
<1>1. job[r].pc \notin Over /\ UNCHANGED <<past, cache, died, request, pin, workspaces>>
      /\ cache' \in [Hosts -> Caches] /\ workspaces' \subseteq Directories /\ At(r, "rev")
  BY DEF ReadCommit, At, Over, TypesOK, TypeOK
<1>2. CASE Fail(r) \/ Lose(r)
  BY <1>1, <1>2, FailIsTyped
<1>3. CASE Answer(r).commit \in CacheOf(r).objects /\ Return(r, Answer(r))
  BY <1>1, <1>3, AnswerIsASource, ReturnIsTyped
<1> QED
  BY <1>2, <1>3 DEF ReadCommit

LEMMA PinSourceIsTyped ==
  ASSUME TypesOK, NEW r \in Runs, PinSource(r)
  PROVE  TypesOK'
<1>1. job[r].pc = "acquired" /\ job[r].pc \notin Over /\ Goto(r, "pinned")
      /\ UNCHANGED <<past, cache, lock, died, request, workspaces>>
  BY DEF PinSource, At, Over
<1> DEFINE source == IF Pinned(r) THEN pin[r] ELSE job[r].got
<1>2. source \in Sources /\ source = job[r].got /\ source # NoSource
  BY <1>1, Attempting, NoSourceIsNone DEF JobOK, At, Pinned, TypesOK, TypeOK
<1>3. pin' = [pin EXCEPT ![r] = source]
  BY DEF PinSource
<1> HIDE DEF source
<1>4. pin' \in [Runs -> Sources \cup {NoSource}] /\ pin'[r] = job[r].got /\ pin'[r] # NoSource
      /\ \A s \in Runs \ {r} : pin'[s] = pin[s]
  BY <1>2, <1>3 DEF TypesOK, TypeOK
<1>5. "pinned" \in Pcs
  BY DEF Pcs
<1>6. TypeOK'
  <2>1. job' = [job EXCEPT ![r].pc = "pinned"] /\ job \in [Runs -> Jobs]
    BY <1>1 DEF Goto, TypesOK, TypeOK
  <2>2. [job[r] EXCEPT !.pc = "pinned"] \in Jobs
    BY <1>5, <2>1 DEF Jobs
  <2>3. job' \in [Runs -> Jobs]
    BY <2>1, <2>2
  <2> QED
    BY <1>1, <1>4, <2>3 DEF TypesOK, TypeOK
<1>7. JobOK(r)'
  BY <1>1, <1>4, Attempting, GotoKeeps DEF JobOK, At, Over, HasItsSource, HostOf, Pinned
<1>8. ASSUME NEW s \in Runs, s # r
      PROVE  JobOK(s)'
  <2>1. job'[s] = job[s] /\ pin'[s] = pin[s] /\ JobOK(s)
    BY <1>1, <1>4, <1>8, GotoKeeps DEF TypesOK, JobsOK
  <2> QED
    BY <1>1, <2>1 DEF JobOK, At, HostOf, Pinned
<1> QED
  BY <1>6, <1>7, <1>8 DEF TypesOK, JobsOK

(* The directory of an attempt that has its source. *)
LEMMA WorkspaceIsTyped ==
  ASSUME TypesOK, NEW r \in Runs, job[r].pc \in HasItsSource
  PROVE  Workspace(r) \in Directories /\ Workspace(r).commit = pin[r].commit
<1>1. job[r].pc \notin Over
  BY DEF HasItsSource, Over
<1>2. Pinned(r) /\ job[r].got = pin[r] /\ pin[r] \in Sources
  BY DEF TypesOK, TypeOK, JobsOK, JobOK, Pinned
<1>3. job[r].got.commit \in Commits
  BY <1>2 DEF Sources
<1> QED
  BY <1>1, <1>2, <1>3, Attempting DEF Workspace, CheckedOut, Directories

LEMMA MarkedIsTyped ==
  ASSUME TypesOK, NEW r \in Runs
  PROVE  Marked(r) \subseteq Directories /\ Unmarked(r) \subseteq Directories
<1>1. ASSUME NEW w \in workspaces, NEW marked \in BOOLEAN
      PROVE  [w EXCEPT !.marked = marked] \in Directories
  BY DEF TypesOK, TypeOK, Directories
<1>2. ASSUME NEW w \in workspaces
      PROVE  /\ (w.marked \/ IsWorkspaceOf(w, r)) \in BOOLEAN
             /\ (w.marked /\ ~IsWorkspaceOf(w, r)) \in BOOLEAN
  OBVIOUS
<1> QED
  BY <1>1, <1>2 DEF Marked, Unmarked

(* The commands on a workspace: the attempt goes on, or it is over. *)
LEMMA WorkspaceStepIsTyped ==
  ASSUME TypesOK, NEW r \in Runs,
         AddWorktree(r) \/ WriteMarker(r) \/ Unregister(r) \/ RemoveWorkspace(r)
  PROVE  TypesOK'
<1>1. job[r].pc \in {"add", "mark", "remove", "delete"} /\ job[r].pc \notin Over
      /\ UNCHANGED <<past, cache, died, request, pin>>
  BY DEF AddWorktree, WriteMarker, Unregister, RemoveWorkspace, At, Over
<1>2. cache' \in [Hosts -> Caches] /\ lock \in [Hosts -> LockFilesOf] /\ died' \subseteq Hosts
  BY <1>1 DEF TypesOK, TypeOK
<1>3. workspaces' \subseteq Directories
  <2>1. Workspace(r) \in Directories /\ workspaces \subseteq Directories
    BY <1>1, WorkspaceIsTyped DEF HasItsSource, TypesOK, TypeOK
  <2>2. \/ workspaces' \in {workspaces, workspaces \cup {Workspace(r)}}
        \/ workspaces' \in {Others(r), Marked(r), Unmarked(r)}
    BY Zenon DEF AddWorktree, WriteMarker, Unregister, RemoveWorkspace
  <2>3. Others(r) \subseteq workspaces
    BY DEF Others
  <2> QED
    BY <2>1, <2>2, <2>3, MarkedIsTyped
<1>4. CASE Fail(r)
  BY <1>1, <1>2, <1>3, <1>4, FailIsTyped
<1>5. CASE Release(r) /\ \E how \in {"failed", "left", "done"} : End(r, how, FALSE)
  <2>1. RestIsTyped'
    BY <1>1, <1>2, <1>3, <1>5, ReleaseIsTyped, Attempting DEF RestIsTyped
  <2> QED
    BY <1>1, <1>5, <2>1, EndIsTyped DEF Over
<1>6. ASSUME NEW where \in {"mark", "working", "delete"}, Goto(r, where), UNCHANGED lock \/ Release(r)
      PROVE  TypesOK'
  <2>1. where \in Pcs
    BY DEF Pcs, Commanding, InAcquire
  <2>2. JobOK(r)'
    BY <1>1, <1>6, Attempting, GotoKeeps DEF JobOK, At, Over, HasItsSource, HostOf, Pinned
  <2>3. RestIsTyped'
    BY <1>1, <1>2, <1>3, <1>6, ReleaseIsTyped, Attempting DEF RestIsTyped
  <2> QED
    BY <1>1, <1>6, <2>1, <2>2, <2>3, GotoIsTyped
<1> QED
  BY <1>4, <1>5, <1>6 DEF AddWorktree, WriteMarker, Unregister, RemoveWorkspace

LEMMA SweepIsTyped ==
  ASSUME TypesOK, NEW h \in Hosts, Sweep(h)
  PROVE  TypesOK'
<1>1. UNCHANGED <<past, cache, lock, died, request, pin, job>> /\ workspaces \subseteq Directories
  BY DEF Sweep, TypesOK, TypeOK
<1>2. PICK w \in workspaces :
        workspaces' \in {workspaces \ {w}, (workspaces \ {w}) \cup {[w EXCEPT !.marked = FALSE]}}
  BY DEF Sweep
<1>3. [w EXCEPT !.marked = FALSE] \in Directories
  BY <1>1 DEF Directories
<1>4. workspaces' \subseteq Directories
  BY <1>1, <1>2, <1>3
<1> QED
  BY <1>1, <1>4 DEF TypesOK, TypeOK, JobsOK, JobOK, At, HostOf, Pinned

LEMMA CrashIsTyped ==
  ASSUME TypesOK, NEW r \in Runs, Crash(r)
  PROVE  TypesOK'
<1>1. HostOf(r) \in Hosts /\ lock[HostOf(r)] \in LockFilesOf /\ "orphan" \in LockFilesOf
  BY Attempting DEF Crash, TypesOK, TypeOK, LockFilesOf
<1>2. PICK to \in LockFilesOf : SetLock(r, to)
  BY <1>1 DEF Crash
<1>3. RestIsTyped' /\ UNCHANGED <<past, request, pin>>
  BY <1>1, <1>2, SetLockIsTyped DEF Crash, RestIsTyped, TypesOK, TypeOK
<1>4. \E how \in Over : End(r, how, FALSE)
  BY DEF Crash, Over
<1> QED
  BY <1>3, <1>4, EndIsTyped

LEMMA RemoteStepIsTyped ==
  ASSUME TypesOK, RemoteStep
  PROVE  TypesOK'
<1>1. Remote \in Remotes
  BY RemoteIsTyped DEF TypesOK
<1>2. PICK remote \in Remotes : Becomes(remote)
  <2>1. CASE \E ref \in DOMAIN Moves : \E to \in Moves[ref] : Push(ref, to)
    <3>1. PICK ref \in Refs : \E to \in Commits \cup {Nil} : Push(ref, to)
      BY <2>1, SourceCacheAssumption DEF SourceCacheAssumption
    <3>2. PICK to \in Commits \cup {Nil} : Push(ref, to)
      BY <3>1
    <3>3. [Remote EXCEPT !.at[ref] = to] \in Remotes
      BY <1>1 DEF Remotes
    <3> QED
      BY <3>2, <3>3 DEF Push
  <2>2. CASE \E n \in Names : SwitchDefault(n)
    <3>1. PICK n \in Names : SwitchDefault(n)
      BY <2>2
    <3>2. [Remote EXCEPT !.default = n] \in Remotes
      BY <1>1 DEF Remotes
    <3> QED
      BY <3>1, <3>2 DEF SwitchDefault
  <2> QED
    BY <2>1, <2>2 DEF RemoteStep
<1>3. past' \in Seq(Remotes) /\ Len(past') > 0
  <2>1. past \in Seq(Remotes) /\ past' = Append(past, remote)
    BY <1>2 DEF TypesOK, TypeOK, Becomes
  <2> QED
    BY <2>1, AppendProperties, LenProperties
<1>4. UNCHANGED <<cache, lock, died, request, pin, job, workspaces>>
  BY <1>2 DEF Becomes
<1> QED
  BY <1>3, <1>4 DEF TypesOK, TypeOK, JobsOK, JobOK, At, HostOf, Pinned

LEMMA NextIsTyped ==
  ASSUME TypesOK, [Next]_vars
  PROVE  TypesOK'
<1>1. CASE RemoteStep
  BY <1>1, RemoteStepIsTyped
<1>2. CASE \E h \in Hosts : Sweep(h)
  BY <1>2, SweepIsTyped
<1>3. ASSUME NEW r \in Runs, AttemptStep(r)
      PROVE  TypesOK'
  BY <1>3, TakeLockIsTyped, NoLockIsTyped, FindNoCacheIsTyped, InitCacheIsTyped, OriginIsTyped,
     AskHeadIsTyped, FetchCandidateIsTyped, LookForPinIsTyped, FetchExactIsTyped, ResolveIsTyped,
     ReadCommitIsTyped, PinSourceIsTyped, WorkspaceStepIsTyped DEF AttemptStep, AcquireStep, WorkspaceStep
<1>4. ASSUME NEW r \in Runs, Crash(r) \/ \E h \in Hosts : Begin(r, h)
      PROVE  TypesOK'
  BY <1>4, CrashIsTyped, BeginIsTyped
<1>5. CASE UNCHANGED vars
  BY <1>5 DEF vars, TypesOK, TypeOK, JobsOK, JobOK, At, HostOf, Pinned
<1> QED
  BY <1>1, <1>2, <1>3, <1>4, <1>5 DEF Next

LEMMA InitIsTyped == Init => TypesOK
<1> SUFFICES ASSUME Init PROVE TypesOK
  OBVIOUS
<1>1. past \in Seq(Remotes) /\ Len(past) > 0
  <2>1. FirstRemote \in Remotes
    BY SourceCacheAssumption DEF SourceCacheAssumption
  <2> QED
    BY <2>1 DEF Init
<1>2. NoCache \in Caches
  BY DEF NoCache, Caches
<1>3. Resting \in Jobs /\ Nil \in LockFilesOf
  BY RestingIsAJob DEF LockFilesOf
<1>4. TypeOK
  BY <1>1, <1>2, <1>3 DEF Init, TypeOK
<1>5. \A r \in Runs : job[r].pc = "idle"
  BY DEF Init, Resting
<1> QED
  BY <1>4, <1>5 DEF TypesOK, JobsOK, JobOK, At, Over, HasItsSource

-----------------------------------------------------------------------------
(* The lock *)

OnlyJob(r) == \A s \in Runs \ {r} : job'[s] = job[s]

(* What a step of an attempt does to the lock of its host. *)
Takes(r) ==
  /\ job[r].pc \notin Commanding /\ job'[r].pc \in Commanding /\ job'[r].host = job[r].host
  /\ HostOf(r) \in Hosts /\ lock[HostOf(r)] = Nil
  /\ SetLock(r, r)

Continues(r) ==
  /\ job[r].pc \in Commanding /\ job'[r].pc \in Commanding /\ job'[r].host = job[r].host
  /\ UNCHANGED lock

Finishes(r) == job[r].pc \in Commanding /\ job'[r].pc \notin Commanding /\ Release(r)

(* An attempt that is not in its commands touches a lock that somebody has only
   on a host where a process has died. *)
StaysOut(r) ==
  /\ job[r].pc \notin Commanding /\ job'[r].pc \notin Commanding
  /\ \/ UNCHANGED lock
     \/ /\ lock[HostOf(r)] = Nil \/ HostOf(r) \in died
        /\ SetLock(r, Nil) \/ SetLock(r, "orphan")

LockMoves(r) == UNCHANGED died /\ (Takes(r) \/ Continues(r) \/ Finishes(r) \/ StaysOut(r))

LEMMA EndEnds ==
  ASSUME TypesOK, NEW r \in Runs, NEW how, NEW lost, End(r, how, lost)
  PROVE  /\ job'[r].pc = how /\ job'[r].host = Nil /\ job'[r].attempt = job[r].attempt
         /\ job'[r].lost = lost /\ OnlyJob(r)
BY DEF TypesOK, TypeOK, End, Resting, OnlyJob

LEMMA FailEnds ==
  ASSUME TypesOK, NEW r \in Runs
  PROVE  /\ Fail(r) => /\ job'[r].pc = "failed" /\ job'[r].attempt = job[r].attempt
                       /\ job'[r].lost = job[r].lost /\ Release(r) /\ OnlyJob(r)
         /\ Lose(r) => /\ job'[r].pc = "failed" /\ job'[r].attempt = job[r].attempt
                       /\ job'[r].lost = TRUE /\ Release(r) /\ OnlyJob(r)
BY EndEnds DEF Fail, Lose

LEMMA ReturnReturns ==
  ASSUME TypesOK, NEW r \in Runs, NEW source, Return(r, source)
  PROVE  /\ job'[r].pc = "acquired" /\ job'[r].got = source
         /\ job'[r].attempt = job[r].attempt /\ job'[r].host = job[r].host /\ OnlyJob(r)
         /\ Release(r)
<1>1. job[r] \in Jobs /\ job \in [Runs -> Jobs]
  BY DEF TypesOK, TypeOK
<1>2. job'[r] = [job[r] EXCEPT !.pc = "acquired", !.got = source, !.since = 0,
                               !.todo = <<>>, !.fetched = FALSE, !.had = FALSE, !.lost = FALSE]
      /\ OnlyJob(r) /\ Release(r)
  BY <1>1 DEF Return, OnlyJob
<1> QED
  BY <1>1, <1>2 DEF Jobs

LEMMA EnsuredGoesOn ==
  ASSUME TypesOK, NEW r \in Runs, Ensured(r)
  PROVE  /\ job'[r].pc = Entry(r) /\ job'[r].todo = Candidates(request[r])
         /\ job'[r].attempt = job[r].attempt /\ job'[r].host = job[r].host
         /\ job'[r].since = job[r].since /\ job'[r].fetched = job[r].fetched
         /\ job'[r].had = job[r].had /\ job'[r].lost = job[r].lost /\ OnlyJob(r)
         /\ Entry(r) \in {"look", "exact", "ask", "fetch"} /\ UNCHANGED lock
<1> DEFINE where == Entry(r)
           todo == Candidates(request[r])
<1>1. where \in {"look", "exact", "ask", "fetch"}
  BY DEF Entry
<1>2. job' = [job EXCEPT ![r] = [@ EXCEPT !.pc = where, !.todo = todo]] /\ UNCHANGED lock
  BY DEF Ensured
<1> HIDE DEF where, todo
<1>3. job[r] \in Jobs /\ job \in [Runs -> Jobs]
  BY DEF TypesOK, TypeOK
<1>4. job'[r] = [job[r] EXCEPT !.pc = where, !.todo = todo] /\ OnlyJob(r)
  BY <1>2, <1>3 DEF OnlyJob
<1>5. /\ job'[r].pc = where /\ job'[r].todo = todo
      /\ job'[r].attempt = job[r].attempt /\ job'[r].host = job[r].host
      /\ job'[r].since = job[r].since /\ job'[r].fetched = job[r].fetched
      /\ job'[r].had = job[r].had /\ job'[r].lost = job[r].lost
  BY <1>3, <1>4 DEF Jobs
<1> QED
  BY <1>1, <1>2, <1>4, <1>5 DEF where, todo

(* The three ways on from the fetch of a candidate. *)
Another(r, successful) ==
  /\ Len(job[r].todo) > 1
  /\ job'[r] = [job[r] EXCEPT !.todo = Tail(job[r].todo), !.fetched = successful]
  /\ OnlyJob(r) /\ UNCHANGED lock

LEMMA NextCandidateGoesOn ==
  ASSUME TypesOK, NEW r \in Runs, NEW successful, NextCandidate(r, successful)
  PROVE  \/ Another(r, successful)
         \/ /\ ~(Len(job[r].todo) > 1)
            /\ (successful /\ Goto(r, "resolve") /\ UNCHANGED lock) \/ Fail(r)
<1>1. job \in [Runs -> Jobs]
  BY DEF TypesOK, TypeOK
<1> DEFINE new == [job[r] EXCEPT !.todo = Tail(job[r].todo), !.fetched = successful]
<1>2. CASE Len(job[r].todo) > 1
  <2>1. job' = [job EXCEPT ![r] = new] /\ UNCHANGED lock
    BY Zenon, <1>2 DEF NextCandidate
  <2> HIDE DEF new
  <2>2. job'[r] = new /\ OnlyJob(r)
    BY <1>1, <2>1 DEF OnlyJob
  <2> QED
    BY Zenon, <1>2, <2>1, <2>2 DEF Another, new
<1>3. CASE ~(Len(job[r].todo) > 1)
  BY Zenon, <1>3 DEF NextCandidate
<1> QED
  BY <1>2, <1>3

LEMMA AnotherGoesOn ==
  ASSUME TypesOK, NEW r \in Runs, NEW successful, Another(r, successful)
  PROVE  /\ job'[r].pc = job[r].pc /\ job'[r].host = job[r].host
         /\ job'[r].attempt = job[r].attempt /\ job'[r].since = job[r].since
         /\ job'[r].todo = Tail(job[r].todo) /\ job'[r].fetched = successful
         /\ job'[r].had = job[r].had /\ job'[r].lost = job[r].lost
         /\ OnlyJob(r) /\ UNCHANGED lock
<1>1. job[r] \in Jobs
  BY DEF TypesOK, TypeOK
<1> QED
  BY <1>1 DEF Another, Jobs

LEMMA AskHeadGoesOn ==
  ASSUME TypesOK, NEW r \in Runs, AskHead(r), ~Fail(r)
  PROVE  /\ job'[r].pc = "fetch" /\ job'[r].todo = <<Branch(Remote.default)>>
         /\ job'[r].attempt = job[r].attempt /\ job'[r].host = job[r].host
         /\ job'[r].since = job[r].since /\ job'[r].fetched = job[r].fetched
         /\ job'[r].had = job[r].had /\ job'[r].lost = job[r].lost /\ OnlyJob(r)
         /\ Advertised /\ UNCHANGED lock
<1> DEFINE todo == <<Branch(Remote.default)>>
<1>1. job' = [job EXCEPT ![r] = [@ EXCEPT !.pc = "fetch", !.todo = todo]]
      /\ Advertised /\ UNCHANGED lock
  BY Zenon DEF AskHead
<1> HIDE DEF todo
<1>2. job[r] \in Jobs /\ job \in [Runs -> Jobs]
  BY DEF TypesOK, TypeOK
<1>3. job'[r] = [job[r] EXCEPT !.pc = "fetch", !.todo = todo] /\ OnlyJob(r)
  BY <1>1, <1>2 DEF OnlyJob
<1>4. /\ job'[r].pc = "fetch" /\ job'[r].todo = todo
      /\ job'[r].attempt = job[r].attempt /\ job'[r].host = job[r].host
      /\ job'[r].since = job[r].since /\ job'[r].fetched = job[r].fetched
      /\ job'[r].had = job[r].had /\ job'[r].lost = job[r].lost
  BY <1>2, <1>3 DEF Jobs
<1> QED
  BY <1>1, <1>3, <1>4 DEF todo

(* Every step of an attempt moves the lock in one of the four ways, and changes
   no other job. *)
LEMMA AttemptMovesTheLock ==
  ASSUME TypesOK, NEW r \in Runs, AttemptStep(r)
  PROVE  LockMoves(r) /\ OnlyJob(r)
<1>0. UNCHANGED died
  BY Zenon DEF AttemptStep, AcquireStep, WorkspaceStep, TakeLock, BreakLock, LockFails, FindNoCache,
     InitCache, AddOrigin, SetOrigin, AskHead, FetchCandidate, LookForPin, FetchExact, Resolve,
     ReadCommit, PinSource, AddWorktree, WriteMarker, Unregister, RemoveWorkspace
<1>1. ASSUME job[r].pc \in Commanding, Fail(r) \/ Lose(r)
      PROVE  LockMoves(r) /\ OnlyJob(r)
  BY <1>0, <1>1, FailEnds DEF LockMoves, Finishes, Commanding, InAcquire
<1>2. ASSUME job[r].pc \in Commanding, UNCHANGED lock,
             NEW where \in Commanding, Goto(r, where)
      PROVE  LockMoves(r) /\ OnlyJob(r)
  BY <1>0, <1>2, GotoKeeps DEF LockMoves, Continues, OnlyJob
<1>3. ASSUME job[r].pc \in Commanding, Ensured(r)
      PROVE  LockMoves(r) /\ OnlyJob(r)
  BY <1>0, <1>3, EnsuredGoesOn DEF LockMoves, Continues, Commanding, InAcquire
<1>17. ASSUME job[r].pc \in Commanding, Release(r),
              NEW how \in Over, End(r, how, FALSE)
       PROVE  LockMoves(r) /\ OnlyJob(r)
  BY <1>0, <1>17, EndEnds DEF LockMoves, Finishes, Over, Commanding, InAcquire
<1>4. CASE TakeLock(r)
  <2>1. /\ job[r].pc \notin Commanding /\ HostOf(r) \in Hosts
        /\ AfterLock[job[r].pc] \in {"ensure", "add", "remove"}
    BY <1>4, WaitingAttempt DEF TakeLock
  <2>2. /\ job'[r].pc = AfterLock[job[r].pc] /\ job'[r].host = job[r].host
        /\ \A s \in Runs \ {r} : job'[s] = job[s]
    BY <1>4, TakeLockTakes DEF TypesOK, TypeOK
  <2>3. lock[HostOf(r)] = Nil /\ SetLock(r, r)
    BY <1>4 DEF TakeLock
  <2> QED
    BY <1>0, <2>1, <2>2, <2>3 DEF LockMoves, Takes, OnlyJob, Commanding, InAcquire
<1>5. CASE BreakLock(r)
  <2>1. job[r].pc \notin Commanding /\ HostOf(r) \in died /\ SetLock(r, Nil) /\ UNCHANGED job
    BY <1>5, WaitingAttempt DEF BreakLock
  <2> QED
    BY <1>0, <2>1 DEF LockMoves, StaysOut, OnlyJob
<1>18. CASE LockFails(r)
  <2>1. PICK how \in {"left", "failed"} : End(r, how, FALSE)
    BY <1>18 DEF LockFails
  <2>2. job[r].pc \notin Commanding /\ (UNCHANGED lock \/ (lock[HostOf(r)] = Nil /\ SetLock(r, "orphan")))
    BY <1>18, WaitingAttempt DEF LockFails
  <2> QED
    BY <1>0, <2>1, <2>2, EndEnds DEF LockMoves, StaysOut, Commanding, InAcquire
<1>6. CASE FindNoCache(r) \/ InitCache(r)
  BY <1>1, <1>2, <1>6 DEF FindNoCache, InitCache, At, Commanding, InAcquire
<1>7. CASE AddOrigin(r) \/ SetOrigin(r)
  BY <1>1, <1>3, <1>7 DEF AddOrigin, SetOrigin, At, Commanding, InAcquire
<1>8. CASE AskHead(r)
  <2>1. CASE Fail(r)
    BY <1>1, <1>8, <2>1 DEF AskHead, At, Commanding, InAcquire
  <2>2. CASE ~Fail(r)
    BY <1>0, <1>8, <2>2, AskHeadGoesOn DEF AskHead, At, Commanding, InAcquire, LockMoves, Continues
  <2> QED
    BY <2>1, <2>2
<1>9. CASE FetchCandidate(r)
  <2>1. job[r].pc = "fetch" /\ job[r].pc \in Commanding /\ "resolve" \in Commanding
    BY <1>9 DEF FetchCandidate, At, Commanding, InAcquire
  <2>2. PICK successful : NextCandidate(r, successful)
    BY Zenon, <1>9 DEF FetchCandidate
  <2>3. CASE Another(r, successful)
    BY <1>0, <2>1, <2>3, AnotherGoesOn DEF LockMoves, Continues
  <2> QED
    BY <1>1, <1>2, <2>1, <2>2, <2>3, NextCandidateGoesOn
<1>10. CASE LookForPin(r)
  <2>1. job[r].pc = "look" /\ UNCHANGED lock
    BY <1>10 DEF LookForPin, At
  <2> QED
    BY <1>0, <1>10, <2>1, LookForPinLooks DEF LockMoves, Continues, OnlyJob, Commanding, InAcquire
<1>11. CASE FetchExact(r)
  <2>1. (Goto(r, "rev") /\ UNCHANGED lock) \/ Fail(r)
    BY Zenon, <1>11 DEF FetchExact
  <2> QED
    BY <1>1, <1>2, <1>11, <2>1 DEF FetchExact, At, Commanding, InAcquire
<1>12. CASE Resolve(r)
  <2>1. job[r].pc = "resolve"
    BY <1>12 DEF Resolve, At
  <2>2. CASE Fail(r)
    BY <1>1, <2>1, <2>2 DEF Commanding, InAcquire
  <2>3. CASE ~Fail(r)
    <3>1. PICK ref \in Refs, lost \in BOOLEAN : Found(r, ref, lost)
      BY <1>12, <2>3, ResolvedIsAReference
    <3> QED
      BY <1>0, <2>1, <3>1, FoundIsFound DEF LockMoves, Continues, OnlyJob, Commanding, InAcquire
  <2> QED
    BY <2>2, <2>3
<1>19. CASE ReadCommit(r)
  <2>1. job[r].pc = "rev"
    BY <1>19 DEF ReadCommit, At
  <2>2. CASE Return(r, Answer(r))
    BY <1>0, <2>1, <2>2, ReturnReturns DEF LockMoves, Finishes, Commanding, InAcquire
  <2> QED
    BY <1>1, <1>19, <2>1, <2>2 DEF ReadCommit, Commanding, InAcquire
<1>13. CASE PinSource(r)
  BY <1>0, <1>13, GotoKeeps DEF PinSource, At, LockMoves, StaysOut, OnlyJob, Commanding, InAcquire
<1>14. CASE AddWorktree(r)
  BY <1>1, <1>2, <1>14 DEF AddWorktree, At, Commanding, InAcquire
<1>15. CASE WriteMarker(r)
  <2>1. job[r].pc = "mark" /\ job[r].pc \in Commanding /\ Release(r)
    BY <1>15 DEF WriteMarker, At, Commanding
  <2>2. CASE Goto(r, "working")
    BY <1>0, <2>1, <2>2, GotoKeeps DEF LockMoves, Finishes, OnlyJob, Commanding, InAcquire
  <2> QED
    BY <1>15, <1>17, <2>1, <2>2 DEF WriteMarker, Over
<1>16. CASE Unregister(r)
  BY <1>2, <1>16 DEF Unregister, At, Commanding
<1>20. CASE RemoveWorkspace(r)
  BY <1>17, <1>20 DEF RemoveWorkspace, At, Over, Commanding
<1> QED
  BY <1>4, <1>5, <1>6, <1>7, <1>8, <1>9, <1>10, <1>11, <1>12, <1>13, <1>14, <1>15, <1>16,
     <1>18, <1>19, <1>20
     DEF AttemptStep, AcquireStep, WorkspaceStep

(* The lock of no other host is touched. *)
LEMMA SetLockSets ==
  ASSUME TypesOK, NEW r \in Runs, NEW to, SetLock(r, to), NEW h \in Hosts
  PROVE  lock'[h] = IF h = HostOf(r) THEN to ELSE lock[h]
BY DEF TypesOK, TypeOK, SetLock

LEMMA LockMovesKeepTheLock ==
  ASSUME TypesOK, LockIsHeldForCommands, NEW r \in Runs, LockMoves(r), OnlyJob(r),
         job'[r].pc \in Commanding => HostOf(r) \in Hosts
  PROVE  LockIsHeldForCommands'
<1>1. /\ r \notin {Nil, "orphan"} /\ UNCHANGED died
      /\ \A s \in Runs \ {r} : job'[s] = job[s] /\ HostOf(s)' = HostOf(s)
  BY NilIsNothing DEF NilIsNothing, OnlyJob, LockMoves, HostOf
<1>2. \A s \in Runs : job[s].pc \in Commanding => HostOf(s) \in Hosts
  BY Attempting DEF Over, Commanding, InAcquire
<1>3. \A s \in Runs : s \notin {Nil, "orphan"}
  BY NilIsNothing DEF NilIsNothing
<1>4. /\ \A s \in Runs : job[s].pc \in Commanding /\ HostOf(s) \notin died => lock[HostOf(s)] = s
      /\ \A s \in Runs, h \in Hosts : lock[h] = s => HostOf(s) = h /\ job[s].pc \in Commanding
  BY DEF LockIsHeldForCommands
<1>5. CASE Takes(r)
  <2>1. \A h \in Hosts : lock'[h] = IF h = HostOf(r) THEN r ELSE lock[h]
    BY <1>5, SetLockSets DEF Takes
  <2> QED
    BY <1>1, <1>2, <1>3, <1>4, <1>5, <2>1 DEF Takes, LockIsHeldForCommands, HostOf
<1>6. CASE Continues(r)
  BY <1>1, <1>4, <1>6 DEF Continues, LockIsHeldForCommands, HostOf
<1>7. CASE Finishes(r)
  <2>1. PICK to \in {Nil, "orphan", lock[HostOf(r)]} :
          SetLock(r, to) /\ (to = lock[HostOf(r)] => to # r \/ to = Nil)
    BY <1>1, <1>7 DEF Finishes, Release
  <2>2. \A h \in Hosts : lock'[h] = IF h = HostOf(r) THEN to ELSE lock[h]
    BY <2>1, SetLockSets
  <2>3. to # r /\ (HostOf(r) \notin died => lock[HostOf(r)] = r)
    BY <1>1, <1>4, <1>7, <2>1 DEF Finishes
  <2>4. ASSUME NEW s \in Runs, job'[s].pc \in Commanding, HostOf(s)' \notin died
        PROVE  lock'[HostOf(s)'] = s
    <3>1. s # r /\ HostOf(s)' = HostOf(s) /\ HostOf(s) \in Hosts /\ lock[HostOf(s)] = s
      BY <1>1, <1>2, <1>4, <1>7, <2>4 DEF Finishes
    <3>2. HostOf(s) # HostOf(r)
      BY <2>3, <2>4, <3>1
    <3> QED
      BY <2>2, <3>1, <3>2
  <2>5. ASSUME NEW s \in Runs, NEW h \in Hosts, lock'[h] = s
        PROVE  HostOf(s)' = h /\ job'[s].pc \in Commanding
    <3>1. lock[h] = s /\ (h = HostOf(r) => s # r)
      BY <1>3, <2>1, <2>2, <2>3, <2>5
    <3>2. s # r
      BY <1>4, <3>1
    <3> QED
      BY <1>1, <1>4, <3>1, <3>2
  <2> QED
    BY <1>1, <2>4, <2>5 DEF LockIsHeldForCommands
<1>8. CASE StaysOut(r)
  <2>1. CASE UNCHANGED lock
    BY <1>1, <1>4, <1>8, <2>1 DEF StaysOut, LockIsHeldForCommands, HostOf
  <2>2. CASE ~UNCHANGED lock
    <3>1. PICK to \in {Nil, "orphan"} : SetLock(r, to)
      BY <1>8, <2>2 DEF StaysOut
    <3>2. \A h \in Hosts : lock'[h] = IF h = HostOf(r) THEN to ELSE lock[h]
      BY <3>1, SetLockSets
    <3>3. lock[HostOf(r)] = Nil \/ HostOf(r) \in died
      BY <1>8, <2>2 DEF StaysOut
    <3> QED
      BY <1>1, <1>2, <1>3, <1>4, <1>8, <3>2, <3>3 DEF StaysOut, LockIsHeldForCommands, HostOf
  <2> QED
    BY <2>1, <2>2
<1> QED
  BY <1>5, <1>6, <1>7, <1>8 DEF LockMoves

LEMMA BeginBegins ==
  ASSUME TypesOK, NEW r \in Runs, NEW h \in Hosts, Begin(r, h)
  PROVE  /\ job[r].pc = "idle" /\ job'[r].pc = "lock" /\ job'[r].attempt = job[r].attempt + 1
         /\ job'[r].host = h /\ job'[r].since = Len(past) /\ OnlyJob(r)
         /\ UNCHANGED <<past, cache, lock, died, request, pin, workspaces>>
<1>1. job[r] \in Jobs /\ job \in [Runs -> Jobs]
  BY DEF TypesOK, TypeOK
<1>2. job'[r] = [job[r] EXCEPT !.pc = "lock", !.attempt = job[r].attempt + 1, !.host = h, !.since = Len(past)]
      /\ OnlyJob(r)
  BY <1>1 DEF Begin, OnlyJob
<1> QED
  BY <1>1, <1>2 DEF Jobs, Begin, At

LEMMA CrashEnds ==
  ASSUME TypesOK, NEW r \in Runs, Crash(r)
  PROVE  /\ job[r].pc \notin Over
         /\ job'[r].pc = (IF job[r].pc \in {"remove", "delete"} THEN "dead" ELSE "idle")
         /\ job'[r].attempt = job[r].attempt /\ OnlyJob(r)
         /\ UNCHANGED <<past, cache, request, pin, workspaces>>
         /\ died' = died \cup {HostOf(r)}
         /\ \A h \in Hosts : lock'[h] \in {lock[h], "orphan"} /\ (lock[h] = r /\ h = HostOf(r) => lock'[h] = "orphan")
<1>1. job[r].pc \notin Over /\ UNCHANGED <<past, cache, request, pin, workspaces>>
      /\ died' = died \cup {HostOf(r)}
      /\ End(r, IF job[r].pc \in {"remove", "delete"} THEN "dead" ELSE "idle", FALSE)
  BY DEF Crash
<1>2. PICK to : SetLock(r, to) /\ to \in {lock[HostOf(r)], "orphan"} /\ (lock[HostOf(r)] = r => to = "orphan")
  BY DEF Crash
<1>3. /\ job'[r].pc = (IF job[r].pc \in {"remove", "delete"} THEN "dead" ELSE "idle")
      /\ job'[r].attempt = job[r].attempt /\ OnlyJob(r)
  <2> HIDE <1>2
  <2> QED
    BY <1>1, EndEnds
<1>4. ASSUME NEW h \in Hosts
      PROVE  lock'[h] \in {lock[h], "orphan"} /\ (lock[h] = r /\ h = HostOf(r) => lock'[h] = "orphan")
  <2>1. lock'[h] = IF h = HostOf(r) THEN to ELSE lock[h]
    BY <1>2, SetLockSets
  <2> QED
    BY <1>2, <2>1
<1> QED
  BY <1>1, <1>3, <1>4

LEMMA NextKeepsTheLock ==
  ASSUME TypesOK, TypesOK', LockIsHeldForCommands, [Next]_vars
  PROVE  LockIsHeldForCommands'
<1>1. CASE RemoteStep \/ (\E h \in Hosts : Sweep(h)) \/ UNCHANGED vars
  <2>1. UNCHANGED <<lock, died, job>>
    BY <1>1 DEF RemoteStep, Push, SwitchDefault, Becomes, Sweep, vars
  <2> QED
    BY <2>1 DEF LockIsHeldForCommands, HostOf
<1>2. ASSUME NEW r \in Runs, AttemptStep(r)
      PROVE  LockIsHeldForCommands'
  <2>1. LockMoves(r) /\ OnlyJob(r)
    BY <1>2, AttemptMovesTheLock
  <2>2. job'[r].pc \in Commanding => HostOf(r) \in Hosts
    <3>1. job[r].pc \in Commanding => job[r].pc \notin Over
      BY DEF Over, Commanding, InAcquire
    <3> QED
      BY <2>1, <3>1, Attempting DEF LockMoves, Takes, Continues, Finishes, StaysOut
  <2> QED
    BY <2>1, <2>2, LockMovesKeepTheLock
<1>3. ASSUME NEW r \in Runs, NEW h \in Hosts, Begin(r, h)
      PROVE  LockIsHeldForCommands'
  <2>1. job[r].pc \notin Commanding /\ job'[r].pc \notin Commanding /\ OnlyJob(r) /\ UNCHANGED <<lock, died>>
    BY <1>3, BeginBegins DEF Commanding, InAcquire
  <2> QED
    BY <2>1, LockMovesKeepTheLock DEF LockMoves, StaysOut
<1>4. ASSUME NEW r \in Runs, Crash(r)
      PROVE  LockIsHeldForCommands'
  <2>1. /\ job'[r].pc \notin Commanding /\ \A s \in Runs \ {r} : job'[s] = job[s]
        /\ died' = died \cup {HostOf(r)}
        /\ \A h \in Hosts : lock'[h] \in {lock[h], "orphan"} /\ (lock[h] = r /\ h = HostOf(r) => lock'[h] = "orphan")
    BY <1>4, CrashEnds DEF Commanding, InAcquire, OnlyJob
  <2>2. ASSUME NEW s \in Runs, job'[s].pc \in Commanding, HostOf(s)' \notin died'
        PROVE  lock'[HostOf(s)'] = s
    <3>1. s # r /\ HostOf(s)' = HostOf(s) /\ HostOf(s) # HostOf(r) /\ HostOf(s) \notin died
          /\ job[s].pc \in Commanding
      BY <2>1, <2>2 DEF HostOf
    <3>2. HostOf(s) \in Hosts /\ lock[HostOf(s)] = s
      BY <3>1, Attempting DEF LockIsHeldForCommands, Over, Commanding, InAcquire
    <3>3. lock'[HostOf(s)] = lock[HostOf(s)]
      <4>1. HostOf(s) # HostOf(r) => lock'[HostOf(s)] = lock[HostOf(s)]
        BY <1>4, <3>2, SetLockSets DEF Crash
      <4> QED
        BY <3>1, <4>1
    <3> QED
      BY <3>1, <3>2, <3>3
  <2>3. ASSUME NEW s \in Runs, NEW h \in Hosts, lock'[h] = s
        PROVE  HostOf(s)' = h /\ job'[s].pc \in Commanding
    <3>1. lock[h] = s /\ HostOf(s) = h /\ job[s].pc \in Commanding
      BY <2>1, <2>3, NilIsNothing DEF LockIsHeldForCommands, NilIsNothing
    <3>2. s # r
      BY <2>1, <2>3, <3>1, NilIsNothing DEF NilIsNothing
    <3> QED
      BY <2>1, <3>1, <3>2 DEF HostOf
  <2> QED
    BY <2>2, <2>3 DEF LockIsHeldForCommands
<1> QED
  BY <1>1, <1>2, <1>3, <1>4 DEF Next

(* As long as no attempt has died on a host, the git commands of an attempt there
   run under the lock; and no error, no timeout and no crash leaves the lock with
   an attempt that is past them (the deferred Close in git.go, Acquire,
   AcquirePinned, CreateWorkspace and CleanupWorkspace). *)
THEOREM CommandsRunUnderTheLock == Spec => []LockIsHeldForCommands
<1>1. Init => TypesOK /\ LockIsHeldForCommands
  BY InitIsTyped, NilIsNothing
     DEF Init, LockIsHeldForCommands, HostOf, Resting, Commanding, InAcquire, NilIsNothing
<1>2. TypesOK /\ LockIsHeldForCommands /\ [Next]_vars => (TypesOK /\ LockIsHeldForCommands)'
  BY NextIsTyped, NextKeepsTheLock
<1> QED
  BY <1>1, <1>2, PTL DEF Spec

-----------------------------------------------------------------------------
(* Workspaces *)

BeforeWorkspace == {"lock", "ensure", "init", "origin", "fetch", "ask", "look", "exact",
                    "resolve", "rev", "acquired", "pinned", "add"}

(* A directory belongs to an attempt that its run has had, after the pin. *)
DirectoryOK(w) ==
  /\ w.attempt <= job[w.run].attempt
  /\ Pinned(w.run) /\ w.commit = pin[w.run].commit

(* What there is of the current attempt of a run. *)
AttemptOK(r) ==
  /\ job[r].pc \in BeforeWorkspace => \A w \in workspaces : ~IsWorkspaceOf(w, r)
  /\ At(r, "mark") => \E w \in workspaces : IsWorkspaceOf(w, r) /\ w.host = HostOf(r)
  /\ At(r, "working") => \E w \in workspaces : IsWorkspaceOf(w, r) /\ w.marked /\ w.host = HostOf(r)
  /\ At(r, "failed") => \A w \in workspaces : w.marked => ~IsWorkspaceOf(w, r)
  /\ At(r, "done") => \A w \in workspaces : ~IsWorkspaceOf(w, r)

WorkspacesOK ==
  /\ \A w \in workspaces : DirectoryOK(w)
  /\ \A r \in Runs : AttemptOK(r)

(* The steps of an attempt that leave the workspaces alone. *)
LeavesWorkspacesAlone(r) ==
  /\ OnlyJob(r) /\ job'[r].attempt = job[r].attempt
  /\ job'[r].pc \in BeforeWorkspace \cup {"failed"} => job[r].pc \in BeforeWorkspace
  /\ job'[r].pc \notin {"mark", "working", "done"}
  /\ \A s \in Runs : Pinned(s) => pin'[s] = pin[s]
  /\ UNCHANGED workspaces

LEMMA AcquireLeavesWorkspacesAlone ==
  ASSUME TypesOK, NEW r \in Runs, AcquireStep(r) \/ PinSource(r), ~BreakLock(r)
  PROVE  LeavesWorkspacesAlone(r)
<1> USE DEF LeavesWorkspacesAlone
<1>1. UNCHANGED workspaces /\ OnlyJob(r) /\ \A s \in Runs : Pinned(s) => pin'[s] = pin[s]
  <2>1. AttemptStep(r)
    BY DEF AttemptStep, WorkspaceStep
  <2>2. CASE PinSource(r)
    BY <2>1, <2>2, AttemptMovesTheLock DEF PinSource, Pinned, TypesOK, TypeOK
  <2>3. CASE AcquireStep(r)
    <3>1. UNCHANGED <<pin, workspaces>>
      BY Zenon, <2>3 DEF AcquireStep, TakeLock, BreakLock, LockFails, FindNoCache, InitCache,
         AddOrigin, SetOrigin, AskHead, FetchCandidate, LookForPin, FetchExact, Resolve, ReadCommit
    <3> QED
      BY <2>1, <3>1, AttemptMovesTheLock
  <2> QED
    BY <2>2, <2>3
<1>2. ASSUME job[r].pc \in BeforeWorkspace, Fail(r) \/ Lose(r)
      PROVE  LeavesWorkspacesAlone(r)
  BY <1>1, <1>2, FailEnds
<1>3. ASSUME job[r].pc \in BeforeWorkspace, NEW where \in BeforeWorkspace, Goto(r, where)
      PROVE  LeavesWorkspacesAlone(r)
  BY <1>1, <1>3, GotoKeeps DEF BeforeWorkspace
<1>4. ASSUME job[r].pc \in BeforeWorkspace, Ensured(r)
      PROVE  LeavesWorkspacesAlone(r)
  BY <1>1, <1>4, EnsuredGoesOn DEF BeforeWorkspace
<1>5. CASE TakeLock(r)
  BY <1>1, <1>5, TakeLockTakes, WaitingAttempt DEF TakeLock, BeforeWorkspace
<1>6. CASE LockFails(r)
  <2>1. PICK how \in {"failed", "left"} :
          End(r, how, FALSE) /\ (how = "failed" => job[r].pc \in {"lock", "pinned"})
    BY <1>6, WaitingAttempt DEF LockFails, At
  <2>2. job'[r].pc = how /\ job'[r].attempt = job[r].attempt
    BY <2>1, EndEnds
  <2> QED
    BY <1>1, <2>1, <2>2 DEF BeforeWorkspace
<1>7. CASE FindNoCache(r) \/ InitCache(r)
  BY <1>2, <1>3, <1>7 DEF FindNoCache, InitCache, At, BeforeWorkspace
<1>8. CASE AddOrigin(r) \/ SetOrigin(r)
  BY <1>2, <1>4, <1>8 DEF AddOrigin, SetOrigin, At, BeforeWorkspace
<1>9. CASE AskHead(r)
  <2>1. CASE Fail(r)
    BY <1>2, <1>9, <2>1 DEF AskHead, At, BeforeWorkspace
  <2>2. CASE ~Fail(r)
    BY <1>1, <1>9, <2>2, AskHeadGoesOn DEF AskHead, At, BeforeWorkspace
  <2> QED
    BY <2>1, <2>2
<1>10. CASE FetchCandidate(r)
  <2>1. job[r].pc = "fetch" /\ job[r].pc \in BeforeWorkspace /\ "resolve" \in BeforeWorkspace
    BY <1>10 DEF FetchCandidate, At, BeforeWorkspace
  <2>2. PICK successful : NextCandidate(r, successful)
    BY Zenon, <1>10 DEF FetchCandidate
  <2>3. CASE Another(r, successful)
    BY <1>1, <2>1, <2>3, AnotherGoesOn DEF BeforeWorkspace
  <2> QED
    BY <1>2, <1>3, <2>1, <2>2, <2>3, NextCandidateGoesOn
<1>11. CASE LookForPin(r)
  BY <1>1, <1>11, LookForPinLooks DEF LookForPin, At, BeforeWorkspace
<1>12. CASE FetchExact(r)
  <2>1. Goto(r, "rev") \/ Fail(r)
    BY Zenon, <1>12 DEF FetchExact
  <2> QED
    BY <1>2, <1>3, <1>12, <2>1 DEF FetchExact, At, BeforeWorkspace
<1>13. CASE Resolve(r)
  <2>1. job[r].pc \in BeforeWorkspace
    BY <1>13 DEF Resolve, At, BeforeWorkspace
  <2>2. CASE Fail(r)
    BY <1>2, <2>1, <2>2
  <2>3. CASE ~Fail(r)
    <3>1. PICK ref \in Refs, lost \in BOOLEAN : Found(r, ref, lost)
      BY <1>13, <2>3, ResolvedIsAReference
    <3> QED
      BY <1>1, <2>1, <3>1, FoundIsFound DEF BeforeWorkspace
  <2> QED
    BY <2>2, <2>3
<1>15. CASE ReadCommit(r)
  <2>1. job[r].pc \in BeforeWorkspace
    BY <1>15 DEF ReadCommit, At, BeforeWorkspace
  <2>2. CASE Return(r, Answer(r))
    BY <1>1, <2>1, <2>2, ReturnReturns DEF BeforeWorkspace
  <2> QED
    BY <1>2, <1>15, <2>1, <2>2 DEF ReadCommit
<1>14. CASE PinSource(r)
  BY <1>3, <1>14 DEF PinSource, At, BeforeWorkspace
<1> QED
  BY <1>5, <1>6, <1>7, <1>8, <1>9, <1>10, <1>11, <1>12, <1>13, <1>14, <1>15 DEF AcquireStep

LEMMA QuietStepsKeepWorkspacesOK ==
  ASSUME TypesOK, TypesOK', WorkspacesOK, NEW r \in Runs, LeavesWorkspacesAlone(r)
  PROVE  WorkspacesOK'
<1>1. ASSUME NEW w \in workspaces
      PROVE  DirectoryOK(w)'
  <2>1. w.run \in Runs /\ DirectoryOK(w)
    BY DEF WorkspacesOK, TypesOK, TypeOK, Directories
  <2>2. job'[w.run].attempt = job[w.run].attempt
    BY <2>1 DEF LeavesWorkspacesAlone, OnlyJob
  <2> QED
    BY <2>1, <2>2 DEF DirectoryOK, LeavesWorkspacesAlone, Pinned
<1>2. ASSUME NEW s \in Runs
      PROVE  AttemptOK(s)'
  <2>1. CASE s # r
    <3>1. job'[s] = job[s] /\ AttemptOK(s) /\ UNCHANGED workspaces
      BY <2>1 DEF WorkspacesOK, LeavesWorkspacesAlone, OnlyJob
    <3> QED
      BY <3>1 DEF AttemptOK, At, HostOf, IsWorkspaceOf
  <2>2. CASE s = r
    <3>1. AttemptOK(r)
      BY DEF WorkspacesOK
    <3> QED
      BY <2>2, <3>1 DEF LeavesWorkspacesAlone, AttemptOK, At, IsWorkspaceOf, BeforeWorkspace
  <2> QED
    BY <2>1, <2>2
<1> QED
  BY <1>1, <1>2 DEF WorkspacesOK, LeavesWorkspacesAlone

(* What another run's attempt has is not touched by a step of r that adds,
   changes or removes only directories of r. *)
OnlyDirectoriesOf(r) ==
  \A w : w.run # r => (w \in workspaces <=> w \in workspaces')

LEMMA OthersKeepTheirWorkspaces ==
  ASSUME TypesOK, TypesOK', WorkspacesOK, NEW r \in Runs, OnlyJob(r), OnlyDirectoriesOf(r),
         job'[r].attempt = job[r].attempt, UNCHANGED pin,
         \A w \in workspaces' : w.run = r => w.attempt <= job[r].attempt /\ w.commit = pin[r].commit,
         Pinned(r), AttemptOK(r)'
  PROVE  WorkspacesOK'
<1>1. ASSUME NEW w \in workspaces'
      PROVE  DirectoryOK(w)'
  <2>1. w.run \in Runs
    BY DEF TypesOK, TypeOK, Directories
  <2>2. CASE w.run = r
    BY <2>2 DEF DirectoryOK, Pinned
  <2>3. CASE w.run # r
    <3>1. w \in workspaces /\ job'[w.run] = job[w.run]
      BY <2>1, <2>3 DEF OnlyDirectoriesOf, OnlyJob
    <3> QED
      BY <3>1 DEF WorkspacesOK, DirectoryOK, Pinned
  <2> QED
    BY <2>2, <2>3
<1>2. ASSUME NEW s \in Runs, s # r
      PROVE  AttemptOK(s)'
  <2>1. job'[s] = job[s] /\ AttemptOK(s)
    BY <1>2 DEF WorkspacesOK, OnlyJob
  <2>2. \A w : IsWorkspaceOf(w, s) => (w \in workspaces <=> w \in workspaces')
    BY <1>2 DEF IsWorkspaceOf, OnlyDirectoriesOf
  <2>3. \A w : IsWorkspaceOf(w, s)' <=> IsWorkspaceOf(w, s)
    BY <2>1 DEF IsWorkspaceOf
  <2> QED
    BY <2>1, <2>2, <2>3 DEF AttemptOK, At, HostOf
<1> QED
  BY <1>1, <1>2 DEF WorkspacesOK

LEMMA AddWorktreeKeepsWorkspacesOK ==
  ASSUME TypesOK, TypesOK', WorkspacesOK, NEW r \in Runs, AddWorktree(r)
  PROVE  WorkspacesOK'
<1>1. /\ job[r].pc = "add" /\ UNCHANGED pin /\ AttemptOK(r) /\ Pinned(r)
      /\ \A w \in workspaces : DirectoryOK(w) /\ ~IsWorkspaceOf(w, r)
  BY DEF AddWorktree, At, WorkspacesOK, AttemptOK, BeforeWorkspace, HasItsSource, TypesOK, JobsOK, JobOK
<1>2. /\ Workspace(r) \in Directories /\ Workspace(r).commit = pin[r].commit
      /\ Workspace(r).run = r /\ Workspace(r).attempt = job[r].attempt
      /\ Workspace(r).host = HostOf(r) /\ Workspace(r).marked = FALSE
      /\ Workspace(r).attempt \in Nat
  BY <1>1, WorkspaceIsTyped DEF Workspace, HasItsSource, Directories
<1>3. workspaces' = workspaces \cup {Workspace(r)} \/ UNCHANGED workspaces
  BY DEF AddWorktree
<1>4. \/ Goto(r, "mark") /\ workspaces' = workspaces \cup {Workspace(r)}
      \/ Fail(r)
  BY DEF AddWorktree
<1>5. OnlyJob(r) /\ job'[r].attempt = job[r].attempt
      /\ (job'[r].pc = "failed" \/ (job'[r].pc = "mark" /\ job'[r].host = job[r].host
                                      /\ workspaces' = workspaces \cup {Workspace(r)}))
  BY <1>4, GotoKeeps, FailEnds DEF OnlyJob
<1>6. OnlyDirectoriesOf(r)
  BY <1>2, <1>3 DEF OnlyDirectoriesOf
<1>7. \A w \in workspaces' : w.run = r => w.attempt <= job[r].attempt /\ w.commit = pin[r].commit
  BY <1>1, <1>2, <1>3 DEF DirectoryOK
<1>8. AttemptOK(r)'
  <2>1. \A w : IsWorkspaceOf(w, r)' <=> IsWorkspaceOf(w, r)
    BY <1>5 DEF IsWorkspaceOf
  <2>2. IsWorkspaceOf(Workspace(r), r)
    BY <1>2 DEF IsWorkspaceOf
  <2>3. \A w \in workspaces' : w.marked => ~IsWorkspaceOf(w, r)
    BY <1>1, <1>2, <1>3
  <2> HIDE DEF Workspace
  <2> QED
    BY <1>2, <1>5, <2>1, <2>2, <2>3 DEF AttemptOK, At, HostOf, BeforeWorkspace
<1> QED
  BY <1>1, <1>5, <1>6, <1>7, <1>8, OthersKeepTheirWorkspaces

(* What CreateWorkspace and CleanupWorkspace can make of the directories is still
   theirs and of their attempt. *)
LEMMA OwnDirectoriesChange ==
  ASSUME TypesOK, WorkspacesOK, NEW r \in Runs,
         workspaces' \in {workspaces, Others(r), Marked(r), Unmarked(r)}
  PROVE  /\ OnlyDirectoriesOf(r)
         /\ \A w \in workspaces' : w.run = r => w.attempt <= job[r].attempt /\ w.commit = pin[r].commit
<1> DEFINE marked(w) == [w EXCEPT !.marked = w.marked \/ IsWorkspaceOf(w, r)]
           unmarked(w) == [w EXCEPT !.marked = w.marked /\ ~IsWorkspaceOf(w, r)]
<1>1. workspaces \subseteq Directories /\ \A w \in workspaces : DirectoryOK(w)
  BY DEF TypesOK, TypeOK, WorkspacesOK
<1>2. \A w \in workspaces :
        /\ marked(w).run = w.run /\ marked(w).attempt = w.attempt /\ marked(w).commit = w.commit
        /\ unmarked(w).run = w.run /\ unmarked(w).attempt = w.attempt /\ unmarked(w).commit = w.commit
        /\ w.run # r => marked(w) = w /\ unmarked(w) = w
  BY <1>1 DEF Directories, IsWorkspaceOf
<1>3. \/ UNCHANGED workspaces
      \/ workspaces' = {w \in workspaces : ~IsWorkspaceOf(w, r)}
      \/ \A v : v \in workspaces' <=> \E w \in workspaces : v = marked(w)
      \/ \A v : v \in workspaces' <=> \E w \in workspaces : v = unmarked(w)
  BY DEF Others, Marked, Unmarked
<1> HIDE DEF marked, unmarked
<1>4. OnlyDirectoriesOf(r)
  BY <1>2, <1>3 DEF OnlyDirectoriesOf, IsWorkspaceOf
<1>5. \A v \in workspaces' : \E w \in workspaces :
        v.run = w.run /\ v.attempt = w.attempt /\ v.commit = w.commit
  BY <1>2, <1>3
<1> QED
  BY <1>1, <1>4, <1>5 DEF DirectoryOK

(* The marker gives the directory to the attempt that works in it. *)
LEMMA MarkedHasIt ==
  ASSUME TypesOK, WorkspacesOK, NEW r \in Runs, At(r, "mark")
  PROVE  \E w \in Marked(r) : IsWorkspaceOf(w, r) /\ w.marked /\ w.host = HostOf(r)
<1> DEFINE marked(w) == [w EXCEPT !.marked = w.marked \/ IsWorkspaceOf(w, r)]
<1>1. PICK w \in workspaces : IsWorkspaceOf(w, r) /\ w.host = HostOf(r)
  BY DEF WorkspacesOK, AttemptOK
<1>2. w \in Directories
  BY DEF TypesOK, TypeOK
<1>3. marked(w).run = w.run /\ marked(w).attempt = w.attempt /\ marked(w).marked
      /\ marked(w).host = w.host
  BY <1>1, <1>2 DEF Directories
<1>4. marked(w) \in Marked(r)
  BY DEF Marked
<1> HIDE DEF marked
<1> QED
  BY <1>1, <1>3, <1>4 DEF IsWorkspaceOf

LEMMA WriteMarkerKeepsWorkspacesOK ==
  ASSUME TypesOK, TypesOK', WorkspacesOK, NEW r \in Runs, WriteMarker(r)
  PROVE  WorkspacesOK'
<1>1. /\ At(r, "mark") /\ UNCHANGED pin /\ Pinned(r)
      /\ workspaces' \in {workspaces, Others(r), Marked(r), Unmarked(r)}
  BY DEF WriteMarker, At, HasItsSource, TypesOK, JobsOK, JobOK
<1>2. CASE workspaces' = Others(r) /\ End(r, "failed", FALSE)
  <2>1. job'[r].pc = "failed" /\ job'[r].attempt = job[r].attempt /\ OnlyJob(r)
    BY <1>2, EndEnds
  <2>2. AttemptOK(r)'
    BY <1>2, <2>1 DEF AttemptOK, At, IsWorkspaceOf, Others, BeforeWorkspace
  <2> QED
    BY <1>1, <2>1, <2>2, OwnDirectoriesChange, OthersKeepTheirWorkspaces
<1>3. CASE End(r, "left", FALSE)
  <2>1. job'[r].pc = "left" /\ job'[r].attempt = job[r].attempt /\ OnlyJob(r)
    BY <1>3, EndEnds
  <2>2. AttemptOK(r)'
    BY <2>1 DEF AttemptOK, At, BeforeWorkspace
  <2> QED
    BY <1>1, <2>1, <2>2, OwnDirectoriesChange, OthersKeepTheirWorkspaces
<1>4. CASE workspaces' = Marked(r) /\ Goto(r, "working")
  <2>1. /\ job'[r].pc = "working" /\ job'[r].attempt = job[r].attempt
        /\ job'[r].host = job[r].host /\ OnlyJob(r)
    BY <1>4, GotoKeeps DEF OnlyJob
  <2>2. \E w \in workspaces' : IsWorkspaceOf(w, r) /\ w.marked /\ w.host = HostOf(r)
    BY <1>1, <1>4, MarkedHasIt
  <2>3. AttemptOK(r)'
    BY <2>1, <2>2 DEF AttemptOK, At, HostOf, IsWorkspaceOf, BeforeWorkspace
  <2> QED
    BY <1>1, <2>1, <2>3, OwnDirectoriesChange, OthersKeepTheirWorkspaces
<1> QED
  BY <1>2, <1>3, <1>4 DEF WriteMarker

LEMMA CleanupKeepsWorkspacesOK ==
  ASSUME TypesOK, TypesOK', WorkspacesOK, NEW r \in Runs, Unregister(r) \/ RemoveWorkspace(r)
  PROVE  WorkspacesOK'
<1>1. /\ UNCHANGED pin /\ Pinned(r)
      /\ workspaces' \in {workspaces, Others(r), Marked(r), Unmarked(r)}
  BY DEF Unregister, RemoveWorkspace, At, HasItsSource, TypesOK, JobsOK, JobOK
<1>2. \/ job'[r].pc \in {"delete", "left"}
      \/ job'[r].pc = "done" /\ workspaces' = Others(r)
  BY GotoKeeps, EndEnds DEF Unregister, RemoveWorkspace
<1>3. job'[r].attempt = job[r].attempt /\ OnlyJob(r)
  BY GotoKeeps, EndEnds DEF Unregister, RemoveWorkspace, OnlyJob
<1>4. AttemptOK(r)'
  BY <1>2, <1>3 DEF AttemptOK, At, IsWorkspaceOf, Others, BeforeWorkspace
<1> QED
  BY <1>1, <1>3, <1>4, OwnDirectoriesChange, OthersKeepTheirWorkspaces

(* The sweep touches only directories of runs that have ended. *)
LEMMA SweepKeepsWorkspacesOK ==
  ASSUME TypesOK, WorkspacesOK, NEW h \in Hosts, Sweep(h)
  PROVE  WorkspacesOK'
<1>1. PICK v \in workspaces :
        /\ Unprotected(v)
        /\ \/ workspaces' = workspaces \ {v}
           \/ workspaces' = (workspaces \ {v}) \cup {[v EXCEPT !.marked = FALSE]}
  BY DEF Sweep
<1> DEFINE bare == [v EXCEPT !.marked = FALSE]
<1>2. UNCHANGED <<pin, job>>
  BY DEF Sweep
<1>3. job[v.run].pc \in {"failed", "done", "left", "dead"}
  BY <1>1 DEF Unprotected
<1>4. bare.run = v.run /\ bare.attempt = v.attempt /\ bare.commit = v.commit /\ bare.marked = FALSE
      /\ DirectoryOK(v)
  BY DEF TypesOK, TypeOK, Directories, WorkspacesOK
<1>5. \A w \in workspaces' : w = bare \/ (w \in workspaces /\ w # v)
  BY <1>1
<1>6. \A w \in workspaces : w # v => w \in workspaces'
  BY <1>1
<1> HIDE DEF bare
<1>7. \A w \in workspaces' : DirectoryOK(w)'
  BY <1>2, <1>4, <1>5 DEF WorkspacesOK, DirectoryOK, Pinned
<1>8. ASSUME NEW s \in Runs
      PROVE  AttemptOK(s)'
  <2>1. AttemptOK(s)
    BY DEF WorkspacesOK
  <2>2. At(s, "mark") \/ At(s, "working") => ~IsWorkspaceOf(v, s)
    BY <1>3 DEF At, IsWorkspaceOf
  <2>3. IsWorkspaceOf(bare, s) <=> IsWorkspaceOf(v, s)
    BY <1>4 DEF IsWorkspaceOf
  <2>4. \A w : (IsWorkspaceOf(w, s)' <=> IsWorkspaceOf(w, s)) /\ job'[s] = job[s]
    BY <1>2 DEF IsWorkspaceOf
  <2> QED
    BY <1>4, <1>5, <1>6, <2>1, <2>2, <2>3, <2>4 DEF AttemptOK, At, HostOf
<1> QED
  BY <1>7, <1>8 DEF WorkspacesOK

LEMMA BeginKeepsWorkspacesOK ==
  ASSUME TypesOK, TypesOK', WorkspacesOK, NEW r \in Runs, NEW h \in Hosts, Begin(r, h)
  PROVE  WorkspacesOK'
<1>1. /\ job'[r].pc = "lock" /\ job'[r].attempt = job[r].attempt + 1 /\ OnlyJob(r)
      /\ UNCHANGED <<pin, workspaces>>
  BY BeginBegins
<1>2. job[r].attempt \in Nat /\ workspaces \subseteq Directories
  BY DEF TypesOK, TypeOK, Jobs
<1>3. ASSUME NEW w \in workspaces
      PROVE  DirectoryOK(w)' /\ ~IsWorkspaceOf(w, r)'
  <2>1. w.run \in Runs /\ w.attempt \in Nat /\ DirectoryOK(w)
    BY <1>2 DEF WorkspacesOK, Directories
  <2>2. CASE w.run = r
    BY <1>1, <1>2, <2>1, <2>2 DEF DirectoryOK, IsWorkspaceOf, Pinned
  <2>3. CASE w.run # r
    <3>1. job'[w.run] = job[w.run]
      BY <1>1, <2>1, <2>3 DEF OnlyJob
    <3> QED
      BY <1>1, <2>1, <2>3, <3>1 DEF DirectoryOK, IsWorkspaceOf, Pinned
  <2> QED
    BY <2>2, <2>3
<1>4. ASSUME NEW s \in Runs
      PROVE  AttemptOK(s)'
  <2>1. CASE s = r
    BY <1>1, <1>3, <2>1 DEF AttemptOK, At
  <2>2. CASE s # r
    <3>1. job'[s] = job[s] /\ AttemptOK(s)
      BY <1>1, <2>2 DEF OnlyJob, WorkspacesOK
    <3> QED
      BY <1>1, <3>1 DEF AttemptOK, At, IsWorkspaceOf, HostOf
  <2> QED
    BY <2>1, <2>2
<1> QED
  BY <1>1, <1>3, <1>4 DEF WorkspacesOK

LEMMA NextKeepsWorkspacesOK ==
  ASSUME TypesOK, TypesOK', WorkspacesOK, [Next]_vars
  PROVE  WorkspacesOK'
<1>1. CASE RemoteStep \/ (\E r \in Runs : BreakLock(r)) \/ UNCHANGED vars
  <2>1. UNCHANGED <<pin, job, workspaces>>
    BY <1>1 DEF RemoteStep, Push, SwitchDefault, Becomes, BreakLock, vars
  <2> QED
    BY <2>1 DEF WorkspacesOK, DirectoryOK, AttemptOK, At, IsWorkspaceOf, HostOf, Pinned
<1>2. CASE \E h \in Hosts : Sweep(h)
  BY <1>2, SweepKeepsWorkspacesOK
<1>3. ASSUME NEW r \in Runs, AttemptStep(r), ~BreakLock(r)
      PROVE  WorkspacesOK'
  BY <1>3, AcquireLeavesWorkspacesAlone, QuietStepsKeepWorkspacesOK, AddWorktreeKeepsWorkspacesOK,
     WriteMarkerKeepsWorkspacesOK, CleanupKeepsWorkspacesOK DEF AttemptStep, WorkspaceStep
<1>4. ASSUME NEW r \in Runs, Crash(r)
      PROVE  WorkspacesOK'
  <2>1. LeavesWorkspacesAlone(r)
    BY <1>4, CrashEnds DEF LeavesWorkspacesAlone, BeforeWorkspace
  <2> QED
    BY <2>1, QuietStepsKeepWorkspacesOK
<1>5. ASSUME NEW r \in Runs, NEW h \in Hosts, Begin(r, h)
      PROVE  WorkspacesOK'
  BY <1>5, BeginKeepsWorkspacesOK
<1> QED
  BY <1>1, <1>2, <1>3, <1>4, <1>5 DEF Next

(* The two invariants hold together. *)
LEMMA WorkspacesStayOK == Spec => [](TypesOK /\ WorkspacesOK)
<1>1. Init => TypesOK /\ WorkspacesOK
  BY InitIsTyped DEF Init, WorkspacesOK, AttemptOK, At, Resting, BeforeWorkspace
<1>2. TypesOK /\ WorkspacesOK /\ [Next]_vars => (TypesOK /\ WorkspacesOK)'
  BY NextIsTyped, NextKeepsWorkspacesOK
<1> QED
  BY <1>1, <1>2, PTL DEF Spec

(* Every workspace, those of crashed attempts included, is a checkout of its
   run's pin (CreateWorkspace is called with the commit of the run's row). *)
THEOREM WorkspacesAreOfThePin == Spec => []WorkspacesShowThePin
<1>1. WorkspacesOK => WorkspacesShowThePin
  BY DEF WorkspacesOK, DirectoryOK, WorkspacesShowThePin
<1> QED
  BY <1>1, WorkspacesStayOK, PTL

(* A failure before the workspace is complete leaves none that has a marker, and
   a cleanup that reports no error leaves nothing, whatever it is that fails on
   the way; an attempt whose last removal fails may leave its workspace
   (CreateWorkspace, CleanupWorkspace). *)
THEOREM AttemptsCleanUp == Spec => []OnlyFailedRemovalsLeaveWorkspaces
<1>1. TypesOK /\ WorkspacesOK => OnlyFailedRemovalsLeaveWorkspaces
  BY DEF TypesOK, TypeOK, Directories, WorkspacesOK, AttemptOK, OnlyFailedRemovalsLeaveWorkspaces
<1> QED
  BY <1>1, WorkspacesStayOK, PTL

(* An attempt that works has its marked workspace on its host: no sweep and no
   other attempt takes it away (SweepWorkspaces). *)
THEOREM WorkspacesInUseStay == Spec => []WorkspaceStaysWhileInUse
<1>1. WorkspacesOK => WorkspaceStaysWhileInUse
  BY DEF WorkspacesOK, AttemptOK, WorkspaceStaysWhileInUse
<1> QED
  BY <1>1, WorkspacesStayOK, PTL

-----------------------------------------------------------------------------
(* What is resolved, and what a replay needs *)

Asking == InAcquire \cup {"lock"}

(* The remote while the attempt acquires its source, and the references that may
   answer what it asks for. *)
During(r) == {past[i] : i \in job[r].since .. Len(past)}

Asked(r) ==
  IF request[r].form = "HEAD" THEN {Branch(remote.default) : remote \in During(r)}
  ELSE ToSet(Candidates(request[r]))

Switched(r) ==
  request[r].form = "HEAD" /\ \E before, after \in During(r) : before.default # after.default

(* One of them is in the cache as the remote had it meanwhile. *)
FetchedNow(r) ==
  \E ref \in Asked(r), remote \in During(r) :
    CacheOf(r).refs[ref] # Nil /\ remote.at[ref] = CacheOf(r).refs[ref]

(* The same of the reference that has been found. *)
AnsweredNow(r, ref) ==
  \/ \E remote \in During(r) :
       /\ remote.at[ref] = CacheOf(r).refs[ref]
       /\ request[r].form = "HEAD" => ref = Branch(remote.default)
  \/ Switched(r)

SourceOK(r) ==
  /\ job[r].pc \in Asking => job[r].since \in 1 .. Len(past)
  /\ job[r].pc \in {"idle", "lock", "ensure", "init", "origin", "ask"} => job[r].fetched = FALSE
  /\ At(r, "fetch") => ToSet(job[r].todo) \subseteq Asked(r) /\ (job[r].fetched => FetchedNow(r))
  /\ At(r, "resolve") => FetchedNow(r)
  /\ At(r, "rev") /\ ~Pinned(r) /\ request[r].form # "commit" /\ ~job[r].lost
       => AnsweredNow(r, Head(job[r].todo))

(* A replay that found its commit when it got the lock has it as long as it is in
   Acquire, takes no cache for missing, and asks the remote only after a command
   of its own has failed. *)
ReplayOK(r) ==
  /\ job[r].pc \in {"ask", "fetch", "look", "exact"} => CacheOf(r).stage = "ready"
  /\ Pinned(r) /\ job[r].pc \in InAcquire /\ job[r].had =>
       /\ pin[r].commit \in CacheOf(r).objects
       /\ job[r].pc \notin {"init", "origin"}
       /\ At(r, "exact") => job[r].lost

EmptyUntilReady == \A h \in Hosts : cache[h].stage # "ready" => cache[h].objects = {}

CachesOK == EmptyUntilReady /\ \A r \in Runs : SourceOK(r) /\ ReplayOK(r)

(* All that may happen to a cache while an attempt is in it, also where two of them
   are after a crash: a cache that is ready stays so, nothing is pruned, and a
   reference that changes becomes what the remote has. *)
Grows(old, new) ==
  /\ old.stage = "ready" => new.stage = "ready"
  /\ old.objects \subseteq new.objects
  /\ \A ref \in Refs : /\ new.refs[ref] \in {old.refs[ref], Remote.at[ref]}
                       /\ old.refs[ref] # Nil => new.refs[ref] # Nil

LEMMA FetchedGrows ==
  ASSUME TypesOK, NEW k \in Caches, NEW ref \in Refs, Remote.at[ref] # Nil
  PROVE  Grows(k, Fetched(k, ref)) /\ Fetched(k, ref).stage = k.stage
         /\ Fetched(k, ref).refs[ref] = Remote.at[ref]
<1> DEFINE objects == k.objects \cup History[Remote.at[ref]]
           follows(t) == t.kind = "tag" /\ k.refs[t] = Nil /\ Remote.at[t] \in objects
           refs == [t \in Refs |-> IF t = ref \/ follows(t) THEN Remote.at[t] ELSE k.refs[t]]
<1>1. Fetched(k, ref) = [k EXCEPT !.objects = objects, !.refs = refs]
  BY DEF Fetched
<1>2. \A t \in Refs : refs[t] \in {k.refs[t], Remote.at[t]} /\ (k.refs[t] # Nil => refs[t] # Nil)
  OBVIOUS
<1>3. refs[ref] = Remote.at[ref] /\ k.objects \subseteq objects
  OBVIOUS
<1> HIDE DEF objects, refs
<1>4. /\ Fetched(k, ref).stage = k.stage /\ Fetched(k, ref).objects = objects
      /\ Fetched(k, ref).refs = refs
  BY <1>1 DEF Caches
<1> QED
  BY <1>2, <1>3, <1>4 DEF Grows

LEMMA StaysGrows == ASSUME NEW k PROVE Grows(k, k)
BY DEF Grows

LEMMA StageGrows ==
  ASSUME NEW k \in Caches, NEW stage, k.stage = "ready" => stage = "ready"
  PROVE  LET new == [k EXCEPT !["stage"] = stage]
         IN  Grows(k, new) /\ new.stage = stage /\ new.objects = k.objects
BY DEF Grows, Caches

LEMMA ObjectsGrow ==
  ASSUME NEW k \in Caches, NEW objects, k.objects \subseteq objects
  PROVE  LET new == [k EXCEPT !["objects"] = objects]
         IN  Grows(k, new) /\ new.stage = k.stage
BY DEF Grows, Caches

(* What a step makes of the cache of its host, and whether that one may have got
   objects without being ready. *)
LEMMA CacheOfTheStep ==
  ASSUME TypesOK, NEW r \in Runs, ReplayOK(r), AttemptStep(r)
  PROVE  \/ UNCHANGED cache
         \/ \E k : /\ cache' = [cache EXCEPT ![HostOf(r)] = k]
                   /\ HostOf(r) \in Hosts /\ Grows(CacheOf(r), k)
                   /\ k.stage = "ready" \/ k.objects = CacheOf(r).objects
<1> DEFINE Good(k) == /\ HostOf(r) \in Hosts /\ Grows(CacheOf(r), k)
                      /\ k.stage = "ready" \/ k.objects = CacheOf(r).objects
           Becoming(k) == cache' = [cache EXCEPT ![HostOf(r)] = k] /\ Good(k)
<1>1. job[r].pc \notin Over => HostOf(r) \in Hosts /\ CacheOf(r) \in Caches
  BY Attempting
<1>2. CASE InitCache(r)
  <2>1. job[r].pc \notin Over
    BY <1>2 DEF InitCache, At, Over
  <2>2. CASE UNCHANGED cache
    BY <2>2
  <2>3. CASE CacheOf(r).stage = "absent" /\ SetCache(r, "stage", "bare")
    <3> DEFINE k == [CacheOf(r) EXCEPT !["stage"] = "bare"]
    <3>1. cache' = [cache EXCEPT ![HostOf(r)] = k]
      BY <2>3 DEF SetCache, CacheOf
    <3>2. Grows(CacheOf(r), k) /\ k.objects = CacheOf(r).objects
      BY <1>1, <2>1, <2>3, StageGrows
    <3> QED
      BY <1>1, <2>1, <3>1, <3>2
  <2> QED
    BY <1>2, <2>2, <2>3 DEF InitCache, Initialised
<1>3. CASE AddOrigin(r)
  <2>1. job[r].pc \notin Over
    BY <1>3 DEF AddOrigin, At, Over
  <2>2. CASE SetCache(r, "stage", "ready")
    <3> DEFINE k == [CacheOf(r) EXCEPT !["stage"] = "ready"]
    <3>1. cache' = [cache EXCEPT ![HostOf(r)] = k]
      BY <2>2 DEF SetCache, CacheOf
    <3>2. Grows(CacheOf(r), k) /\ k.objects = CacheOf(r).objects
      BY <1>1, <2>1, StageGrows
    <3> QED
      BY <1>1, <2>1, <3>1, <3>2
  <2> QED
    BY <1>3, <2>2 DEF AddOrigin
<1>4. CASE FetchExact(r)
  <2>1. job[r].pc \notin Over /\ CacheOf(r).stage = "ready"
    BY <1>4 DEF FetchExact, At, Over, ReplayOK
  <2>2. (\E c : SetCache(r, "objects", CacheOf(r).objects \cup History[c])) \/ UNCHANGED cache
    BY Zenon, <1>4 DEF FetchExact
  <2>3. ASSUME NEW c, SetCache(r, "objects", CacheOf(r).objects \cup History[c])
        PROVE  \E k : Becoming(k)
    <3> DEFINE objects == CacheOf(r).objects \cup History[c]
               k == [CacheOf(r) EXCEPT !["objects"] = objects]
    <3>1. cache' = [cache EXCEPT ![HostOf(r)] = k]
      BY <2>3 DEF SetCache, CacheOf
    <3>2. CacheOf(r).objects \subseteq objects
      OBVIOUS
    <3> HIDE DEF objects
    <3>3. Grows(CacheOf(r), k) /\ k.stage = "ready"
      BY <1>1, <2>1, <3>2, ObjectsGrow
    <3> QED
      BY <1>1, <2>1, <3>1, <3>3
  <2> QED
    BY <2>2, <2>3
<1>5. CASE FetchCandidate(r)
  <2> DEFINE ref == Head(job[r].todo)
             k == Fetched(CacheOf(r), ref)
  <2>1. job[r].pc \notin Over /\ CacheOf(r).stage = "ready" /\ JobOK(r) /\ At(r, "fetch")
    BY <1>5 DEF FetchCandidate, At, Over, ReplayOK, TypesOK, JobsOK
  <2>2. UNCHANGED cache \/ (Remote.at[ref] # Nil /\ cache' = [cache EXCEPT ![HostOf(r)] = k])
    BY Zenon, <1>5 DEF FetchCandidate
  <2>3. ref \in Refs
    BY <2>1, TailOfCandidates DEF JobOK, TypesOK, TypeOK, Jobs
  <2> HIDE DEF ref
  <2>4. Remote.at[ref] # Nil => Grows(CacheOf(r), k) /\ k.stage = "ready"
    BY <1>1, <2>1, <2>3, FetchedGrows
  <2> HIDE DEF k
  <2> QED
    BY <1>1, <2>1, <2>2, <2>4
<1>6. CASE ~(InitCache(r) \/ AddOrigin(r) \/ FetchExact(r) \/ FetchCandidate(r))
  BY Zenon, <1>6 DEF AttemptStep, AcquireStep, WorkspaceStep, TakeLock, BreakLock, LockFails,
     FindNoCache, SetOrigin, AskHead, LookForPin, Resolve, ReadCommit, PinSource, AddWorktree,
     WriteMarker, Unregister, RemoveWorkspace
<1> QED
  BY <1>2, <1>3, <1>4, <1>5, <1>6

LEMMA CachesGrow ==
  ASSUME TypesOK, NEW r \in Runs, ReplayOK(r), EmptyUntilReady, AttemptStep(r)
  PROVE  /\ \A h \in Hosts : Grows(cache[h], cache'[h])
         /\ EmptyUntilReady'
         /\ UNCHANGED <<past, request>>
<1>1. UNCHANGED <<past, request>>
  BY Zenon DEF AttemptStep, AcquireStep, WorkspaceStep, TakeLock, BreakLock, LockFails, FindNoCache,
     InitCache, AddOrigin, SetOrigin, AskHead, FetchCandidate, LookForPin, FetchExact, Resolve,
     ReadCommit, PinSource, AddWorktree, WriteMarker, Unregister, RemoveWorkspace
<1>2. CASE UNCHANGED cache
  BY <1>1, <1>2, StaysGrows DEF EmptyUntilReady
<1>3. ASSUME NEW k, cache' = [cache EXCEPT ![HostOf(r)] = k],
             HostOf(r) \in Hosts, Grows(CacheOf(r), k),
             k.stage = "ready" \/ k.objects = CacheOf(r).objects
      PROVE  (\A h \in Hosts : Grows(cache[h], cache'[h])) /\ EmptyUntilReady'
  <2>1. \A h \in Hosts : cache'[h] = IF h = HostOf(r) THEN k ELSE cache[h]
    BY <1>3 DEF TypesOK, TypeOK
  <2>2. k.stage # "ready" => k.objects = {}
    BY <1>3 DEF EmptyUntilReady, CacheOf, Grows
  <2> QED
    BY <1>3, <2>1, <2>2, StaysGrows DEF EmptyUntilReady, CacheOf
<1> QED
  BY <1>1, <1>2, <1>3, CacheOfTheStep

-----------------------------------------------------------------------------
(* The sources *)

LEMMA RemotesOfThePast ==
  ASSUME TypesOK, NEW r \in Runs, SourceOK(r), job[r].pc \in Asking
  PROVE  Remote \in During(r) /\ During(r) \subseteq Remotes /\ Asked(r) \subseteq Refs
<1>1. Len(past) \in Nat /\ job[r].since \in 1 .. Len(past) /\ past \in [1 .. Len(past) -> Remotes]
  BY LenProperties DEF SourceOK, TypesOK, TypeOK
<1>2. Len(past) \in job[r].since .. Len(past) /\ \A i \in job[r].since .. Len(past) : i \in 1 .. Len(past)
  BY <1>1
<1>3. Remote \in During(r) /\ During(r) \subseteq Remotes
  BY <1>1, <1>2 DEF During, Remote, Last
<1>4. CASE request[r].form = "HEAD"
  BY <1>3, <1>4 DEF Asked, Branch, Refs, Remotes
<1>5. CASE request[r].form # "HEAD"
  <2>1. Candidates(request[r]) \in Seq(Refs)
    BY CandidatesAreRefs DEF TypesOK, TypeOK
  <2> HIDE DEF Candidates
  <2>2. Asked(r) \subseteq Refs
    BY <1>5, <2>1, LenProperties DEF Asked, ToSet
  <2> QED
    BY <1>3, <2>2
<1> QED
  BY <1>3, <1>4, <1>5

(* What the attempt has found stays true of a cache that grows. *)
LEMMA GrowingKeepsFetchedNow ==
  ASSUME TypesOK, NEW r \in Runs, SourceOK(r), job[r].pc \in Asking,
         UNCHANGED <<past, request>>, job'[r].since = job[r].since,
         Grows(CacheOf(r), CacheOf(r)')
  PROVE  /\ During(r)' = During(r) /\ Asked(r)' = Asked(r) /\ Switched(r)' = Switched(r)
         /\ FetchedNow(r) => FetchedNow(r)'
         /\ \A ref \in Refs : AnsweredNow(r, ref) => AnsweredNow(r, ref)'
<1>1. During(r)' = During(r) /\ Asked(r)' = Asked(r)
  BY DEF During, Asked
<1>2. Switched(r)' = Switched(r)
  BY <1>1 DEF Switched
<1>3. Remote \in During(r) /\ Asked(r) \subseteq Refs
  BY RemotesOfThePast
<1>4. ASSUME NEW ref \in Asked(r), NEW remote \in During(r),
             CacheOf(r).refs[ref] # Nil, remote.at[ref] = CacheOf(r).refs[ref]
      PROVE  FetchedNow(r)'
  <2>1. CacheOf(r)'.refs[ref] # Nil /\ CacheOf(r)'.refs[ref] \in {CacheOf(r).refs[ref], Remote.at[ref]}
    BY <1>3, <1>4 DEF Grows
  <2> QED
    BY <1>1, <1>3, <1>4, <2>1 DEF FetchedNow
<1>5. ASSUME NEW ref \in Refs, NEW remote \in During(r), remote.at[ref] = CacheOf(r).refs[ref],
             request[r].form = "HEAD" => ref = Branch(remote.default)
      PROVE  AnsweredNow(r, ref)'
  <2>1. CacheOf(r)'.refs[ref] \in {CacheOf(r).refs[ref], Remote.at[ref]}
    BY DEF Grows
  <2>2. CASE request[r].form = "HEAD" /\ remote.default # Remote.default
    BY <1>1, <1>2, <1>3, <2>2 DEF AnsweredNow, Switched
  <2>3. CASE request[r].form = "HEAD" => remote.default = Remote.default
    BY <1>1, <1>3, <1>5, <2>1, <2>3 DEF AnsweredNow
  <2> QED
    BY <2>2, <2>3
<1>6. Switched(r) => \A ref \in Refs : AnsweredNow(r, ref)'
  BY <1>2 DEF AnsweredNow
<1>7. FetchedNow(r) => FetchedNow(r)'
  BY <1>4 DEF FetchedNow
<1>8. \A ref \in Refs : AnsweredNow(r, ref) => AnsweredNow(r, ref)'
  BY <1>5, <1>6 DEF AnsweredNow
<1> QED
  BY <1>1, <1>2, <1>7, <1>8

LEMMA HeadOfTodo ==
  ASSUME TypesOK, NEW r \in Runs, At(r, "rev"), ~Pinned(r), request[r].form # "commit"
  PROVE  Head(job[r].todo) \in Refs
BY TailOfCandidates DEF TypesOK, TypeOK, JobsOK, JobOK, Jobs

(* Whatever the other attempts do, what an attempt knows of its source stays true. *)
LEMMA RestingKeepsSourceOK ==
  ASSUME TypesOK, NEW r \in Runs, SourceOK(r), job'[r] = job[r], pin'[r] = pin[r],
         UNCHANGED <<past, request>>,
         HostOf(r) \in Hosts => Grows(cache[HostOf(r)], cache'[HostOf(r)])
  PROVE  SourceOK(r)'
<1>1. CASE job[r].pc \in Asking
  <2>1. Grows(CacheOf(r), CacheOf(r)')
    <3>1. HostOf(r) \in Hosts
      BY <1>1, Attempting DEF Asking, InAcquire, Over
    <3> QED
      BY <3>1 DEF CacheOf, HostOf
  <2>2. At(r, "rev") /\ ~Pinned(r) /\ request[r].form # "commit" => Head(job[r].todo) \in Refs
    BY HeadOfTodo
  <2> QED
    BY <1>1, <2>1, <2>2, GrowingKeepsFetchedNow DEF SourceOK, At, Pinned
<1>2. CASE job[r].pc \notin Asking
  BY <1>2 DEF SourceOK, At, Asking, InAcquire
<1> QED
  BY <1>1, <1>2

LEMMA PastIsSourceOK ==
  ASSUME NEW r \in Runs, job'[r].pc \notin Asking, job'[r].pc = "idle" => job'[r].fetched = FALSE
  PROVE  SourceOK(r)'
BY DEF SourceOK, At, Asking, InAcquire

LEMMA EndedIsSourceOK ==
  ASSUME TypesOK, NEW r \in Runs, NEW how \in Over, NEW lost, End(r, how, lost)
  PROVE  SourceOK(r)'
<1>1. job'[r].pc = how /\ job'[r].fetched = FALSE
  BY DEF TypesOK, TypeOK, End, Resting
<1>2. how \notin Asking
  BY DEF Over, Asking, InAcquire
<1> QED
  BY <1>1, <1>2, PastIsSourceOK

LEMMA FailedIsSourceOK ==
  ASSUME TypesOK, NEW r \in Runs, Fail(r) \/ Lose(r)
  PROVE  SourceOK(r)'
BY EndedIsSourceOK DEF Fail, Lose, Over

(* A step that goes on keeps the cache of its attempt in sight. *)
LEMMA GrowsHere ==
  ASSUME TypesOK, NEW r \in Runs, HostOf(r) \in Hosts, job'[r].host = job[r].host,
         \A h \in Hosts : Grows(cache[h], cache'[h])
  PROVE  Grows(CacheOf(r), CacheOf(r)')
BY DEF CacheOf, HostOf

(* The steps from the lock to the first question to the remote. *)
LEMMA EarlySourceOK ==
  ASSUME TypesOK, NEW r \in Runs, SourceOK(r), UNCHANGED <<past, request>>,
         TakeLock(r) \/ FindNoCache(r) \/ InitCache(r)
  PROVE  SourceOK(r)'
<1>1. CASE Fail(r)
  BY <1>1, FailedIsSourceOK
<1>2. CASE TakeLock(r)
  <2>1. /\ job'[r].since = job[r].since /\ job'[r].fetched = job[r].fetched
        /\ job'[r].pc = AfterLock[job[r].pc]
    BY <1>2, TakeLockTakes DEF TypesOK, TypeOK
  <2>2. \/ job[r].pc = "lock" /\ job'[r].pc = "ensure"
        \/ job'[r].pc \in {"add", "remove"}
    BY <1>2, <2>1, WaitingAttempt DEF TakeLock
  <2> QED
    BY <2>1, <2>2 DEF SourceOK, At, Asking, InAcquire
<1>3. CASE ~Fail(r) /\ (FindNoCache(r) \/ InitCache(r))
  <2>1. job[r].pc \in {"ensure", "init"} /\ (Goto(r, "init") \/ Goto(r, "origin"))
    BY <1>3 DEF FindNoCache, InitCache, At
  <2>2. job'[r].pc \in {"init", "origin"} /\ job'[r].since = job[r].since /\ job'[r].fetched = job[r].fetched
    BY <2>1, GotoKeeps
  <2> QED
    BY <2>1, <2>2 DEF SourceOK, At, Asking, InAcquire
<1> QED
  BY <1>1, <1>2, <1>3

(* The origin is there, and what is asked for becomes what is to be fetched. *)
LEMMA OriginSourceOK ==
  ASSUME TypesOK, NEW r \in Runs, SourceOK(r), UNCHANGED <<past, request>>,
         AddOrigin(r) \/ SetOrigin(r)
  PROVE  SourceOK(r)'
<1>1. CASE Fail(r) \/ Lose(r)
  BY <1>1, FailedIsSourceOK
<1>2. CASE Ensured(r)
  <2>1. /\ job'[r].pc = Entry(r) /\ job'[r].todo = Candidates(request[r])
        /\ job'[r].since = job[r].since /\ job'[r].fetched = job[r].fetched
        /\ Entry(r) \in {"look", "exact", "ask", "fetch"}
    BY <1>2, EnsuredGoesOn
  <2>2. job[r].since \in 1 .. Len(past) /\ job[r].fetched = FALSE
    BY DEF SourceOK, Asking, InAcquire, AddOrigin, SetOrigin, At
  <2>3. Entry(r) = "fetch" => request[r].form # "HEAD"
    BY DEF Entry
  <2>4. Entry(r) = "fetch" => ToSet(job'[r].todo) \subseteq Asked(r)'
    BY <2>1, <2>3 DEF Asked
  <2> HIDE DEF Entry
  <2> QED
    BY <2>1, <2>2, <2>4 DEF SourceOK, At
<1> QED
  BY <1>1, <1>2 DEF AddOrigin, SetOrigin

LEMMA AskHeadSourceOK ==
  ASSUME TypesOK, NEW r \in Runs, SourceOK(r), UNCHANGED <<past, request>>, AskHead(r)
  PROVE  SourceOK(r)'
<1>1. CASE Fail(r)
  BY <1>1, FailedIsSourceOK
<1>2. CASE ~Fail(r)
  <2> DEFINE ref == Branch(Remote.default)
  <2>1. /\ job'[r].pc = "fetch" /\ job'[r].todo = <<ref>>
        /\ job'[r].since = job[r].since /\ job'[r].fetched = job[r].fetched
    BY <1>2, AskHeadGoesOn
  <2>2. job[r].pc = "ask" /\ request[r].form = "HEAD" /\ job[r].pc \in Asking
    BY DEF AskHead, At, TypesOK, JobsOK, JobOK, Asking, InAcquire
  <2>3. job[r].since \in 1 .. Len(past) /\ job[r].fetched = FALSE
    BY <2>2 DEF SourceOK
  <2>4. Asked(r)' = Asked(r) /\ ref \in Asked(r)
    BY <2>1, <2>2, RemotesOfThePast DEF Asked, During
  <2> HIDE DEF ref
  <2>5. ToSet(<<ref>>) = {ref}
    BY DEF ToSet
  <2> QED
    BY <2>1, <2>3, <2>4, <2>5 DEF SourceOK, At
<1> QED
  BY <1>1, <1>2

(* What todo still has after its head. *)
LEMMA TailHasLess ==
  ASSUME NEW s \in Seq(Refs), s # <<>>
  PROVE  Head(s) \in ToSet(s) /\ (Len(s) > 1 => ToSet(Tail(s)) \subseteq ToSet(s))
<1>1. Len(s) \in Nat \ {0} /\ Head(s) = s[1] /\ DOMAIN s = 1 .. Len(s)
  BY EmptySeq, LenProperties
<1>2. ASSUME Len(s) > 1
      PROVE  ToSet(Tail(s)) \subseteq ToSet(s)
  <2>1. Tail(s) \in Seq(Refs) /\ Len(Tail(s)) = Len(s) - 1
        /\ \A i \in 1 .. Len(Tail(s)) : Tail(s)[i] = s[i + 1]
    BY HeadTailProperties
  <2>2. DOMAIN Tail(s) = 1 .. Len(Tail(s))
    BY <2>1, LenProperties
  <2>3. ASSUME NEW i \in DOMAIN Tail(s)
        PROVE  i + 1 \in DOMAIN s /\ Tail(s)[i] = s[i + 1]
    BY <1>1, <2>1, <2>2
  <2> QED
    BY <2>3 DEF ToSet
<1>3. Head(s) \in ToSet(s)
  <2>1. 1 \in DOMAIN s
    BY <1>1
  <2> QED
    BY <1>1, <2>1 DEF ToSet
<1> QED
  BY <1>2, <1>3

(* A candidate that the remote has and that is fetched is in the cache as the
   remote has it; one whose fetch fails leaves what an earlier one brought. *)
LEMMA FetchCandidateSourceOK ==
  ASSUME TypesOK, NEW r \in Runs, SourceOK(r), FetchCandidate(r), UNCHANGED <<past, request>>,
         \A h \in Hosts : Grows(cache[h], cache'[h])
  PROVE  SourceOK(r)'
<1> DEFINE todo == job[r].todo
           ref == Head(todo)
           update == Remote.at[ref] # Nil /\ cache' = [cache EXCEPT ![HostOf(r)] = Fetched(CacheOf(r), ref)]
<1>1. /\ At(r, "fetch") /\ job[r].pc = "fetch" /\ job[r].pc \notin Over /\ job[r].pc \in Asking
  BY DEF FetchCandidate, At, Over, Asking, InAcquire
<1>2. /\ todo \in Seq(Refs) /\ todo # <<>> /\ ToSet(todo) \subseteq Asked(r)
      /\ job[r].fetched => FetchedNow(r)
      /\ CacheOf(r) \in Caches /\ HostOf(r) \in Hosts
      /\ job[r].since \in 1 .. Len(past) /\ job[r].fetched \in BOOLEAN
  BY <1>1, Attempting DEF SourceOK, TypesOK, TypeOK, Jobs, JobOK
<1>3. ref \in Refs /\ ref \in ToSet(todo) /\ (Len(todo) > 1 => ToSet(Tail(todo)) \subseteq ToSet(todo))
  BY <1>2, TailOfCandidates, TailHasLess
<1>4. Remote \in During(r)
  BY <1>1, RemotesOfThePast
<1>5. PICK successful \in BOOLEAN :
        /\ NextCandidate(r, successful)
        /\ \/ update /\ successful = TRUE
           \/ successful = job[r].fetched
  BY Zenon, <1>2 DEF FetchCandidate
<1> HIDE DEF ref, todo
<1>6. ASSUME job'[r].since = job[r].since, job'[r].host = job[r].host
      PROVE  Asked(r)' = Asked(r) /\ (successful => FetchedNow(r)')
  <2>1. Grows(CacheOf(r), CacheOf(r)')
    BY <1>2, <1>6, GrowsHere
  <2>2. Asked(r)' = Asked(r) /\ During(r)' = During(r) /\ (FetchedNow(r) => FetchedNow(r)')
    BY <1>1, <1>6, <2>1, GrowingKeepsFetchedNow
  <2>3. CASE update
    <3>1. CacheOf(r)' = Fetched(CacheOf(r), ref)
      BY <1>2, <1>6, <2>3 DEF CacheOf, HostOf, TypesOK, TypeOK
    <3>2. CacheOf(r)'.refs[ref] = Remote.at[ref] /\ Remote.at[ref] # Nil
      BY <1>2, <1>3, <2>3, <3>1, FetchedGrows
    <3> QED
      BY <1>2, <1>3, <1>4, <2>2, <3>2 DEF FetchedNow
  <2> QED
    BY <1>2, <1>5, <2>2, <2>3
<1>7. CASE Fail(r)
  BY <1>7, FailedIsSourceOK
<1>8. CASE successful /\ Goto(r, "resolve")
  <2>1. job'[r].pc = "resolve" /\ job'[r].since = job[r].since /\ job'[r].host = job[r].host
    BY <1>8, GotoKeeps
  <2> QED
    BY <1>2, <1>6, <1>8, <2>1 DEF SourceOK, At
<1>9. CASE Another(r, successful)
  <2>1. /\ job'[r].pc = "fetch" /\ job'[r].since = job[r].since /\ job'[r].host = job[r].host
        /\ job'[r].todo = Tail(todo) /\ job'[r].fetched = successful /\ Len(todo) > 1
    BY <1>1, <1>9, AnotherGoesOn DEF Another, todo
  <2> QED
    BY <1>2, <1>3, <1>6, <2>1 DEF SourceOK, At
<1> QED
  BY <1>5, <1>7, <1>8, <1>9, NextCandidateGoesOn

LEMMA PinSourceOK ==
  ASSUME TypesOK, NEW r \in Runs, SourceOK(r), LookForPin(r) \/ FetchExact(r),
         UNCHANGED <<past, request, pin>>
  PROVE  SourceOK(r)'
<1>1. CASE Fail(r)
  BY <1>1, FailedIsSourceOK
<1>2. CASE ~Fail(r)
  <2>1. /\ job[r].since \in 1 .. Len(past) /\ (Pinned(r) \/ request[r].form = "commit")
    BY DEF LookForPin, FetchExact, At, SourceOK, Asking, InAcquire, TypesOK, JobsOK, JobOK
  <2>2. job'[r].pc \in {"rev", "exact"} /\ job'[r].since = job[r].since
    <3>1. FetchExact(r) => Goto(r, "rev")
      BY Zenon, <1>2 DEF FetchExact
    <3> QED
      BY <3>1, GotoKeeps, LookForPinLooks
  <2> QED
    BY <2>1, <2>2 DEF SourceOK, At, Pinned
<1> QED
  BY <1>1, <1>2

LEMMA ExistingIsFinite ==
  ASSUME NEW r \in Runs
  PROVE  IsFiniteSet(Existing(r))
<1> DEFINE q == request[r]
           two == {Branch(q.of), Tag(q.of)}
<1>1. ToSet(Candidates(q)) \subseteq two
  <2>1. CASE q.form = "name"
    BY <2>1 DEF Candidates, ToSet
  <2>2. CASE q.form = "branch"
    BY <2>2 DEF Candidates, ToSet
  <2>3. CASE q.form = "tag"
    BY <2>3 DEF Candidates, ToSet
  <2>4. CASE q.form \notin {"name", "branch", "tag"}
    BY <2>4 DEF Candidates, ToSet
  <2> QED
    BY <2>1, <2>2, <2>3, <2>4
<1>2. IsFiniteSet(two)
  <2>1. ASSUME NEW x, NEW y
        PROVE  IsFiniteSet({x, y})
    <3>1. IsFiniteSet({x})
      BY FS_Singleton
    <3>2. IsFiniteSet({x} \cup {y})
      BY <3>1, FS_AddElement
    <3>3. {x, y} = {x} \cup {y}
      OBVIOUS
    <3> QED
      BY <3>2, <3>3
  <2> QED
    BY <2>1
<1>3. Existing(r) \subseteq ToSet(Candidates(q))
  BY DEF Existing
<1> QED
  BY <1>1, <1>2, <1>3, FS_Subset

(* The one candidate that is there is the one that was fetched, and so is the
   default branch unless it is switched. *)
LEMMA ResolveSourceOK ==
  ASSUME TypesOK, NEW r \in Runs, SourceOK(r), Resolve(r), UNCHANGED <<past, request>>,
         \A h \in Hosts : Grows(cache[h], cache'[h])
  PROVE  SourceOK(r)'
<1>1. /\ job[r].pc = "resolve" /\ job[r].pc \in Asking /\ job[r].pc \notin Over /\ HostOf(r) \in Hosts
      /\ FetchedNow(r) /\ job[r].since \in 1 .. Len(past)
  BY Attempting DEF Resolve, At, Asking, InAcquire, Over, SourceOK
<1>2. PICK fetched \in Asked(r), remote \in During(r) :
        CacheOf(r).refs[fetched] # Nil /\ remote.at[fetched] = CacheOf(r).refs[fetched]
  BY <1>1 DEF FetchedNow
<1>3. ASSUME NEW ref \in Refs, NEW lost \in BOOLEAN, Found(r, ref, lost),
             ~lost => AnsweredNow(r, ref)
      PROVE  SourceOK(r)'
  <2>1. /\ job'[r].pc = "rev" /\ job'[r].todo = <<ref>> /\ job'[r].lost = lost
        /\ job'[r].since = job[r].since /\ job'[r].host = job[r].host
    BY <1>3, FoundIsFound
  <2>2. ~lost => AnsweredNow(r, ref)'
    BY <1>1, <1>3, <2>1, GrowsHere, GrowingKeepsFetchedNow
  <2>3. Head(<<ref>>) = ref
    OBVIOUS
  <2> QED
    BY <1>1, <2>1, <2>2, <2>3 DEF SourceOK, At
<1>4. CASE Fail(r)
  BY <1>4, FailedIsSourceOK
<1>5. CASE request[r].form = "HEAD" /\ Found(r, Branch(Remote.default), FALSE)
  <2> DEFINE ref == Branch(Remote.default)
  <2>1. ref \in Refs
    BY RemoteIsTyped DEF Remotes, Branch, Refs, TypesOK
  <2>2. Remote \in During(r)
    BY <1>1, RemotesOfThePast
  <2>3. PICK asked \in During(r) : fetched = Branch(asked.default)
    BY <1>2, <1>5 DEF Asked
  <2>4. CASE Switched(r)
    BY <1>3, <1>5, <2>1, <2>4 DEF AnsweredNow
  <2>5. CASE ~Switched(r)
    <3>1. asked.default = Remote.default /\ remote.default = Remote.default
      BY <1>2, <1>5, <2>2, <2>3, <2>5 DEF Switched
    <3>2. fetched = ref /\ ref = Branch(remote.default)
      BY <2>3, <3>1
    <3> HIDE DEF ref
    <3>3. AnsweredNow(r, ref)
      BY <1>2, <3>2 DEF AnsweredNow
    <3> QED
      BY <1>3, <1>5, <2>1, <3>3 DEF ref
  <2> QED
    BY <2>4, <2>5
<1>6. ASSUME request[r].form # "HEAD", NEW ref \in Existing(r) \cap Refs, NEW lost \in BOOLEAN,
             Found(r, ref, lost), ~lost => Cardinality(Existing(r)) = 1
      PROVE  SourceOK(r)'
  <2>1. CASE lost
    BY <1>3, <1>6, <2>1
  <2>2. CASE ~lost
    <3>1. PICK x : Existing(r) = {x}
      BY <1>6, <2>2, ExistingIsFinite, FS_Singleton
    <3>2. fetched \in Existing(r)
      BY <1>2, <1>6 DEF Asked, Existing
    <3>3. fetched = ref
      BY <1>6, <3>1, <3>2
    <3>4. AnsweredNow(r, ref)
      BY <1>2, <1>6, <3>3 DEF AnsweredNow
    <3> QED
      BY <1>3, <1>6, <3>4
  <2> QED
    BY <2>1, <2>2
<1> QED
  BY <1>4, <1>5, <1>6, ResolvedIsAReference

LEMMA AttemptKeepsSourceOK ==
  ASSUME TypesOK, NEW r \in Runs, SourceOK(r), AttemptStep(r), UNCHANGED <<past, request>>,
         \A h \in Hosts : Grows(cache[h], cache'[h])
  PROVE  SourceOK(r)'
<1>1. CASE LockFails(r)
  <2>1. \E how \in Over : End(r, how, FALSE)
    BY <1>1 DEF LockFails, Over
  <2> QED
    BY <2>1, EndedIsSourceOK
<1>2. CASE BreakLock(r)
  <2>1. UNCHANGED <<job, pin>>
    BY <1>2 DEF BreakLock
  <2> QED
    BY <2>1, RestingKeepsSourceOK
<1>3. CASE ReadCommit(r)
  <2>1. Fail(r) \/ Lose(r) \/ Return(r, Answer(r))
    BY <1>3 DEF ReadCommit
  <2>2. CASE Return(r, Answer(r))
    BY <2>2, ReturnReturns, PastIsSourceOK DEF Asking, InAcquire
  <2> QED
    BY <2>1, <2>2, FailedIsSourceOK
<1>4. CASE WorkspaceStep(r)
  <2>1. (\E where \in {"pinned", "mark", "working", "delete"} : Goto(r, where))
        \/ (\E how \in Over : \E lost : End(r, how, lost))
    BY <1>4 DEF WorkspaceStep, PinSource, AddWorktree, WriteMarker, Unregister, RemoveWorkspace, Fail, Over
  <2>2. ASSUME NEW where \in {"pinned", "mark", "working", "delete"}, Goto(r, where)
        PROVE  SourceOK(r)'
    BY <2>2, GotoKeeps, PastIsSourceOK DEF Asking, InAcquire
  <2> QED
    BY <2>1, <2>2, EndedIsSourceOK
<1>5. CASE LookForPin(r) \/ FetchExact(r)
  <2>1. UNCHANGED pin
    BY <1>5 DEF LookForPin, FetchExact
  <2> QED
    BY <1>5, <2>1, PinSourceOK
<1> QED
  BY <1>1, <1>2, <1>3, <1>4, <1>5, EarlySourceOK, OriginSourceOK, AskHeadSourceOK, FetchCandidateSourceOK,
     ResolveSourceOK DEF AttemptStep, AcquireStep

-----------------------------------------------------------------------------
(* The replays *)

LEMMA RestingKeepsReplayOK ==
  ASSUME TypesOK, NEW r \in Runs, ReplayOK(r), job'[r] = job[r], pin'[r] = pin[r],
         \A h \in Hosts : Grows(cache[h], cache'[h])
  PROVE  ReplayOK(r)'
<1>1. CASE job[r].pc \in InAcquire
  <2>1. Grows(CacheOf(r), CacheOf(r)')
    <3>1. HostOf(r) \in Hosts
      BY <1>1, Attempting DEF InAcquire, Over
    <3> QED
      BY <3>1, GrowsHere
  <2> QED
    BY <1>1, <2>1 DEF ReplayOK, Grows, At, Pinned
<1>2. CASE job[r].pc \notin InAcquire
  BY <1>2 DEF ReplayOK, At, InAcquire
<1> QED
  BY <1>1, <1>2

LEMMA PastIsReplayOK ==
  ASSUME NEW r \in Runs, job'[r].pc \notin InAcquire
  PROVE  ReplayOK(r)'
BY DEF ReplayOK, InAcquire

(* A step inside Acquire that keeps had and does not forget lost. *)
LEMMA GoesOnInReplay ==
  ASSUME TypesOK, NEW r \in Runs, ReplayOK(r), job[r].pc \in InAcquire,
         \A h \in Hosts : Grows(cache[h], cache'[h]), UNCHANGED pin,
         job'[r].host = job[r].host, job'[r].had = job[r].had,
         job'[r].pc \in {"ask", "fetch", "look", "exact"} => CacheOf(r)'.stage = "ready",
         Pinned(r) /\ job[r].had =>
           job'[r].pc \notin {"init", "origin"} /\ (job'[r].pc = "exact" => job'[r].lost)
  PROVE  ReplayOK(r)'
<1>1. Grows(CacheOf(r), CacheOf(r)')
  BY Attempting, GrowsHere DEF InAcquire, Over
<1> QED
  BY <1>1 DEF ReplayOK, Grows, At, Pinned

LEMMA AttemptKeepsReplayOK ==
  ASSUME TypesOK, NEW r \in Runs, ReplayOK(r), EmptyUntilReady, AttemptStep(r),
         \A h \in Hosts : Grows(cache[h], cache'[h])
  PROVE  ReplayOK(r)'
<1>1. CASE job'[r].pc \notin InAcquire
  BY <1>1, PastIsReplayOK
<1>2. CASE BreakLock(r)
  <2>1. UNCHANGED <<job, pin>>
    BY <1>2 DEF BreakLock
  <2> QED
    BY <2>1, RestingKeepsReplayOK
<1>3. CASE TakeLock(r) /\ job'[r].pc \in InAcquire
  <2>1. /\ job'[r].pc = AfterLock[job[r].pc] /\ job'[r].host = job[r].host
        /\ job'[r].had = (pin[r].commit \in CacheOf(r).objects)
    BY <1>3, TakeLockTakes DEF TypesOK, TypeOK
  <2>2. job'[r].pc = "ensure"
    BY <1>3, <2>1, WaitingAttempt DEF TakeLock, InAcquire
  <2>3. UNCHANGED pin /\ CacheOf(r)' = CacheOf(r)
    BY <1>3, <2>1 DEF TakeLock, CacheOf, HostOf
  <2> QED
    BY <2>1, <2>2, <2>3 DEF ReplayOK, At, Pinned
<1>4. CASE ~BreakLock(r) /\ ~TakeLock(r) /\ job'[r].pc \in InAcquire
  <2>0. ~Fail(r) /\ ~Lose(r) /\ ~LockFails(r)
    <3>1. \A how \in Over : \A lost : ~End(r, how, lost)
      BY <1>4, EndEnds DEF Over, InAcquire
    <3> QED
      BY <3>1 DEF Fail, Lose, LockFails, Over
  <2>1. ~WorkspaceStep(r)
    <3>1. \A where \in {"pinned", "mark", "working", "delete"} : ~Goto(r, where)
      BY <1>4, GotoKeeps DEF InAcquire
    <3>2. \A how \in {"failed", "left", "done"} : ~End(r, how, FALSE)
      BY <1>4, EndEnds DEF InAcquire
    <3> QED
      BY <2>0, <3>1, <3>2
         DEF WorkspaceStep, PinSource, AddWorktree, WriteMarker, Unregister, RemoveWorkspace
  <2>2. ~ReadCommit(r)
    BY <1>4, <2>0, ReturnReturns DEF ReadCommit, InAcquire
  <2>3. AcquireStep(r)
    BY <2>1 DEF AttemptStep
  <2>4. job[r].pc \in InAcquire /\ UNCHANGED pin /\ HostOf(r) \in Hosts
    <3>1. job[r].pc \in InAcquire /\ UNCHANGED pin
      BY <1>4, <2>0, <2>2, <2>3 DEF AcquireStep, FindNoCache, InitCache, AddOrigin, SetOrigin, AskHead,
         FetchCandidate, LookForPin, FetchExact, Resolve, At, InAcquire
    <3> QED
      BY <3>1, Attempting DEF InAcquire, Over
  <2>5. CASE FindNoCache(r) \/ InitCache(r)
    <3>1. \/ job[r].pc = "ensure" /\ CacheOf(r).stage = "absent" /\ Goto(r, "init")
          \/ job[r].pc = "init" /\ Goto(r, "origin")
      BY <2>0, <2>5 DEF FindNoCache, InitCache, At
    <3>2. Pinned(r) => ~job[r].had
      BY <2>4, <3>1 DEF ReplayOK, EmptyUntilReady, CacheOf
    <3> QED
      BY <2>4, <3>1, <3>2, GotoKeeps, GoesOnInReplay
  <2>6. CASE AddOrigin(r) \/ SetOrigin(r)
    <3>1. Ensured(r) /\ (SetCache(r, "stage", "ready") \/ (UNCHANGED cache /\ CacheOf(r).stage = "ready"))
      BY <2>0, <2>6 DEF AddOrigin, SetOrigin
    <3>2. /\ job'[r].pc = Entry(r) /\ job'[r].host = job[r].host /\ job'[r].had = job[r].had
          /\ Entry(r) \in {"look", "exact", "ask", "fetch"} /\ (Entry(r) = "exact" => ~Pinned(r))
      BY <3>1, EnsuredGoesOn DEF Entry
    <3> HIDE DEF Entry
    <3>3. CacheOf(r)'.stage = "ready"
      <4>1. CASE SetCache(r, "stage", "ready")
        <5>1. CacheOf(r) \in Caches
          BY <2>4, Attempting DEF InAcquire, Over
        <5>2. CacheOf(r)' = [CacheOf(r) EXCEPT !["stage"] = "ready"]
          BY <2>4, <3>2, <4>1 DEF SetCache, CacheOf, HostOf, TypesOK, TypeOK
        <5> QED
          BY <5>1, <5>2 DEF Caches
      <4> QED
        BY <3>1, <3>2, <4>1 DEF CacheOf, HostOf
    <3> QED
      BY <2>4, <3>2, <3>3, GoesOnInReplay
  <2>7. CASE AskHead(r) \/ FetchCandidate(r) \/ LookForPin(r)
    <3>1. CacheOf(r).stage = "ready" /\ JobOK(r)
      BY <2>7 DEF AskHead, FetchCandidate, LookForPin, At, ReplayOK, TypesOK, JobsOK
    <3>2. job'[r].host = job[r].host /\ job'[r].had = job[r].had
      <4>1. CASE FetchCandidate(r)
        <5>1. PICK successful : NextCandidate(r, successful)
          BY Zenon, <4>1 DEF FetchCandidate
        <5> QED
          BY <2>0, <5>1, NextCandidateGoesOn, AnotherGoesOn, GotoKeeps
      <4> QED
        BY <2>0, <2>7, <4>1, AskHeadGoesOn, LookForPinLooks
    <3>3. Grows(CacheOf(r), CacheOf(r)')
      BY <2>4, <3>2, GrowsHere
    <3>4. Pinned(r) => LookForPin(r)
      BY <2>7, <3>1 DEF AskHead, FetchCandidate, JobOK
    <3>5. LookForPin(r) /\ Pinned(r) /\ job[r].had =>
            job'[r].pc \in {"rev", "exact"} /\ (job'[r].pc = "exact" => job'[r].lost)
      BY <2>4, LookForPinLooks DEF ReplayOK
    <3> QED
      BY <2>4, <3>1, <3>2, <3>3, <3>4, <3>5, GoesOnInReplay DEF Grows
  <2>8. CASE FetchExact(r)
    <3>1. Goto(r, "rev")
      BY Zenon, <2>0, <2>8 DEF FetchExact
    <3> QED
      BY <2>4, <3>1, GotoKeeps, GoesOnInReplay
  <2>9. CASE Resolve(r)
    <3>1. PICK ref \in Refs, lost \in BOOLEAN : Found(r, ref, lost)
      BY <2>0, <2>9, ResolvedIsAReference
    <3> QED
      BY <2>4, <3>1, FoundIsFound, GoesOnInReplay
  <2> QED
    BY <1>4, <2>0, <2>2, <2>3, <2>5, <2>6, <2>7, <2>8, <2>9 DEF AcquireStep
<1> QED
  BY <1>1, <1>2, <1>3, <1>4

-----------------------------------------------------------------------------
(* Every step keeps what is known of sources and replays *)

LEMMA AttemptKeepsCachesOK ==
  ASSUME TypesOK, CachesOK, NEW r \in Runs, AttemptStep(r)
  PROVE  CachesOK'
<1>1. /\ \A h \in Hosts : Grows(cache[h], cache'[h])
      /\ EmptyUntilReady' /\ UNCHANGED <<past, request>>
  BY CachesGrow DEF CachesOK
<1>2. SourceOK(r)' /\ ReplayOK(r)'
  BY <1>1, AttemptKeepsSourceOK, AttemptKeepsReplayOK DEF CachesOK
<1>3. ASSUME NEW s \in Runs, s # r
      PROVE  SourceOK(s)' /\ ReplayOK(s)'
  <2>1. job'[s] = job[s]
    BY <1>3, AttemptMovesTheLock DEF OnlyJob
  <2>2. pin'[s] = pin[s]
    <3>1. UNCHANGED pin \/ pin' = [pin EXCEPT ![r] = IF Pinned(r) THEN pin[r] ELSE job[r].got]
      BY Zenon DEF AttemptStep, AcquireStep, WorkspaceStep, TakeLock, BreakLock, LockFails, FindNoCache,
         InitCache, AddOrigin, SetOrigin, AskHead, FetchCandidate, LookForPin, FetchExact, Resolve,
         ReadCommit, PinSource, AddWorktree, WriteMarker, Unregister, RemoveWorkspace
    <3> QED
      BY <1>3, <3>1 DEF TypesOK, TypeOK
  <2> QED
    BY <1>1, <2>1, <2>2, RestingKeepsSourceOK, RestingKeepsReplayOK DEF CachesOK
<1> QED
  BY <1>1, <1>2, <1>3 DEF CachesOK

(* A change of the remote is one more of its states. *)
LEMMA RemoteStepKeepsCachesOK ==
  ASSUME TypesOK, CachesOK, RemoteStep
  PROVE  CachesOK'
<1>1. \E remote : Becomes(remote)
  BY DEF RemoteStep, Push, SwitchDefault
<1>2. PICK remote : past' = Append(past, remote) /\ UNCHANGED <<cache, request, pin, job>>
  BY <1>1 DEF Becomes
<1>3. /\ Len(past) \in Nat /\ Len(past') = Len(past) + 1
      /\ \A i \in 1 .. Len(past) : past'[i] = past[i]
  BY <1>2 DEF TypesOK, TypeOK
<1>4. ASSUME NEW r \in Runs
      PROVE  SourceOK(r)'
  <2>1. SourceOK(r)
    BY DEF CachesOK
  <2>2. CASE job[r].pc \in Asking
    <3>1. job[r].since \in 1 .. Len(past)
      BY <2>1, <2>2 DEF SourceOK
    <3>2. During(r) \subseteq During(r)'
      <4>1. ASSUME NEW i \in job[r].since .. Len(past)
            PROVE  i \in job'[r].since .. Len(past') /\ past'[i] = past[i]
        BY <1>2, <1>3, <3>1
      <4> QED
        BY <4>1 DEF During
    <3>3. Asked(r) \subseteq Asked(r)' /\ (Switched(r) => Switched(r)')
      BY <1>2, <3>2 DEF Asked, Switched
    <3>4. CacheOf(r)' = CacheOf(r)
      BY <1>2 DEF CacheOf, HostOf
    <3>5. FetchedNow(r) => FetchedNow(r)'
      BY <3>2, <3>3, <3>4 DEF FetchedNow
    <3>7. \A ref : AnsweredNow(r, ref) => AnsweredNow(r, ref)'
      BY <1>2, <3>2, <3>3, <3>4 DEF AnsweredNow
    <3>6. job'[r].since \in 1 .. Len(past')
      BY <1>2, <1>3, <3>1
    <3> QED
      BY <1>2, <2>1, <3>3, <3>5, <3>6, <3>7 DEF SourceOK, At, Pinned
  <2>3. CASE job[r].pc \notin Asking
    BY <1>2, <2>1, <2>3, PastIsSourceOK DEF SourceOK
  <2> QED
    BY <2>2, <2>3
<1>5. \A r \in Runs : ReplayOK(r)'
  BY <1>2 DEF CachesOK, ReplayOK, CacheOf, HostOf, At, Pinned
<1>6. EmptyUntilReady'
  BY <1>2 DEF CachesOK, EmptyUntilReady
<1> QED
  BY <1>4, <1>5, <1>6 DEF CachesOK

LEMMA NextKeepsCachesOK ==
  ASSUME TypesOK, CachesOK, [Next]_vars
  PROVE  CachesOK'
<1>0. UNCHANGED cache => \A h \in Hosts : Grows(cache[h], cache'[h])
  BY StaysGrows
<1>1. CASE RemoteStep
  BY <1>1, RemoteStepKeepsCachesOK
<1>2. CASE (\E h \in Hosts : Sweep(h)) \/ UNCHANGED vars
  <2>1. UNCHANGED <<past, cache, request, pin, job>>
    BY <1>2 DEF Sweep, vars
  <2> QED
    BY <1>0, <2>1, RestingKeepsSourceOK, RestingKeepsReplayOK DEF CachesOK, EmptyUntilReady
<1>3. ASSUME NEW r \in Runs, AttemptStep(r)
      PROVE  CachesOK'
  BY <1>3, AttemptKeepsCachesOK
<1>4. ASSUME NEW r \in Runs, UNCHANGED <<past, cache, request, pin>>, OnlyJob(r), SourceOK(r)',
             job'[r].pc \notin InAcquire
      PROVE  CachesOK'
  <2>1. ASSUME NEW s \in Runs, s # r
        PROVE  SourceOK(s)' /\ ReplayOK(s)'
    BY <1>0, <1>4, <2>1, RestingKeepsSourceOK, RestingKeepsReplayOK DEF CachesOK, OnlyJob
  <2>2. ReplayOK(r)'
    BY <1>4, PastIsReplayOK
  <2> QED
    BY <1>4, <2>1, <2>2 DEF CachesOK, EmptyUntilReady
<1>5. ASSUME NEW r \in Runs, Crash(r)
      PROVE  CachesOK'
  <2>1. \E how \in Over : End(r, how, FALSE)
    BY <1>5 DEF Crash, Over
  <2>2. job'[r].pc \notin InAcquire
    BY <1>5, CrashEnds DEF InAcquire
  <2> QED
    BY <1>4, <1>5, <2>1, <2>2, CrashEnds, EndedIsSourceOK
<1>6. ASSUME NEW r \in Runs, NEW h \in Hosts, Begin(r, h)
      PROVE  CachesOK'
  <2>1. job[r].fetched = FALSE
    BY <1>6, BeginBegins DEF CachesOK, SourceOK
  <2>2. job'[r].fetched = job[r].fetched
    <3>1. job[r] \in Jobs /\ job \in [Runs -> Jobs]
      BY DEF TypesOK, TypeOK
    <3> QED
      BY <1>6, <3>1 DEF Begin, Jobs
  <2>3. Len(past) \in 1 .. Len(past)
    BY DEF TypesOK, TypeOK
  <2>4. SourceOK(r)' /\ job'[r].pc \notin InAcquire
    BY <1>6, <2>1, <2>2, <2>3, BeginBegins DEF SourceOK, At, InAcquire
  <2> QED
    BY <1>4, <1>6, <2>4, BeginBegins
<1> QED
  BY <1>1, <1>2, <1>3, <1>5, <1>6 DEF Next

LEMMA CachesStayOK == Spec => [](TypesOK /\ CachesOK)
<1>1. Init => TypesOK /\ CachesOK
  <2> SUFFICES ASSUME Init PROVE TypesOK /\ CachesOK
    OBVIOUS
  <2>1. CachesOK
    BY DEF Init, CachesOK, EmptyUntilReady, SourceOK, ReplayOK, At, Resting, NoCache, Asking, InAcquire
  <2> QED
    BY <2>1, InitIsTyped
<1>2. TypesOK /\ CachesOK /\ [Next]_vars => (TypesOK /\ CachesOK)'
  BY NextIsTyped, NextKeepsCachesOK
<1> QED
  BY <1>1, <1>2, PTL DEF Spec

(* Only a step of the attempt itself moves it. *)
LEMMA WhoMovesAnAttempt ==
  ASSUME TypesOK, [Next]_vars, NEW r \in Runs, job'[r] # job[r]
  PROVE  AttemptStep(r) \/ Crash(r) \/ \E h \in Hosts : Begin(r, h)
<1>1. CASE RemoteStep \/ (\E h \in Hosts : Sweep(h)) \/ UNCHANGED vars
  BY <1>1 DEF RemoteStep, Push, SwitchDefault, Becomes, Sweep, vars
<1>2. ASSUME NEW s \in Runs, s # r, AttemptStep(s) \/ Crash(s) \/ \E h \in Hosts : Begin(s, h)
      PROVE  FALSE
  BY <1>2, AttemptMovesTheLock, CrashEnds, BeginBegins DEF OnlyJob
<1> QED
  BY <1>1, <1>2 DEF Next

(* The steps by which a replay fails. *)
LEMMA ReplayStep ==
  ASSUME TypesOK, CachesOK, [Next]_vars, NEW r \in Runs, Pinned(r),
         job[r].pc \in InAcquire, At(r, "failed")'
  PROVE  ~job[r].had \/ job'[r].lost
<1>1. /\ job'[r].pc = "failed" /\ job'[r] # job[r] /\ ReplayOK(r) /\ JobOK(r) /\ HostOf(r) \in Hosts
      /\ job[r] \in Jobs
  BY Attempting DEF At, CachesOK, Over, InAcquire
<1>2. AttemptStep(r)
  BY <1>1, WhoMovesAnAttempt, CrashEnds, BeginBegins
<1>3. CacheOf(r).stage # "ready" => CacheOf(r).objects = {}
  BY <1>1 DEF CachesOK, EmptyUntilReady, CacheOf
<1>4. CASE Lose(r)
  BY <1>4, FailEnds
<1>5. CASE ~Lose(r)
  <2>1. CASE job[r].pc \in {"init", "origin"}
    BY <1>1, <2>1 DEF ReplayOK
  <2>2. CASE SetOrigin(r)
    <3>1. CacheOf(r).stage = "bare"
      BY <1>1, <1>5, <2>2, EnsuredGoesOn DEF SetOrigin
    <3> QED
      BY <1>1, <1>3, <3>1 DEF ReplayOK
  <2>3. CASE FetchExact(r)
    <3>1. Fail(r)
      <4>1. Fail(r) \/ Goto(r, "rev")
        BY Zenon, <2>3 DEF FetchExact
      <4> QED
        BY <1>1, <4>1, GotoKeeps
    <3>2. job'[r].lost = job[r].lost
      BY <3>1, FailEnds
    <3> QED
      BY <1>1, <2>3, <3>2 DEF FetchExact, ReplayOK
  <2>4. CASE FindNoCache(r) \/ LookForPin(r)
    BY <1>1, <2>4, GotoKeeps, LookForPinLooks DEF FindNoCache
  <2>5. CASE ReadCommit(r)
    <3>1. Answer(r).commit \notin CacheOf(r).objects
      BY <1>1, <1>5, <2>5, ReturnReturns DEF ReadCommit
    <3>2. Answer(r) = pin[r]
      BY DEF Answer
    <3> QED
      BY <1>1, <3>1, <3>2 DEF ReplayOK
  <2>6. job[r].pc \in {"init", "origin"} \/ SetOrigin(r) \/ FetchExact(r) \/ FindNoCache(r)
        \/ LookForPin(r) \/ ReadCommit(r)
    <3>1. ~TakeLock(r) /\ ~BreakLock(r) /\ ~LockFails(r)
      BY WaitingAttempt DEF TakeLock, BreakLock, LockFails, Commanding
    <3>2. ~WorkspaceStep(r)
      BY DEF WorkspaceStep, PinSource, AddWorktree, WriteMarker, Unregister, RemoveWorkspace, At, InAcquire
    <3>3. ~AskHead(r) /\ ~FetchCandidate(r) /\ ~Resolve(r)
      BY <1>1 DEF AskHead, FetchCandidate, Resolve, JobOK
    <3> QED
      BY <1>2, <3>1, <3>2, <3>3 DEF AttemptStep, AcquireStep, InitCache, AddOrigin, At
  <2> QED
    BY <2>1, <2>2, <2>3, <2>4, <2>5, <2>6
<1> QED
  BY <1>4, <1>5

(* Where the cache of the host has the pinned commit when a replay gets the lock,
   it acquires its source without the remote, whatever the other attempts and the
   network do, as long as its own commands that only read work (AcquirePinned:
   set-url, rev-parse before fetch, and cat-file). *)
THEOREM ReplaysDoWithoutTheRemote == Spec => ReplayNeedsNoRemote
<1>1. TypesOK /\ CachesOK /\ [Next]_vars
        => [\A r \in Runs :
              Pinned(r) /\ job[r].pc \in InAcquire /\ At(r, "failed")'
              => ~job[r].had \/ job'[r].lost]_vars
  BY ReplayStep
<1> QED
  BY <1>1, CachesStayOK, PTL DEF Spec, ReplayNeedsNoRemote

(* What property SourceWasAtTheRemote says of one step of one run. *)
AnswerOfTheRemote(r) ==
  LET during == {past[i] : i \in job[r].since .. Len(past)}
      ref    == job'[r].got.ref
  IN  \/ \E remote \in during :
           /\ remote.at[ref] = job'[r].got.commit
           /\ request[r].form = "HEAD" => ref = Branch(remote.default)
      \/ /\ request[r].form = "HEAD"
         /\ \E before, after \in during : before.default # after.default

LEMMA AnswerStep ==
  ASSUME TypesOK, CachesOK, [Next]_vars, NEW r \in Runs, At(r, "rev"), At(r, "acquired")',
         ~Pinned(r), request[r].form # "commit", ~job[r].lost
  PROVE  AnswerOfTheRemote(r)
<1> DEFINE ref == Head(job[r].todo)
<1>1. job[r].pc = "rev" /\ job'[r].pc = "acquired" /\ SourceOK(r)
  BY DEF At, CachesOK
<1>2. AttemptStep(r)
  BY <1>1, WhoMovesAnAttempt, CrashEnds, BeginBegins
<1>3. ReadCommit(r)
  <2>1. ~TakeLock(r) /\ ~BreakLock(r) /\ ~LockFails(r)
    BY <1>1, WaitingAttempt DEF TakeLock, BreakLock, LockFails
  <2> QED
    BY <1>1, <1>2, <2>1 DEF AttemptStep, AcquireStep, WorkspaceStep, FindNoCache,
       InitCache, AddOrigin, SetOrigin, AskHead, FetchCandidate, LookForPin, FetchExact, Resolve, PinSource,
       AddWorktree, WriteMarker, Unregister, RemoveWorkspace, At
<1>4. Return(r, Answer(r))
  BY <1>1, <1>3, FailEnds DEF ReadCommit
<1>5. job'[r].got.commit = CacheOf(r).refs[ref] /\ job'[r].got.ref = ref
  BY <1>4, ReturnReturns DEF Answer
<1>6. AnsweredNow(r, ref)
  BY <1>1 DEF SourceOK, At
<1> HIDE DEF ref
<1> QED
  BY <1>5, <1>6 DEF AnswerOfTheRemote, AnsweredNow, Switched, During

(* What an attempt resolves is, with one reservation about a default branch that
   is switched meanwhile, what the remote said while it asked (Acquire, fetch and
   resolveFetched), unless a show-ref of it failed: also after a crash, when another
   attempt may fetch into the cache at the same time. *)
THEOREM SourcesAreOfTheRemote == Spec => SourceWasAtTheRemote
<1>1. TypesOK /\ CachesOK /\ [Next]_vars
        => [\A r \in Runs :
              /\ At(r, "rev") /\ At(r, "acquired")'
              /\ ~Pinned(r) /\ request[r].form # "commit" /\ ~job[r].lost
              => AnswerOfTheRemote(r)]_vars
  BY AnswerStep
<1> QED
  BY <1>1, CachesStayOK, PTL DEF Spec, SourceWasAtTheRemote, AnswerOfTheRemote

-----------------------------------------------------------------------------
(* The repository lock. SourceCache takes for granted that at most one attempt of a
   host has it until an attempt has died there; FileLock has the system calls that
   the lock is made of, and this is what they guarantee. *)

LockSteps == {"idle", "failed", "open", "write", "read", "judge", "break", "held"}

LockFiles == [by : Threads, owner : Processes \cup {None}]

LockTyped ==
  /\ file \in LockFiles \cup {None}
  /\ pc \in [Threads -> LockSteps]
  /\ read \in [Threads -> Processes \cup {None}]

(* The thread that has created the file, and has neither failed nor closed. *)
Owns(t) == pc[t] \in {"write", "held"}

(* The inductive invariant. OneHolderUntilACrash says nothing of a thread that has
   created the file and not written its name yet, and nothing of one that is
   about to remove what it takes for stale: the first needs the file it has
   created to be there still, the second must not exist. *)
Exclusion ==
  dead = {} => \A t \in Threads :
    /\ Owns(t) => file # None /\ file.by = t
    /\ pc[t] # "break"

LockOK == LockTyped /\ Exclusion

-----------------------------------------------------------------------------

LEMMA NoneIsNoFile == None \notin LockFiles
BY FileLockAssumption DEF LockFiles

LEMMA InitEstablishesLockOK == LockInit => LockOK
BY DEF LockInit, LockOK, LockTyped, Exclusion, Owns, LockSteps

(* AcquireFileLock. A thread that creates the file finds that there was none, and so
   no owner; only the owner removes it while nobody is dead. *)
LEMMA LockStepKeepsLockOK ==
  ASSUME LockOK, NEW t \in Threads, LockStep(t)
  PROVE  LockOK'
<1> USE DEF LockOK, LockTyped, Exclusion, Owns, LockSteps, AtCall, GoesTo
<1>0. Process(t) \in Processes
  BY FileLockAssumption
<1>1. CASE Open(t)
  <2>1. [by |-> t, owner |-> None] \in LockFiles
    BY DEF LockFiles
  <2> QED
    BY <1>1, <2>1, NoneIsNoFile DEF Open
<1>2. CASE WriteOwner(t)
  <2>1. file # None /\ file.by = t =>
          [file EXCEPT !.owner = Process(t)] \in LockFiles
          /\ [file EXCEPT !.owner = Process(t)].by = t
    BY <1>0 DEF LockFiles
  <2>2. dead = {} => \A u \in Threads : Owns(u) => u = t
    BY <1>2 DEF WriteOwner
  <2> QED
    BY <1>2, <2>1, <2>2, NoneIsNoFile DEF WriteOwner
<1>3. CASE ReadOwner(t)
  <2>1. file # None => file.owner \in Processes \cup {None}
    BY DEF LockFiles
  <2> QED
    BY <1>3, <2>1 DEF ReadOwner
<1>4. CASE Judge(t)
  <2>1. dead = {} => ~Stale(t)
    BY DEF Stale
  <2> QED
    BY <1>4, <2>1 DEF Judge
<1>5. CASE Break(t) \/ BreakFails(t)
  BY <1>5 DEF Break, BreakFails
<1> QED
  BY <1>1, <1>2, <1>3, <1>4, <1>5 DEF LockStep

LEMMA LockNextKeepsLockOK == LockOK /\ [LockNext]_lockVars => LockOK'
<1> SUFFICES ASSUME LockOK, [LockNext]_lockVars PROVE LockOK'
  OBVIOUS
<1>1. CASE UNCHANGED lockVars
  BY <1>1 DEF lockVars, LockOK, LockTyped, Exclusion, Owns
<1>2. ASSUME NEW t \in Threads, Start(t) PROVE LockOK'
  BY <1>2 DEF Start, LockOK, LockTyped, Exclusion, Owns, LockSteps, AtCall, GoesTo
<1>3. ASSUME NEW t \in Threads, LockStep(t) PROVE LockOK'
  BY <1>3, LockStepKeepsLockOK
<1>4. ASSUME NEW t \in Threads, Close(t) PROVE LockOK'
  BY <1>4 DEF Close, LockOK, LockTyped, Exclusion, Owns, LockSteps, AtCall, GoesTo
<1>5. ASSUME NEW t \in Threads, Expire(t) PROVE LockOK'
  BY <1>5 DEF Expire, LockOK, LockTyped, Exclusion, Owns
<1>6. ASSUME NEW p \in Processes, Die(p) PROVE LockOK'
  BY <1>6 DEF Die, LockOK, LockTyped, Exclusion, Owns, LockSteps
<1> QED
  BY <1>1, <1>2, <1>3, <1>4, <1>5, <1>6 DEF LockNext

(* Until a process dies at most one thread is past AcquireFileLock and the lock
   file is its own (git.go 43-104), whatever fails on the way: writing the owner,
   removing the file, or the caller's patience. *)
THEOREM LockExcludes == LockSpec => []OneHolderUntilACrash
<1>1. LockOK => OneHolderUntilACrash
  BY DEF LockOK, Exclusion, Owns, OneHolderUntilACrash, Holders
<1> QED
  BY <1>1, InitEstablishesLockOK, LockNextKeepsLockOK, PTL DEF LockSpec

=============================================================================
