-------------------------- MODULE FarmRefinementProofs --------------------------
(***************************************************************************)
(* Proofs that the builds a fetch or daily build waits for are all         *)
(* different, that build directories are therefore only shared by forced   *)
(* or orphaned builds, that BuildFarm implements FetchThenBuild, and that  *)
(* sources therefore stay as they are while they are built.                *)
(***************************************************************************)
EXTENDS BuildFarmProofs

IsAwaited(r) == r.by \in {"fetch", "daily"}

\* All that is awaited asks alike for packages.
AwaitedAlike == \A r \in Requests : IsAwaited(r) => r.package = job.package

\* A worker that runs an awaited build is the only one, and the request has
\* left the queue.
AwaitedOnce ==
    \A v \in Builders : running[v] # Free /\ IsAwaited(running[v]) =>
        /\ running[v] \notin pending
        /\ \A w \in Builders : running[w] = running[v] => w = v

\* Two awaited builds of the same platform are one and the same.
LEMMA AwaitedByPlatform ==
    ASSUME TypeOK, AwaitedByJob, AwaitedAlike,
           NEW q \in Requests, NEW r \in Requests, IsAwaited(q), IsAwaited(r), q.plat = r.plat
    PROVE  q = r
<1>1. q \in PlatformRequest /\ r \in PlatformRequest
  BY InRunningType DEF Requests, TypeOK
<1>2. q.proj = r.proj /\ q.rev = r.rev /\ q.by = r.by /\ q.package = r.package
  BY DEF AwaitedByJob, AwaitedAlike, IsAwaited, Requests
<1> QED
  BY <1>1, <1>2 DEF PlatformRequest

\* A launch hands its package property to all it launches.
LEMMA AwaitedAlikeNext == TypeInv /\ AwaitedByJob /\ AwaitedAlike /\ [Next]_vars => AwaitedAlike'
<1> SUFFICES ASSUME TypeOK, TypeInv, AwaitedByJob, AwaitedAlike, [Next]_vars,
                    NEW r \in Requests', IsAwaited(r)
             PROVE  r.package = job'.package
  BY DEF TypeInv, AwaitedAlike, IsAwaited
<1>1. CASE r \in Requests
  <2>1. step = "wait" /\ r.package = job.package
    BY <1>1 DEF AwaitedByJob, AwaitedAlike, Requests, IsAwaited
  <2>2. step' = "wait"
    BY AwaitedByJobNext DEF AwaitedByJob, Requests, IsAwaited
  <2>3. job' = job
    BY <2>1, <2>2 DEF Next, Scheduler, Commit, BranchScheduler, NightlyScheduler, ForceFetch,
       ForceClean, ForceBuild, FetcherStep, StartJob, BeginGit, BeginPatch, BeginWrite, EndGit,
       AskPatch, EndPatch, SourceFails, NoteStamp, TriggerBuilds, FinishJob, BuilderStep,
       FinishBuild, StartBuild, Retry, Crash, LoseFetcher, LoseBuilder, Idle, vars, fetcher
  <2> QED
    BY <2>1, <2>3
<1>2. CASE TriggerBuilds /\ r \in Launched
  BY <1>2 DEF TriggerBuilds, Launched
<1>3. ASSUME NEW q \in Requests, r = Orphaned(q)
      PROVE  FALSE
  <2>1. q \in PlatformRequest
    BY InRunningType DEF Requests, TypeOK
  <2> QED
    BY <1>3, <2>1, OrphanType DEF IsAwaited
<1>4. CASE r.by = "force"
  BY <1>4 DEF IsAwaited
<1> QED
  BY <1>1, <1>2, <1>3, <1>4, RequestsNext

\* What the fetcher does leaves alone what runs; what it launches is new.
LEMMA AwaitedOnceNext == TypeInv /\ AwaitedByJob /\ AwaitedOnce /\ [Next]_vars => AwaitedOnce'
<1> SUFFICES ASSUME TypeOK, AwaitedByJob, AwaitedOnce, [Next]_vars,
                    NEW v \in Builders, running'[v] # Free, IsAwaited(running'[v])
             PROVE  /\ running'[v] \notin pending'
                    /\ \A w \in Builders : running'[w] = running'[v] => w = v
  BY DEF TypeInv, AwaitedOnce, IsAwaited
<1>1. ASSUME UNCHANGED running,
             \A r \in pending' : r \in pending \/ ~IsAwaited(r)
      PROVE  /\ running'[v] \notin pending'
             /\ \A w \in Builders : running'[w] = running'[v] => w = v
  BY <1>1 DEF AwaitedOnce
<1>2. CASE \/ StartJob \/ BeginGit \/ EndGit \/ AskPatch \/ BeginPatch \/ EndPatch
           \/ SourceFails \/ NoteStamp \/ FinishJob \/ UNCHANGED vars
  <2>1. UNCHANGED <<pending, running>>
    BY <1>2 DEF StartJob, BeginGit, EndGit, AskPatch, BeginPatch, BeginWrite, EndPatch,
                SourceFails, NoteStamp, FinishJob, vars
  <2> QED
    BY <1>1, <2>1
<1>3. ASSUME NEW p \in Projects,
             \/ Commit(p) \/ BranchScheduler(p) \/ NightlyScheduler(p)
             \/ \E pkg \in BOOLEAN : ForceFetch(p, pkg)
             \/ ForceClean(p)
      PROVE  UNCHANGED <<pending, running>>
  BY <1>3 DEF Commit, BranchScheduler, NightlyScheduler, ForceFetch, ForceClean
<1>4. ASSUME NEW p \in Projects, NEW t \in Platforms, ForceBuild(p, t)
      PROVE  UNCHANGED running /\ \A r \in pending' : r \in pending \/ ~IsAwaited(r)
  BY <1>4 DEF ForceBuild, IsAwaited
<1>5. CASE TriggerBuilds
  <2>1. step # "wait" /\ UNCHANGED running
    BY <1>5 DEF TriggerBuilds
  <2>2. running[v] \in InRunning
    BY <2>1, InRunningType
  <2> QED
    BY <2>1, <2>2 DEF AwaitedByJob, IsAwaited
<1>6. ASSUME NEW u \in Builders, FinishBuild(u)
      PROVE  /\ running'[v] \notin pending'
             /\ \A w \in Builders : running'[w] = running'[v] => w = v
  BY <1>6 DEF FinishBuild, AwaitedOnce, TypeOK
<1>7. ASSUME NEW u \in Builders, NEW r \in pending, StartBuild(u, r)
      PROVE  /\ running'[v] \notin pending'
             /\ \A w \in Builders : running'[w] = running'[v] => w = v
  <2>1. running[u] = Free /\ running' = [running EXCEPT ![u] = r] /\ pending' = pending \ {r}
    BY <1>7 DEF StartBuild
  <2>2. CASE v = u
    <3>1. running'[v] = r /\ r # Free /\ IsAwaited(r)
      BY <2>1, <2>2 DEF TypeOK
    <3>2. \A w \in Builders : running[w] # r
      BY <3>1 DEF AwaitedOnce
    <3> QED
      BY <2>1, <2>2, <3>1, <3>2 DEF TypeOK
  <2>3. CASE v # u
    <3>1. running'[v] = running[v]
      BY <2>1, <2>3 DEF TypeOK
    <3>2. running[v] \notin pending /\ \A w \in Builders : running[w] = running[v] => w = v
      BY <3>1 DEF AwaitedOnce
    <3> QED
      BY <2>1, <3>1, <3>2 DEF TypeOK
  <2> QED
    BY <2>2, <2>3
<1>8. CASE Crash
  BY <1>8 DEF Crash
<1>9. CASE LoseFetcher
  <2>1. running'[v] \in InRunning'
    BY DEF InRunning
  <2> QED
    BY <1>9, <2>1, FetcherLost DEF IsAwaited
<1>10. ASSUME NEW u \in Builders, LoseBuilder(u)
       PROVE  /\ running'[v] \notin pending'
              /\ \A w \in Builders : running'[w] = running'[v] => w = v
  <2>1. /\ running[u] # Free /\ running' = [running EXCEPT ![u] = Free]
        /\ pending' = pending \cup {running[u]}
    BY <1>10 DEF LoseBuilder
  <2>2. v # u /\ running'[v] = running[v]
    BY <2>1 DEF TypeOK
  <2>3. running[v] \notin pending /\ \A w \in Builders : running[w] = running[v] => w = v
    BY <2>2 DEF AwaitedOnce
  <2> QED
    BY <2>1, <2>2, <2>3 DEF TypeOK
<1> QED
  BY <1>1, <1>2, <1>3, <1>4, <1>5, <1>6, <1>7, <1>8, <1>9, <1>10
  DEF Next, Scheduler, FetcherStep, BuilderStep, Retry

\* What is needed of every state, besides FarmInv.
AwaitedInv == AwaitedAlike /\ AwaitedOnce

\* It holds always, with the core invariant.
LEMMA AwaitedInvariant == Spec => []AwaitedInv
<1>1. Init => AwaitedInv
  BY DEF Init, AwaitedInv, AwaitedAlike, AwaitedOnce, Requests, InRunning
<1>2. FarmInv /\ AwaitedInv /\ [Next]_vars => AwaitedInv'
  BY AwaitedAlikeNext, AwaitedOnceNext DEF FarmInv, AwaitedInv
<1> QED
  BY <1>1, <1>2, FarmInvariant, PTL DEF Spec

\* Two workers are in the same build directory only if a user forced one of the
\* builds or one of them has lost its parent to a restart or a lost worker.
THEOREM DirectoriesAreOwn == Spec => []OnlyForcedBuildsShareADirectory
<1>1. FarmInv /\ AwaitedInv => OnlyForcedBuildsShareADirectory
  <2> SUFFICES ASSUME TypeOK, AwaitedByJob, AwaitedAlike, AwaitedOnce,
                      NEW v \in Builders, NEW w \in Builders, BuildDirectoryShared(v, w),
                      {running[v].by, running[w].by} \cap {"force", "orphan"} = {}
               PROVE  FALSE
    BY DEF FarmInv, TypeInv, AwaitedInv, OnlyForcedBuildsShareADirectory
  <2>1. running[v] \in InRunning /\ running[w] \in InRunning
    BY InRunningType DEF BuildDirectoryShared
  <2>2. running[v] \in PlatformRequest /\ running[w] \in PlatformRequest
    BY <2>1, InRunningType
  <2>3. IsAwaited(running[v]) /\ IsAwaited(running[w])
    BY <2>2 DEF PlatformRequest, IsAwaited
  <2>4. running[v] = running[w]
    BY <2>1, <2>3, AwaitedByPlatform DEF BuildDirectoryShared, Requests
  <2> QED
    BY <2>3, <2>4 DEF AwaitedOnce, BuildDirectoryShared
<1> QED
  BY <1>1, FarmInvariant, AwaitedInvariant, PTL

-----------------------------------------------------------------------------
(***************************************************************************)
(* BuildFarm implements FetchThenBuild.                                    *)
(***************************************************************************)

\* The state functions that stand for the variables of FetchThenBuild.
Reading == [p \in Projects |-> Readers(p)]
Owed(p) == {r.plat : r \in {q \in Awaited : q.proj = p}}
Todo == [p \in Projects |-> Owed(p)]

\* Nothing is owed unless the fetcher waits for it.
LEMMA OwedByWait ==
    ASSUME AwaitedByJob
    PROVE  step # "wait" => Awaited = {}
BY DEF AwaitedByJob, Awaited

\* At the start nobody reads and nothing is owed.
LEMMA PromiseInit == Init => Promise!Init
<1> SUFFICES ASSUME Init PROVE Promise!Init
  OBVIOUS
<1>1. tree \in [Projects -> Tree]
  BY TypeInit DEF TypeInv, TypeOK
<1>2. \A p \in Projects : Readers(p) = {}
  BY DEF Init, Readers
<1>3. Awaited = {}
  BY DEF Init, Awaited, InRunning
<1> QED
  BY <1>1, <1>2, <1>3 DEF Promise!Init

\* A step that leaves source, builders and what is owed alone is no step of
\* FetchThenBuild.
LEMMA PromiseStutters ==
    ASSUME UNCHANGED <<tree, running>>, UNCHANGED Awaited
    PROVE  UNCHANGED Promise!vars
<1>1. UNCHANGED Reading
  BY DEF Reading, Readers
<1>2. UNCHANGED Todo
  BY DEF Todo, Owed
<1> QED
  BY <1>1, <1>2 DEF Promise!vars, Reading, Todo, Owed

\* The source steps write: before they have lock_src nobody reads, while they
\* have it nobody starts to, and nothing is owed that early in the job.
LEMMA PromiseWrites ==
    ASSUME FarmInv, BeginGit \/ BeginPatch \/ EndGit \/ EndPatch
    PROVE  Promise!Write(job.proj)
<1>1. job \in FetcherRequest /\ job.proj \in Projects /\ job.rev \in Revs
  BY DEF BeginGit, BeginPatch, BeginWrite, EndGit, EndPatch, FarmInv, TypeInv, TypeOK,
         JobInStep, FetcherRequest
<1>2. Readers(job.proj) = {}
  BY <1>1 DEF BeginGit, BeginPatch, BeginWrite, EndGit, EndPatch, FarmInv, NoWriteWhileRead,
              Writing
<1>3. step # "wait" /\ UNCHANGED <<pending, running>>
  BY DEF BeginGit, BeginPatch, BeginWrite, EndGit, EndPatch
<1>4. Awaited = {} /\ UNCHANGED Awaited
  BY <1>3, OwedByWait DEF FarmInv, Awaited, InRunning
<1>5. \E c \in Tree : tree' = [tree EXCEPT ![job.proj] = c]
  <2>1. tree[job.proj] \in Tree /\ got \in Revs
    BY <1>1 DEF FarmInv, TypeInv, TypeOK
  <2>2. ASSUME NEW st \in {"writing", "raw", "ready"}, tree' = [tree EXCEPT ![job.proj].st = st]
        PROVE  \E c \in Tree : tree' = [tree EXCEPT ![job.proj] = c]
    <3>1. [tree[job.proj] EXCEPT !.st = st] \in Tree
      BY <2>1 DEF Tree
    <3> QED
      BY <2>2, <3>1
  <2>3. CASE BeginGit \/ BeginPatch \/ EndPatch
    BY <2>2, <2>3 DEF BeginGit, BeginPatch, BeginWrite, EndPatch
  <2>4. CASE EndGit
    <3>1. got' \in Revs
      BY <2>4, <1>1 DEF EndGit, FarmInv, TypeInv, TypeOK
    <3>2. [rev |-> got', st |-> IF job.proj \in Patched THEN "raw" ELSE "ready"] \in Tree
      BY <3>1 DEF Tree
    <3> QED
      BY <2>4, <3>2 DEF EndGit
  <2> QED
    BY <2>3, <2>4
<1>6. UNCHANGED Reading /\ Reading[job.proj] = {}
  BY <1>1, <1>2, <1>3 DEF Reading, Readers
<1>7. UNCHANGED Todo /\ Todo[job.proj] = {}
  BY <1>1, <1>4 DEF Todo, Owed
<1> QED
  BY <1>5, <1>6, <1>7 DEF Promise!Write, Reading, Todo, Owed

\* The trigger step launches: what it launches is all that is then owed.
LEMMA PromiseLaunches ==
    ASSUME FarmInv, TriggerBuilds, NEW p \in Projects, job.proj = p
    PROVE  Promise!Launch(p)
<1>1. job.job \in {"fetch", "daily"}
  BY DEF TriggerBuilds, FarmInv, TypeInv, JobInStep
<1>2. Awaited = {} /\ UNCHANGED <<tree, running>>
  BY OwedByWait DEF TriggerBuilds, FarmInv
<1>3. Awaited' = Launched
  <2>1. UNCHANGED InRunning /\ pending' = pending \cup Launched
    BY DEF TriggerBuilds, InRunning, Launched
  <2>2. \A r \in Launched : IsAwaited(r)
    BY <1>1 DEF Launched, IsAwaited
  <2> QED
    BY <1>2, <2>1, <2>2 DEF Awaited, IsAwaited
<1>4. ASSUME NEW r \in Launched
      PROVE  r.proj = p /\ r.plat \in Platforms
  <2>1. PICK t \in CompBuilders(p) :
          r = [proj |-> p, plat |-> t, rev |-> got, package |-> job.package, by |-> job.job]
    BY <1>4 DEF Launched
  <2> QED
    BY <2>1 DEF CompBuilders
<1>5. \A q \in Projects : q # p => Owed(q)' = Owed(q)
  BY <1>2, <1>3, <1>4 DEF Owed
<1>6. Owed(p)' \subseteq Platforms /\ Owed(p) = {}
  BY <1>2, <1>3, <1>4 DEF Owed
<1>7. Todo' = [Todo EXCEPT ![p] = Owed(p)'] /\ Todo[p] = {}
  BY <1>5, <1>6 DEF Todo
<1>8. UNCHANGED Reading
  BY <1>2 DEF Reading, Readers
<1> QED
  BY <1>2, <1>6, <1>7, <1>8 DEF Promise!Launch, Reading, Todo, Owed

\* A worker that starts a request reads, and what is owed is still owed.
LEMMA PromiseReads ==
    ASSUME TypeOK, NEW w \in Builders, NEW r \in pending, StartBuild(w, r)
    PROVE  Promise!Read(r.proj, w)
<1>1. /\ running[w] = Free /\ running' = [running EXCEPT ![w] = r]
      /\ pending' = pending \ {r} /\ UNCHANGED tree
  BY DEF StartBuild
<1>2. r # Free /\ r.proj \in Projects
  BY FreeIsNoRequest DEF TypeOK, PlatformRequest
<1>3. InRunning' = InRunning \cup {r}
  BY <1>1, <1>2 DEF InRunning, TypeOK
<1>4. UNCHANGED Todo
  BY <1>1, <1>3 DEF Todo, Owed, Awaited
<1>5. Reading' = [Reading EXCEPT ![r.proj] = @ \cup {w}]
  <2>1. \A p \in Projects : Readers(p)' = IF p = r.proj THEN Readers(p) \cup {w} ELSE Readers(p)
    BY <1>1, <1>2 DEF Readers, TypeOK
  <2> QED
    BY <1>2, <2>1 DEF Reading
<1>6. w \notin Reading[r.proj]
  BY <1>1, <1>2 DEF Reading, Readers
<1> QED
  BY <1>1, <1>4, <1>5, <1>6 DEF Promise!Read, Reading, Todo, Owed

\* A worker that is done has settled what its request owed, if that was awaited.
LEMMA PromiseIsKept ==
    ASSUME FarmInv, AwaitedInv, NEW w \in Builders, FinishBuild(w),
           NEW r \in PlatformRequest, running[w] = r
    PROVE  Promise!Done(r.proj, w)
<1>1. running' = [running EXCEPT ![w] = Free] /\ UNCHANGED <<tree, pending>>
  BY DEF FinishBuild
<1>2. r # Free /\ r.proj \in Projects /\ r.plat \in Platforms
  BY FreeIsNoRequest DEF PlatformRequest
<1>3. Reading' = [Reading EXCEPT ![r.proj] = @ \ {w}] /\ w \in Reading[r.proj]
  <2>1. \A p \in Projects : Readers(p)' = IF p = r.proj THEN Readers(p) \ {w} ELSE Readers(p)
    BY <1>1, <1>2 DEF Readers, FarmInv, TypeInv, TypeOK
  <2>2. w \in Readers(r.proj)
    BY <1>2 DEF Readers
  <2> QED
    BY <1>2, <2>1, <2>2 DEF Reading
<1>4. CASE ~IsAwaited(r)
  <2>1. \A q : IsAwaited(q) => (q \in InRunning' <=> q \in InRunning)
    BY <1>1, <1>4 DEF InRunning, FarmInv, TypeInv, TypeOK
  <2>2. UNCHANGED Awaited
    BY <1>1, <2>1 DEF Awaited, IsAwaited
  <2>3. UNCHANGED Todo
    BY <2>2 DEF Todo, Owed
  <2> QED
    BY <1>1, <1>2, <1>3, <2>3 DEF Promise!Done, Reading, Todo, Owed
<1>5. CASE IsAwaited(r)
  <2>1. r \in Awaited /\ r \notin pending /\ \A v \in Builders : running[v] = r => v = w
    BY <1>2, <1>5 DEF AwaitedInv, AwaitedOnce, Awaited, InRunning, IsAwaited
  <2>2. InRunning' = InRunning \ {r}
    BY <1>1, <1>2, <2>1 DEF InRunning, FarmInv, TypeInv, TypeOK
  <2>3. Awaited' = Awaited \ {r}
    BY <1>1, <2>1, <2>2 DEF Awaited
  <2>4. \A q \in Awaited : q.plat = r.plat => q = r
    BY <2>1, AwaitedByPlatform DEF Awaited, Requests, IsAwaited, FarmInv, TypeInv, AwaitedInv
  <2>5. \A p \in Projects : Owed(p)' = IF p = r.proj THEN Owed(p) \ {r.plat} ELSE Owed(p)
    BY <2>1, <2>3, <2>4 DEF Owed
  <2>6. Todo' = [Todo EXCEPT ![r.proj] = @ \ {r.plat}]
    BY <1>2, <2>5 DEF Todo
  <2> QED
    BY <1>1, <1>2, <1>3, <2>6 DEF Promise!Done, Reading, Todo, Owed
<1> QED
  BY <1>4, <1>5

\* A worker that is lost no longer reads, and what it owed is still owed.
LEMMA PromiseIsOwedOn ==
    ASSUME FarmInv, NEW w \in Builders, LoseBuilder(w),
           NEW r \in PlatformRequest, running[w] = r
    PROVE  Promise!Done(r.proj, w)
<1>1. /\ running' = [running EXCEPT ![w] = Free] /\ pending' = pending \cup {r}
      /\ UNCHANGED tree /\ r # Free
  BY DEF LoseBuilder
<1>2. r \in PlatformRequest /\ r.proj \in Projects /\ running \in [Builders -> PlatformRequest \cup {Free}]
  BY <1>1 DEF FarmInv, TypeInv, TypeOK, PlatformRequest
<1>3. pending' \cup InRunning' = pending \cup InRunning
  BY <1>1, <1>2 DEF InRunning
<1>4. UNCHANGED Todo
  BY <1>3 DEF Todo, Owed, Awaited
<1>5. Reading' = [Reading EXCEPT ![r.proj] = @ \ {w}] /\ w \in Reading[r.proj]
  <2>1. \A p \in Projects : Readers(p)' = IF p = r.proj THEN Readers(p) \ {w} ELSE Readers(p)
    BY <1>1, <1>2 DEF Readers
  <2>2. w \in Readers(r.proj)
    BY <1>1 DEF Readers
  <2> QED
    BY <1>2, <2>1, <2>2 DEF Reading
<1>6. \E t \in Platforms : UNCHANGED Todo
  BY <1>2, <1>4 DEF PlatformRequest
<1> QED
  BY <1>1, <1>2, <1>5, <1>6 DEF Promise!Done, Reading, Todo, Owed

\* When the fetcher is lost, what its project is owed is given up, and who reads
\* goes on.
LEMMA PromiseIsAbandoned ==
    ASSUME FarmInv, LoseFetcher, NEW p \in Projects, job.proj = p
    PROVE  Promise!Abandon(p)
<1>2. Awaited' = {}
  BY FetcherLost DEF FarmInv, TypeInv, Awaited
<1>3. \A q \in Projects : q # p => Owed(q) = {}
  BY DEF FarmInv, AwaitedByJob, Owed, Awaited
<1>4. Todo' = [Todo EXCEPT ![p] = {}]
  BY <1>2, <1>3 DEF Todo, Owed
<1>5. UNCHANGED Reading
  <2>1. \A q \in Projects : Readers(q)' = Readers(q)
    BY FetcherLost DEF FarmInv, TypeInv, Readers
  <2> QED
    BY <2>1 DEF Reading
<1> QED
  BY <1>4, <1>5 DEF LoseFetcher, Promise!Abandon, Reading, Todo, Owed

\* A restart of the master is one of the promise.
LEMMA PromiseRestarts ==
    ASSUME TypeOK, Crash
    PROVE  Promise!Restart
<1>1. \A p \in Projects : Readers(p)' = {}
  BY DEF Crash, Readers
<1>2. Awaited' = {}
  <2>1. InRunning' = {} /\ pending' = {Orphaned(r) : r \in Requests}
    BY DEF Crash, InRunning, Requests
  <2>2. \A r \in Requests : Orphaned(r).by \notin {"fetch", "daily"}
    BY InRunningType, OrphanType DEF Requests, TypeOK
  <2> QED
    BY <2>1, <2>2 DEF Awaited
<1>3. Reading' = [p \in Projects |-> {}] /\ Todo' = [p \in Projects |-> {}]
  BY <1>1, <1>2 DEF Reading, Todo, Owed
<1> QED
  BY <1>3 DEF Crash, Promise!Restart, Reading, Todo, Owed

\* Every step of the farm is one of the promise or leaves it alone.
LEMMA PromiseNext == FarmInv /\ AwaitedInv /\ [Next]_vars => [Promise!Next]_(Promise!vars)
<1> SUFFICES ASSUME FarmInv, AwaitedInv, [Next]_vars
             PROVE  Promise!Next \/ UNCHANGED Promise!vars
  OBVIOUS
<1>0. TypeOK /\ AwaitedByJob
  BY DEF FarmInv, TypeInv
<1>1. CASE StartJob \/ AskPatch \/ SourceFails \/ NoteStamp \/ FinishJob \/ UNCHANGED vars
  <2>1. UNCHANGED <<tree, pending, running>>
    BY <1>1 DEF StartJob, AskPatch, SourceFails, NoteStamp, FinishJob, vars
  <2>2. UNCHANGED Awaited
    BY <2>1 DEF Awaited, InRunning
  <2> QED
    BY <2>1, <2>2, PromiseStutters
<1>2. ASSUME NEW p \in Projects,
             \/ Commit(p) \/ BranchScheduler(p) \/ NightlyScheduler(p)
             \/ \E pkg \in BOOLEAN : ForceFetch(p, pkg)
             \/ ForceClean(p)
             \/ \E t \in Platforms : ForceBuild(p, t)
      PROVE  UNCHANGED Promise!vars
  <2>1. UNCHANGED <<tree, running>>
    BY <1>2 DEF Commit, BranchScheduler, NightlyScheduler, ForceFetch, ForceClean, ForceBuild
  <2>2. \A r : r.by \in {"fetch", "daily"} => (r \in pending' <=> r \in pending)
    <3>1. ASSUME NEW t \in Platforms, ForceBuild(p, t), NEW r, r.by \in {"fetch", "daily"}
          PROVE  r \in pending' <=> r \in pending
      <4> DEFINE f == [proj |-> p, plat |-> t, rev |-> NoRev, package |-> TRUE, by |-> "force"]
      <4>1. r # f
        BY <3>1
      <4> QED
        BY <3>1, <4>1 DEF ForceBuild
    <3>2. CASE UNCHANGED pending
      BY <3>2
    <3> QED
      BY <1>2, <3>1, <3>2 DEF Commit, BranchScheduler, NightlyScheduler, ForceFetch, ForceClean
  <2>3. UNCHANGED Awaited
    BY <2>1, <2>2 DEF Awaited, InRunning
  <2> QED
    BY <2>1, <2>3, PromiseStutters
<1>3. CASE BeginGit \/ BeginPatch \/ EndGit \/ EndPatch \/ TriggerBuilds
  <2>1. job.proj \in Projects
    BY <1>3 DEF BeginGit, BeginPatch, BeginWrite, EndGit, EndPatch, TriggerBuilds,
                FarmInv, TypeInv, TypeOK, JobInStep, FetcherRequest
  <2> QED
    BY <1>3, <2>1, PromiseWrites, PromiseLaunches DEF Promise!Next
<1>4. ASSUME NEW w \in Builders, NEW r \in pending, StartBuild(w, r)
      PROVE  Promise!Next
  <2>1. r.proj \in Projects
    BY <1>0 DEF TypeOK, PlatformRequest
  <2> QED
    BY <1>0, <1>4, <2>1, PromiseReads DEF Promise!Next
<1>5. ASSUME NEW w \in Builders, FinishBuild(w)
      PROVE  Promise!Next
  <2>1. PICK r \in PlatformRequest : running[w] = r
    BY <1>0, <1>5 DEF FinishBuild, TypeOK
  <2>2. r.proj \in Projects
    BY DEF PlatformRequest
  <2> QED
    BY <1>5, <2>1, <2>2, PromiseIsKept DEF Promise!Next
<1>6. CASE Crash
  BY <1>0, <1>6, PromiseRestarts DEF Promise!Next
<1>7. CASE LoseFetcher
  <2>1. job.proj \in Projects
    BY <1>7 DEF LoseFetcher, FarmInv, TypeInv, TypeOK, JobInStep, FetcherRequest
  <2> QED
    BY <1>7, <2>1, PromiseIsAbandoned DEF Promise!Next
<1>8. ASSUME NEW w \in Builders, LoseBuilder(w)
      PROVE  Promise!Next
  <2>1. PICK r \in PlatformRequest : running[w] = r
    BY <1>0, <1>8 DEF LoseBuilder, TypeOK
  <2>2. r.proj \in Projects
    BY DEF PlatformRequest
  <2> QED
    BY <1>8, <2>1, <2>2, PromiseIsOwedOn DEF Promise!Next
<1> QED
  BY <1>1, <1>2, <1>3, <1>4, <1>5, <1>6, <1>7, <1>8
  DEF Next, Scheduler, FetcherStep, BuilderStep, Retry

\* The farm keeps the promise of its locks, for any projects, platforms and
\* workers.
THEOREM FarmImplements == Spec => ImplementsFetchThenBuild
BY PromiseInit, PromiseNext, FarmInvariant, AwaitedInvariant, PTL
DEF Spec, ImplementsFetchThenBuild, Promise!Spec

\* So a platform build finds the same source from its first to its last step.
THEOREM SourceIsStable == Spec => Promise!StableWhileRead
<1>1. ASSUME TypeOK, [Promise!Next]_(Promise!vars), NEW p \in Projects, Reading[p] # {}
      PROVE  tree'[p] = tree[p]
  <2>1. ASSUME NEW q \in Projects, Promise!Write(q)
        PROVE  tree'[p] = tree[p]
    <3>1. q # p
      BY <1>1, <2>1 DEF Promise!Write, Reading
    <3>2. PICK c \in Tree : tree' = [tree EXCEPT ![q] = c]
      BY <2>1 DEF Promise!Write
    <3> QED
      BY <1>1, <3>1, <3>2 DEF TypeOK
  <2>2. ASSUME NEW q \in Projects, NEW w \in Builders, Promise!Read(q, w) \/ Promise!Done(q, w)
        PROVE  tree' = tree
    BY <2>2 DEF Promise!Read, Promise!Done
  <2>3. ASSUME NEW q \in Projects, Promise!Launch(q) \/ Promise!Abandon(q)
        PROVE  tree' = tree
    BY <2>3 DEF Promise!Launch, Promise!Abandon
  <2>4. CASE Promise!Restart \/ UNCHANGED Promise!vars
    BY <2>4 DEF Promise!Restart, Promise!vars
  <2> QED
    BY <1>1, <2>1, <2>2, <2>3, <2>4 DEF Promise!Next
<1>2. TypeOK /\ [Promise!Next]_(Promise!vars)
        => [\A p \in Projects : Reading[p] # {} => tree'[p] = tree[p]]_(Promise!vars)
  BY <1>1
<1>3. [][Promise!Next]_(Promise!vars) /\ []TypeOK
        => [][\A p \in Projects : Reading[p] # {} => tree'[p] = tree[p]]_(Promise!vars)
  BY <1>2, PTL
<1> QED
  BY <1>3, FarmImplements, TypeCorrect, PTL
  DEF ImplementsFetchThenBuild, Promise!Spec, Promise!StableWhileRead, Reading
=============================================================================
