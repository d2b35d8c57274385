---------------------------- MODULE BuildFarmProofs ----------------------------
(***************************************************************************)
(* Proofs about BuildFarm, for any projects, platforms, workers and bounds.*)
(***************************************************************************)
EXTENDS BuildFarm, SequenceTheorems, TLAPS

(***************************************************************************)
(* Collapsing keeps the fetcher's queue a sequence of requests.            *)
(***************************************************************************)

\* Dropping a redundant request leaves a sequence of requests.
LEMMA DropType ==
    ASSUME NEW q \in Seq(FetcherRequest), NEW r
    PROVE  Drop(q, r) \in Seq(FetcherRequest)
<1>1. CASE \E i \in 1..Len(q) : Collapses(q[i], r)
  <2> DEFINE i == CHOOSE i \in 1..Len(q) : Collapses(q[i], r)
  <2>1. i \in 1..Len(q)
    BY <1>1
  <2>2. Len(q) \in Nat
    BY LenProperties
  <2> HIDE DEF i
  <2>3. SubSeq(q, 1, i - 1) \in Seq(FetcherRequest)
    BY <2>1, <2>2, SubSeqProperties
  <2>4. SubSeq(q, i + 1, Len(q)) \in Seq(FetcherRequest)
    BY <2>1, <2>2, SubSeqProperties
  <2>5. SubSeq(q, 1, i - 1) \o SubSeq(q, i + 1, Len(q)) \in Seq(FetcherRequest)
    BY <2>3, <2>4, ConcatProperties
  <2> QED
    BY <1>1, <2>5 DEF Drop, i
<1>2. CASE ~ \E i \in 1..Len(q) : Collapses(q[i], r)
  BY <1>2 DEF Drop
<1> QED
  BY <1>1, <1>2

\* Submitting a request does too.
LEMMA EnqueueType ==
    ASSUME NEW q \in Seq(FetcherRequest), NEW r \in FetcherRequest
    PROVE  Enqueue(q, r) \in Seq(FetcherRequest)
<1>1. Drop(q, r) \in Seq(FetcherRequest)
  BY DropType
<1>2. Drop(Drop(q, r), r) \in Seq(FetcherRequest)
  BY <1>1, DropType
<1> QED
  BY <1>2, AppendProperties DEF Enqueue

\* A worker without a build is told apart from every build, and so is the
\* fetcher.
LEMMA FreeIsNoRequest == Free \notin PlatformRequest
<1>1. DOMAIN Free = {"proj"}
  BY DEF Free
<1>2. \A r \in PlatformRequest : "plat" \in DOMAIN r
  BY DEF PlatformRequest
<1> QED
  BY <1>1, <1>2

\* An idle fetcher is told from one with a job.
LEMMA NoJobIsNoRequest == NoJob \notin FetcherRequest
<1>1. DOMAIN NoJob = {"job"}
  BY DEF NoJob
<1>2. \A r \in FetcherRequest : "proj" \in DOMAIN r
  BY DEF FetcherRequest
<1> QED
  BY <1>1, <1>2

-----------------------------------------------------------------------------
(***************************************************************************)
(* Type correctness.                                                       *)
(***************************************************************************)

\* The step that the fetcher has reached is one of the job that it runs.
JobInStep ==
    /\ step = "idle" <=> job = NoJob
    /\ step \in {"git", "checkout", "unpatched", "patch", "patching", "note"} => job.job = "fetch"
    /\ step \in {"trigger", "wait"} => job.job \in {"fetch", "daily"}
    /\ step = "clean" => job.job = "clean"

TypeInv == TypeOK /\ JobInStep

\* The initial state has its type.
LEMMA TypeInit == Init => TypeInv
<1> SUFFICES ASSUME Init PROVE TypeInv
  OBVIOUS
<1>1. NoRev \in Revs /\ 1 \in Revs
  BY FarmAssumption DEF NoRev, Revs
<1>2. fetchq \in Seq(FetcherRequest)
  BY EmptySeq DEF Init
<1>3. spent \in [Events -> Nat]
  BY DEF Init
<1> QED
  BY <1>1, <1>2, <1>3, FarmAssumption
  DEF Init, TypeInv, TypeOK, JobInStep, Tree, Steps

\* No scheduler or button disturbs the types.
LEMMA TypeScheduler == TypeOK /\ Scheduler => TypeOK'
<1> SUFFICES ASSUME TypeOK, NEW p \in Projects,
                    \/ Commit(p) \/ BranchScheduler(p) \/ NightlyScheduler(p)
                    \/ \E pkg \in BOOLEAN : ForceFetch(p, pkg)
                    \/ ForceClean(p)
                    \/ \E t \in Platforms : ForceBuild(p, t)
             PROVE  TypeOK'
  BY DEF Scheduler
<1>0. /\ \A e \in Events : spent[e] + 1 \in Nat
      /\ spent \in [Events -> Nat]
  BY DEF TypeOK
<1>1. CASE Commit(p)
  BY <1>1, FarmAssumption DEF Commit, TypeOK, fetcher, Revs
<1>2. CASE BranchScheduler(p)
  <2>1. [job |-> "fetch", proj |-> p, rev |-> head[p], package |-> FALSE] \in FetcherRequest
    BY DEF TypeOK, FetcherRequest
  <2>2. fetchq' \in Seq(FetcherRequest)
    BY <1>2, <2>1, EnqueueType DEF BranchScheduler, TypeOK
  <2> QED
    BY <1>2, <2>2 DEF BranchScheduler, TypeOK, fetcher
<1>3. CASE NightlyScheduler(p)
  <2>1. /\ [job |-> "daily", proj |-> p, rev |-> noted[p], package |-> TRUE] \in FetcherRequest
        /\ [job |-> "clean", proj |-> p, rev |-> noted[p], package |-> FALSE] \in FetcherRequest
    BY DEF TypeOK, FetcherRequest
  <2>2. fetchq' \in Seq(FetcherRequest)
    BY <1>3, <2>1, EnqueueType DEF NightlyScheduler, TypeOK
  <2>3. noted' \in [Projects -> Revs]
    BY <1>3, FarmAssumption DEF NightlyScheduler, TypeOK, Revs, NoRev
  <2>4. spent' \in [Events -> Nat]
    BY <1>3, <1>0 DEF NightlyScheduler, Happens, Events
  <2> QED
    BY <1>3, <2>2, <2>3, <2>4 DEF NightlyScheduler, TypeOK, fetcher
<1>4. ASSUME NEW pkg \in BOOLEAN, ForceFetch(p, pkg)
      PROVE  TypeOK'
  <2>1. [job |-> "fetch", proj |-> p, rev |-> NoRev, package |-> pkg] \in FetcherRequest
    BY FarmAssumption DEF FetcherRequest, Revs, NoRev
  <2>2. fetchq' \in Seq(FetcherRequest)
    BY <1>4, <2>1, EnqueueType DEF ForceFetch, TypeOK
  <2>3. spent' \in [Events -> Nat]
    BY <1>4, <1>0 DEF ForceFetch, Happens, Events
  <2> QED
    BY <1>4, <2>2, <2>3 DEF ForceFetch, TypeOK, fetcher
<1>5. CASE ForceClean(p)
  <2>1. [job |-> "clean", proj |-> p, rev |-> NoRev, package |-> FALSE] \in FetcherRequest
    BY FarmAssumption DEF FetcherRequest, Revs, NoRev
  <2>2. fetchq' \in Seq(FetcherRequest)
    BY <1>5, <2>1, EnqueueType DEF ForceClean, TypeOK
  <2>3. spent' \in [Events -> Nat]
    BY <1>5, <1>0 DEF ForceClean, Happens, Events
  <2> QED
    BY <1>5, <2>2, <2>3 DEF ForceClean, TypeOK, fetcher
<1>6. ASSUME NEW t \in Platforms, ForceBuild(p, t)
      PROVE  TypeOK'
  <2>1. [proj |-> p, plat |-> t, rev |-> NoRev, package |-> TRUE, by |-> "force"] \in PlatformRequest
    BY FarmAssumption DEF PlatformRequest, Revs, NoRev
  <2>2. pending' \subseteq PlatformRequest
    BY <1>6, <2>1 DEF ForceBuild, TypeOK
  <2> QED
    BY <1>6, <2>2 DEF ForceBuild, TypeOK, fetcher
<1> QED
  BY <1>1, <1>2, <1>3, <1>4, <1>5, <1>6

\* Nor does a step of the fetcher.
LEMMA TypeFetcher == TypeInv /\ FetcherStep => TypeOK'
<1> SUFFICES ASSUME TypeOK, JobInStep, FetcherStep
             PROVE  TypeOK'
  BY DEF TypeInv
<1>0. NoRev \in Revs
  BY FarmAssumption DEF NoRev, Revs
<1>a. step # "idle" => job \in FetcherRequest
  BY DEF TypeOK, JobInStep
<1>b. job \in FetcherRequest =>
        /\ job.proj \in Projects /\ job.rev \in Revs /\ job.package \in BOOLEAN
        /\ job.job \in {"fetch", "daily", "clean"}
  BY DEF FetcherRequest
<1>1. CASE StartJob
  <2>1. job' \in FetcherRequest /\ fetchq' \in Seq(FetcherRequest)
    BY <1>1, HeadTailProperties DEF StartJob, TypeOK
  <2>2. step' \in Steps /\ got' \in Revs
    BY <1>1, <2>1 DEF StartJob, FirstStep, FetcherRequest, Steps
  <2> QED
    BY <1>1, <2>1, <2>2 DEF StartJob, TypeOK
<1>2. CASE BeginGit \/ BeginPatch
  <2>1. /\ tree' = [tree EXCEPT ![job.proj].st = "writing"]
        /\ step' \in {"checkout", "patching"}
        /\ UNCHANGED <<head, noticed, fetchq, job, got, noted, pending, running, spent>>
    BY <1>2 DEF BeginGit, BeginPatch, BeginWrite
  <2>2. tree' \in [Projects -> Tree]
    BY <2>1 DEF TypeOK, Tree
  <2>3. step' \in Steps
    BY <2>1 DEF Steps
  <2> QED
    BY <2>1, <2>2, <2>3 DEF TypeOK
<1>3. CASE EndGit
  <2>1. job.proj \in Projects /\ job.rev \in Revs
    BY <1>3, <1>a, <1>b DEF EndGit
  <2>2. got' \in Revs
    BY <1>3, <2>1 DEF EndGit, TypeOK
  <2>3. tree' \in [Projects -> Tree]
    BY <1>3, <2>1, <2>2 DEF EndGit, TypeOK, Tree
  <2>4. step' \in Steps
    BY <1>3 DEF EndGit, AfterSource, Steps
  <2> QED
    BY <1>3, <2>2, <2>3, <2>4 DEF EndGit, TypeOK
<1>4. CASE EndPatch
  BY <1>4 DEF EndPatch, TypeOK, Tree, Steps, AfterSource
<1>9. CASE AskPatch
  BY <1>9 DEF AskPatch, TypeOK, Steps
<1>5. CASE SourceFails
  <2>1. spent' \in [Events -> Nat]
    BY <1>5 DEF SourceFails, Happens, Events, TypeOK
  <2> QED
    BY <1>5, <1>0, <2>1 DEF SourceFails, Idle, TypeOK, Steps
<1>6. CASE NoteStamp
  BY <1>6 DEF NoteStamp, TypeOK, Steps
<1>7. CASE TriggerBuilds
  <2>1. /\ job.proj \in Projects /\ job.package \in BOOLEAN
        /\ job.job \in {"fetch", "daily"}
    BY <1>7, <1>a, <1>b DEF TriggerBuilds, JobInStep
  <2>2. \A t \in CompBuilders(job.proj) :
          [proj |-> job.proj, plat |-> t, rev |-> got, package |-> job.package, by |-> job.job]
            \in PlatformRequest
    BY <2>1 DEF CompBuilders, PlatformRequest, TypeOK
  <2>3. pending' \subseteq PlatformRequest
    BY <1>7, <2>2 DEF TriggerBuilds, TypeOK
  <2> QED
    BY <1>7, <2>3 DEF TriggerBuilds, TypeOK, Steps
<1>8. CASE FinishJob
  BY <1>8, <1>0 DEF FinishJob, Idle, TypeOK, Steps
<1> QED
  BY <1>1, <1>2, <1>3, <1>4, <1>5, <1>6, <1>7, <1>8, <1>9 DEF FetcherStep

\* What runs is a set of requests.
LEMMA InRunningType ==
    ASSUME TypeOK
    PROVE  /\ InRunning \subseteq PlatformRequest
           /\ \A w \in Builders : running[w] # Free => running[w] \in InRunning
BY DEF InRunning, TypeOK

\* Nor does a builder worker, nor a restart of the master.
LEMMA TypeBuilder == TypeOK /\ BuilderStep => TypeOK'
<1> SUFFICES ASSUME TypeOK, NEW w \in Builders,
                    FinishBuild(w) \/ \E r \in pending : StartBuild(w, r)
             PROVE  TypeOK'
  BY DEF BuilderStep
<1>1. CASE FinishBuild(w)
  BY <1>1 DEF FinishBuild, TypeOK, fetcher
<1>2. ASSUME NEW r \in pending, StartBuild(w, r)
      PROVE  TypeOK'
  BY <1>2 DEF StartBuild, TypeOK, fetcher
<1> QED
  BY <1>1, <1>2

\* The request that a cut short build of the fetcher puts back is one.
LEMMA BackInQueue ==
    ASSUME TypeOK, JobInStep, step # "idle"
    PROVE  job \in FetcherRequest /\ <<job>> \o fetchq \in Seq(FetcherRequest)
<1>1. job \in FetcherRequest
  BY DEF TypeOK, JobInStep
<1>2. <<job>> \in Seq(FetcherRequest) /\ fetchq \in Seq(FetcherRequest)
  BY <1>1 DEF TypeOK
<1> QED
  BY <1>1, <1>2, ConcatProperties

\* Orphans are requests for the same build.
LEMMA OrphanType ==
    ASSUME NEW r \in PlatformRequest
    PROVE  /\ Orphaned(r) \in PlatformRequest /\ Orphaned(r).by \in {"force", "orphan"}
           /\ Orphaned(r).proj = r.proj /\ Orphaned(r).plat = r.plat
           /\ Orphaned(r).rev = r.rev /\ Orphaned(r).package = r.package
BY DEF Orphaned, PlatformRequest

\* When the fetcher is lost, nobody is waited for any more, every worker goes on with
\* the build it had, and nothing else is requested than what was.
LEMMA FetcherLost ==
    ASSUME TypeOK, LoseFetcher
    PROVE  /\ pending' \subseteq PlatformRequest
           /\ running' \in [Builders -> PlatformRequest \cup {Free}]
           /\ \A w \in Builders :
                \/ running[w] = Free /\ running'[w] = Free
                \/ /\ running[w] # Free /\ running'[w] # Free
                   /\ running'[w].proj = running[w].proj /\ running'[w].plat = running[w].plat
           /\ \A r \in (pending \cup InRunning)' :
                /\ r.by \in {"force", "orphan"}
                /\ r \in pending \cup InRunning
                   \/ \E q \in pending \cup InRunning : r = Orphaned(q)
<1>1. PICK cancelled \in SUBSET (pending \cap Awaited) :
        pending' = {IF r \in Awaited THEN Orphaned(r) ELSE r : r \in pending \ cancelled}
  BY DEF LoseFetcher
<1>2. running' = [w \in Builders |->
                    IF running[w] \in Awaited THEN Orphaned(running[w]) ELSE running[w]]
  BY DEF LoseFetcher
<1>3. /\ pending \cup InRunning \subseteq PlatformRequest
      /\ \A r \in pending \cup InRunning : r.by \in {"force", "orphan"} \/ r \in Awaited
  BY InRunningType DEF TypeOK, Awaited, PlatformRequest
<1>4. ASSUME NEW r \in pending'
      PROVE  /\ r \in PlatformRequest /\ r.by \in {"force", "orphan"}
             /\ r \in pending \/ \E q \in pending : r = Orphaned(q)
  <2>1. PICK q \in pending \ cancelled : r = IF q \in Awaited THEN Orphaned(q) ELSE q
    BY <1>1, <1>4
  <2> QED
    BY <2>1, <1>3, OrphanType
<1>5. ASSUME NEW w \in Builders, running[w] # Free
      PROVE  /\ running'[w] \in PlatformRequest /\ running'[w].by \in {"force", "orphan"}
             /\ running'[w].proj = running[w].proj /\ running'[w].plat = running[w].plat
             /\ running'[w] \in InRunning \/ \E q \in InRunning : running'[w] = Orphaned(q)
  <2>1. running[w] \in InRunning /\ running[w] \in PlatformRequest
    BY <1>3, <1>5, InRunningType
  <2>2. running'[w] = IF running[w] \in Awaited THEN Orphaned(running[w]) ELSE running[w]
    BY <1>2
  <2> QED
    BY <2>1, <2>2, <1>3, OrphanType
<1>6. ASSUME NEW w \in Builders, running[w] = Free
      PROVE  running'[w] = Free
  <2>1. Free \notin Awaited
    BY <1>3, FreeIsNoRequest DEF Awaited
  <2> QED
    BY <1>2, <1>6, <2>1
<1>7. \A r \in InRunning' : \E w \in Builders : r = running'[w] /\ running'[w] # Free
  BY DEF InRunning
<1>8. running' \in [Builders -> PlatformRequest \cup {Free}]
  BY <1>2, <1>5, <1>6
<1>9. \A r \in InRunning' :
        /\ r.by \in {"force", "orphan"}
        /\ r \in InRunning \/ \E q \in InRunning : r = Orphaned(q)
  BY <1>5, <1>6, <1>7
<1>10. \A w \in Builders :
         \/ running[w] = Free /\ running'[w] = Free
         \/ /\ running[w] # Free /\ running'[w] # Free
            /\ running'[w].proj = running[w].proj /\ running'[w].plat = running[w].plat
  BY <1>5, <1>6, FreeIsNoRequest
<1> QED
  BY <1>4, <1>8, <1>9, <1>10

\* A restart and lost workers keep the types: what they put back in the queues are
\* requests again.
LEMMA TypeRetry == TypeInv /\ Retry => TypeOK'
<1> SUFFICES ASSUME TypeOK, JobInStep, Retry
             PROVE  TypeOK'
  BY DEF TypeInv
<1>1. NoRev \in Revs
  BY FarmAssumption DEF NoRev, Revs
<1>2. CASE Crash
  <2>1. fetchq' \in Seq(FetcherRequest)
    BY <1>2, BackInQueue DEF Crash, TypeOK
  <2>2. pending' \subseteq PlatformRequest
    <3>1. pending \cup InRunning \subseteq PlatformRequest
      BY InRunningType DEF TypeOK
    <3> QED
      BY <1>2, <3>1, OrphanType DEF Crash
  <2>3. spent' \in [Events -> Nat]
    BY <1>2 DEF Crash, Happens, Events, TypeOK
  <2> QED
    BY <1>1, <1>2, <2>1, <2>2, <2>3 DEF Crash, Idle, TypeOK, Steps
<1>3. CASE LoseFetcher
  <2>1. fetchq' \in Seq(FetcherRequest)
    BY <1>3, BackInQueue DEF LoseFetcher
  <2>2. /\ pending' \subseteq PlatformRequest
        /\ running' \in [Builders -> PlatformRequest \cup {Free}]
    BY <1>3, FetcherLost
  <2>3. spent' \in [Events -> Nat]
    BY <1>3 DEF LoseFetcher, Happens, Events, TypeOK
  <2> QED
    BY <1>1, <1>3, <2>1, <2>2, <2>3 DEF LoseFetcher, Idle, TypeOK, Steps
<1>4. ASSUME NEW w \in Builders, LoseBuilder(w)
      PROVE  TypeOK'
  <2>1. spent' \in [Events -> Nat]
    BY <1>4 DEF LoseBuilder, Happens, Events, TypeOK
  <2>2. pending' \subseteq PlatformRequest
    BY <1>4 DEF LoseBuilder, TypeOK
  <2> QED
    BY <1>4, <2>1, <2>2 DEF LoseBuilder, TypeOK, fetcher
<1> QED
  BY <1>2, <1>3, <1>4 DEF Retry

\* What the fetcher takes from its queue is a job with a first step.
LEMMA StartJobStep ==
    ASSUME TypeOK, StartJob
    PROVE  /\ job' \in FetcherRequest /\ job' # NoJob
           /\ \/ job'.job = "fetch" /\ step' = "git"
              \/ job'.job = "daily" /\ step' = "trigger"
              \/ job'.job = "clean" /\ step' = "clean"
<1>1. job' \in FetcherRequest
  BY HeadTailProperties DEF StartJob, TypeOK
<1>2. job' # NoJob /\ job'.job \in {"fetch", "daily", "clean"}
  BY <1>1, NoJobIsNoRequest DEF FetcherRequest
<1>3. step' = FirstStep(job'.job)
  BY DEF StartJob
<1> QED
  BY <1>1, <1>2, <1>3 DEF FirstStep

\* The fetcher's step stays one of its job's.
LEMMA JobInStepNext == TypeInv /\ [Next]_vars => JobInStep'
<1> SUFFICES ASSUME TypeOK, JobInStep, [Next]_vars
             PROVE  JobInStep'
  BY DEF TypeInv
<1>1. CASE StartJob
  BY <1>1, StartJobStep DEF JobInStep
<1>2. CASE \/ BeginGit \/ BeginPatch \/ EndGit \/ AskPatch \/ EndPatch
           \/ NoteStamp \/ TriggerBuilds
  BY <1>2 DEF BeginGit, BeginPatch, BeginWrite, EndGit, AskPatch, EndPatch, AfterSource,
              NoteStamp, TriggerBuilds, JobInStep
<1>3. CASE SourceFails \/ FinishJob \/ Crash \/ LoseFetcher
  BY <1>3 DEF SourceFails, FinishJob, Crash, LoseFetcher, Idle, JobInStep
<1>4. CASE Scheduler \/ BuilderStep \/ (\E w \in Builders : LoseBuilder(w)) \/ UNCHANGED vars
  <2>1. UNCHANGED <<job, step>>
    BY <1>4 DEF Scheduler, Commit, BranchScheduler, NightlyScheduler, ForceFetch, ForceClean,
                ForceBuild, BuilderStep, FinishBuild, StartBuild, LoseBuilder, vars, fetcher
  <2> QED
    BY <2>1 DEF JobInStep
<1> QED
  BY <1>1, <1>2, <1>3, <1>4 DEF Next, FetcherStep, Retry

\* The type invariant, with JobInStep that makes it inductive.
LEMMA TypeInvNext == TypeInv /\ [Next]_vars => TypeInv'
<1> SUFFICES ASSUME TypeInv, [Next]_vars
             PROVE  TypeOK'
  BY JobInStepNext DEF TypeInv
<1>1. CASE UNCHANGED vars
  BY <1>1 DEF TypeInv, TypeOK, vars, fetcher
<1> QED
  BY <1>1, TypeScheduler, TypeFetcher, TypeBuilder, TypeRetry DEF Next, TypeInv

\* Types, and that a job goes with its steps, hold always.
LEMMA TypeInvariant == Spec => []TypeInv
BY TypeInit, TypeInvNext, PTL DEF Spec

\* Every state of the farm has its type.
THEOREM TypeCorrect == Spec => []TypeOK
BY TypeInvariant, PTL DEF TypeInv

-----------------------------------------------------------------------------
(***************************************************************************)
(* The two locks: lock_src keeps a tree from being written while it is     *)
(* read, lock_build of the fetcher keeps it as it was fetched until the    *)
(* builds of the fetch are over.                                           *)
(***************************************************************************)

\* A build that is awaited belongs to the fetcher's job, which is waiting.
AwaitedByJob ==
    \A r \in pending \cup InRunning :
        r.by \in {"fetch", "daily"} =>
            step = "wait" /\ r.proj = job.proj /\ r.by = job.job /\ r.rev = got

\* Once a fetch has its source, the directory holds what it got; while a source
\* step works on it, it is marked as being written.
SourceAtHand ==
    /\ step \in {"unpatched", "patch", "patching"} => tree[job.proj].rev = got
    /\ step \in {"checkout", "patching"} => tree[job.proj].st = "writing"
    /\ step \in {"note", "trigger", "wait"} /\ job.job = "fetch" =>
         tree[job.proj] = [rev |-> got, st |-> "ready"]

FarmInv == TypeInv /\ NoWriteWhileRead /\ AwaitedByJob /\ SourceAtHand

\* It holds at the start: nothing runs.
LEMMA FarmInvInit == Init => FarmInv
<1> SUFFICES ASSUME Init PROVE FarmInv
  OBVIOUS
<1>1. pending = {} /\ InRunning = {} /\ step = "idle"
  BY DEF Init, InRunning
<1> QED
  BY <1>1, TypeInit DEF FarmInv, NoWriteWhileRead, Writing, AwaitedByJob, SourceAtHand

\* A writer starts only without readers, and a reader only without a writer.
LEMMA NoWriteWhileReadNext == TypeInv /\ NoWriteWhileRead /\ [Next]_vars => NoWriteWhileRead'
<1> SUFFICES ASSUME TypeOK, NoWriteWhileRead, [Next]_vars,
                    NEW p \in Projects, Writing(p)'
             PROVE  Readers(p)' = {}
  BY DEF TypeInv, NoWriteWhileRead
<1>1. CASE BeginGit \/ BeginPatch
  BY <1>1 DEF BeginGit, BeginPatch, BeginWrite, Writing, Readers
<1>0. CASE StartJob
  BY <1>0, StartJobStep DEF Writing
<1>2. CASE \/ EndGit \/ AskPatch \/ EndPatch \/ SourceFails \/ NoteStamp \/ TriggerBuilds
           \/ FinishJob \/ Crash \/ LoseFetcher
  BY <1>2 DEF EndGit, AskPatch, EndPatch, SourceFails, NoteStamp, TriggerBuilds, FinishJob,
              Crash, LoseFetcher, Idle, AfterSource, Writing
<1>3. CASE Scheduler \/ UNCHANGED vars
  <2>1. UNCHANGED <<job, step, running>>
    BY <1>3 DEF Scheduler, Commit, BranchScheduler, NightlyScheduler, ForceFetch, ForceClean,
                ForceBuild, vars, fetcher
  <2> QED
    BY <2>1 DEF Writing, Readers, NoWriteWhileRead
<1>4. ASSUME NEW w \in Builders, FinishBuild(w) \/ LoseBuilder(w)
      PROVE  Readers(p)' = {}
  <2>1. UNCHANGED <<job, step>> /\ Readers(p) = {}
    BY <1>4 DEF FinishBuild, LoseBuilder, fetcher, Writing, NoWriteWhileRead
  <2> QED
    BY <1>4, <2>1 DEF FinishBuild, LoseBuilder, Readers, TypeOK
<1>5. ASSUME NEW w \in Builders, NEW r \in pending, StartBuild(w, r)
      PROVE  Readers(p)' = {}
  <2>1. UNCHANGED <<job, step>> /\ Readers(p) = {} /\ Writing(p)
    BY <1>5 DEF StartBuild, fetcher, Writing, NoWriteWhileRead
  <2>2. r.proj # p
    BY <1>5, <2>1 DEF StartBuild, SrcAvailable
  <2>3. running' = [running EXCEPT ![w] = r]
    BY <1>5 DEF StartBuild
  <2> QED
    BY <2>1, <2>2, <2>3 DEF Readers, TypeOK
<1> QED
  BY <1>0, <1>1, <1>2, <1>3, <1>4, <1>5 DEF Next, FetcherStep, BuilderStep, Retry

\* Awaited builds start with the wait of their job and end before it does.
LEMMA AwaitedByJobNext == TypeInv /\ AwaitedByJob /\ [Next]_vars => AwaitedByJob'
<1> SUFFICES ASSUME TypeOK, JobInStep, AwaitedByJob, [Next]_vars,
                    NEW r \in (pending \cup InRunning)', r.by \in {"fetch", "daily"}
             PROVE  (step = "wait" /\ r.proj = job.proj /\ r.by = job.job /\ r.rev = got)'
  BY DEF TypeInv, AwaitedByJob
<1>0. UNCHANGED running => UNCHANGED InRunning
  BY DEF InRunning
<1>1. CASE \/ StartJob \/ BeginGit \/ EndGit \/ AskPatch \/ BeginPatch \/ EndPatch
           \/ SourceFails \/ NoteStamp
  <2>1. UNCHANGED <<pending, running>> /\ step # "wait"
    BY <1>1 DEF StartJob, BeginGit, EndGit, AskPatch, BeginPatch, BeginWrite, EndPatch,
                SourceFails, NoteStamp
  <2> QED
    BY <2>1, <1>0 DEF AwaitedByJob
<1>2. CASE TriggerBuilds
  <2>1. step = "trigger" /\ step' = "wait" /\ UNCHANGED <<running, job, got>>
    BY <1>2 DEF TriggerBuilds
  <2>2. r \notin pending \cup InRunning
    BY <2>1 DEF AwaitedByJob
  <2>3. r \in {[proj |-> job.proj, plat |-> t, rev |-> got, package |-> job.package, by |-> job.job]
                  : t \in CompBuilders(job.proj)}
    BY <1>2, <2>1, <2>2, <1>0 DEF TriggerBuilds
  <2> QED
    BY <2>1, <2>3
<1>3. CASE FinishJob
  <2>1. UNCHANGED <<pending, running>> /\ (step = "wait" => Awaited = {})
    BY <1>3 DEF FinishJob
  <2> QED
    BY <2>1, <1>0 DEF AwaitedByJob, Awaited
<1>4. CASE Scheduler \/ UNCHANGED vars
  <2>1. UNCHANGED <<job, step, got, running>>
    BY <1>4 DEF Scheduler, Commit, BranchScheduler, NightlyScheduler, ForceFetch, ForceClean,
                ForceBuild, vars, fetcher
  <2>2. r \in pending \cup InRunning
    <3>1. ASSUME NEW p \in Projects, NEW t \in Platforms, ForceBuild(p, t)
          PROVE  r \in pending \cup InRunning
      <4>1. [proj |-> p, plat |-> t, rev |-> NoRev, package |-> TRUE, by |-> "force"].by = "force"
        OBVIOUS
      <4> QED
        BY <3>1, <4>1, <2>1, <1>0 DEF ForceBuild
    <3>2. CASE UNCHANGED pending
      BY <3>2, <2>1, <1>0
    <3> QED
      BY <1>4, <3>1, <3>2 DEF Scheduler, Commit, BranchScheduler, NightlyScheduler, ForceFetch,
                              ForceClean, vars
  <2> QED
    BY <2>1, <2>2 DEF AwaitedByJob
<1>5. ASSUME NEW w \in Builders, FinishBuild(w) \/ LoseBuilder(w)
      PROVE  (step = "wait" /\ r.proj = job.proj /\ r.by = job.job /\ r.rev = got)'
  <2>1. /\ UNCHANGED <<job, step, got>> /\ running' = [running EXCEPT ![w] = Free]
        /\ pending' \subseteq pending \cup InRunning
    BY <1>5, InRunningType DEF FinishBuild, LoseBuilder, fetcher
  <2>2. r \in pending \cup InRunning
    BY <2>1 DEF InRunning, TypeOK
  <2> QED
    BY <2>1, <2>2 DEF AwaitedByJob
<1>6. ASSUME NEW w \in Builders, NEW q \in pending, StartBuild(w, q)
      PROVE  (step = "wait" /\ r.proj = job.proj /\ r.by = job.job /\ r.rev = got)'
  <2>1. /\ UNCHANGED <<job, step, got>>
        /\ pending' = pending \ {q} /\ running' = [running EXCEPT ![w] = q]
    BY <1>6 DEF StartBuild, fetcher
  <2>2. r \in pending \cup InRunning
    BY <2>1 DEF InRunning, TypeOK
  <2> QED
    BY <2>1, <2>2 DEF AwaitedByJob
<1>7. CASE Crash
  <2>1. InRunning' = {} /\ pending' = {Orphaned(q) : q \in pending \cup InRunning}
    BY <1>7 DEF Crash, InRunning
  <2>2. pending \cup InRunning \subseteq PlatformRequest
    BY InRunningType DEF TypeOK
  <2> QED
    BY <2>1, <2>2, OrphanType
<1>8. CASE LoseFetcher
  BY <1>8, FetcherLost
<1> QED
  BY <1>1, <1>2, <1>3, <1>4, <1>5, <1>6, <1>7, <1>8 DEF Next, FetcherStep, BuilderStep, Retry

\* Only the fetcher writes, and not between its git step and the end of its job.
LEMMA SourceAtHandNext == TypeInv /\ SourceAtHand /\ [Next]_vars => SourceAtHand'
<1> SUFFICES ASSUME TypeOK, JobInStep, SourceAtHand, [Next]_vars
             PROVE  SourceAtHand'
  BY DEF TypeInv
<1>0. step # "idle" => job \in FetcherRequest /\ job.proj \in Projects
  BY DEF TypeOK, JobInStep, FetcherRequest
<1>1. CASE StartJob
  BY <1>1, StartJobStep DEF SourceAtHand
<1>2. CASE BeginGit
  BY <1>2, <1>0 DEF BeginGit, BeginWrite, SourceAtHand, TypeOK, Tree
<1>3. CASE BeginPatch
  BY <1>3, <1>0 DEF BeginPatch, BeginWrite, SourceAtHand, TypeOK, Tree
<1>4. CASE EndGit
  BY <1>4, <1>0 DEF EndGit, AfterSource, SourceAtHand, TypeOK
<1>5. CASE EndPatch
  BY <1>5, <1>0 DEF EndPatch, AfterSource, SourceAtHand, TypeOK, Tree
<1>6. CASE AskPatch \/ NoteStamp \/ TriggerBuilds
  BY <1>6 DEF AskPatch, NoteStamp, TriggerBuilds, SourceAtHand
<1>7. CASE SourceFails \/ FinishJob \/ Crash \/ LoseFetcher
  BY <1>7 DEF SourceFails, FinishJob, Crash, LoseFetcher, Idle, SourceAtHand
<1>8. CASE Scheduler \/ BuilderStep \/ (\E w \in Builders : LoseBuilder(w)) \/ UNCHANGED vars
  <2>1. UNCHANGED <<job, step, got, tree>>
    BY <1>8 DEF Scheduler, Commit, BranchScheduler, NightlyScheduler, ForceFetch, ForceClean,
                ForceBuild, BuilderStep, FinishBuild, StartBuild, LoseBuilder, vars, fetcher
  <2> QED
    BY <2>1 DEF SourceAtHand
<1> QED
  BY <1>1, <1>2, <1>3, <1>4, <1>5, <1>6, <1>7, <1>8 DEF Next, FetcherStep, Retry

\* The invariant of the farm, with what makes it inductive.
LEMMA FarmInvariant == Spec => []FarmInv
<1>1. FarmInv /\ [Next]_vars => FarmInv'
  <2> SUFFICES ASSUME FarmInv, [Next]_vars, TypeInv'
               PROVE  FarmInv'
    <3>1. TypeInv /\ [Next]_vars => TypeInv'
      BY TypeInvNext
    <3> QED
      BY <3>1 DEF FarmInv
  <2> QED
    BY NoWriteWhileReadNext, AwaitedByJobNext, SourceAtHandNext DEF FarmInv
<1> QED
  BY <1>1, FarmInvInit, PTL DEF Spec

\* lock_src does what its comment says: no source tree is ever written while a
\* platform build reads it.
THEOREM SourceLock == Spec => []NoWriteWhileRead
BY FarmInvariant, PTL DEF FarmInv

\* Whatever is forced, and with whatever orphans of earlier fetches about, a build
\* that a fetch waits for is made of the revision it is labelled with.
THEOREM FetchedIsBuilt == Spec => []FetchedRevisionIsBuilt
<1>1. FarmInv => FetchedRevisionIsBuilt
  BY DEF FarmInv, AwaitedByJob, SourceAtHand, FetchedRevisionIsBuilt, Fits
<1> QED
  BY <1>1, FarmInvariant, PTL

-----------------------------------------------------------------------------
(***************************************************************************)
(* Who is being built: the clean builder meets no upload, the builds that  *)
(* are awaited are all different, and Android platforms take turns.        *)
(***************************************************************************)

Requests == pending \cup InRunning
Launched ==
    {[proj |-> job.proj, plat |-> t, rev |-> got, package |-> job.package, by |-> job.job]
        : t \in CompBuilders(job.proj)}

\* Where the requests of a state come from: they were there, were forced, are
\* launched by the fetcher's job, or were cut off from their parent.
LEMMA RequestsNext ==
    ASSUME TypeOK, [Next]_vars, NEW r \in Requests'
    PROVE  \/ r \in Requests
           \/ r.by = "force" /\ r.rev = NoRev
           \/ TriggerBuilds /\ r \in Launched
           \/ Retry /\ \E q \in Requests : r = Orphaned(q)
<1> DEFINE Goal == \/ r \in Requests
                   \/ r.by = "force" /\ r.rev = NoRev
                   \/ TriggerBuilds /\ r \in Launched
                   \/ Retry /\ \E q \in Requests : r = Orphaned(q)
<1>0. UNCHANGED running => UNCHANGED InRunning
  BY DEF InRunning
<1>1. CASE UNCHANGED <<pending, running>>
  BY <1>0, <1>1 DEF Requests
<1>2. ASSUME NEW p \in Projects, NEW t \in Platforms, ForceBuild(p, t)
      PROVE  Goal
  <2> DEFINE f == [proj |-> p, plat |-> t, rev |-> NoRev, package |-> TRUE, by |-> "force"]
  <2>1. f.by = "force" /\ f.rev = NoRev
    OBVIOUS
  <2>2. pending' = pending \cup {f} /\ UNCHANGED InRunning
    BY <1>2, <1>0 DEF ForceBuild
  <2> QED
    BY <2>1, <2>2 DEF Requests
<1>3. CASE TriggerBuilds
  BY <1>3, <1>0 DEF TriggerBuilds, Requests, Launched
<1>4. ASSUME NEW w \in Builders, FinishBuild(w) \/ LoseBuilder(w)
      PROVE  Goal
  <2>1. pending' \subseteq Requests /\ running' = [running EXCEPT ![w] = Free]
    BY <1>4, InRunningType DEF FinishBuild, LoseBuilder, Requests
  <2> QED
    BY <2>1 DEF Requests, InRunning, TypeOK
<1>5. ASSUME NEW w \in Builders, NEW q \in pending, StartBuild(w, q)
      PROVE  Goal
  <2>1. pending' = pending \ {q} /\ running' = [running EXCEPT ![w] = q]
    BY <1>5 DEF StartBuild
  <2> QED
    BY <2>1 DEF Requests, InRunning, TypeOK
<1>6. CASE Crash
  <2>1. InRunning' = {} /\ pending' = {Orphaned(q) : q \in pending \cup InRunning}
    BY <1>6 DEF Crash, InRunning
  <2> QED
    BY <1>6, <2>1 DEF Requests, Retry
<1>9. CASE LoseFetcher
  BY <1>9, FetcherLost DEF Requests, Retry
<1>7. CASE \/ StartJob \/ BeginGit \/ EndGit \/ AskPatch \/ BeginPatch \/ EndPatch
           \/ SourceFails \/ NoteStamp \/ FinishJob \/ UNCHANGED vars
  <2>1. UNCHANGED <<pending, running>>
    BY <1>7 DEF StartJob, BeginGit, EndGit, AskPatch, BeginPatch, BeginWrite, EndPatch,
                SourceFails, NoteStamp, FinishJob, vars
  <2> QED
    BY <1>1, <2>1
<1>8. ASSUME NEW p \in Projects,
             \/ Commit(p) \/ BranchScheduler(p) \/ NightlyScheduler(p)
             \/ \E pkg \in BOOLEAN : ForceFetch(p, pkg)
             \/ ForceClean(p)
      PROVE  Goal
  <2>1. UNCHANGED <<pending, running>>
    BY <1>8 DEF Commit, BranchScheduler, NightlyScheduler, ForceFetch, ForceClean
  <2> QED
    BY <1>1, <2>1
<1> QED
  BY <1>2, <1>3, <1>4, <1>5, <1>6, <1>7, <1>8, <1>9
  DEF Next, Scheduler, FetcherStep, BuilderStep, Retry

\* A label that was right stays right, across crashes and lost workers, but for the
\* requests that these leave without a parent and that have not started.
THEOREM LabelsStayRight == Spec => LabelsHold
<1> DEFINE Step == \A r \in Requests' : r.by # "force" /\ ~Fits(r)' =>
             \/ \E q \in Requests : r \in {q, Orphaned(q)} /\ ~Fits(q)
             \/ r.by = "daily" /\ step = "trigger"
             \/ r.by = "orphan" /\ r \notin InRunning' /\ Writing(r.proj)'
<1>1. ASSUME FarmInv, Next
      PROVE  Step
  <2> SUFFICES ASSUME NEW r \in Requests', r.by # "force", ~Fits(r)',
                      \A q \in Requests : r \in {q, Orphaned(q)} => Fits(q),
                      ~(r.by = "daily" /\ step = "trigger")
               PROVE  r.by = "orphan" /\ r \notin InRunning' /\ Writing(r.proj)'
    OBVIOUS
  <2>0. TypeOK /\ [Next]_vars /\ Requests \subseteq PlatformRequest
    BY <1>1, InRunningType DEF FarmInv, TypeInv, TypeOK, Requests
  <2>1. CASE TriggerBuilds /\ r \in Launched
    <3>1. /\ r.proj = job.proj /\ r.rev = got /\ r.by = job.job /\ step = "trigger"
          /\ UNCHANGED tree /\ job.job \in {"fetch", "daily"}
      BY <1>1, <2>1 DEF TriggerBuilds, Launched, FarmInv, TypeInv, JobInStep
    <3>2. tree[job.proj] = [rev |-> got, st |-> "ready"]
      BY <1>1, <3>1 DEF FarmInv, SourceAtHand
    <3> QED
      BY <3>1, <3>2 DEF Fits
  <2>2. ASSUME Retry, NEW q \in Requests, r = Orphaned(q)
        PROVE  FALSE
    <3>1. UNCHANGED tree /\ Fits(q)
      BY <2>2 DEF Retry, Crash, LoseFetcher, LoseBuilder
    <3>2. r.proj = q.proj /\ r.rev = q.rev
      BY <2>0, <2>2, OrphanType
    <3> QED
      BY <3>1, <3>2 DEF Fits
  <2>3. CASE r \in Requests
    <3>1. Fits(r)
      BY <2>3
    <3>2. r.by \in {"fetch", "daily", "orphan"} /\ r.proj \in Projects
      BY <2>0, <2>3 DEF PlatformRequest
    <3>3. tree'[r.proj] # tree[r.proj]
      BY <3>1 DEF Fits
    <3>4. BeginGit \/ BeginPatch \/ EndGit \/ EndPatch
      BY <1>1, <3>3 DEF Next, Scheduler, Commit, BranchScheduler, NightlyScheduler, ForceFetch,
         ForceClean, ForceBuild, FetcherStep, StartJob, AskPatch, SourceFails, NoteStamp,
         TriggerBuilds, FinishJob, BuilderStep, FinishBuild, StartBuild, Retry, Crash,
         LoseFetcher, LoseBuilder, Idle
    <3>5. r.proj = job.proj
      BY <2>0, <3>2, <3>3, <3>4
      DEF BeginGit, BeginPatch, BeginWrite, EndGit, EndPatch, TypeOK
    <3>6. CASE EndGit \/ EndPatch
      <4>1. tree[job.proj].st = "writing"
        BY <1>1, <3>6 DEF EndGit, EndPatch, FarmInv, SourceAtHand
      <4> QED
        BY <3>1, <3>5, <4>1 DEF Fits
    <3>7. CASE BeginGit \/ BeginPatch
      <4>1. /\ step \in {"git", "patch"} /\ step' \in {"checkout", "patching"}
            /\ Readers(job.proj) = {} /\ UNCHANGED <<job, pending, running>>
        BY <3>7 DEF BeginGit, BeginPatch, BeginWrite
      <4>2. r.by = "orphan"
        BY <1>1, <2>3, <3>2, <4>1 DEF FarmInv, AwaitedByJob, Requests
      <4>3. r \notin InRunning'
        BY <3>5, <4>1 DEF InRunning, Readers
      <4> QED
        BY <3>5, <4>1, <4>2, <4>3 DEF Writing
    <3> QED
      BY <3>4, <3>6, <3>7
  <2> QED
    BY <2>0, <2>1, <2>2, <2>3, RequestsNext
<1>2. FarmInv /\ [Next]_vars => [Step]_vars
  BY <1>1
<1>3. [][Next]_vars /\ []FarmInv => [][Step]_vars
  BY <1>2, PTL
<1> QED
  BY <1>3, FarmInvariant, PTL DEF Spec, LabelsHold, Requests

\* A forced build has no revision, and only a restart or a lost worker makes orphans.
Provenance ==
    \A r \in Requests :
        /\ r.by = "force" => r.rev = NoRev
        /\ r.by = "orphan" => spent["cut"] > 0

\* Provenance is kept.
LEMMA ProvenanceNext == TypeInv /\ Provenance /\ [Next]_vars => Provenance'
<1> SUFFICES ASSUME TypeOK, JobInStep, Provenance, [Next]_vars, NEW r \in Requests'
             PROVE  /\ r.by = "force" => r.rev = NoRev
                    /\ r.by = "orphan" => spent'["cut"] > 0
  BY DEF TypeInv, Provenance
<1>0. /\ spent["cut"] \in Nat /\ spent'["cut"] \in Nat
      /\ spent'["cut"] >= spent["cut"]
  <2>1. spent["cut"] \in Nat
    BY DEF TypeOK, Events
  <2>2. UNCHANGED spent \/ \E e \in Events : Happens(e)
    BY DEF Next, Scheduler, Commit, BranchScheduler, NightlyScheduler, ForceFetch, ForceClean,
           ForceBuild, FetcherStep, StartJob, BeginGit, BeginPatch, BeginWrite, EndGit, AskPatch,
           EndPatch, SourceFails, NoteStamp, TriggerBuilds, FinishJob, BuilderStep, FinishBuild,
           StartBuild, Retry, Crash, LoseFetcher, LoseBuilder, vars, Events
  <2> QED
    BY <2>1, <2>2 DEF Happens, Events, TypeOK
<1>1. CASE r \in Requests
  <2>1. r.by = "force" => r.rev = NoRev
    BY <1>1 DEF Provenance
  <2>2. r.by = "orphan" => spent["cut"] > 0
    BY <1>1 DEF Provenance
  <2>3. spent["cut"] > 0 => spent'["cut"] > 0
    BY <1>0
  <2> QED
    BY <2>1, <2>2, <2>3
<1>2. CASE r.by = "force" /\ r.rev = NoRev
  BY <1>2
<1>3. CASE TriggerBuilds /\ r \in Launched
  <2>1. r.by = job.job /\ job.job \in {"fetch", "daily"}
    BY <1>3 DEF Launched, TriggerBuilds, JobInStep
  <2> QED
    BY <2>1
<1>4. ASSUME Retry, NEW q \in Requests, r = Orphaned(q)
      PROVE  /\ r.by = "force" => r.rev = NoRev
             /\ r.by = "orphan" => spent'["cut"] > 0
  <2>1. spent'["cut"] > 0
    BY <1>4, <1>0 DEF Retry, Crash, LoseFetcher, LoseBuilder, Happens, Events, TypeOK
  <2>2. q \in PlatformRequest
    BY InRunningType DEF Requests, TypeOK
  <2>3. r.by = "force" => r = q
    BY <1>4, <2>2 DEF Orphaned, PlatformRequest
  <2> QED
    BY <2>1, <2>3 DEF Provenance
<1> QED
  BY <1>1, <1>2, <1>3, <1>4, RequestsNext

\* While the clean builder runs, only forced builds are there to run.
LEMMA CleanMeetsForced == AwaitedByJob /\ Provenance /\ TypeOK => NoUploadDuringClean
<1> SUFFICES ASSUME AwaitedByJob, Provenance, TypeOK, step = "clean", spent["cut"] = 0,
                    NEW r \in pending \cup InRunning
             PROVE  ~Packages(r)
  BY DEF NoUploadDuringClean
<1>1. r.by \in {"fetch", "daily", "force", "orphan"}
  BY InRunningType DEF TypeOK, PlatformRequest
<1>2. r.by = "force"
  BY <1>1 DEF AwaitedByJob, Provenance, Requests
<1> QED
  BY <1>2 DEF Provenance, Requests, Packages

\* Without a restart or a lost worker, nothing can be uploaded while the clean builder
\* runs.
THEOREM CleanIsAlone == Spec => []NoUploadDuringClean
<1>1. Init => Provenance
  BY DEF Init, Provenance, Requests, InRunning
<1>2. Spec => []Provenance
  BY <1>1, ProvenanceNext, TypeInvariant, PTL DEF Spec
<1>3. FarmInv /\ Provenance => NoUploadDuringClean
  BY CleanMeetsForced DEF FarmInv, TypeInv
<1> QED
  BY <1>2, <1>3, FarmInvariant, PTL

\* A platform build of an Android platform starts only when none runs.
THEOREM AndroidTakesTurns == Spec => []OneAndroidBuild
<1>1. Init => OneAndroidBuild
  BY DEF Init, OneAndroidBuild
<1>2. TypeInv /\ OneAndroidBuild /\ [Next]_vars => OneAndroidBuild'
  <2> SUFFICES ASSUME TypeOK, OneAndroidBuild, [Next]_vars
               PROVE  OneAndroidBuild'
    BY DEF TypeInv
  <2>1. ASSUME NEW w \in Builders, NEW r \in pending, StartBuild(w, r)
        PROVE  OneAndroidBuild'
    <3>1. running' = [running EXCEPT ![w] = r] /\ (r.plat \in Android => AndroidAvailable)
      BY <2>1 DEF StartBuild
    <3> QED
      BY <3>1 DEF OneAndroidBuild, AndroidAvailable, TypeOK
  <2>2. ASSUME NEW w \in Builders, FinishBuild(w) \/ LoseBuilder(w)
        PROVE  OneAndroidBuild'
    <3>1. running' = [running EXCEPT ![w] = Free]
      BY <2>2 DEF FinishBuild, LoseBuilder
    <3> QED
      BY <3>1 DEF OneAndroidBuild, TypeOK
  <2>3. CASE Crash
    BY <2>3 DEF Crash, OneAndroidBuild
  <2>5. CASE LoseFetcher
    BY <2>5, FetcherLost DEF OneAndroidBuild
  <2>4. CASE Scheduler \/ FetcherStep \/ UNCHANGED vars
    <3>1. UNCHANGED running
      BY <2>4 DEF Scheduler, Commit, BranchScheduler, NightlyScheduler, ForceFetch, ForceClean,
             ForceBuild, FetcherStep, StartJob, BeginGit, BeginPatch, BeginWrite, EndGit, AskPatch,
             EndPatch, SourceFails, NoteStamp, TriggerBuilds, FinishJob, vars
    <3> QED
      BY <3>1 DEF OneAndroidBuild
  <2> QED
    BY <2>1, <2>2, <2>3, <2>4, <2>5 DEF Next, BuilderStep, Retry
<1> QED
  BY <1>1, <1>2, TypeInvariant, PTL DEF Spec
-----------------------------------------------------------------------------
(***************************************************************************)
(* The order of the fetcher's queue: the clean stays behind the daily.     *)
(***************************************************************************)

\* A nightly clean of the project is in the queue, and every daily build of the
\* project that is in the queue has one behind it.
HasClean(q, p) == \E k \in 1..Len(q) : NightlyClean(q[k], p)
InOrder(q, p) ==
    \A i \in 1..Len(q) : q[i].job = "daily" /\ q[i].proj = p =>
        \E k \in 1..Len(q) : i < k /\ NightlyClean(q[k], p)

\* Collapsing takes at most one request out, and keeps the order of the others.
LEMMA DropDoes ==
    ASSUME NEW q \in Seq(FetcherRequest), NEW r, Drop(q, r) # q
    PROVE  \E i \in 1..Len(q) :
             /\ Collapses(q[i], r) /\ Len(Drop(q, r)) = Len(q) - 1
             /\ \A k \in 1..(Len(q) - 1) : Drop(q, r)[k] = IF k < i THEN q[k] ELSE q[k + 1]
<1> DEFINE i == CHOOSE i \in 1..Len(q) : Collapses(q[i], r)
           n == Len(q)
           a == SubSeq(q, 1, i - 1)
           b == SubSeq(q, i + 1, n)
<1>1. i \in 1..n /\ Collapses(q[i], r) /\ Drop(q, r) = a \o b /\ n \in Nat
  BY LenProperties DEF Drop
<1> HIDE DEF i, n
<1>2. /\ a \in Seq(FetcherRequest) /\ Len(a) = i - 1
      /\ \A k \in 1..(i - 1) : a[k] = q[k]
  BY <1>1, SubSeqProperties DEF n
<1>3. /\ b \in Seq(FetcherRequest) /\ Len(b) = n - i
      /\ \A k \in 1..(n - i) : b[k] = q[i + k]
  <2> DEFINE j == i + 1
  <2>1. j \in 1..(n + 1) /\ n \in (j - 1)..n
    BY <1>1
  <2>2. n = Len(q)
    BY DEF n
  <2> HIDE DEF j
  <2>3. /\ SubSeq(q, j, n) \in Seq(FetcherRequest) /\ Len(SubSeq(q, j, n)) = n - j + 1
        /\ \A k \in 1..(n - j + 1) : SubSeq(q, j, n)[k] = q[j + k - 1]
    BY <2>1, <2>2, SubSeqProperties
  <2>4. n - j + 1 = n - i /\ \A k \in 1..(n - i) : j + k - 1 = i + k
    BY <1>1 DEF j
  <2> QED
    BY <2>3, <2>4 DEF j
<1> HIDE DEF a, b
<1>4. /\ Len(a \o b) = (i - 1) + (n - i)
      /\ \A k \in 1..((i - 1) + (n - i)) : (a \o b)[k] = IF k <= i - 1 THEN a[k] ELSE b[k - (i - 1)]
  <2>1. /\ Len(a \o b) = Len(a) + Len(b)
        /\ \A k \in 1..(Len(a) + Len(b)) : (a \o b)[k] = IF k <= Len(a) THEN a[k] ELSE b[k - Len(a)]
    BY <1>2, <1>3, ConcatProperties
  <2> QED
    BY <1>2, <1>3, <2>1
<1>5. Len(a \o b) = n - 1
  BY <1>1, <1>4
<1>6. ASSUME NEW k \in 1..(n - 1)
      PROVE  (a \o b)[k] = IF k < i THEN q[k] ELSE q[k + 1]
  <2>1. k \in 1..((i - 1) + (n - i)) /\ i \in Nat /\ k \in Nat
    BY <1>1
  <2>2. CASE k < i
    <3>1. k \in 1..(i - 1) /\ k <= i - 1
      BY <2>1, <2>2
    <3> QED
      BY <1>2, <1>4, <2>1, <2>2, <3>1
  <2>3. CASE ~(k < i)
    <3>1. k - (i - 1) \in 1..(n - i) /\ ~(k <= i - 1) /\ i + (k - (i - 1)) = k + 1
      BY <1>1, <2>1, <2>3
    <3> QED
      BY <1>3, <1>4, <2>1, <2>3, <3>1
  <2> QED
    BY <2>2, <2>3
<1> QED
  BY <1>1, <1>5, <1>6 DEF n

\* So it leaves the nightly cleans of a project where they are, if it does not look
\* for one of them.
LEMMA DropInOrder ==
    ASSUME NEW q \in Seq(FetcherRequest), NEW r, NEW p, ~NightlyClean(r, p)
    PROVE  /\ HasClean(q, p) => HasClean(Drop(q, r), p)
           /\ InOrder(q, p) => InOrder(Drop(q, r), p)
<1>1. CASE Drop(q, r) = q
  BY <1>1
<1>2. CASE Drop(q, r) # q
  <2> DEFINE n == Len(q)
             d == Drop(q, r)
  <2>1. PICK i \in 1..n :
           /\ Collapses(q[i], r) /\ Len(d) = n - 1
           /\ \A k \in 1..(n - 1) : d[k] = IF k < i THEN q[k] ELSE q[k + 1]
    BY <1>2, DropDoes
  <2>2. n \in Nat
    BY LenProperties
  <2>3. ~NightlyClean(q[i], p)
    BY <2>1 DEF Collapses, NightlyClean
  <2> HIDE DEF n, d
  <2> DEFINE old(k) == IF k < i THEN k ELSE k + 1
             new(k) == IF k < i THEN k ELSE k - 1
  <2>4. \A k \in 1..(n - 1) : old(k) \in 1..n /\ d[k] = q[old(k)] /\ k \in Nat
    BY <2>1, <2>2
  <2>5. \A k \in 1..n : k # i => new(k) \in 1..(n - 1) /\ old(new(k)) = k
    BY <2>2
  <2>6. \A k \in 1..(n - 1), m \in 1..n : m # i /\ old(k) < m => k < new(m)
    BY <2>2
  <2> HIDE DEF old, new
  <2>7. HasClean(q, p) => HasClean(d, p)
    BY <2>1, <2>3, <2>4, <2>5 DEF HasClean, n
  <2>8. ASSUME InOrder(q, p)
        PROVE  InOrder(d, p)
    <3> SUFFICES ASSUME NEW k \in 1..(n - 1), d[k].job = "daily", d[k].proj = p
                 PROVE  \E m \in 1..(n - 1) : k < m /\ NightlyClean(d[m], p)
      BY <2>1 DEF InOrder
    <3>1. old(k) \in 1..n /\ q[old(k)].job = "daily" /\ q[old(k)].proj = p
      BY <2>4
    <3>2. PICK m \in 1..n : old(k) < m /\ NightlyClean(q[m], p)
      BY <2>8, <3>1 DEF InOrder, n
    <3>3. m # i
      BY <2>3, <3>2
    <3>4. new(m) \in 1..(n - 1) /\ d[new(m)] = q[m] /\ k < new(m)
      BY <2>4, <2>5, <2>6, <3>2, <3>3
    <3> QED
      BY <3>2, <3>4
  <2> QED
    BY <2>7, <2>8 DEF d
<1> QED
  BY <1>1, <1>2

\* A request that is put behind the others: a daily build waits for its clean, any
\* other leaves the order as it is, and a nightly clean makes it.
LEMMA AppendInOrder ==
    ASSUME NEW q \in Seq(FetcherRequest), NEW r \in FetcherRequest, NEW p
    PROVE  /\ HasClean(q, p) => HasClean(Append(q, r), p)
           /\ InOrder(q, p) /\ ~(r.job = "daily" /\ r.proj = p) => InOrder(Append(q, r), p)
           /\ NightlyClean(r, p) => HasClean(Append(q, r), p) /\ InOrder(Append(q, r), p)
<1> DEFINE n == Len(q)
           d == Append(q, r)
<1>1. /\ n \in Nat /\ Len(d) = n + 1 /\ d[n + 1] = r
      /\ \A k \in 1..n : d[k] = q[k]
  BY LenProperties, AppendProperties
<1>2. Len(q) = n
  OBVIOUS
<1> HIDE DEF n, d
<1>3. /\ n + 1 \in 1..(n + 1)
      /\ \A k \in 1..n : k \in 1..(n + 1) /\ k < n + 1
      /\ \A k \in 1..(n + 1) : k \in 1..n \/ k = n + 1
  BY <1>1
<1>4. HasClean(q, p) => HasClean(d, p)
  BY <1>1, <1>2, <1>3 DEF HasClean
<1>5. ASSUME InOrder(q, p), ~(r.job = "daily" /\ r.proj = p)
      PROVE  InOrder(d, p)
  BY <1>1, <1>2, <1>3, <1>5 DEF InOrder
<1>6. ASSUME NightlyClean(r, p)
      PROVE  HasClean(d, p) /\ InOrder(d, p)
  <2>1. r.job # "daily"
    BY <1>6 DEF NightlyClean
  <2> QED
    BY <1>1, <1>3, <1>6, <2>1 DEF HasClean, InOrder
<1> QED
  BY <1>4, <1>5, <1>6 DEF d

\* What submitting a request does to the order, collapsed requests included.
LEMMA EnqueueInOrder ==
    ASSUME NEW q \in Seq(FetcherRequest), NEW r \in FetcherRequest, NEW p
    PROVE  /\ HasClean(q, p) => HasClean(Enqueue(q, r), p)
           /\ InOrder(q, p) /\ ~(r.job = "daily" /\ r.proj = p) => InOrder(Enqueue(q, r), p)
           /\ NightlyClean(r, p) => HasClean(Enqueue(q, r), p) /\ InOrder(Enqueue(q, r), p)
<1> DEFINE d == Drop(q, r)
           e == Drop(d, r)
<1>1. d \in Seq(FetcherRequest) /\ e \in Seq(FetcherRequest)
  BY DropType
<1>2. CASE NightlyClean(r, p)
  BY <1>1, <1>2, AppendInOrder DEF Enqueue
<1>3. CASE ~NightlyClean(r, p)
  <2>1. /\ HasClean(q, p) => HasClean(d, p)
        /\ InOrder(q, p) => InOrder(d, p)
    BY <1>3, DropInOrder
  <2> HIDE DEF d
  <2>2. /\ HasClean(d, p) => HasClean(e, p)
        /\ InOrder(d, p) => InOrder(e, p)
    BY <1>1, <1>3, DropInOrder
  <2> HIDE DEF e
  <2> QED
    BY <1>1, <1>3, <2>1, <2>2, AppendInOrder DEF Enqueue, d, e
<1> QED
  BY <1>2, <1>3

\* The same of one project at a time: the queue in order, and a clean for the daily
\* build that the fetcher runs.
QueueInOrder ==
    \A p \in Projects :
        /\ InOrder(fetchq, p)
        /\ job.job = "daily" /\ job.proj = p => HasClean(fetchq, p)

\* Taking the first request, or putting one back before the others.
LEMMA HeadInOrder ==
    ASSUME NEW q \in Seq(FetcherRequest), q # <<>>, NEW p, InOrder(q, p)
    PROVE  /\ InOrder(Tail(q), p)
           /\ Head(q).job = "daily" /\ Head(q).proj = p => HasClean(Tail(q), p)
<1> DEFINE n == Len(q)
           t == Tail(q)
<1>1. /\ n \in Nat /\ n # 0 /\ Len(t) = n - 1 /\ Head(q) = q[1]
      /\ \A k \in 1..(n - 1) : t[k] = q[k + 1]
  BY HeadTailProperties, LenProperties, EmptySeq
<1>2. Len(q) = n
  OBVIOUS
<1> HIDE DEF n, t
<1>3. /\ 1 \in 1..n
      /\ \A k \in 1..(n - 1) : k + 1 \in 1..n /\ 1 < k + 1
      /\ \A k \in 1..n : 1 < k => k - 1 \in 1..(n - 1) /\ (k - 1) + 1 = k
      /\ \A i \in 1..(n - 1), k \in 1..n : i + 1 < k => 1 < k /\ i < k - 1
  BY <1>1
<1>4. ASSUME NEW i \in 1..(n - 1), t[i].job = "daily", t[i].proj = p
      PROVE  \E k \in 1..(n - 1) : i < k /\ NightlyClean(t[k], p)
  <2>1. i + 1 \in 1..n /\ t[i] = q[i + 1]
    BY <1>1, <1>3
  <2>2. PICK k \in 1..n : i + 1 < k /\ NightlyClean(q[k], p)
    BY <1>2, <1>4, <2>1 DEF InOrder
  <2>3. k - 1 \in 1..(n - 1) /\ i < k - 1 /\ t[k - 1] = q[k]
    BY <1>1, <1>3, <2>2
  <2> QED
    BY <2>2, <2>3
<1>5. ASSUME Head(q).job = "daily", Head(q).proj = p
      PROVE  HasClean(t, p)
  <2>1. PICK k \in 1..n : 1 < k /\ NightlyClean(q[k], p)
    BY <1>1, <1>2, <1>3, <1>5 DEF InOrder
  <2>2. k - 1 \in 1..(n - 1) /\ t[k - 1] = q[k]
    BY <1>1, <1>3, <2>1
  <2> QED
    BY <1>1, <2>1, <2>2 DEF HasClean
<1>6. InOrder(t, p)
  BY <1>1, <1>4 DEF InOrder
<1> QED
  BY <1>5, <1>6 DEF t

\* A request that a restart puts back in front of the queue leaves it in order, if
\* a daily build has a clean build behind it there.
LEMMA BackInOrder ==
    ASSUME NEW q \in Seq(FetcherRequest), NEW r \in FetcherRequest, NEW p, InOrder(q, p),
           r.job = "daily" /\ r.proj = p => HasClean(q, p)
    PROVE  InOrder(<<r>> \o q, p)
<1> DEFINE n == Len(q)
           d == <<r>> \o q
<1>1. /\ n \in Nat /\ Len(d) = n + 1 /\ d[1] = r
      /\ \A k \in 1..(n + 1) : k # 1 => d[k] = q[k - 1]
  <2>1. <<r>> \in Seq(FetcherRequest) /\ Len(<<r>>) = 1 /\ <<r>>[1] = r
    OBVIOUS
  <2>2. n \in Nat /\ Len(d) = 1 + n
    BY <2>1, ConcatProperties, LenProperties
  <2>3. \A k \in 1..(1 + n) : d[k] = IF k <= 1 THEN <<r>>[k] ELSE q[k - 1]
    BY <2>1, ConcatProperties
  <2> HIDE DEF n, d
  <2>4. \A k \in 1..(n + 1) : k # 1 => ~(k <= 1) /\ k \in 1..(1 + n)
    BY <2>2
  <2>5. 1 \in 1..(1 + n) /\ n + 1 = 1 + n
    BY <2>2
  <2> QED
    BY <2>1, <2>2, <2>3, <2>4, <2>5
<1>2. Len(q) = n
  OBVIOUS
<1> HIDE DEF n, d
<1>3. /\ \A k \in 1..n : k + 1 \in 1..(n + 1) /\ k + 1 # 1 /\ 1 < k + 1 /\ (k + 1) - 1 = k
      /\ \A k \in 1..(n + 1) : k # 1 => k - 1 \in 1..n
      /\ \A i \in 1..(n + 1), k \in 1..n : i - 1 < k => i < k + 1
  BY <1>1
<1> SUFFICES ASSUME NEW i \in 1..(n + 1), d[i].job = "daily", d[i].proj = p
             PROVE  \E k \in 1..(n + 1) : i < k /\ NightlyClean(d[k], p)
  BY <1>1 DEF InOrder, d
<1>4. CASE i = 1
  <2>1. PICK k \in 1..n : NightlyClean(q[k], p)
    BY <1>1, <1>2, <1>4 DEF HasClean
  <2> QED
    BY <1>1, <1>3, <1>4, <2>1
<1>5. CASE i # 1
  <2>1. i - 1 \in 1..n /\ d[i] = q[i - 1]
    BY <1>1, <1>3, <1>5
  <2>2. PICK k \in 1..n : i - 1 < k /\ NightlyClean(q[k], p)
    BY <1>2, <2>1 DEF InOrder
  <2> QED
    BY <1>1, <1>3, <2>2
<1> QED
  BY <1>4, <1>5

\* Every step keeps the cleans behind the daily builds.
LEMMA QueueNext == TypeInv /\ QueueInOrder /\ [Next]_vars => QueueInOrder'
<1> SUFFICES ASSUME TypeOK, JobInStep, QueueInOrder, [Next]_vars, NEW p \in Projects
             PROVE  /\ InOrder(fetchq', p)
                    /\ job'.job = "daily" /\ job'.proj = p => HasClean(fetchq', p)
  BY DEF TypeInv, QueueInOrder, InOrder, HasClean
<1> DEFINE Goal == /\ InOrder(fetchq', p)
                   /\ job'.job = "daily" /\ job'.proj = p => HasClean(fetchq', p)
<1>q. /\ fetchq \in Seq(FetcherRequest) /\ InOrder(fetchq, p)
      /\ job.job = "daily" /\ job.proj = p => HasClean(fetchq, p)
  BY DEF TypeOK, QueueInOrder
<1>r. NoRev \in Revs
  BY FarmAssumption DEF NoRev, Revs
<1>s. ASSUME NEW r \in FetcherRequest, r.job # "daily", fetchq' = Enqueue(fetchq, r), job' = job
      PROVE  Goal
  BY <1>q, <1>s, EnqueueInOrder
<1>1. ASSUME NEW o \in Projects, BranchScheduler(o)
      PROVE  Goal
  <2> DEFINE r == [job |-> "fetch", proj |-> o, rev |-> head[o], package |-> FALSE]
  <2>1. r \in FetcherRequest /\ r.job # "daily"
    BY DEF TypeOK, FetcherRequest
  <2>2. fetchq' = Enqueue(fetchq, r) /\ job' = job
    BY <1>1 DEF BranchScheduler, fetcher
  <2> HIDE DEF r
  <2> QED
    BY <1>s, <2>1, <2>2
<1>2. ASSUME NEW o \in Projects, NEW pkg \in BOOLEAN, ForceFetch(o, pkg)
      PROVE  Goal
  <2> DEFINE r == [job |-> "fetch", proj |-> o, rev |-> NoRev, package |-> pkg]
  <2>1. r \in FetcherRequest /\ r.job # "daily"
    BY <1>r DEF FetcherRequest
  <2>2. fetchq' = Enqueue(fetchq, r) /\ job' = job
    BY <1>2 DEF ForceFetch, fetcher
  <2> HIDE DEF r
  <2> QED
    BY <1>s, <2>1, <2>2
<1>3. ASSUME NEW o \in Projects, ForceClean(o)
      PROVE  Goal
  <2> DEFINE r == [job |-> "clean", proj |-> o, rev |-> NoRev, package |-> FALSE]
  <2>1. r \in FetcherRequest /\ r.job # "daily"
    BY <1>r DEF FetcherRequest
  <2>2. fetchq' = Enqueue(fetchq, r) /\ job' = job
    BY <1>3 DEF ForceClean, fetcher
  <2> HIDE DEF r
  <2> QED
    BY <1>s, <2>1, <2>2
<1>4. ASSUME NEW o \in Projects, NightlyScheduler(o)
      PROVE  Goal
  <2> DEFINE d == [job |-> "daily", proj |-> o, rev |-> noted[o], package |-> TRUE]
             c == [job |-> "clean", proj |-> o, rev |-> noted[o], package |-> FALSE]
             e == Enqueue(fetchq, d)
  <2>1. d \in FetcherRequest /\ c \in FetcherRequest /\ NightlyClean(c, o)
    BY <1>4 DEF NightlyScheduler, TypeOK, FetcherRequest, NightlyClean
  <2>2. fetchq' = Enqueue(e, c) /\ job' = job
    BY <1>4 DEF NightlyScheduler, fetcher
  <2>3. d.job = "daily" /\ d.proj = o /\ c.job = "clean"
    OBVIOUS
  <2> HIDE DEF d, c
  <2>4. e \in Seq(FetcherRequest) /\ (HasClean(fetchq, p) => HasClean(e, p))
    BY <1>q, <2>1, EnqueueType, EnqueueInOrder
  <2>5. CASE o = p
    BY <2>1, <2>2, <2>4, <2>5, EnqueueInOrder
  <2>6. CASE o # p
    <3>1. InOrder(e, p)
      BY <1>q, <2>1, <2>3, <2>6, EnqueueInOrder
    <3> HIDE DEF e
    <3> QED
      BY <1>q, <2>1, <2>2, <2>3, <2>4, <3>1, EnqueueInOrder
  <2> QED
    BY <2>5, <2>6
<1>5. CASE StartJob
  <2>1. fetchq # <<>> /\ job' = Head(fetchq) /\ fetchq' = Tail(fetchq)
    BY <1>5 DEF StartJob
  <2> QED
    BY <1>q, <2>1, HeadInOrder
<1>6. CASE Crash \/ LoseFetcher
  <2>1. job' = NoJob /\ job'.job # "daily"
    BY <1>6 DEF Crash, LoseFetcher, Idle, NoJob
  <2>2. CASE step = "idle"
    BY <1>6, <1>q, <2>1, <2>2 DEF Crash, LoseFetcher
  <2>3. CASE step # "idle"
    <3>1. job \in FetcherRequest /\ fetchq' = <<job>> \o fetchq
      BY <1>6, <2>3 DEF Crash, LoseFetcher, TypeOK, JobInStep
    <3>2. InOrder(fetchq', p)
      BY <1>q, <3>1, BackInOrder
    <3> QED
      BY <2>1, <3>2
  <2> QED
    BY <2>2, <2>3
<1>7. CASE SourceFails \/ FinishJob
  <2>1. fetchq' = fetchq /\ job' = NoJob /\ job'.job # "daily"
    BY <1>7 DEF SourceFails, FinishJob, Idle, NoJob
  <2> QED
    BY <1>q, <2>1
<1>8. CASE UNCHANGED <<fetchq, job>>
  BY <1>q, <1>8
<1>9. BeginGit \/ EndGit \/ AskPatch \/ BeginPatch \/ EndPatch \/ NoteStamp \/ TriggerBuilds
        => UNCHANGED <<fetchq, job>>
  BY DEF BeginGit, BeginWrite, EndGit, AskPatch, BeginPatch, EndPatch, NoteStamp, TriggerBuilds
<1>10. BuilderStep \/ (\E w \in Builders : LoseBuilder(w)) \/ UNCHANGED vars
         => UNCHANGED <<fetchq, job>>
  BY DEF BuilderStep, FinishBuild, StartBuild, LoseBuilder, vars, fetcher
<1>11. ASSUME NEW o \in Projects,
              \/ Commit(o) \/ BranchScheduler(o) \/ NightlyScheduler(o)
              \/ \E pkg \in BOOLEAN : ForceFetch(o, pkg)
              \/ ForceClean(o)
              \/ \E t \in Platforms : ForceBuild(o, t)
       PROVE  Goal
  <2>1. CASE Commit(o) \/ \E t \in Platforms : ForceBuild(o, t)
    <3>1. UNCHANGED <<fetchq, job>>
      BY <2>1 DEF Commit, ForceBuild, fetcher
    <3> QED
      BY <1>q, <3>1
  <2> QED
    BY <1>1, <1>2, <1>3, <1>4, <1>11, <2>1
<1>12. FetcherStep => Goal
  BY <1>5, <1>7, <1>8, <1>9 DEF FetcherStep
<1> QED
  BY <1>6, <1>8, <1>10, <1>11, <1>12 DEF Next, Scheduler, Retry

\* Whatever is forced, collapsed, crashes or comes in another night, a nightly daily
\* build that is queued or runs has a clean of its project queued behind it.
THEOREM DailyIsCleanedAfter == Spec => []CleanAfterDaily
<1>1. Init => QueueInOrder
  <2> SUFFICES ASSUME Init, NEW p \in Projects
               PROVE  InOrder(fetchq, p) /\ job.job # "daily"
    BY DEF QueueInOrder
  <2>1. fetchq = <<>> /\ Len(fetchq) = 0 /\ job = NoJob
    BY EmptySeq DEF Init
  <2>2. 1..Len(fetchq) = {}
    BY <2>1
  <2> QED
    BY <2>1, <2>2 DEF InOrder, NoJob
<1>2. Spec => [](TypeInv /\ QueueInOrder)
  BY <1>1, QueueNext, TypeInvariant, PTL DEF Spec
<1>3. TypeInv /\ QueueInOrder => CleanAfterDaily
  <2> SUFFICES ASSUME TypeOK, JobInStep, QueueInOrder
               PROVE  CleanAfterDaily
    BY DEF TypeInv
  <2> DEFINE n == Len(fetchq)
  <2>1. n \in Nat /\ \A i \in 1..n : fetchq[i] \in FetcherRequest
    BY ElementOfSeq, LenProperties DEF TypeOK
  <2>2. Len(fetchq) = n
    OBVIOUS
  <2> HIDE DEF n
  <2>3. ASSUME NEW i \in 1..n, fetchq[i].job = "daily"
        PROVE  \E k \in (i + 1)..n : NightlyClean(fetchq[k], fetchq[i].proj)
    <3>1. fetchq[i].proj \in Projects
      BY <2>1 DEF FetcherRequest
    <3>2. PICK k \in 1..n : i < k /\ NightlyClean(fetchq[k], fetchq[i].proj)
      BY <2>2, <2>3, <3>1 DEF QueueInOrder, InOrder
    <3>3. k \in (i + 1)..n
      BY <2>1, <3>2
    <3> QED
      BY <3>2, <3>3
  <2>4. ASSUME job.job = "daily"
        PROVE  \E k \in 1..n : NightlyClean(fetchq[k], job.proj)
    <3>1. job # NoJob
      BY <2>4 DEF NoJob
    <3>2. job.proj \in Projects
      BY <3>1 DEF TypeOK, FetcherRequest
    <3> QED
      BY <2>2, <2>4, <3>2 DEF QueueInOrder, HasClean
  <2> QED
    BY <2>2, <2>3, <2>4 DEF CleanAfterDaily
<1> QED
  BY <1>2, <1>3, PTL
=============================================================================
