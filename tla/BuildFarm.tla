------------------------------- MODULE BuildFarm -------------------------------
(***************************************************************************)
(* The build farm set up by buildbot-config/builds.py and workers.py.      *)
(*                                                                         *)
(* One "fetcher" worker runs, one at a time, the global builders of every  *)
(* project: fetch (git, patch, note the source stamp, build all            *)
(* platforms), daily (build all platforms) and clean.  The "builder"       *)
(* workers run the platform builds, which read the source tree that the    *)
(* fetcher writes.  The master lock lock_src keeps writers and readers of  *)
(* a tree apart; the worker lock lock_build keeps a worker to one build.   *)
(*                                                                         *)
(* What Buildbot itself does (locks, queues, collapsing, triggers, retry   *)
(* of what was cut short) is not in the repository: it is modelled from    *)
(* how builds.py uses it.  A build's claim, the start of its container and *)
(* the acquisition of all of its builder locks are one step, because       *)
(* Buildbot acquires all the locks of a build or none.                     *)
(***************************************************************************)
EXTENDS Naturals, Sequences, FiniteSets

CONSTANTS
    Projects,   \* the entries of builds.builds
    Platforms,  \* the entries of platforms.platforms
    Compiles,   \* <<project, platform>> pairs for which platform.canBuild holds
    Android,    \* platforms whose lock_access is the exclusive android lock
    Daily,      \* projects with a daily setting
    Patched,    \* projects whose PATCHES is not empty
    Builders,   \* names of the "builder" workers (max_parallel_builds of them)
    Forced,     \* force schedulers in use: subset of {"fetch", "build", "clean"}
    MaxRev,     \* bound: commits made upstream to one project
    MaxForce,   \* bound: uses of the fetch and clean force buttons
    MaxNight,   \* bound: nights on which a daily scheduler fires
    MaxFail,    \* bound: failed git or patch steps
    MaxCut      \* bound: crashes of the master and workers lost while they build

ASSUME FarmAssumption ==
    /\ Compiles \subseteq Projects \X Platforms
    /\ Android \subseteq Platforms
    /\ Daily \subseteq Projects
    /\ Patched \subseteq Projects
    /\ MaxRev \in Nat \ {0}
    /\ {MaxForce, MaxNight, MaxFail, MaxCut} \subseteq Nat

\* A revision; NoRev is a source stamp without one, or a tree never fetched.
NoRev == 0
Revs == 0..MaxRev

\* What a source directory holds: a revision that is being written (or whose
\* write broke off), is checked out but not patched yet, or is ready to build.
Tree == [rev : Revs, st : {"writing", "raw", "ready"}]

\* A build request for a builder of the fetcher worker.  Its revision is the
\* one of the source stamp; "package" is the property of the force scheduler.
FetcherRequest ==
    [job : {"fetch", "daily", "clean"}, proj : Projects, rev : Revs, package : BOOLEAN]
NoJob == [job |-> "none"]

\* A build request for a platform builder, and who asked for it: the fetch or
\* daily build that waits for it, a user, or a parent that a crash or loss took away.
PlatformRequest ==
    [proj : Projects, plat : Platforms, rev : Revs, package : BOOLEAN,
     by : {"fetch", "daily", "force", "orphan"}]
Free == [proj |-> "none"]

\* Steps of the build that the fetcher runs.  In "git" and "patch" the step
\* waits for lock_src, in "checkout" and "patching" it holds it; in between, in
\* "unpatched", git has released it and the patch step has not asked yet.
Steps == {"idle", "git", "checkout", "unpatched", "patch", "patching", "note",
          "trigger", "wait", "clean"}

VARIABLES
    head,     \* tip of each project's branch upstream
    noticed,  \* last revision for which the branch scheduler submitted a fetch
    tree,     \* content of each project's source directory
    fetchq,   \* requests for the fetcher's builders, oldest first
    job,      \* the request that the fetcher is building
    step,     \* the step its build has reached
    got,      \* got_revision of that build
    noted,    \* source stamp each daily scheduler keeps for the night
    pending,  \* platform requests not started yet
    running,  \* what each builder worker builds
    spent     \* how often each bounded event has happened

fetcher == <<job, step, got>>
vars == <<head, noticed, tree, fetchq, fetcher, noted, pending, running, spent>>

Events == {"force", "night", "fail", "cut"}
Bound == [force |-> MaxForce, night |-> MaxNight, fail |-> MaxFail, cut |-> MaxCut]

\* Event e happens, within its bound.
Happens(e) == spent[e] < Bound[e] /\ spent' = [spent EXCEPT ![e] = @ + 1]

TypeOK ==
    /\ head \in [Projects -> Revs]
    /\ noticed \in [Projects -> Revs]
    /\ tree \in [Projects -> Tree]
    /\ fetchq \in Seq(FetcherRequest)
    /\ job \in FetcherRequest \cup {NoJob}
    /\ step \in Steps
    /\ got \in Revs
    /\ noted \in [Projects -> Revs]
    /\ pending \subseteq PlatformRequest
    /\ running \in [Builders -> PlatformRequest \cup {Free}]
    /\ spent \in [Events -> Nat]

Init ==
    /\ head = [p \in Projects |-> 1]
    /\ noticed = head
    /\ tree = [p \in Projects |-> [rev |-> NoRev, st |-> "ready"]]
    /\ fetchq = <<>>
    /\ job = NoJob
    /\ step = "idle"
    /\ got = NoRev
    /\ noted = [p \in Projects |-> NoRev]
    /\ pending = {}
    /\ running = [w \in Builders |-> Free]
    /\ spent = [e \in Events |-> 0]

-----------------------------------------------------------------------------
(***************************************************************************)
(* Locks and queues.                                                       *)
(***************************************************************************)

CompBuilders(p) == {t \in Platforms : <<p, t>> \in Compiles}

\* Builds that hold lock_src of project p for counting: they read its tree.
Readers(p) == {w \in Builders : running[w] # Free /\ running[w].proj = p}

\* The fetcher holds lock_src of p for exclusive access, or is in its queue.
Writing(p) == step \in {"checkout", "patching"} /\ job.proj = p
WantsToWrite(p) == step \in {"git", "patch"} /\ job.proj = p

\* Mutants: a counting access that ignores the holder, or the one that waits.
SrcAvailableIgnoresHolder(p) == ~WantsToWrite(p)
SrcAvailableIgnoresWaiter(p) == ~Writing(p)

\* lock_src of p can be had for counting: nobody holds it for exclusive access
\* and no exclusive access is waiting for it.
SrcAvailable(p) == ~Writing(p) /\ ~WantsToWrite(p)

\* Mutant: the platform's lock_access is not added to its locks.
AndroidUnlocked == TRUE

AndroidAvailable == \A w \in Builders : running[w] # Free => running[w].plat \notin Android

\* Mutant: doPackage does not look at the revision.
PackagesAnyRevision(r) == r.package

\* What doPackage decides: a build packages when it was asked to and its source
\* stamp has a revision.
Packages(r) == r.package /\ r.rev # NoRev

\* Buildbot drops an older request that a newer one r makes redundant: same
\* builder and properties, and both have a revision or both have none.
Collapses(q, r) ==
    /\ q.job = r.job /\ q.proj = r.proj /\ q.package = r.package
    /\ (q.rev = NoRev) <=> (r.rev = NoRev)

Drop(q, r) ==
    IF \E i \in 1..Len(q) : Collapses(q[i], r)
    THEN LET i == CHOOSE i \in 1..Len(q) : Collapses(q[i], r)
         IN  SubSeq(q, 1, i - 1) \o SubSeq(q, i + 1, Len(q))
    ELSE q

\* At most two requests can be redundant: one put back by a restart or a loss, one newer.
Enqueue(q, r) == Append(Drop(Drop(q, r), r), r)

-----------------------------------------------------------------------------
(***************************************************************************)
(* Schedulers.                                                             *)
(***************************************************************************)

Commit(p) ==
    /\ head[p] < MaxRev
    /\ head' = [head EXCEPT ![p] = @ + 1]
    /\ UNCHANGED <<noticed, tree, fetchq, fetcher, noted, pending, running, spent>>

\* Mutant: the fetch is requested for the first of the new changes.
BranchSchedulerOfFirst(p) ==
    /\ noticed[p] < head[p]
    /\ noticed' = [noticed EXCEPT ![p] = head[p]]
    /\ fetchq' = Enqueue(fetchq, [job |-> "fetch", proj |-> p, rev |-> noticed[p] + 1, package |-> FALSE])
    /\ UNCHANGED <<head, tree, fetcher, noted, pending, running, spent>>

\* The change source has reported head[p] and the tree stayed stable: the
\* branch scheduler requests a fetch of that revision.
BranchScheduler(p) ==
    /\ noticed[p] < head[p]
    /\ noticed' = [noticed EXCEPT ![p] = head[p]]
    /\ fetchq' = Enqueue(fetchq, [job |-> "fetch", proj |-> p, rev |-> head[p], package |-> FALSE])
    /\ UNCHANGED <<head, tree, fetcher, noted, pending, running, spent>>

\* Mutant: the clean builder sorts before the daily builder.
NightlyCleanFirst(p) ==
    /\ p \in Daily /\ noted[p] # NoRev
    /\ Happens("night")
    /\ noted' = [noted EXCEPT ![p] = NoRev]
    /\ LET daily == [job |-> "daily", proj |-> p, rev |-> noted[p], package |-> TRUE]
           clean == [job |-> "clean", proj |-> p, rev |-> noted[p], package |-> FALSE]
       IN  fetchq' = Enqueue(Enqueue(fetchq, clean), daily)
    /\ UNCHANGED <<head, noticed, tree, fetcher, pending, running>>

\* At the hour of the daily builds, the stamp that was noted is used up.  The
\* two requests have the same time: Buildbot then goes by the builders' names,
\* and "zzz_clean" comes after "daily".
NightlyScheduler(p) ==
    /\ p \in Daily /\ noted[p] # NoRev
    /\ Happens("night")
    /\ noted' = [noted EXCEPT ![p] = NoRev]
    /\ LET daily == [job |-> "daily", proj |-> p, rev |-> noted[p], package |-> TRUE]
           clean == [job |-> "clean", proj |-> p, rev |-> noted[p], package |-> FALSE]
       IN  fetchq' = Enqueue(Enqueue(fetchq, daily), clean)
    /\ UNCHANGED <<head, noticed, tree, fetcher, pending, running>>

ForceFetch(p, pkg) ==
    /\ "fetch" \in Forced
    /\ Happens("force")
    /\ fetchq' = Enqueue(fetchq, [job |-> "fetch", proj |-> p, rev |-> NoRev, package |-> pkg])
    /\ UNCHANGED <<head, noticed, tree, fetcher, noted, pending, running>>

ForceClean(p) ==
    /\ "clean" \in Forced
    /\ Happens("force")
    /\ fetchq' = Enqueue(fetchq, [job |-> "clean", proj |-> p, rev |-> NoRev, package |-> FALSE])
    /\ UNCHANGED <<head, noticed, tree, fetcher, noted, pending, running>>

\* A forced platform build has no revision, whatever its package box says.
ForceBuild(p, t) ==
    /\ "build" \in Forced /\ t \in CompBuilders(p)
    /\ pending' = pending \cup
         {[proj |-> p, plat |-> t, rev |-> NoRev, package |-> TRUE, by |-> "force"]}
    /\ UNCHANGED <<head, noticed, tree, fetchq, fetcher, noted, running, spent>>

-----------------------------------------------------------------------------
(***************************************************************************)
(* The fetcher worker.                                                     *)
(***************************************************************************)

\* Mutant: the clean builder has no step of its own.
FirstStepNoClean(j) == CASE j = "fetch" -> "git" [] OTHER -> "build"

\* The git step of a fetch, the one trigger step of a daily build, the one clean
\* step of a clean build.
FirstStep(j) == CASE j = "fetch" -> "git" [] j = "daily" -> "trigger" [] j = "clean" -> "clean"

\* The idle fetcher takes the oldest request; lock_build keeps it to one build.
StartJob ==
    /\ step = "idle" /\ fetchq # <<>>
    /\ job' = Head(fetchq)
    /\ fetchq' = Tail(fetchq)
    /\ step' = FirstStep(job'.job)
    /\ got' = job'.rev
    /\ UNCHANGED <<head, noticed, tree, noted, pending, running, spent>>

\* Mutant: the source steps have no lock.
WriteUnlocked(from, to) ==
    /\ step = from
    /\ step' = to
    /\ tree' = [tree EXCEPT ![job.proj].st = "writing"]
    /\ UNCHANGED <<head, noticed, fetchq, job, got, noted, pending, running, spent>>

\* Git and patch acquire lock_src for exclusive access and start to write.
BeginWrite(from, to) ==
    /\ step = from /\ Readers(job.proj) = {}
    /\ step' = to
    /\ tree' = [tree EXCEPT ![job.proj].st = "writing"]
    /\ UNCHANGED <<head, noticed, fetchq, job, got, noted, pending, running, spent>>
BeginGit == BeginWrite("git", "checkout")
BeginPatch == BeginWrite("patch", "patching")

AfterSource(p) == IF p \in Daily THEN "note" ELSE "trigger"

\* Git checks out the revision of the source stamp, or the tip without one.
EndGit ==
    /\ step = "checkout"
    /\ got' = IF job.rev = NoRev THEN head[job.proj] ELSE job.rev
    /\ tree' = [tree EXCEPT ![job.proj] =
                  [rev |-> got', st |-> IF job.proj \in Patched THEN "raw" ELSE "ready"]]
    /\ step' = IF job.proj \in Patched THEN "unpatched" ELSE AfterSource(job.proj)
    /\ UNCHANGED <<head, noticed, fetchq, job, noted, pending, running, spent>>

\* The patch step starts and asks for lock_src, which git gave back when it
\* ended: platform builds may have taken it in between.
AskPatch ==
    /\ step = "unpatched"
    /\ step' = "patch"
    /\ UNCHANGED <<head, noticed, tree, fetchq, job, got, noted, pending, running, spent>>

EndPatch ==
    /\ step = "patching"
    /\ tree' = [tree EXCEPT ![job.proj].st = "ready"]
    /\ step' = AfterSource(job.proj)
    /\ UNCHANGED <<head, noticed, fetchq, job, got, noted, pending, running, spent>>

Idle == job' = NoJob /\ step' = "idle" /\ got' = NoRev

\* A git or patch step fails, before it writes or in the middle: both steps
\* halt the build, and what is in the directory stays there.
SourceFails ==
    /\ step \in {"git", "checkout", "patch", "patching"}
    /\ Happens("fail")
    /\ Idle
    /\ UNCHANGED <<head, noticed, tree, fetchq, noted, pending, running>>

\* "Updating source stamp": the daily scheduler keeps got_revision, no build starts.
NoteStamp ==
    /\ step = "note"
    /\ noted' = [noted EXCEPT ![job.proj] = got]
    /\ step' = "trigger"
    /\ UNCHANGED <<head, noticed, tree, fetchq, job, got, pending, running, spent>>

\* "Building all platforms": one request per compiling builder, with the
\* revision of the parent; the daily build sets the package property itself.
TriggerBuilds ==
    /\ step = "trigger"
    /\ pending' = pending \cup
         {[proj |-> job.proj, plat |-> t, rev |-> got, package |-> job.package, by |-> job.job]
            : t \in CompBuilders(job.proj)}
    /\ step' = "wait"
    /\ UNCHANGED <<head, noticed, tree, fetchq, job, got, noted, running, spent>>

\* Builds that the fetcher's build waits for.
InRunning == {running[w] : w \in {v \in Builders : running[v] # Free}}
Awaited == {r \in pending \cup InRunning : r.by \in {"fetch", "daily"}}

\* Mutant: the trigger step lacks waitForFinish.
FinishWithoutWaiting ==
    /\ step \in {"wait", "clean"}
    /\ Idle
    /\ UNCHANGED <<head, noticed, tree, fetchq, noted, pending, running, spent>>

FinishJob ==
    /\ \/ step = "wait" /\ Awaited = {}
       \/ step = "clean"
    /\ Idle
    /\ UNCHANGED <<head, noticed, tree, fetchq, noted, pending, running, spent>>

-----------------------------------------------------------------------------
(***************************************************************************)
(* The builder workers.                                                    *)
(***************************************************************************)

\* Worker w starts request r: its lock_build, lock_src of the project and, for
\* an Android platform, the android lock are all available.
StartBuild(w, r) ==
    /\ r \in pending /\ running[w] = Free
    /\ SrcAvailable(r.proj)
    /\ r.plat \in Android => AndroidAvailable
    /\ pending' = pending \ {r}
    /\ running' = [running EXCEPT ![w] = r]
    /\ UNCHANGED <<head, noticed, tree, fetchq, fetcher, noted, spent>>

FinishBuild(w) ==
    /\ running[w] # Free
    /\ running' = [running EXCEPT ![w] = Free]
    /\ UNCHANGED <<head, noticed, tree, fetchq, fetcher, noted, pending, spent>>

\* A request whose build or whose parent's build was cut short.
Orphaned(r) == IF r.by = "force" THEN r ELSE [r EXCEPT !.by = "orphan"]

\* The master dies and is restarted.  Requests and the noted stamps are in its
\* database, locks and builds are not: what ran is requested again, the
\* fetcher's request first in line because it is the oldest.
Crash ==
    /\ Happens("cut")
    /\ fetchq' = IF step = "idle" THEN fetchq ELSE <<job>> \o fetchq
    /\ Idle
    /\ pending' = {Orphaned(r) : r \in pending \cup InRunning}
    /\ running' = [w \in Builders |-> Free]
    /\ UNCHANGED <<head, noticed, tree, noted>>

\* The fetcher worker is lost in the middle of a build, which Buildbot retries: its
\* request is the oldest again.  The trigger step is interrupted and cancels what
\* it waits for.  That does not stop a platform build at once, and a request that
\* is just being claimed may get away: both go on as orphans.
LoseFetcher ==
    /\ step # "idle"
    /\ Happens("cut")
    /\ fetchq' = <<job>> \o fetchq
    /\ Idle
    /\ \E cancelled \in SUBSET (pending \cap Awaited) :
         pending' = {IF r \in Awaited THEN Orphaned(r) ELSE r : r \in pending \ cancelled}
    /\ running' = [w \in Builders |->
                    IF running[w] \in Awaited THEN Orphaned(running[w]) ELSE running[w]]
    /\ UNCHANGED <<head, noticed, tree, noted>>

\* Worker w is lost in the middle of a platform build: its request is open again.
LoseBuilder(w) ==
    /\ running[w] # Free
    /\ Happens("cut")
    /\ pending' = pending \cup {running[w]}
    /\ running' = [running EXCEPT ![w] = Free]
    /\ UNCHANGED <<head, noticed, tree, fetchq, fetcher, noted>>

-----------------------------------------------------------------------------
Scheduler ==
    \E p \in Projects :
        \/ Commit(p) \/ BranchScheduler(p) \/ NightlyScheduler(p)
        \/ \E pkg \in BOOLEAN : ForceFetch(p, pkg)
        \/ ForceClean(p)
        \/ \E t \in Platforms : ForceBuild(p, t)

FetcherStep ==
    \/ StartJob \/ BeginGit \/ EndGit \/ AskPatch \/ BeginPatch \/ EndPatch \/ SourceFails
    \/ NoteStamp \/ TriggerBuilds \/ FinishJob

BuilderStep ==
    \E w \in Builders : FinishBuild(w) \/ \E r \in pending : StartBuild(w, r)

\* What is cut short is done again.
Retry == Crash \/ LoseFetcher \/ \E w \in Builders : LoseBuilder(w)

Next == Scheduler \/ FetcherStep \/ BuilderStep \/ Retry

Spec == Init /\ [][Next]_vars

(***************************************************************************)
(* Fairness.  A step that is running ends, a worker that can take the      *)
(* oldest request takes it.  Buildbot serves the builders oldest request   *)
(* first, so a request that is startable again and again is not passed     *)
(* over for ever.  Nothing is assumed of commits, buttons, failures,       *)
(* crashes or losses; the branch scheduler's timer does run out.           *)
(***************************************************************************)
Progress ==
    \/ StartJob \/ BeginGit \/ EndGit \/ AskPatch \/ BeginPatch \/ EndPatch
    \/ NoteStamp \/ TriggerBuilds \/ FinishJob

Fairness ==
    /\ WF_vars(Progress)
    /\ \A p \in Projects : WF_vars(BranchScheduler(p))
    /\ \A w \in Builders : WF_vars(FinishBuild(w))
    /\ \A p \in Projects, t \in Platforms, by \in {"fetch", "daily", "force", "orphan"} :
         SF_vars(\E w \in Builders, r \in pending :
                   r.proj = p /\ r.plat = t /\ r.by = by /\ StartBuild(w, r))

FairSpec == Spec /\ Fairness

-----------------------------------------------------------------------------
(***************************************************************************)
(* Properties.                                                             *)
(***************************************************************************)

\* A source tree is never written while a platform build reads it
\* (builds.py, "Lock used to avoid writing source code when it is read by
\* another task").
NoWriteWhileRead == \A p \in Projects : Writing(p) => Readers(p) = {}

\* The source directory of r's project holds what r is labelled with, complete and
\* patched.
Fits(r) == tree[r.proj] = [rev |-> r.rev, st |-> "ready"]

\* A platform build that a fetch is waiting for, running or still in the queue, is
\* labelled with what the source directory holds: the fetcher is "locked all the
\* way through the build process".  That goes for the fetch that is run again after
\* a crash or a loss too, with orphans of the first beside it.
FetchedRevisionIsBuilt == \A r \in pending \cup InRunning : r.by = "fetch" => Fits(r)

\* The labels of all builds that have one (a forced build has none) go wrong in two
\* ways only: a daily build is launched on another revision than the noted one, and
\* a request that has lost its parent to a crash or a loss has not started when a
\* source step of its project does.  A build that started with the right label keeps
\* it to its end, orphan or not, and one that is put back keeps what it had.
LabelsHold ==
    [][\A r \in (pending \cup InRunning)' : r.by # "force" /\ ~Fits(r)' =>
         \/ \E q \in pending \cup InRunning : r \in {q, Orphaned(q)} /\ ~Fits(q)
         \/ r.by = "daily" /\ step = "trigger"
         \/ r.by = "orphan" /\ r \notin InRunning' /\ Writing(r.proj)']_vars

\* While the clean builder deletes old packages, no platform build of that
\* project can upload one, as long as neither the master is restarted nor a worker
\* lost: everything that packages holds the fetcher through its parent.
NoUploadDuringClean ==
    step = "clean" /\ spent["cut"] = 0 =>
        \A r \in pending \cup InRunning : r.proj = job.proj => ~Packages(r)

\* The farm implements FetchThenBuild: per project, the content is its source
\* directory, the readers are the workers that hold lock_src, and the platforms
\* owed are those of the awaited builds.  The source never changes under a
\* build, nor between the launch of a set of builds and the end of the last.
Promise == INSTANCE FetchThenBuild WITH
    Contents <- Tree,
    Workers <- Builders,
    content <- tree,
    reading <- [p \in Projects |-> Readers(p)],
    todo <- [p \in Projects |-> {r.plat : r \in {q \in Awaited : q.proj = p}}]
ImplementsFetchThenBuild == Promise!Spec

\* Two workers that build the same platform of the same project share one
\* build directory.  Without forced builds and orphans that never happens.
BuildDirectoryShared(v, w) ==
    /\ v # w /\ running[v] # Free /\ running[w] # Free
    /\ running[v].proj = running[w].proj /\ running[v].plat = running[w].plat
OnlyForcedBuildsShareADirectory ==
    \A v, w \in Builders : BuildDirectoryShared(v, w) =>
        {running[v].by, running[w].by} \cap {"force", "orphan"} # {}

\* Every nightly daily build has a nightly clean of its project behind it in the
\* fetcher's queue, from the night on until the build is over (builds.py, "We
\* cleanup after it because we just generated a new package"): across requests
\* that collapse, of one night or of several, and across restarts and lost workers.
NightlyClean(r, p) == r.job = "clean" /\ r.proj = p /\ r.rev # NoRev
CleanAfterDaily ==
    /\ \A i \in 1..Len(fetchq) : fetchq[i].job = "daily" =>
         \E k \in (i + 1)..Len(fetchq) : NightlyClean(fetchq[k], fetchq[i].proj)
    /\ job.job = "daily" => \E k \in 1..Len(fetchq) : NightlyClean(fetchq[k], job.proj)

\* Two Android platforms are never built at the same time, whatever the project
\* (platforms.py, "avoid concurrency conflicts in gradle").
OneAndroidBuild ==
    \A v, w \in Builders :
        v # w /\ running[v] # Free /\ running[w] # Free /\ running[v].plat \in Android
            => running[w].plat \notin Android

\* Whatever the fetcher does ends: a git step does not wait for ever behind
\* forced builds that keep coming, nor a fetch for platform builds that wait
\* for it.
FetcherComesFree == step # "idle" ~> step = "idle"

\* A change that the branch scheduler has seen reaches the source directory,
\* even when its request is collapsed into a later one.
ChangesAreFetched ==
    \A p \in Projects : \A r \in 2..MaxRev :
        noticed[p] = r ~> tree[p].rev >= r /\ tree[p].st = "ready"

-----------------------------------------------------------------------------
(***************************************************************************)
(* What comments say and the code does not do.                             *)
(***************************************************************************)

\* A daily build is labelled with the revision it is made of: the daily
\* scheduler is there "to take note of the last fetched source" and the daily
\* builder uses the fetcher to "prevent building of other stuff like if a
\* change had happened".
DailyRevisionIsBuilt ==
    \A r \in pending \cup InRunning :
        r.by = "daily" => tree[r.proj] = [rev |-> r.rev, st |-> "ready"]
=============================================================================
