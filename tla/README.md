# Verification of dockerized-bb

TLA+ models of the ScummVM build farm: the Buildbot master configured by
`buildbot-config/`, the Docker workers it runs, the packages it publishes. The
program `check-versions/`, which tells the maintainers what has a newer release
upstream, is the second part. The modules are translated from the sources, checked with
TLC on small instances, and their safety is proved with TLAPS for instances of any size,
apart from two tables and formats (section 5.2).

Source paths below are relative to `src/`.

## 1. The system

A developer's commit is seen by a Git poller. A *fetch* build brings the source
directory of the project up to date, patches it, and launches a build for every
platform. Every night a *daily* build launches the same builds, cleaned and
packaged, and a *clean* build removes old packages. Users may force any of them.

    commit -> GitPoller -> branch scheduler --> fetch --+--> platform builds --> packages
                            nightly scheduler -> daily -+          ^                 |
                                             \-> clean ------------|---------------->+
                            force schedulers -> fetch, clean, -----+

One worker (the *fetcher*) runs all fetch, daily and clean builds, one at a time;
`max_parallel_builds` workers (the *builders*) run the platform builds. They share
the host's directories, which they mount: the sources (the fetcher writes them, the
builders mount them read-only) and one build directory per project and platform.

`check-versions` is a program of its own: it finds version lines in the Dockerfiles and
scripts, asks the servers of git, hg, svn, Docker and the web from ten threads what is
newest, and prints lists of what is new, missing, obsolete or failed.

### 1.1 Components

| component | state it keeps | operations | it must |
|---|---|---|---|
| Build farm: `builds.py`, `workers.py` | queues, locks, what each worker does, source trees, the source stamp noted for the night | schedulers fire, a build starts, goes through its steps, ends, fails; the master restarts | never write a tree while it is built; build what was fetched; keep cleaner and uploads apart; come to an end |
| Platform build: `builds.py`, `utils/scummsteps.py` | a build directory that outlives the builds | clean, age check, configure, compile, test, strip, package | never compile with an outdated configuration; package what the name says |
| Daily packages: `utils/scummsteps.py` | a directory of packages and latest links | upload, link, scan, remove | never lose what is published or recent; tidy up the rest |
| Workers: `workers.py`, `utils/worker.py` | directories with ACLs, the ids of the workers' user | create volumes, set ACLs, start and stop containers | let a worker write to what it mounts |
| Configuration and reload: `master.cfg` | Python modules | reload all modules | leave modules consistent with each other |
| Platforms: `platforms.py` | settings by platform, some by build | look a setting up for a build | find the most specific setting |
| Daily builds page: `utils/list_daily_builds` | none; reads the directory of packages | list latest packages | give out URLs that work |
| Discord reporter: `utils/discord.py` | none between reports | post embeds in groups of ten | post every report once |
| Web interface: `ui.py` | none | settings | - |
| check-versions: `check-versions.py`, `checkers.py` | queue of work, cache shared by the threads, lists of results | scan files, look up in the pool, sort results | account for every line; end |
| Order of versions: `versioning.py` | none | parse, compare | be the order of Debian and coreutils |
| Docker: `docker_checkers.py` | the calls under way | HEAD, GET, token, again | end; GET only for lists |
| svn: `svn_protocol.py`, `svn_checkers.py` | a connection | connect, authenticate, check-path, get-dir, close | keep question and answer together; close |
| git, hg, web: `git_checkers.py`, `hg_checkers.py`, `web_checkers.py` | none | read the list of names, choose the newest | take no partial list for a whole one |
| Images: `Makefile`, `toolchains/`, `workers/` | Docker images, time stamps | build, download, push, clean | rebuild what changed |

How they interact: schedulers put build requests in Buildbot's queues; the fetch
and daily builds *trigger* platform builds and wait for them while they hold the
fetcher; platform builds and the fetcher meet in `lock_src` (a lock of the master),
builds of one worker in `lock_build`, Android builds in `android_lock`; packaging
builds and the cleaner meet in the directory of packages without any lock; the
master's modules call each other when the configuration is (re)loaded; the ACLs of
a volume are set by a subprocess that runs beside the start of the container.

### 1.2 What is hard

* *Locks and waiting.* The fetch build holds the fetcher while platform builds,
  which need the locks too, run. Forced builds come from outside this order.
* *Restarts and lost workers.* Requests are in a database, builds and locks are not.
  After a restart, or when the fetcher is lost, a child of a fetch may run without its
  parent, and the parent runs again.
* *Leftovers.* Build directories and package directories outlive builds that fail or
  are stopped half-way.
* *Time.* mtimes have whole seconds; packages age while nobody looks.
* *List, then act.* The cleaner acts on a list; apply_acls works beside its caller.
* *Servers.* They fail, refuse, go away in the middle of a message, publish while they
  are asked, and are asked by threads that share a cache. Nothing has a timeout.
* *Formats.* Versions, refs and messages with corner cases at their ends.

`PROJECT.json` lists the hazards one by one with their lines.

## 2. Modules

| module | models | composed with |
|---|---|---|
| `FetchThenBuild` | abstract specification: what the locks promise | implemented by `BuildFarm` |
| `BuildFarm` | `builds.py` schedulers, builders and locks | `MCBuildFarm` for TLC |
| `BuildFarmProofs`, `FarmRefinementProofs` | theorems about `BuildFarm` | the second extends the first |
| `DailyBuilds` | upload, link and `CleanupDailyBuilds` | relies on `BuildFarm` for "cleaner alone" |
| `PlatformBuild` | the steps of a platform build | relies on `BuildFarm` for a source that stays put |
| `WorkerVolumes` | `DockerWorker.start_instance`, `apply_acls`, reload | - |
| `CheckVersions` | queue, pool, cache and lists of `check-versions.py` | its checkers are the next four |
| `DockerDigest` | chain of calls of `_fetch_digest`, twice per check | `MCNetworkClients` for TLC |
| `SvnSession` | svn client and server, message by message | `MCNetworkClients` for TLC |
| `DailyBuildsProofs` | theorems about `DailyBuilds`: what is published, what is cleaned | extends it |
| `PlatformBuildProofs`, `WorkerVolumesProofs`, `CheckVersionsProofs` | theorems about `PlatformBuild`, `WorkerVolumes`, `CheckVersions` | extend them |
| `NetworkClientsProofs` | theorems about `DockerDigest` and `SvnSession` | extends `MCNetworkClients` |
| `SvnWire` | the bytes of those messages (`build_reply`, `read_tuple`) | `MCFormats` for TLC |
| `Versioning` | `versioning.py`, and Debian's order as the reference | used by `TagChoice` |
| `TagChoice` | refs and tags read, filtered, sorted, the newest chosen | used by `VersionCalls` |
| `VersionCalls` | one call of these functions with any input, and what it has to answer | `MCFormats` for TLC |
| `VersionCallsProofs` | theorems about `VersionCalls`: order, refs, tags | extends it |
| `PlatformSettings` | the table of `platforms.py`, its look-ups and the builders made of it | `MCFormats` for TLC |

`PlatformBuild` and `DailyBuilds` use what is shown of `BuildFarm`: that the source is
not written during a build (`SourceIsStable`), that the revision on the label of a build
which a fetch waits for is the one it reads (`FetchedRevisionIsBuilt`; the label of a daily
build or of an orphan may be another one, which is `Labels` of `PlatformBuild`), and that
uploads do not meet the cleaner unless the master was restarted or a worker lost
(`NoUploadDuringClean`; then they do, which is `Scan` "beside").

### 2.1 BuildFarm

State: `head` (upstream), `noticed` (poller and branch scheduler), `tree` (source
directories: a revision that is being written, is not patched yet, or is ready),
`fetchq`/`job`/`step`/`got` (the fetcher), `noted` (the stamp the nightly scheduler
keeps), `pending`/`running` (platform builds).

| action | code |
|---|---|
| `BranchScheduler`, `NightlyScheduler`, `ForceFetch`, `ForceBuild`, `ForceClean` | `getSchedulers` |
| `StartJob`, `BeginGit`, `EndGit`, `AskPatch`, `BeginPatch`, `EndPatch`, `SourceFails`, `NoteStamp`, `TriggerBuilds`, `FinishJob` | the factories of `getGlobalBuilders`, step by step |
| `StartBuild`, `FinishBuild` | `getPerPlatformBuilders` with its locks |
| `Crash` | the master dies and is started again: all requests are open, none has a parent |
| `LoseFetcher` | its worker goes away: Buildbot runs the request again; the builds it waited for are cancelled or go on as orphans |
| `LoseBuilder` | its worker goes away: the request is open again, with its parent |

Choices a reader should know:

* A build's claim, its container's start and the acquisition of all its builder locks
  are one step: Buildbot acquires all locks of a build or none.
* The git and patch steps wait for `lock_src` in line: a waiting exclusive access keeps
  later counting ones out (`SrcAvailable`). `farm_liveness` needs this. Git gives the
  lock back before the patch step asks for it; in between (`step` is "unpatched") platform
  builds may take it and read a tree that is not patched.
* Requests collapse (Buildbot's default) when builder and properties are the same and
  both have a revision or both have none. `Drop` is applied twice, since at most two
  older requests can be redundant: one put back by a restart or a loss and a newer one.
* The nightly scheduler requests daily and clean at the same time; that daily goes first
  rests on Buildbot's tie-break by builder name (`daily-` sorts before `zzz_clean-`).
* A forced build comes with no revision: its codebase parameter is hidden and empty.

### 2.2 PlatformBuild

State: `now` (seconds), `src` (revision; version and mtime of `configure`), `dir` (the
build directory: generated file, configuration, binaries, package directories,
archives), `build` (step and properties). Each step of the factory is an action with its
success and failure; `haltOnFailure` and `flunkOnFailure` decide whether a failed step
ends the build. `Cut` stops a build in any step and leaves the step half done. Git gives a
changed file the time of its checkout. The second compile step (devtools) is folded into
`Compile`. `Start` takes who asked for the build and the revision on its label. For a
fetch that is the revision in the source directory; for a daily build or an orphan it is
any that has been fetched; a forced build has none. Revisions are numbered in the order in
which they are fetched, so that a fetch which goes back to an older commit counts as one
more.

### 2.3 DailyBuilds

State: the directory (`dir`), the packaging builds (`upload`), the cleaner with its list
(`cleaner`, `toClean`: how often each name is on the list). `Scan` is the whole
first half of `CleanupDailyBuilds.run`, which does not yield; `Remove` is one turn of the
loop of removals, which yields to the log between two files. Names without a revision
have 0 for it. Any revision may be uploaded after any other: nothing in the steps compares
them, and `ln -sf` links whatever was built last.

Time comes in moments. A package gets a moment of its own when its upload ends, so the
packages of a platform have an order by time; moments also pass with nothing happening.
`overtaken` is a history variable: the names that an upload or a link step has put in place
while a cleaner beside it had them on its list. The cleaner removes such a name although it
has judged what was there before. That is the one exception which `PublishedStays` and
`NothingRecentIsLost` make.

Assumptions: something can be packaged at all (`MaxRev` is not 0); one packaging build per
platform at a time; a build makes its link, or is broken off, before the package it has
just uploaded is obsolete (`Timely`).

### 2.4 WorkerVolumes

State: what each directory is to the workers' user, the ids the master uses, the setfacl
processes under way and the mounts of each container. `StartInstance` creates missing
directories and starts setfacl; nothing makes `Started` wait. `Reload` runs the modules in
the order of their first import. Both setfacl calls for a directory are one, the user and
group ids one value, and the three other volumes of a builder are like its build
directory.

### 2.5 CheckVersions

State: what the configuration watches (`watch`), what is published (`upstream`), the lines
found (`queue`), the main thread (`phase`, `next`), and per line where its work is and what
it has found (`job`, `answer`); the `cache`, `seen` and the lists (`report`).

| action | code |
|---|---|
| `PreHandle` | one turn of the generator that `pool.map` draws from: missing, broken or submitted |
| `Take`, `Fetched`, `Fails` | `handle_version` in a thread, with `lru_cache` around what is fetched |
| `PoolEnds` | the end of the `with`, after which an exception of the generator goes on |
| `PostHandle`, `PrintLists` | the results in order of submission; then `main`, whose print functions sort each list by path |
| `Release` | a new version is published, before or between two fetches |

`pool.map` submits all work before the first result is looked at, while threads are
already at it; that is why a broken entry ends the program only after everything submitted
before it has been done, and lost. A line is where it stands (`Paths`, numbers in the
order of the paths) and what it asks for (`Names`), so several lines may be of one path,
and their order among themselves is what Python's stable sort keeps. Equal versions are
printed only with `Debug`. A checker is abstracted to one page it fetches through the
cache. The results come in the order of the lines: `NextResult(i)` says that line `i` is
the first one from `next` on whose work has an answer, which is what iterating over
`pool.map` yields. `lru_cache` has no lock around the call, so two threads that miss
together both fetch, and the first to come back fills the cache.

### 2.6 DockerDigest, SvnSession, SvnWire

`DockerDigest` keeps the calls of `_fetch_digest` as a stack, each with its `full` and
`token` arguments. What matters is who catches an HTTPError: the request for a token is
made in an `except` clause, so its refusal leaves that call and may reach an outer call's
`try`, which takes it for the registry's answer and asks for another token. The 401, the
content type and the token's answer are free.

`SvnSession` is the client and a server that owes answers (`due`), with what is on the
wire between them. Server failures, unexpected answers and a server that goes away are
possible at every point. A refused authentication is an outcome of its own ("refused"),
since it is the one failure in connect after which the socket is closed. `ReadKind` sends
a directory on; for a file the code calls a method that lacks `self` and raises. `SvnWire`
is the layer below: bytes, one at a time, as `read_tokens` takes them, including the space
and the newline that `SPACES` has and the empty string at the end of a stream. It is
recursive and so stays with TLC.

### 2.7 Versioning, TagChoice, VersionCalls; PlatformSettings, MCFormats

Pure functions as operators. `VersionCalls` makes a state machine of those that versions
and lists of names go through: each is called once with any input, so that a property
compares what was asked with what came back. Strings are sequences of bytes; loops are
recursive functions, one turn each, which is what the proofs need.

`Versioning.Less` has three outcomes, since `__lt__` can also raise; None, which it
returns for versions that differ in writing only, counts as false. The reference
(`Precedes`) is Debian's: integer keys compared like words of a dictionary. Two versions
are `Alike` if it leaves them in no order (1.2 and 1.02) or the comparison raises
(1.2rc and 1.2rc1). `LatestIndex` is what a sort that uses `__lt__` puts first, as long as
being in no order passes on from one pair to the next. It does not where extensions come
in: 1.2.tar comes before 1.2.zip, and 1.02.tar is in no order with either. Which of the
three ends up first then depends on where they are in the list and on Python's sort;
`EqualIsNewest` says nothing of lists with two versions that are alike. An extension ends
where the string does or before a newline that ends it, as `$` has it (`Suffix`).

`SmartRefs` reads packets as `parse_smart_refs` does. Only the first packet may be the
version, and only the first line is split from its capabilities. A later packet is a line
whatever it is: a second "version 1" becomes a ref `1`, a late "no refs" one with that
name, and capabilities after a NUL stay in the name (`LineRead`). Only a packet that has no
data (delim) makes it raise.

`MCFormats` gives `VersionCalls` its bounded inputs, and in the same way calls the functions
that stay with TLC: messages of `SvnWire`, which are
recursive, and the builders of `PlatformSettings`. Its table keeps, for each of the 38
platforms, the settings that decide which steps and locks a builder gets; flags and
environments are left out, a list of files is a name.

## 3. Runs

| run | question | bounds | states |
|---|---|---|---|
| `farm_restart` | safety and refinement with a failing source step, and a crash or a lost worker, anywhere | 1 project, 2 platforms (1 Android), 2 builders, 2 revisions, 2 nights, 1 forced fetch or clean, 1 failure, 1 crash or loss | 547 700 |
| `farm_liveness` | does the fetcher come free, are changes fetched? | 3 revisions, forced platform builds without bound | 5 900 |
| `farm_daily_label` | violation, see section 4 | 3 revisions, one platform | |
| `daily_nightly` | retention and cleaning, alone and beside uploads in any order of revisions | 1 platform and a former one, 3 revisions, 5 moments, keep 1, obsolete after 2, both settings of cleanup_unknown | 2 260 000 |
| `daily_twice` | violation | keep one package, obsolete after a moment | |
| `build_steps` | build directory across builds, whoever asked for them | 2 revisions, 4 seconds, any number of builds | 2 156 000 |
| `volumes_reloaded` | ACLs beside containers, then a reload | fetcher and builder, 2 platforms | 266 000 |
| `volumes_early`, `volumes_uid` | violations | as above, two builders | |
| `check_versions` | lists, their order, stale answers, termination | 4 lines, 2 paths, 1 page, 2 threads, 3 versions | 74 000 |
| `network_clients` | bounded requests, paired answers, closed sockets, termination | none: both are finite | 400 |
| `formats` | each function without state against what it is to compute: order of versions, refs, newest tag, messages of svn, builders of all platforms | see below | 171 000 |

Why the bounds suffice: two platforms and two builders are what it takes for an awaited
and a forced build to overlap, for one awaited build to be left while another is done,
and for two workers to meet in a directory. Two revisions let a fetch be behind, be
collapsed or change the tree under a label; the third, in `farm_liveness`, lets requests
collapse while a fetch runs. One crash or loss meets every state of the rest; what a second
one could add is orphans of orphans, which the theorems cover (section 5). The second night
meets what is left of the first: a fetch that is forced in between notes the same revision
again, so that its daily build is requested while the first night's clean build waits or
runs. Three packages and five moments exceed `KeepBuilds` = 1 and `ObsoleteAge` = 2 in every
order of revisions. Four seconds let a script be
fetched before, within and after the second in which a stamp was written. Builder names
are symmetric, except in the liveness run, which uses no symmetry.
Deadlock is checked in every run but four, which end: `farm_daily_label`, which has no
forced builds, stops when its commits and its night are used up; `check_versions` when the
results are printed; `network_clients` and `formats` when the calls have ended.

In `check_versions` two threads are what it takes to miss the cache together, and four
lines let further work follow for the same page while both are out; one page is
enough because pages do not touch each other; entries may be absent, ignored, broken or
watched. Two paths let a list be out of order and hold several lines of one path.

`formats` calls: `Less` on all pairs of strings of up to three bytes out of a dot,
two digits, a letter and the tilde, and of eleven longer versions (every branch of both
`__lt__`s, flags and suffixes included, two with a newline at the end); streams of up to
three packets, and of any two packets between a first line and the flush, with and without
the preface of HTTP, and as many lines of files; lists of up to three names for the
choice, those of two with versions that are alike. That longer inputs of
these three bring nothing new is proved. It also calls: messages of up to two values in a
tuple, nested once, with strings that hold parentheses and spaces, ended by a space or a
newline, cut at each of their last six bytes (`MaxCut`); all platforms for
three builds, white and black lists included.

Each property has a mutant of the code (the operator next to the original in the module)
under which TLC finds it violated.

### 3.1 Fairness

`FairSpec` assumes weak fairness of the fetcher's steps (a running step ends, an idle
worker takes the oldest request), of the branch scheduler's timer (`treeStableTimer`), and
of the end of each platform build (containers that hang are cut by Buildbot's timeouts);
and strong fairness of the start of the builds of one builder. The last is what
Buildbot's scheduling gives: builders are served oldest request first, so a request
that can start again and again is not passed over for ever. Nothing is assumed of
commits, buttons, failures, crashes or losses, and forced builds may keep coming without bound.

In `check_versions` and `network_clients` the main thread, the threads of the pool and the
client run, and a server answers, refuses or goes away. The last is an assumption
about the world: the code sets no timeout on any request, and a server that accepts a
connection and never answers stops a run for ever (a hazard in the list).

## 4. Where code and words differ

Four runs end in a violation; each checks what a comment or the documentation says.

* `farm_daily_label`: the daily build has no git step. A change fetched between the
  nightly request and the start of the daily build is packaged under the older revision.
* `daily_twice`: a package beyond `keep_builds` *and* obsolete is on the list twice, and
  its second removal makes the clean build fail.
* `volumes_early`: `apply_acls` is called without `yield`, so the container starts while
  setfacl runs.
* `volumes_uid`: a reload runs `workers` (which sets the ids) before `utils.worker`
  (which resets them to 0). New directories are then opened to the wrong user.

What the models have and a property therefore has to say:

* With a symbolic link on the way to `daily_builds_dir` the real path that is spared
  never equals the path that is scanned (`scummsteps.py:387`, `:416`), and the latest
  package goes when it is obsolete. `Canonical` is the assumption that there is none.
* A platform build forced before the first fetch makes Docker create the project's source
  directory for root, where the fetcher cannot write (`utils/worker.py:46`).
* A failed check is printed among the errors *and*, in debug mode, among the equal versions
  (`check-versions.py:86`): the error branch has no `return`. `EachWorkIsListed` says so.
* One entry of the configuration that cannot be looked up loses all answers
  (`check-versions.py:73`). `RunIsReported` says so.
* 1.2rc and 1.2rc1 cannot be compared: one way round raises a TypeError, the other gives
  false (`versioning.py:212`, where an empty string that has no integer counterpart meets
  a number). `OrderIsDebian` and `EqualIsNewest` say so.
* Versions that differ in writing only are equal to `__lt__` and different to `index`: with
  1.2 and 1.02 both listed, the one that the server lists first passes for the newest and
  the other does not. `EqualIsNewest` leaves such lists out.
* `.hgtags` ends in a newline, or is empty, and on both `hg_checkers.py:57` raises: no
  ordinary file of tags can be read. `RefsAreComplete` says so.
* A packet of git's answer that is no line of a ref is taken for one if it is not the first:
  a later "version 1" for the ref `1`, a later line with capabilities for a ref with these
  in its name (`git_checkers.py:95`). `RefsAreComplete` says what each packet is read as
  (`Line`).
* For hg and svn a version that is not listed raises instead of warning: the closing
  parenthesis of `format` comes before its last argument (`hg_checkers.py:93`,
  `svn_checkers.py:137`, `web_checkers.py:64`). `EqualIsNewest` says so.
* A socket stays open when the session fails in connect, other than by a refused
  authentication (`svn_protocol.py:38`): nothing closes it there, and `with` has not been
  entered. `SocketsAreClosed` says so.
* Two files of a cleaner's list may be others by the time they are removed: what an upload
  puts in place of a listed name goes (`scummsteps.py:433`). This takes a restart or a lost
  worker, since otherwise the cleaner is alone. `PublishedStays` and `NothingRecentIsLost`
  except exactly that (`overtaken`).

Noticed in reading, with no property: a forced build with the package box
strips (`scummsteps.py:115`) though it never packages (`:236`); the nightly scheduler
is said to be triggered after the regular builds (`builds.py:162`) and is triggered before
(`:228`); `utils/worker.py:34` adds `root_gid` to `worker_uid` for the gid; `util.WARNING`
(`scummsteps.py:406`) does not exist in Buildbot; a latest link with a former archive
extension may take the current one's place among the remembered links
(`scummsteps.py:393`); `utils/discord.py` uses `log` without importing it, so that a
post that is refused raises; `docker_checkers.py:101` uses `collections.abc` without
importing it; `git_checkers.py:136` and `svn_checkers.py:54` name a variable `repository`
that is not there; `platforms.py:617` says stable builds have no target for the NDS
yet, but the settings of a class hold for what inherits from it, the stable build
included; the `strip_cmd` of Windows is not used for ScummVM, which has a packaging
command (`builds.py:424`).

Nothing guards two builders that build the same platform, one of them forced: with
`max_parallel_builds` above one they share a directory. What holds is that this takes a
forced build, or an orphan that a restart or the loss of the fetcher has left
(`OnlyForcedBuildsShareADirectory`). An orphan can also be mislabelled: if the fetch that
runs again checks out a newer head before the orphan starts, the orphan builds that under
the older revision. `LabelsHold` says that labels go wrong in this way and in that of
`farm_daily_label`, and in no other.

## 5. Proofs

The theorems hold for any values of the constants: any sets of projects, platforms,
workers, lines, pages and directories, and any bounds. They assume the named assumption of
each module (`FarmAssumption`, `DailyAssumption`, ...: types of the constants), which TLC
evaluates in every run of the module, and nothing else except where the table says so.
With them every invariant and every action property that the passing runs check is proved,
the refinement included, apart from two of `formats` (section 5.2).

| module | theorem | says |
|---|---|---|
| `BuildFarmProofs` | `TypeCorrect` | `TypeOK` |
| | `SourceLock` | no tree is written while it is read |
| | `FetchedIsBuilt` | what a fetch waits for is made of the revision on its label, waiting or running |
| | `LabelsStayRight` | `LabelsHold`: over any steps, restarts and losses, a right label goes wrong only for an orphan that has not started |
| | `CleanIsAlone` | without a restart or a lost worker, no packaging build is there while the cleaner works |
| | `AndroidTakesTurns` | one Android build at a time |
| | `DailyIsCleanedAfter` | a daily build has a clean build behind it (`CleanAfterDaily`) |
| `FarmRefinementProofs` | `DirectoriesAreOwn` | only forced or orphaned builds share a build directory |
| | `FarmImplements` | `Spec => ImplementsFetchThenBuild` |
| | `SourceIsStable` | a tree does not change while it is read, from the abstract specification |
| `DailyBuildsProofs` | `DailyTypeCorrect` | `TypeOK` |
| | `PublishedStaysThere` | a latest package is never lost unless its name was overtaken, if `Canonical` and `KeepBuilds > 0` |
| | `RecentStays` | nothing recent is lost unless its name was overtaken |
| | `CleanLeavesTidy` | what a lone clean build leaves, if `Canonical` |
| `PlatformBuildProofs` | `BuildTypeCorrect` | `TypeOK` |
| | `CompiledAlike` | no build compiles with an outdated configuration |
| | `PackagesWhatItSays` | what is uploaded is made of the source and its configuration, and stripped; it is what its name says for a build that a fetch waits for |
| | `CleanedCanPackage` | a cleaned build does not trip over an earlier one |
| `WorkerVolumesProofs` | `VolumesTypeCorrect` | `TypeOK` |
| | `OpenStays` | an open directory stays open |
| | `SettledAreOpen` | without a reload, volumes are open once setfacl is through |
| `CheckVersionsProofs` | `ChecksTypeCorrect` | `TypeOK` |
| | `FewStaleAnswers` | fewer stale answers than threads, for each page |
| | `EveryWorkIsListed` | what is printed accounts for every line, once, ordered by path, and by line within a path |
| `NetworkClientsProofs` | `ClientsTypeCorrect` | `TypeOK` |
| | `GetsComeAfterHeads` | GET only for what HEAD said is a list |
| | `DigestsTakeFewRequests` | four requests for the manifest and two for a token at most |
| | `AnswersBelongToQuestions` | client and server stay in step |
| | `SessionsCloseSockets` | a session closes its socket, a refused one too, unless it failed otherwise in connect |
| `VersionCallsProofs` | `ComparesLikeDebian` | `__lt__` orders any two versions like Debian, or raises or says no for a number at the end |
| | `PrecedesIsAnOrder` | Debian's order, the reference, is irreflexive and transitive |
| | `RefsAreRead` | a list of refs is read whole or not at all, whatever packets it has |
| | `NewestIsRecognised` | a version passes for the newest exactly if it is, unless two are alike |

The two conditions are conditions of the code. Without `Canonical` (a symbolic link on the
way to the directory) nothing is spared and `PublishedStays` is false (section 4). With
`keep_builds = 0` a cleaner beside uploads may list a package between its upload and its
link and remove it once it is linked: nothing but the rule of keep_builds protects a
package that no link points at yet. TLC finds both when the conditions are dropped.

### 5.1 The arguments

**BuildFarm.** `TypeInv` adds to `TypeOK` that a job goes with its steps. The core
invariant is

    FarmInv == TypeInv /\ NoWriteWhileRead /\ AwaitedByJob /\ SourceAtHand

`FetchedRevisionIsBuilt` alone is not inductive: that a pending request fits the tree
says nothing of why the tree is not written next. `AwaitedByJob` gives the reason: an
awaited request exists only while the fetcher waits, for the same project, kind and
revision, so no other step of the fetcher can run. `SourceAtHand` ties the fetcher's
`got` to the tree from the checkout on, which is what the request inherits when it is
launched, and says that a tree is marked while a source step is at it. A crash, or the loss
of the fetcher, ends waiting and turns awaited requests into orphans at once; the loss of a
builder does not.

`LabelsHold` is about the steps that follow. `RequestsNext` says where a request of the next
state comes from: it was there, was cut off from its parent, was forced or is launched now.
What is launched by a fetch fits by `SourceAtHand`. What was there stops fitting only when
its tree changes, and `BeginWrite` is the step at which that happens: it has no readers, so
the request has not started, and the fetcher waits for nothing, so it is an orphan. Later
source steps work on a tree that is marked already.

`CleanIsAlone` adds `Provenance` (a forced request has no revision, an orphan needs
a crash). `DirectoriesAreOwn` and the refinement add `AwaitedInv`: awaited requests agree
in their package property and are run once, so that two of them for one platform are the
same, and the end of one takes its platform, and only it, off what is owed.
`FarmImplements` maps each action to a step of `FetchThenBuild`: `TriggerBuilds` to
`Launch`, `StartBuild` to `Read`, `FinishBuild` to `Done`, the writing steps to `Write`,
`Crash` to `Restart`, `LoseFetcher` to `Abandon`, the rest to stuttering.

`CleanAfterDaily` is about positions in a queue that requests leave in the middle.
`QueueInOrder` says it of one project at a time (`InOrder`, `HasClean`), and lemmas carry
these two through what the farm does to a queue: a request dropped because a newer one
stands for it (`DropInOrder`: a clean build is only dropped for a clean build that comes
last), one appended, the first taken, one put back. The property once told the two requests
of a night by their revision. That is false as soon as there are two nights, which TLC
showed while the proof was being written: a forced fetch notes a revision again, and its
second daily build can stand for the first. It now asks for a nightly clean build of the
project behind every daily build, which is what the comment in `builds.py` is about.

**DailyBuilds.** `PublishedStays` needs to know why the cleaner's list, made once, does no
harm later. `TimesAreOwn` gives the packages of a platform an order by time. A package
that is about to be linked is the most recent one, is not obsolete yet, and is off the
list unless it was put there over a listed name (`ReadyToLink`): a scan spares it
(`ScanSparesNewest`, which needs that one is kept), and no other package of the platform
comes until the link is made. `PublishedIsSafe` carries this on: a latest link that holds,
and what it leads to, are off the list or overtaken. A later scan spares both because of
the link (`ScanSparesLatest`, which needs `Canonical`); a link leads to a package of its
own platform (`LinksAreOwn`). Nothing here asks in which order revisions come.

`NothingRecentIsLost` compares a removal with the directory of that moment, not with that
of the scan. `RecentIsKept` bridges the time in between: of a package on the list that is
not obsolete, keep_builds others are not older *and not on the list*, so they outlast the
removals, and an upload can only make them newer. That this holds at the scan is the lemma
`KeptAhead`: what has keep_builds packages ahead of it has keep_builds kept ones ahead,
shown with the package of least rank that would not be kept. `CleanTidiesUp` rests on
`Tidy`: while a lone cleaner works, what is off its list is at most keep_builds packages,
which have different ranks below keep_builds (`KeptAreFew`), and the one package that the
platform's own link spares (`SparedAreOwn`).

**PlatformBuild.** `ConfiguredAlike` is the conclusion of a decision taken in an earlier
step, from time stamps with whole seconds. `BuildInv` therefore says what the files say:
no file is from the future (`FilesArePast`), a stamp that is newer than the script means a
configuration made by it (`FreshIsAlike`), and a build that left configure out had such a
stamp (`LeftOutIsFresh`). `BinariesAreOfSource` and `CleanedHasNoNames` carry revision and
names from compile and clean to package and upload; the first includes that a build which a
fetch waits for has the source's revision on its label as long as it runs.

**WorkerVolumes.** `VolumesAreSeenTo`: while the master knows its workers' user, a volume of
a running container is open, has failed, or has a setfacl that is still to run.

**CheckVersions.** `StaleAnswersAreFew` counts threads that missed the cache together.
`LateAreFew` counts, for each page, those that are still fetching it along with those that
came back with another version; once the cache is filled nobody joins them, and the first
to come back leaves them (`FirstFetched`). It needs that the pool is bounded
(`PoolIsBounded`) and that a work fetches only between `Take` and `Fetched` (`Basics`).
`EachWorkIsListed` follows from `ListsFit`, which says the same of the lines reported so
far; since results come in the order of submission, a line that is appended is beyond all
that a list has. What is printed is sorted: `SortedIs` shows that the places which
`Sorted` counts are a permutation, so each line is in the printed list once, and
`SortedInOrder` that they go up by path and, within a path, in the order found.

**Network clients.** For Docker, `CallsGetFurther` gives every call of the chain a rank that
grows (a token, then the content), so that the chain is never longer than four, and
`RequestsSoFar` counts against it. For svn, `Progress` describes what is on the wire, what
is due and what the client is at in every step of a command; each handler takes the first
message off what `InStep` says is there.

**Versions.** Nothing happens here but a call and its answer, so the invariant is short
(`AnswerIsOfCall`) and the work is in lemmas about the functions, for inputs of any length.
They are loops over data. The library's theorems for induction and recursion take a
predicate or a function as an operator, which the provers cannot instantiate; the module
states them with sets and functions instead. `Induction` is about a set with 0 and the
successor of each of its numbers and rests on `HasLeast`; `LoopHasResults` says that a
loop whose turns stay in a set has a result after each turn. A definition such as
`Components` is then replaced by what its loop has after every turn (`ParsingTakesTurns`,
`ReadingAllLines`, `SelectedAreMembers`).

`ComparesLikeDebian` has to bring together two comparisons of different make. The code
looks for the first component that differs, and in it for the first byte; the reference
compares integer keys, place by place. `ComponentsAreParsed` says that odd components hold
no digits and even ones are integers. In strings without digits the code's use of the digit
0 for the end cannot be mistaken for a byte (`WeightsTellApart`), so bytes differ exactly
where keys do (`StringsDiffer`), and the first place decides both ways
(`FirstComponentDecides`). `PrecedesIsAnOrder` is not obvious since a version is compared
by its extensions with some and by what is before them with others (`WhatIsCompared`).

`RefsAreRead` follows a list through its loop, for any names and objects, those that odd
packets are read as included (`FileIsListed` says what the loop is given): `ReadSoFar`
says that the names read are those of the lines so far, and that each line but the last
has its entry or is followed by a peeled one. The rest is where the list begins and ends
in the stream (`SmartRefsAreComplete`). `NewestIsRecognised` combines the other two: of a
finite list one element is last in an order (`SomeVersionIsLast`), and where no two are
alike `__lt__` is that order, so the sort puts this one first (`LatestIsNewest`). While it
was being proved the property turned out false as it had been stated, for lists with 1.2
and 1.02; it now leaves them out, and the run has such a list.

### 5.2 What is only model-checked

Liveness (`FetcherComesFree`, `ChangesAreFetched`, `RunIsReported`, `CallEnds`):
fairness and ENABLED are out of the prover's reach. `MessagesAreWhole`: messages are trees,
and `SvnWire` builds and reads them with recursive operators, in a module of which the
prover's SMT backend makes nothing; as functions they would need a set of all trees
to be functions on. `BuildersCanBeMade`: a finite table, all of which TLC looks at, made of
concatenated strings, for which the provers have no theory. The four violations are TLC's
counterexamples.

## 6. What could be added

A theorem that joins the farm and the directory: `DailyBuilds` as the directory that the
builds of `BuildFarm` upload to, so that its assumptions (section 2.3) become theorems of the
farm. One is there already: the cleaner is "alone" when no restart or loss came before
(`CleanIsAlone` on one side, `CleanLeavesTidy` on the other). The others are not true of
the farm without further conditions: after a restart two builds of a platform, one of them
an orphan, may upload at once, and nothing bounds the time between an upload and its link.

## 7. Not modelled

`ui.py` (settings), templates, routes and wording (no state), `check-versions/config.py`
(data), Dockerfiles, patches and package scripts (straight-line, one shot in a fresh
container), the service unit (its restart is `Crash`), the Makefile (make and Docker decide
what it does). The page `list_daily_builds` reads a link and looks at the file in two
calls; a package replaced, found superfluous and removed between them is missing from
that one answer, and the code promises nothing about it. `utils/discord.py` hands its posts
over and keeps nothing. Buildbot, Docker, Git, make, setfacl, svnserve and registries are
external: only what the sources rely on is there, and `PROJECT.json` marks those
definitions.

Left out of modelled parts: files that vanish between scandir and stat in the cleaner; an
archive extension that changes; which files a package holds; flags and environments of
platforms; limits, networks and passwords of containers; walking the tree and matching
lines in `check-versions` (any list of lines may be found); the patterns, suffixes and
delimiters that filter versions (a prefix stands for them); checkers that compare one
commit or one version with the file (one request, one comparison); what a reload replaces
besides the ids, which Buildbot compares and keeps.
