----------------------------- MODULE WorkerVolumes -----------------------------
(***************************************************************************)
(* What a worker's container finds in the directories it mounts            *)
(* (utils/worker.py, DockerWorker; workers.py for the volumes).  One       *)
(* project: the fetcher mounts the directory of all sources, a builder     *)
(* mounts the project's source directory in it read-only and the build     *)
(* directory of its platform.  The other volumes are like the latter.      *)
(***************************************************************************)
EXTENDS FiniteSets

CONSTANTS
    Builders,    \* names of the builder workers
    Platforms,   \* platforms, each with its build directory
    MayReload,   \* the master's configuration is reloaded
    ForcedFirst  \* a platform build may be forced before the first fetch

ASSUME VolumesAssumption == {MayReload, ForcedFirst} \subseteq BOOLEAN

Fetcher == "fetcher"
Workers == {Fetcher} \cup Builders

\* Directories of the host: of all sources, of the project's, of a platform.
Sources == "src"
Project == "src/project"
Paths == {Sources, Project} \cup Platforms

\* A directory as the user of the workers' images meets it: made by the master
\* without more, open to that user, open to another one instead, or made by
\* Docker for root because it was missing when it was to be mounted.
States == {"absent", "bare", "open", "other", "root"}

VARIABLES
    perm,    \* state of each directory
    uid,     \* buildbot_uid and buildbot_gid: of the workers' user or zero
    acls,    \* apply_acls under way: directory and uid
    failed,  \* directories on which setfacl failed last
    mounts   \* what each worker's container mounts, and whether it runs

vars == <<perm, uid, acls, failed, mounts>>

Down == [st |-> "down", rw |-> {}, ro |-> {}]

TypeOK ==
    /\ perm \in [Paths -> States]
    /\ uid \in {"worker", "zero"}
    /\ acls \subseteq Paths \X {"worker", "zero"}
    /\ failed \subseteq Paths
    /\ mounts \in [Workers -> [st : {"down", "starting", "up"}, rw : SUBSET Paths, ro : SUBSET Paths]]

\* workers.py has called setup_uid_gid; no worker has ever run.
Init ==
    /\ perm = [d \in Paths |-> "absent"]
    /\ uid = "worker"
    /\ acls = {} /\ failed = {}
    /\ mounts = [w \in Workers |-> Down]

\* Mutants: a volume without a mode is passed over; the mode is taken for a part
\* of the directory's name.
PreparedWithMode(rw, ro) == {}
PreparedModeInName(rw, ro) == rw \cup {"src/project:ro" : d \in ro}

\* Directories that start_instance creates and sets ACLs on.
Prepared(rw, ro) == rw

\* start_instance: apply_acls is called for each directory and not waited for,
\* then the container is started.
StartInstance(w, rw, ro) ==
    /\ mounts[w].st = "down"
    /\ mounts' = [mounts EXCEPT ![w] = [st |-> "starting", rw |-> rw, ro |-> ro]]
    /\ perm' = [d \in Paths |-> IF d \in Prepared(rw, ro) /\ perm[d] = "absent" THEN "bare" ELSE perm[d]]
    /\ acls' = acls \cup (Prepared(rw, ro) \X {uid})
    /\ UNCHANGED <<uid, failed>>

StartFetcher == StartInstance(Fetcher, {Sources}, {})
StartBuilder(w, t) ==
    /\ ForcedFirst \/ perm[Project] # "absent"
    /\ StartInstance(w, {t}, {Project})

\* Docker creates what is missing of the mounts, and the container is up.
Started(w) ==
    /\ mounts[w].st = "starting"
    /\ mounts' = [mounts EXCEPT ![w].st = "up"]
    /\ perm' = [d \in Paths |-> IF d \in mounts[w].rw \cup mounts[w].ro /\ perm[d] = "absent"
                                THEN "root" ELSE perm[d]]
    /\ UNCHANGED <<uid, acls, failed>>

Stop(w) ==
    /\ mounts[w].st = "up"
    /\ mounts' = [mounts EXCEPT ![w] = Down]
    /\ UNCHANGED <<perm, uid, acls, failed>>

\* Mutant: setfacl --set, which replaces the entries that are there.
ReplacesAcls(d, u) == IF u = "worker" THEN "open" ELSE "other"

\* setfacl -m adds an entry for the user it is given; only the owner may, and
\* the master does not own what Docker created.
AddsAcls(d, u) == IF perm[d] = "open" \/ u = "worker" THEN "open" ELSE "other"

ApplyAcls(d, u) ==
    /\ <<d, u>> \in acls
    /\ acls' = acls \ {<<d, u>>}
    /\ \/ perm[d] # "root" /\ perm' = [perm EXCEPT ![d] = AddsAcls(d, u)] /\ failed' = failed \ {d}
       \/ failed' = failed \cup {d} /\ UNCHANGED perm
    /\ UNCHANGED <<uid, mounts>>

\* The first git step on an open directory of sources makes the project's.
Fetch ==
    /\ mounts[Fetcher].st = "up" /\ perm[Sources] = "open" /\ perm[Project] = "absent"
    /\ perm' = [perm EXCEPT ![Project] = "open"]
    /\ UNCHANGED <<uid, acls, failed, mounts>>

\* refresh reloads the modules in the order of their first import: workers,
\* which calls setup_uid_gid, comes before utils.worker, which sets zero.
Reload ==
    /\ MayReload
    /\ uid' = "zero"
    /\ UNCHANGED <<perm, acls, failed, mounts>>

Next ==
    \/ StartFetcher \/ Fetch \/ Reload
    \/ \E w \in Builders, t \in Platforms : StartBuilder(w, t)
    \/ \E w \in Workers : Started(w) \/ Stop(w)
    \/ \E d \in Paths, u \in {"worker", "zero"} : ApplyAcls(d, u)

Spec == Init /\ [][Next]_vars

-----------------------------------------------------------------------------
Up(w) == mounts[w].st = "up"

Settled(w) == \A d \in mounts[w].rw \ failed : perm[d] = "open"

\* Once every setfacl has run and none of its volumes' has failed, a worker can
\* write to the volumes it mounts for writing, as long as the configuration has
\* not been reloaded.
SettledVolumesAreOpen ==
    uid = "worker" => \A w \in Workers : Up(w) /\ acls = {} => Settled(w)

\* A directory that the workers could write to stays so, also when a reload has
\* made the master forget their user.
OpenStaysOpen == [][\A d \in Paths : perm[d] = "open" => perm'[d] = "open"]_vars

(***************************************************************************)
(* What comments say and the code does not do.                             *)
(***************************************************************************)

\* A running worker can write to its volumes: start_instance has created them
\* and "setup correct ACLs" by then.
VolumesAreOpen == \A w \in Workers : Up(w) => Settled(w)

\* The same, once every setfacl has run.
VolumesAreOpenInTheEnd == acls = {} => VolumesAreOpen
=============================================================================
