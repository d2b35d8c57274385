-------------------------- MODULE WorkerVolumesProofs --------------------------
(***************************************************************************)
(* Proofs about WorkerVolumes, for any workers and platforms: what a       *)
(* container finds open stays open, and nothing but a failed setfacl or a  *)
(* reload keeps a worker from its volumes in the end.                      *)
(***************************************************************************)
EXTENDS WorkerVolumes, TLAPS

(***************************************************************************)
(* Type correctness.                                                       *)
(***************************************************************************)

\* The directories of a worker are among those of the host.
LEMMA MountTypes ==
    /\ Fetcher \in Workers /\ Builders \subseteq Workers
    /\ Sources \in Paths /\ Project \in Paths /\ Platforms \subseteq Paths
BY DEF Workers, Paths

\* Starting a container with directories of the host.
LEMMA StartType ==
    ASSUME TypeOK, NEW w \in Workers, NEW rw \in SUBSET Paths, NEW ro \in SUBSET Paths,
           StartInstance(w, rw, ro)
    PROVE  TypeOK'
<1>1. mounts' \in [Workers -> [st : {"down", "starting", "up"}, rw : SUBSET Paths, ro : SUBSET Paths]]
  BY DEF StartInstance, TypeOK
<1>2. perm' \in [Paths -> States]
  BY DEF StartInstance, TypeOK, States
<1>3. acls' \subseteq Paths \X {"worker", "zero"}
  BY DEF StartInstance, TypeOK, Prepared
<1> QED
  BY <1>1, <1>2, <1>3 DEF StartInstance, TypeOK

\* Every step keeps the types.
LEMMA TypeNext == TypeOK /\ [Next]_vars => TypeOK'
<1> SUFFICES ASSUME TypeOK, [Next]_vars
             PROVE  TypeOK'
  OBVIOUS
<1>1. CASE StartFetcher
  BY <1>1, StartType, MountTypes DEF StartFetcher
<1>2. ASSUME NEW w \in Builders, NEW t \in Platforms, StartBuilder(w, t)
      PROVE  TypeOK'
  <2>1. w \in Workers /\ {t} \in SUBSET Paths /\ {Project} \in SUBSET Paths
    BY MountTypes
  <2> QED
    BY <1>2, <2>1, StartType DEF StartBuilder
<1>3. ASSUME NEW w \in Workers, Started(w)
      PROVE  TypeOK'
  BY <1>3 DEF Started, TypeOK, States
<1>4. ASSUME NEW w \in Workers, Stop(w)
      PROVE  TypeOK'
  BY <1>4 DEF Stop, TypeOK, Down
<1>5. ASSUME NEW d \in Paths, NEW u \in {"worker", "zero"}, ApplyAcls(d, u)
      PROVE  TypeOK'
  BY <1>5 DEF ApplyAcls, AddsAcls, TypeOK, States
<1>6. CASE Fetch
  BY <1>6 DEF Fetch, TypeOK, States
<1>7. CASE Reload
  BY <1>7 DEF Reload, TypeOK
<1>8. CASE UNCHANGED vars
  BY <1>8 DEF vars, TypeOK
<1> QED
  BY <1>1, <1>2, <1>3, <1>4, <1>5, <1>6, <1>7, <1>8 DEF Next

\* Every state of the workers' volumes has its type.
THEOREM VolumesTypeCorrect == Spec => []TypeOK
<1>1. Init => TypeOK
  BY DEF Init, TypeOK, States, Down
<1> QED
  BY <1>1, TypeNext, PTL DEF Spec

-----------------------------------------------------------------------------
(***************************************************************************)
(* What is open stays open.                                                *)
(***************************************************************************)

\* No step takes away the access that a directory gives.
LEMMA OpenNext ==
    ASSUME TypeOK, [Next]_vars, NEW d \in Paths, perm[d] = "open"
    PROVE  perm'[d] = "open"
<1>1. ASSUME NEW w, NEW rw, NEW ro, StartInstance(w, rw, ro)
      PROVE  perm'[d] = "open"
  BY <1>1 DEF StartInstance
<1>2. ASSUME NEW w \in Workers, Started(w)
      PROVE  perm'[d] = "open"
  BY <1>2 DEF Started
<1>3. ASSUME NEW e \in Paths, NEW u \in {"worker", "zero"}, ApplyAcls(e, u)
      PROVE  perm'[d] = "open"
  BY <1>3 DEF ApplyAcls, AddsAcls, TypeOK
<1>4. CASE Fetch
  BY <1>4 DEF Fetch, TypeOK
<1>5. CASE UNCHANGED perm
  BY <1>5
<1> QED
  BY <1>1, <1>2, <1>3, <1>4, <1>5
  DEF Next, StartFetcher, StartBuilder, Stop, Reload, vars

\* A directory that the workers could write to stays so, whatever is mounted,
\* fails or is reloaded, because setfacl only ever adds an entry.
THEOREM OpenStays == Spec => OpenStaysOpen
<1>1. TypeOK /\ [Next]_vars => [\A d \in Paths : perm[d] = "open" => perm'[d] = "open"]_vars
  BY OpenNext
<1> QED
  BY <1>1, VolumesTypeCorrect, PTL DEF Spec, OpenStaysOpen

-----------------------------------------------------------------------------
(***************************************************************************)
(* Once every setfacl has run.                                             *)
(***************************************************************************)

\* As long as the master remembers the workers' user, a volume of a container is
\* open, or its setfacl for that user is under way or failed last.
VolumesAreSeenTo ==
    uid = "worker" =>
        /\ acls \subseteq Paths \X {"worker"}
        /\ \A w \in Workers : mounts[w].st # "down" =>
             \A d \in mounts[w].rw :
                perm[d] = "open" \/ d \in failed \/ <<d, "worker">> \in acls

\* A start calls setfacl for every volume, and a call ends in an open volume or
\* in a failure.
LEMMA SeenToNext == TypeOK /\ VolumesAreSeenTo /\ [Next]_vars => VolumesAreSeenTo'
<1> SUFFICES ASSUME TypeOK, VolumesAreSeenTo, [Next]_vars, uid' = "worker"
             PROVE  VolumesAreSeenTo'
  BY DEF VolumesAreSeenTo
<1> DEFINE SeenTo(d) == perm[d] = "open" \/ d \in failed \/ <<d, "worker">> \in acls
<1>0. uid = "worker" /\ ~Reload
  BY DEF Next, StartFetcher, StartBuilder, StartInstance, Started, Stop, ApplyAcls, Fetch, Reload, vars
<1>1. /\ acls \subseteq Paths \X {"worker"}
      /\ \A w \in Workers : mounts[w].st # "down" => \A d \in mounts[w].rw : SeenTo(d)
  BY <1>0 DEF VolumesAreSeenTo
<1>2. \A w \in Workers : mounts[w].rw \subseteq Paths /\ mounts'[w].rw \subseteq Paths
  BY TypeNext DEF TypeOK
<1>3. \A d \in Paths : perm[d] = "open" => perm'[d] = "open"
  BY OpenNext
<1>4. ASSUME NEW v \in Workers, NEW rw \in SUBSET Paths, NEW ro \in SUBSET Paths,
             StartInstance(v, rw, ro)
      PROVE  VolumesAreSeenTo'
  <2>1. /\ acls' = acls \cup (rw \X {"worker"}) /\ failed' = failed
        /\ mounts' = [mounts EXCEPT ![v] = [st |-> "starting", rw |-> rw, ro |-> ro]]
    BY <1>0, <1>4 DEF StartInstance, Prepared
  <2>2. \A d \in rw : <<d, "worker">> \in acls'
    BY <2>1
  <2>3. mounts'[v].rw = rw /\ \A w \in Workers \ {v} : mounts'[w] = mounts[w]
    BY <2>1 DEF TypeOK
  <2> QED
    BY <1>1, <1>2, <1>3, <2>1, <2>2, <2>3 DEF VolumesAreSeenTo
<1>5. ASSUME NEW v \in Workers, Started(v) \/ Stop(v)
      PROVE  VolumesAreSeenTo'
  <2>1. /\ acls' = acls /\ failed' = failed /\ \A w \in Workers \ {v} : mounts'[w] = mounts[w]
        /\ \/ mounts[v].st = "starting" /\ mounts'[v].rw = mounts[v].rw
           \/ mounts'[v].st = "down"
    BY <1>5 DEF Started, Stop, Down, TypeOK
  <2> QED
    BY <1>1, <1>2, <1>3, <2>1 DEF VolumesAreSeenTo
<1>6. ASSUME NEW e \in Paths, NEW u \in {"worker", "zero"}, ApplyAcls(e, u)
      PROVE  VolumesAreSeenTo'
  <2>1. <<e, u>> \in acls /\ acls' = acls \ {<<e, u>>} /\ mounts' = mounts
    BY <1>6 DEF ApplyAcls
  <2>2. u = "worker"
    BY <1>1, <2>1
  <2>3. \/ perm'[e] = "open" /\ failed' = failed \ {e}
        \/ e \in failed' /\ failed' = failed \cup {e}
    BY <1>6, <2>2 DEF ApplyAcls, AddsAcls, TypeOK
  <2>4. \A d \in Paths : SeenTo(d) => perm'[d] = "open" \/ d \in failed' \/ <<d, "worker">> \in acls'
    BY <1>3, <2>1, <2>3
  <2> QED
    BY <1>1, <1>2, <2>1, <2>4 DEF VolumesAreSeenTo
<1>7. CASE Fetch \/ UNCHANGED vars
  BY <1>1, <1>2, <1>3, <1>7 DEF Fetch, vars, VolumesAreSeenTo
<1>8. CASE StartFetcher
  <2>1. Fetcher \in Workers /\ {Sources} \in SUBSET Paths /\ {} \in SUBSET Paths
    BY MountTypes
  <2>2. StartInstance(Fetcher, {Sources}, {})
    BY <1>8 DEF StartFetcher
  <2> QED
    BY <1>4, <2>1, <2>2
<1>9. ASSUME NEW w \in Builders, NEW t \in Platforms, StartBuilder(w, t)
      PROVE  VolumesAreSeenTo'
  <2>1. w \in Workers /\ {t} \in SUBSET Paths /\ {Project} \in SUBSET Paths
    BY MountTypes
  <2>2. StartInstance(w, {t}, {Project})
    BY <1>9 DEF StartBuilder
  <2> QED
    BY <1>4, <2>1, <2>2
<1> QED
  BY <1>0, <1>5, <1>6, <1>7, <1>8, <1>9 DEF Next

\* A worker whose volumes' setfacl have run and not failed can write to them, for
\* any number of workers that start and stop around each other.
THEOREM SettledAreOpen == Spec => []SettledVolumesAreOpen
<1>1. Init => VolumesAreSeenTo
  BY DEF Init, VolumesAreSeenTo, Down
<1>2. VolumesAreSeenTo => SettledVolumesAreOpen
  BY DEF VolumesAreSeenTo, SettledVolumesAreOpen, Settled, Up
<1> QED
  BY <1>1, <1>2, SeenToNext, VolumesTypeCorrect, PTL DEF Spec
=============================================================================
