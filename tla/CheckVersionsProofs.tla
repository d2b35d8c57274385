-------------------------- MODULE CheckVersionsProofs ---------------------------
(***************************************************************************)
(* Proofs about CheckVersions, for any number of threads, lines and pages: *)
(* what the lists account for when the threads have worked in any order,   *)
(* and how few are told another version than the one in the cache.         *)
(***************************************************************************)
EXTENDS CheckVersions, FiniteSetTheorems, SequenceTheorems, WellFoundedInduction, TLAPS

\* The types but for the bound on the calls under way, which is a part of its own.
Typed ==
    /\ watch \in [Tags -> Pages \cup {"absent", "ignore", "broken"}]
    /\ upstream \in [Pages -> Versions]
    /\ queue \in Seq(Tags)
    /\ phase \in {"submitting", "raised", "posting", "printed", "died"}
    /\ next \in Nat \ {0}
    /\ job \in [Work -> {"unhandled", "missing", "queued", "fetching", "done"}]
    /\ answer \in [Work -> Versions \cup {NoAnswer, Failure}]
    /\ cache \in [Pages -> Versions \cup {NoAnswer}]
    /\ seen \subseteq Tags
    /\ report \in [Lists -> Seq(Work)]

PoolIsBounded == Cardinality(Fetching) <= Threads

\* The works are numbered from one, and there are finitely many.
LEMMA WorkIs ==
    ASSUME queue \in Seq(Tags)
    PROVE  /\ Work = 1..Len(queue) /\ Len(queue) \in Nat /\ IsFiniteSet(Work) /\ Work \subseteq Nat
           /\ \A i \in Work : queue[i] \in Tags
<1>1. Work = 1..Len(queue) /\ Len(queue) \in Nat
  BY LenProperties DEF Work
<1>2. IsFiniteSet(Work)
  BY <1>1, FS_Interval
<1>3. \A i \in Work : queue[i] \in Tags
  BY <1>1, ElementOfSeq
<1> QED
  BY <1>1, <1>2, <1>3

\* Versions are no failure and no lack of an answer.
LEMMA VersionsAre ==
    /\ InFile \in Versions /\ NoAnswer \notin Versions /\ Failure \notin Versions
    /\ Failure # NoAnswer /\ InFile # NoAnswer /\ InFile # Failure
    /\ \A v \in Versions : v < MaxVersion => v + 1 \in Versions
BY CheckAssumption DEF Versions, InFile, NoAnswer, Failure

-----------------------------------------------------------------------------
(***************************************************************************)
(* The works: what is watched for them, and whose turn it is.              *)
(***************************************************************************)

\* Only what is watched is looked up, and only pages are fetched.
JobsFit ==
    \A i \in Work :
        /\ job[i] = "missing" => watch[queue[i]] = "absent"
        /\ job[i] \in {"queued", "done"} => watch[queue[i]] \in Pages \cup {"ignore"}
        /\ job[i] = "fetching" => watch[queue[i]] \in Pages

\* The main thread has handled what is before its place, and goes on to the results
\* when the pool has done it all.
InTurn ==
    /\ phase \in {"submitting", "raised"} => \A i \in Work : i < next <=> job[i] # "unhandled"
    /\ phase \in {"posting", "printed"} => \A i \in Work : job[i] \in {"missing", "done"}

Basics == Typed /\ JobsFit /\ InTurn

-----------------------------------------------------------------------------
(***************************************************************************)
(* The sort by path: every entry keeps its own place in it.                *)
(***************************************************************************)

\* Of two places in a list one is sorted before the other, and no place before itself.
LEMMA SortIsOrder ==
    ASSUME queue \in Seq(Tags), NEW list \in Seq(Work)
    PROVE  /\ \A j, k \in DOMAIN list : j = k \/ SortsBefore(list, j, k) \/ SortsBefore(list, k, j)
           /\ \A k \in DOMAIN list : ~SortsBefore(list, k, k)
           /\ \A i, j, k \in DOMAIN list :
                SortsBefore(list, i, j) /\ SortsBefore(list, j, k) => SortsBefore(list, i, k)
<1>1. DOMAIN list \subseteq Nat
  BY LenProperties
<1>2. \A k \in DOMAIN list : PathOf(list[k]) \in Nat
  <2> SUFFICES ASSUME NEW k \in DOMAIN list
               PROVE  PathOf(list[k]) \in Nat
    OBVIOUS
  <2>1. list[k] \in Work
    BY LenProperties, ElementOfSeq
  <2>2. queue[list[k]] \in Paths \X Names
    BY <2>1, WorkIs DEF Tags
  <2> QED
    BY <2>2, CheckAssumption DEF PathOf
<1> QED
  BY <1>1, <1>2 DEF SortsBefore

\* A sorted list has the same entries in the order of the sort: one that is sorted
\* before another has a smaller place.  No two entries have the same place, so by
\* their number every place is taken.
LEMMA SortedIs ==
    ASSUME queue \in Seq(Tags), NEW list \in Seq(Work)
    PROVE  \E at \in [DOMAIN list -> DOMAIN list] :
             /\ DOMAIN Sorted(list) = DOMAIN list
             /\ \A n \in DOMAIN list : Sorted(list)[n] = list[at[n]]
             /\ \A k \in DOMAIN list : \E n \in DOMAIN list : at[n] = k
             /\ \A n, m \in DOMAIN list : n < m => SortsBefore(list, at[n], at[m])
<1> DEFINE D == DOMAIN list
           Upto(k) == {j \in D : j = k \/ SortsBefore(list, j, k)}
           place == [k \in D |-> Cardinality(Upto(k))]
           at == [n \in D |-> CHOOSE k \in D : place[k] = n]
<1>1. D = 1..Len(list) /\ Len(list) \in Nat /\ D \subseteq Nat /\ IsFiniteSet(D) /\ Cardinality(D) = Len(list)
  <2>1. D = 1..Len(list) /\ Len(list) \in Nat
    BY LenProperties
  <2>2. /\ IsFiniteSet(1..Len(list))
        /\ Cardinality(1..Len(list)) = IF 1 > Len(list) THEN 0 ELSE Len(list) - 1 + 1
    <3> DEFINE N == Len(list)
    <3>1. N \in Int /\ 1 \in Int
      BY <2>1
    <3> HIDE DEF N
    <3>2. IsFiniteSet(1..N) /\ Cardinality(1..N) = IF 1 > N THEN 0 ELSE N - 1 + 1
      BY <3>1, FS_Interval
    <3> QED
      BY <3>2 DEF N
  <2> QED
    BY <2>1, <2>2
<1>2. /\ \A j, k \in D : j = k \/ SortsBefore(list, j, k) \/ SortsBefore(list, k, j)
      /\ \A k \in D : ~SortsBefore(list, k, k)
      /\ \A i, j, k \in D : SortsBefore(list, i, j) /\ SortsBefore(list, j, k) => SortsBefore(list, i, k)
  BY SortIsOrder
<1>3. Sorted(list) = [n \in D |-> list[at[n]]]
  BY DEF Sorted
<1> HIDE DEF D
<1>4. ASSUME NEW k \in D
      PROVE  IsFiniteSet(Upto(k)) /\ Cardinality(Upto(k)) \in D
  <2>1. IsFiniteSet(Upto(k)) /\ Cardinality(Upto(k)) \in Nat /\ Cardinality(Upto(k)) <= Len(list)
    BY <1>1, FS_Subset, FS_CardinalityType
  <2>2. Upto(k) # {}
    OBVIOUS
  <2>3. Cardinality(Upto(k)) # 0
    BY <2>1, <2>2, FS_EmptySet
  <2> QED
    BY <1>1, <2>1, <2>3
<1>5. ASSUME NEW j \in D, NEW k \in D, SortsBefore(list, j, k)
      PROVE  place[j] < place[k]
  <2>1. Upto(j) \subseteq Upto(k)
    BY <1>2, <1>5
  <2>2. k \in Upto(k) /\ k \notin Upto(j)
    BY <1>2, <1>5
  <2>3. Cardinality(Upto(j)) <= Cardinality(Upto(k)) /\ Cardinality(Upto(j)) # Cardinality(Upto(k))
    BY <1>4, <2>1, <2>2, FS_Subset
  <2>4. Cardinality(Upto(j)) \in Nat /\ Cardinality(Upto(k)) \in Nat
    BY <1>1, <1>4
  <2>5. Cardinality(Upto(j)) < Cardinality(Upto(k))
    BY <2>3, <2>4
  <2> QED
    BY <2>5
<1>6. place \in [D -> D]
  BY <1>4
<1> HIDE DEF place, at, Upto
<1>7. \A j, k \in D : place[j] = place[k] => j = k
  <2>1. \A j, k \in D : SortsBefore(list, j, k) => place[j] # place[k]
    <3> SUFFICES ASSUME NEW j \in D, NEW k \in D, SortsBefore(list, j, k)
                 PROVE  place[j] # place[k]
      OBVIOUS
    <3>1. place[j] < place[k] /\ place[j] \in Nat /\ place[k] \in Nat
      BY <1>1, <1>5, <1>6
    <3> QED
      BY <3>1
  <2> QED
    BY <1>2, <2>1, Zenon
<1>8. \A n \in D : \E k \in D : place[k] = n
  <2>1. place \in Injection(D, D)
    BY <1>6, <1>7 DEF Injection, IsInjective
  <2>2. place \in Surjection(D, D)
    BY <1>1, <2>1, FS_Injection
  <2> QED
    BY <2>2 DEF Surjection
<1>9. at \in [D -> D] /\ \A n \in D : place[at[n]] = n
  BY <1>8 DEF at
<1>10. \A k \in D : \E n \in D : at[n] = k
  BY <1>6, <1>7, <1>9
<1>11. ASSUME NEW n \in D, NEW m \in D, n < m
       PROVE  SortsBefore(list, at[n], at[m])
  <2>1. place[at[n]] = n /\ place[at[m]] = m /\ at[n] \in D /\ at[m] \in D /\ n \in Nat /\ m \in Nat
    BY <1>1, <1>9
  <2>2. at[n] # at[m]
    BY <1>11, <2>1
  <2>3. ~SortsBefore(list, at[m], at[n])
    <3> SUFFICES ASSUME SortsBefore(list, at[m], at[n]) PROVE FALSE
      OBVIOUS
    <3>1. place[at[m]] < place[at[n]]
      BY <1>5, <2>1
    <3> QED
      BY <1>11, <2>1, <3>1
  <2> QED
    BY <1>2, <2>1, <2>2, <2>3
<1> QED
  BY <1>3, <1>9, <1>10, <1>11 DEF D

\* A sorted list of works is a list of works.
LEMMA SortedType ==
    ASSUME queue \in Seq(Tags), NEW list \in Seq(Work)
    PROVE  Sorted(list) \in Seq(Work)
<1>1. PICK at \in [DOMAIN list -> DOMAIN list] :
        DOMAIN Sorted(list) = DOMAIN list /\ \A n \in DOMAIN list : Sorted(list)[n] = list[at[n]]
  BY SortedIs
<1>2. DOMAIN list = 1..Len(list) /\ Len(list) \in Nat /\ \A n \in DOMAIN list : list[n] \in Work
  BY LenProperties, ElementOfSeq
<1>3. Sorted(list) = [n \in DOMAIN list |-> Sorted(list)[n]]
  BY <1>1 DEF Sorted
<1>4. Sorted(list) \in [1..Len(list) -> Work]
  BY <1>1, <1>2, <1>3
<1> QED
  BY <1>2, <1>4

-----------------------------------------------------------------------------
(***************************************************************************)
(* The steps of the main thread and of the pool.                           *)
(***************************************************************************)

\* What a step of the main thread does while it submits.
LEMMA PreHandleDoes ==
    ASSUME Basics, PreHandle
    PROVE  /\ next \in Work /\ queue[next] \in Tags /\ phase = "submitting"
           /\ UNCHANGED <<watch, upstream, queue, answer, cache>> /\ Work' = Work
           /\ \/ /\ watch[queue[next]] = "absent" /\ job' = [job EXCEPT ![next] = "missing"]
                 /\ report' = [report EXCEPT !["missing"] = Append(report["missing"], next)]
                 /\ seen' = seen \cup {queue[next]} /\ next' = next + 1 /\ phase' = phase
              \/ phase' = "raised" /\ UNCHANGED <<next, job, seen, report>>
              \/ /\ watch[queue[next]] \in Pages \cup {"ignore"} /\ job' = [job EXCEPT ![next] = "queued"]
                 /\ next' = next + 1 /\ UNCHANGED <<phase, seen, report>>
<1>1. next \in Work /\ phase = "submitting" /\ UNCHANGED <<watch, upstream, queue, answer, cache>>
  BY DEF PreHandle
<1>2. queue[next] \in Tags
  BY <1>1, WorkIs DEF Basics, Typed
<1>3. watch[queue[next]] \in Pages \cup {"absent", "ignore", "broken"}
  BY <1>2 DEF Basics, Typed
<1>4. Work' = Work
  BY <1>1 DEF Work
<1> QED
  BY <1>1, <1>2, <1>3, <1>4 DEF PreHandle

\* What a step of a thread does: the work is done, with an answer, or a page is
\* being fetched.
LEMMA ThreadDoes ==
    ASSUME Basics, NEW i \in Work, Thread(i)
    PROVE  /\ UNCHANGED <<watch, upstream, queue, phase, next, seen, report>> /\ Work' = Work
           /\ job[i] \in {"queued", "fetching"} /\ watch[queue[i]] \in Pages \cup {"ignore"}
           /\ \/ /\ job[i] = "queued" /\ Cardinality(Fetching) < Threads /\ cache' = cache
                 /\ \/ /\ watch[queue[i]] \in Pages /\ cache[watch[queue[i]]] = NoAnswer
                       /\ job' = [job EXCEPT ![i] = "fetching"] /\ answer' = [answer EXCEPT ![i] = NoAnswer]
                    \/ /\ watch[queue[i]] \in Pages /\ cache[watch[queue[i]]] # NoAnswer
                       /\ job' = [job EXCEPT ![i] = "done"]
                       /\ answer' = [answer EXCEPT ![i] = cache[watch[queue[i]]]]
                    \/ /\ watch[queue[i]] = "ignore" /\ watch[queue[i]] \notin Pages
                       /\ job' = [job EXCEPT ![i] = "done"] /\ answer' = [answer EXCEPT ![i] = InFile]
              \/ /\ job[i] = "fetching" /\ watch[queue[i]] \in Pages /\ job' = [job EXCEPT ![i] = "done"]
                 /\ \/ /\ answer' = [answer EXCEPT ![i] = upstream[watch[queue[i]]]]
                       /\ cache' = Cached(watch[queue[i]], upstream[watch[queue[i]]])
                    \/ answer' = [answer EXCEPT ![i] = Failure] /\ cache' = cache
<1>1. CASE Take(i)
  <2>1. watch[queue[i]] \in Pages \cup {"ignore"} /\ job[i] = "queued"
    BY <1>1 DEF Take, Basics, JobsFit
  <2>2. "ignore" \notin Pages
    BY CheckAssumption
  <2>3. UNCHANGED <<watch, upstream, queue, phase, next, cache, seen, report>> /\ Cardinality(Fetching) < Threads
    BY <1>1 DEF Take, Free
  <2>4. CASE watch[queue[i]] = "ignore"
    <3>1. job' = [job EXCEPT ![i] = "done"] /\ answer' = [answer EXCEPT ![i] = InFile]
      BY <1>1, <2>4, VersionsAre DEF Take
    <3> QED
      BY <2>1, <2>2, <2>3, <2>4, <3>1 DEF Work
  <2>5. CASE watch[queue[i]] \in Pages
    <3>1. watch[queue[i]] # "ignore"
      BY <2>2, <2>5
    <3>2. /\ job' = [job EXCEPT ![i] = IF cache[watch[queue[i]]] = NoAnswer THEN "fetching" ELSE "done"]
          /\ answer' = [answer EXCEPT ![i] = cache[watch[queue[i]]]]
      BY <1>1, <3>1 DEF Take
    <3> QED
      BY <2>1, <2>3, <2>5, <3>2 DEF Work
  <2> QED
    BY <2>1, <2>4, <2>5
<1>2. CASE Fetched(i)
  BY <1>2 DEF Fetched, Basics, JobsFit, Work
<1>3. CASE Fails(i)
  BY <1>3 DEF Fails, Basics, JobsFit, Work
<1> QED
  BY <1>1, <1>2, <1>3 DEF Thread

\* What posting a result does.
LEMMA PostHandleDoes ==
    ASSUME Basics, PostHandle
    PROVE  /\ phase = "posting" /\ UNCHANGED <<watch, upstream, queue, phase, job, answer, cache>> /\ Work' = Work
           /\ \E i \in Work :
                /\ NextResult(i) /\ i \in Nat /\ queue[i] \in Tags /\ next' = i + 1
                /\ report' = [l \in Lists |->
                     IF l \in ListsOf(answer[i]) THEN Append(report[l], i) ELSE report[l]]
                /\ seen' = seen \cup {queue[i]}
<1>1. Work \subseteq Nat /\ \A i \in Work : queue[i] \in Tags
  BY WorkIs DEF Basics, Typed
<1> QED
  BY <1>1 DEF PostHandle, Work

\* Every step keeps the types.
LEMMA TypedNext == Basics /\ [Next]_vars => Typed'
<1> SUFFICES ASSUME Basics, [Next]_vars
             PROVE  Typed'
  OBVIOUS
<1>1. CASE PreHandle
  <2>1. next \in Nat /\ next \in Work /\ queue[next] \in Tags /\ Work' = Work
    BY <1>1, PreHandleDoes, WorkIs DEF Basics, Typed
  <2>2. Append(report["missing"], next) \in Seq(Work)
    BY <2>1, AppendProperties DEF Basics, Typed, Lists
  <2>3. [report EXCEPT !["missing"] = Append(report["missing"], next)] \in [Lists -> Seq(Work)]
    BY <2>2 DEF Basics, Typed
  <2>4. /\ UNCHANGED <<watch, upstream, queue, answer, cache>>
        /\ \/ job' = [job EXCEPT ![next] = "missing"]
           \/ job' = [job EXCEPT ![next] = "queued"]
           \/ job' = job
        /\ next' = next + 1 \/ next' = next
        /\ phase' \in {"submitting", "raised"}
        /\ seen' = seen \cup {queue[next]} \/ seen' = seen
        /\ report' = [report EXCEPT !["missing"] = Append(report["missing"], next)] \/ report' = report
    BY <1>1, PreHandleDoes
  <2>5. job' \in [Work -> {"unhandled", "missing", "queued", "fetching", "done"}]
    BY <2>4 DEF Basics, Typed
  <2>6. next' \in Nat \ {0}
    BY <2>1, <2>4 DEF Basics, Typed
  <2>7. seen' \subseteq Tags /\ report' \in [Lists -> Seq(Work)]
    BY <2>1, <2>3, <2>4 DEF Basics, Typed
  <2> QED
    BY <2>1, <2>4, <2>5, <2>6, <2>7 DEF Basics, Typed
<1>2. ASSUME NEW i \in Work, Thread(i)
      PROVE  Typed'
  <2>1. /\ UNCHANGED <<watch, upstream, queue, phase, next, seen, report>> /\ Work' = Work
    BY <1>2, ThreadDoes
  <2>2. \A p \in Pages : /\ upstream[p] \in Versions /\ cache[p] \in Versions \cup {NoAnswer}
                        /\ Cached(p, upstream[p]) \in [Pages -> Versions \cup {NoAnswer}]
    BY DEF Basics, Typed, Cached
  <2>3. \E a \in Versions \cup {NoAnswer, Failure} : answer' = [answer EXCEPT ![i] = a]
    BY <1>2, <2>2, ThreadDoes, VersionsAre
  <2>4. \E j \in {"fetching", "done"} : job' = [job EXCEPT ![i] = j]
    BY <1>2, ThreadDoes
  <2>5. cache' = cache \/ \E p \in Pages : cache' = Cached(p, upstream[p])
    BY <1>2, ThreadDoes
  <2>6. cache' \in [Pages -> Versions \cup {NoAnswer}]
    BY <2>2, <2>5 DEF Basics, Typed
  <2>7. answer' \in [Work -> Versions \cup {NoAnswer, Failure}]
    BY <2>3 DEF Basics, Typed
  <2>8. job' \in [Work -> {"unhandled", "missing", "queued", "fetching", "done"}]
    BY <2>4 DEF Basics, Typed
  <2> QED
    BY <2>1, <2>6, <2>7, <2>8 DEF Basics, Typed
<1>3. CASE PoolEnds
  BY <1>3 DEF PoolEnds, Basics, Typed, Work
<1>4. CASE PostHandle
  <2>1. PICK i \in Work :
           /\ i \in Nat /\ queue[i] \in Tags /\ next' = i + 1
           /\ report' = [l \in Lists |->
                IF l \in ListsOf(answer[i]) THEN Append(report[l], i) ELSE report[l]]
           /\ seen' = seen \cup {queue[i]}
    BY <1>4, PostHandleDoes
  <2>2. \A l \in Lists : report[l] \in Seq(Work) /\ Append(report[l], i) \in Seq(Work)
    BY <2>1, AppendProperties DEF Basics, Typed
  <2>3. report' \in [Lists -> Seq(Work)]
    BY <2>1, <2>2
  <2>4. UNCHANGED <<watch, upstream, queue, phase, job, answer, cache>> /\ Work' = Work
    BY <1>4, PostHandleDoes
  <2>5. next' \in Nat \ {0} /\ seen' \subseteq Tags
    BY <2>1 DEF Basics, Typed
  <2> QED
    BY <2>3, <2>4, <2>5 DEF Basics, Typed
<1>5. CASE PrintLists
  <2>1. \A l \in Lists : report'[l] \in Seq(Work)
    <3> SUFFICES ASSUME NEW l \in Lists, l \in Printed
                 PROVE  Sorted(report[l]) \in Seq(Work)
      BY <1>5 DEF PrintLists, Basics, Typed
    <3>1. report[l] \in Seq(Work) /\ queue \in Seq(Tags)
      BY DEF Basics, Typed
    <3> QED
      BY <3>1, SortedType
  <2>2. report' \in [Lists -> Seq(Work)]
    BY <1>5, <2>1 DEF PrintLists
  <2> QED
    BY <1>5, <2>2 DEF PrintLists, Basics, Typed, Work
<1>6. ASSUME NEW p \in Pages, Release(p)
      PROVE  Typed'
  <2>1. upstream[p] + 1 \in Versions
    BY <1>6, VersionsAre DEF Release, Basics, Typed
  <2> QED
    BY <1>6, <2>1 DEF Release, Basics, Typed, Work
<1>7. CASE UNCHANGED vars
  BY <1>7 DEF vars, Basics, Typed, Work
<1> QED
  BY <1>1, <1>2, <1>3, <1>4, <1>5, <1>6, <1>7 DEF Next, Main

\* Works are handled in the order of the queue, and none is left when the results
\* are looked at.
LEMMA TurnsNext == Basics /\ [Next]_vars => JobsFit' /\ InTurn'
<1> SUFFICES ASSUME Basics, [Next]_vars
             PROVE  JobsFit' /\ InTurn'
  OBVIOUS
<1>w. Work = 1..Len(queue) /\ Len(queue) \in Nat /\ Work \subseteq Nat /\ next \in Nat /\ next # 0
  BY WorkIs DEF Basics, Typed
<1>1. CASE PreHandle
  <2>1. /\ next \in Work /\ phase = "submitting" /\ UNCHANGED <<watch, queue>> /\ Work' = Work
        /\ \/ /\ watch[queue[next]] = "absent" /\ job' = [job EXCEPT ![next] = "missing"]
              /\ next' = next + 1 /\ phase' = phase
           \/ phase' = "raised" /\ UNCHANGED <<next, job>>
           \/ /\ watch[queue[next]] \in Pages \cup {"ignore"} /\ job' = [job EXCEPT ![next] = "queued"]
              /\ next' = next + 1 /\ phase' = phase
    BY <1>1, PreHandleDoes
  <2>2. \A i \in Work : i < next <=> job[i] # "unhandled"
    BY <2>1 DEF Basics, InTurn
  <2>3. JobsFit'
    BY <2>1 DEF Basics, JobsFit, Typed
  <2>4. ASSUME NEW a \in {"missing", "queued"}, job' = [job EXCEPT ![next] = a], next' = next + 1
        PROVE  \A i \in Work : i < next' <=> job'[i] # "unhandled"
    <3> SUFFICES ASSUME NEW i \in Work PROVE i < next' <=> job'[i] # "unhandled"
      OBVIOUS
    <3>1. i \in Nat
      BY <1>w
    <3>2. CASE i = next
      BY <1>w, <2>1, <2>4, <3>1, <3>2 DEF Basics, Typed
    <3>3. CASE i # next
      <4>1. i < next' <=> i < next
        BY <1>w, <2>4, <3>1, <3>3
      <4>2. job'[i] = job[i]
        BY <2>4, <3>3 DEF Basics, Typed
      <4> QED
        BY <2>2, <4>1, <4>2
    <3> QED
      BY <3>2, <3>3
  <2>5. phase' \in {"submitting", "raised"}
    BY <2>1
  <2>6. InTurn'
    BY <2>1, <2>2, <2>4, <2>5 DEF InTurn
  <2> QED
    BY <2>3, <2>6
<1>2. ASSUME NEW i \in Work, Thread(i)
      PROVE  JobsFit' /\ InTurn'
  <2>1. /\ UNCHANGED <<watch, queue, phase, next>> /\ Work' = Work
        /\ job[i] \in {"queued", "fetching"} /\ watch[queue[i]] \in Pages \cup {"ignore"}
        /\ \/ job' = [job EXCEPT ![i] = "fetching"] /\ watch[queue[i]] \in Pages
           \/ job' = [job EXCEPT ![i] = "done"]
    BY <1>2, ThreadDoes
  <2>2. JobsFit'
    BY <2>1 DEF Basics, JobsFit, Typed
  <2>3. phase \notin {"posting", "printed"}
    BY <2>1 DEF Basics, InTurn
  <2>4. \A k \in Work : job'[k] # "unhandled" <=> job[k] # "unhandled"
    BY <2>1 DEF Basics, Typed
  <2>5. InTurn'
    BY <2>1, <2>3, <2>4 DEF Basics, InTurn
  <2> QED
    BY <2>2, <2>5
<1>3. CASE PoolEnds
  <2>1. /\ \A i \in Work : job[i] \notin {"queued", "fetching"}
        /\ \/ phase = "raised" /\ phase' = "died"
           \/ phase = "submitting" /\ next \notin Work /\ phase' = "posting"
        /\ UNCHANGED <<watch, queue, job>> /\ Work' = Work
    BY <1>3 DEF PoolEnds, Work
  <2>2. JobsFit'
    BY <2>1 DEF Basics, JobsFit
  <2>3. CASE phase = "submitting" /\ next \notin Work /\ phase' = "posting"
    <3>1. \A i \in Work : i < next
      BY <1>w, <2>3
    <3>2. \A i \in Work : job[i] \in {"missing", "done"}
      BY <2>1, <2>3, <3>1 DEF Basics, InTurn, Typed
    <3> QED
      BY <2>1, <2>2, <2>3, <3>2 DEF InTurn
  <2> QED
    BY <2>1, <2>2, <2>3 DEF InTurn
<1>4. CASE PostHandle
  BY <1>4, PostHandleDoes DEF Basics, JobsFit, InTurn
<1>5. CASE PrintLists
  BY <1>5 DEF PrintLists, Basics, JobsFit, InTurn, Work
<1>6. ASSUME NEW p \in Pages, Release(p)
      PROVE  JobsFit' /\ InTurn'
  BY <1>6 DEF Release, Basics, JobsFit, InTurn, Work
<1>7. CASE UNCHANGED vars
  BY <1>7 DEF vars, Basics, JobsFit, InTurn, Work
<1> QED
  BY <1>1, <1>2, <1>3, <1>4, <1>5, <1>6, <1>7 DEF Next, Main

\* At the start nothing is handled.
LEMMA BasicsInit == Init => Basics
<1> SUFFICES ASSUME Init PROVE Basics
  OBVIOUS
<1>1. queue \in Seq(Tags)
  <2>1. PICK n \in 0..MaxWork : queue \in [1..n -> Tags]
    BY DEF Init, Found
  <2>2. n \in Nat
    BY CheckAssumption
  <2> QED
    BY <2>1, <2>2
<1>2. <<>> \in Seq(Work)
  OBVIOUS
<1>3. \A i \in Work : ~(i < 1)
  BY <1>1, WorkIs
<1>4. Typed
  BY <1>1, <1>2 DEF Init, Typed
<1> QED
  BY <1>3, <1>4 DEF Init, Basics, JobsFit, InTurn

\* Every reachable state has the types, the turns and the works' outcomes as described.
LEMMA BasicsInvariant == Spec => []Basics
<1>1. Basics /\ [Next]_vars => Basics'
  BY TypedNext, TurnsNext DEF Basics
<1> QED
  BY <1>1, BasicsInit, PTL DEF Spec
-----------------------------------------------------------------------------
(***************************************************************************)
(* The pool: no more calls at once than threads.                           *)
(***************************************************************************)

\* What a thread is fetching is among the works, and so finite.
LEMMA FetchingIsFinite == ASSUME Basics PROVE IsFiniteSet(Fetching) /\ Cardinality(Fetching) \in Nat
<1>1. IsFiniteSet(Work) /\ Fetching \subseteq Work
  BY WorkIs DEF Basics, Typed, Fetching
<1> QED
  BY <1>1, FS_Subset, FS_CardinalityType

\* A thread only starts to fetch while fewer fetch than there are threads.
LEMMA PoolNext == Basics /\ PoolIsBounded /\ [Next]_vars => PoolIsBounded'
<1> SUFFICES ASSUME Basics, PoolIsBounded, [Next]_vars
             PROVE  PoolIsBounded'
  OBVIOUS
<1>f. IsFiniteSet(Fetching) /\ Cardinality(Fetching) \in Nat /\ Threads \in Nat
  BY FetchingIsFinite, CheckAssumption
<1>s. ASSUME Fetching' \subseteq Fetching
      PROVE  PoolIsBounded'
  <2>1. Cardinality(Fetching') \in Nat /\ Cardinality(Fetching') <= Cardinality(Fetching)
    BY <1>f, <1>s, FS_Subset, FS_CardinalityType
  <2> QED
    BY <1>f, <2>1 DEF PoolIsBounded
<1>1. CASE PreHandle
  BY <1>1, <1>s, PreHandleDoes DEF Fetching, Basics, Typed
<1>2. ASSUME NEW i \in Work, Thread(i)
      PROVE  PoolIsBounded'
  <2>1. CASE Cardinality(Fetching) < Threads /\ job' = [job EXCEPT ![i] = "fetching"] /\ Work' = Work
    <3>1. Fetching' = Fetching \cup {i}
      BY <2>1 DEF Fetching, Basics, Typed
    <3>2. Cardinality(Fetching') <= Cardinality(Fetching) + 1
      BY <1>f, <3>1, FS_AddElement
    <3>3. Cardinality(Fetching') \in Nat
      BY <1>f, <3>1, FS_AddElement, FS_CardinalityType
    <3> QED
      BY <1>f, <2>1, <3>2, <3>3 DEF PoolIsBounded
  <2>2. CASE job' = [job EXCEPT ![i] = "done"] /\ Work' = Work
    BY <1>s, <2>2 DEF Fetching, Basics, Typed
  <2> QED
    BY <1>2, <2>1, <2>2, ThreadDoes
<1>3. CASE PoolEnds
  BY <1>3, <1>s DEF PoolEnds, Fetching, Work
<1>4. CASE PostHandle
  BY <1>4, <1>s, PostHandleDoes DEF Fetching
<1>5. CASE PrintLists
  BY <1>5, <1>s DEF PrintLists, Fetching, Work
<1>6. ASSUME NEW p \in Pages, Release(p)
      PROVE  PoolIsBounded'
  BY <1>6, <1>s DEF Release, Fetching, Work
<1>7. CASE UNCHANGED vars
  BY <1>7, <1>s DEF vars, Fetching, Work
<1> QED
  BY <1>1, <1>2, <1>3, <1>4, <1>5, <1>6, <1>7 DEF Next, Main

\* Every variable of a run keeps its type, and the pool never has more calls under
\* way than max_workers, in whatever order the threads and the main thread run.
THEOREM ChecksTypeCorrect == Spec => []TypeOK
<1>1. Init => PoolIsBounded
  <2> SUFFICES ASSUME Init PROVE PoolIsBounded
    OBVIOUS
  <2>1. Fetching = {}
    BY DEF Init, Fetching
  <2> QED
    BY <2>1, FS_EmptySet, CheckAssumption DEF PoolIsBounded
<1>2. Spec => [](Basics /\ PoolIsBounded)
  BY <1>1, PoolNext, BasicsInvariant, PTL DEF Spec
<1>3. Basics /\ PoolIsBounded => TypeOK
  BY DEF Basics, Typed, PoolIsBounded, TypeOK
<1> QED
  BY <1>2, <1>3, PTL
-----------------------------------------------------------------------------
(***************************************************************************)
(* The cache: who was told another version than the one in it.             *)
(***************************************************************************)

\* The works that watch a page and do not have the version in the cache, or may not
\* get it: they had begun to fetch the page before it was there.
Late(p) ==
    {i \in Watching(p) : job[i] = "fetching" \/ (answer[i] \in Versions /\ answer[i] # cache[p])}

\* Nobody was told the version of a page that is not in the cache, and once it is,
\* the late ones are those that fetched with the first.
LateAreFew ==
    \A p \in Pages :
        /\ cache[p] = NoAnswer => \A i \in Watching(p) : answer[i] \notin Versions
        /\ cache[p] # NoAnswer => Cardinality(Late(p)) < Threads

\* If the late ones are only fewer, the bound on them stays.
LEMMA FewerAreLate ==
    ASSUME Basics, NEW p \in Pages, NEW S \in SUBSET Late(p), Cardinality(Late(p)) < Threads
    PROVE  Cardinality(S) < Threads
<1>1. IsFiniteSet(Late(p))
  <2>1. Late(p) \subseteq Work /\ IsFiniteSet(Work)
    BY WorkIs DEF Basics, Typed, Late, Watching
  <2> QED
    BY <2>1, FS_Subset
<1>2. /\ Cardinality(S) \in Nat /\ Cardinality(Late(p)) \in Nat
      /\ Cardinality(S) <= Cardinality(Late(p))
  BY <1>1, FS_Subset, FS_CardinalityType
<1> QED
  BY <1>2, CheckAssumption

\* A step after which no work is late that was not, and the cache is as before.
LEMMA NoMoreAreLate ==
    ASSUME Basics, LateAreFew, UNCHANGED cache,
           \A p \in Pages : Late(p)' \subseteq Late(p),
           \A p \in Pages : \A i \in Watching(p)' :
               i \in Watching(p) /\ (answer'[i] \in Versions => answer'[i] = answer[i] \/ answer'[i] = cache[p])
    PROVE  LateAreFew'
<1> SUFFICES ASSUME NEW p \in Pages
             PROVE  /\ cache'[p] = NoAnswer => \A i \in Watching(p)' : answer'[i] \notin Versions
                    /\ cache'[p] # NoAnswer => Cardinality(Late(p)') < Threads
  BY DEF LateAreFew, Versions
<1>1. CASE cache[p] = NoAnswer
  BY <1>1, VersionsAre DEF LateAreFew
<1>2. CASE cache[p] # NoAnswer
  BY <1>2, FewerAreLate DEF LateAreFew
<1> QED
  BY <1>1, <1>2

\* The first to fetch a page puts it into the cache; the late ones are then those
\* that are still fetching it, and the pool has no more threads than that.
LEMMA FirstFetched ==
    ASSUME Basics, PoolIsBounded, LateAreFew, NEW i \in Work, job[i] = "fetching",
           Work' = Work, UNCHANGED <<watch, queue>>, job' = [job EXCEPT ![i] = "done"],
           watch[queue[i]] \in Pages,
           answer' = [answer EXCEPT ![i] = upstream[watch[queue[i]]]],
           cache' = Cached(watch[queue[i]], upstream[watch[queue[i]]]),
           cache[watch[queue[i]]] = NoAnswer
    PROVE  LateAreFew'
<1>0. PICK p \in Pages : p = watch[queue[i]]
  OBVIOUS
<1>1. upstream[p] \in Versions /\ cache'[p] = upstream[p] /\ \A q \in Pages : q # p => cache'[q] = cache[q]
  BY <1>0 DEF Basics, Typed, Cached
<1>2. /\ \A k \in Work : k # i => job'[k] = job[k] /\ answer'[k] = answer[k]
      /\ job'[i] = "done" /\ answer'[i] = upstream[p]
  BY <1>0 DEF Basics, Typed
<1>3. \A q \in Pages : Watching(q)' = Watching(q)
  BY DEF Watching
<1>4. Versions' = Versions /\ NoAnswer' = NoAnswer /\ Threads \in Nat \ {0}
  BY CheckAssumption DEF Versions, NoAnswer
<1>5. ASSUME NEW q \in Pages, q # p
      PROVE  /\ cache'[q] = NoAnswer => \A k \in Watching(q)' : answer'[k] \notin Versions
             /\ cache'[q] # NoAnswer => Cardinality(Late(q)') < Threads
  <2>1. \A k \in Watching(q) : k \in Work /\ k # i
    BY <1>0, <1>5 DEF Watching
  <2>2. Late(q)' = Late(q)
    BY <1>1, <1>2, <1>3, <1>4, <1>5, <2>1 DEF Late
  <2> QED
    BY <1>1, <1>2, <1>3, <1>5, <2>1, <2>2 DEF LateAreFew
<1>6. Late(p)' \subseteq Fetching \ {i}
  <2> SUFFICES ASSUME NEW k \in Late(p)' PROVE k \in Fetching \ {i}
    OBVIOUS
  <2>1. k \in Watching(p) /\ (job'[k] = "fetching" \/ (answer'[k] \in Versions /\ answer'[k] # cache'[p]))
    BY <1>3, <1>4 DEF Late
  <2>2. k \in Work
    BY <2>1 DEF Watching
  <2>3. k # i
    BY <1>1, <1>2, <2>1
  <2>4. answer[k] \notin Versions
    BY <1>0, <2>1 DEF LateAreFew
  <2> QED
    BY <1>2, <2>1, <2>2, <2>3, <2>4 DEF Fetching
<1>7. Cardinality(Late(p)') < Threads
  <2>1. i \in Fetching
    BY DEF Fetching
  <2>2. /\ IsFiniteSet(Fetching \ {i}) /\ Cardinality(Fetching \ {i}) = Cardinality(Fetching) - 1
        /\ Cardinality(Fetching) \in Nat
    BY <2>1, FetchingIsFinite, FS_RemoveElement
  <2>3. Cardinality(Late(p)') <= Cardinality(Fetching \ {i}) /\ Cardinality(Late(p)') \in Nat
    BY <1>6, <2>2, FS_Subset, FS_CardinalityType
  <2> QED
    BY <1>4, <2>2, <2>3 DEF PoolIsBounded
<1>8. p \in Pages /\ cache'[p] # NoAnswer
  BY <1>1, VersionsAre
<1>9. \A q \in Pages :
        /\ cache'[q] = NoAnswer => \A k \in Watching(q)' : answer'[k] \notin Versions
        /\ cache'[q] # NoAnswer => Cardinality(Late(q)') < Threads
  BY <1>5, <1>7, <1>8
<1> QED
  BY <1>9 DEF LateAreFew, Versions

\* Every step keeps the late ones few.
LEMMA LateNext == Basics /\ PoolIsBounded /\ LateAreFew /\ [Next]_vars => LateAreFew'
<1> SUFFICES ASSUME Basics, PoolIsBounded, LateAreFew, [Next]_vars
             PROVE  LateAreFew'
  OBVIOUS
<1>v. Versions' = Versions
  BY DEF Versions
<1>s. ASSUME UNCHANGED <<watch, queue, job, answer, cache>>
      PROVE  LateAreFew'
  BY <1>s DEF LateAreFew, Late, Watching, Work, Versions
<1>1. CASE PreHandle
  <2>1. /\ UNCHANGED <<watch, queue, answer, cache>> /\ Work' = Work
        /\ \A k \in Work : job'[k] = "fetching" => job[k] = "fetching"
    BY <1>1, PreHandleDoes DEF Basics, Typed
  <2>2. \A p \in Pages : Watching(p)' = Watching(p) /\ Late(p)' \subseteq Late(p)
    BY <1>v, <2>1 DEF Late, Watching
  <2> QED
    BY <2>1, <2>2, NoMoreAreLate
<1>2. ASSUME NEW i \in Work, Thread(i)
      PROVE  LateAreFew'
  <2> DEFINE w == watch[queue[i]]
  <2>1. /\ UNCHANGED <<watch, queue>> /\ Work' = Work
        /\ \A p \in Pages : Watching(p)' = Watching(p)
    BY <1>2, ThreadDoes DEF Watching
  <2>2. ASSUME NEW a, UNCHANGED cache,
               job' = [job EXCEPT ![i] = "done"], answer' = [answer EXCEPT ![i] = a],
               \A p \in Pages : i \in Watching(p) => a \notin Versions \/ a = cache[p]
        PROVE  LateAreFew'
    <3>1. /\ \A k \in Work : k # i => job'[k] = job[k] /\ answer'[k] = answer[k]
          /\ job'[i] = "done" /\ answer'[i] = a
      BY <2>2 DEF Basics, Typed
    <3>2. \A p \in Pages : \A k \in Watching(p) : k \in Work
      BY DEF Watching
    <3>3. \A p \in Pages : Late(p)' \subseteq Late(p)
      BY <1>v, <2>1, <2>2, <3>1, <3>2 DEF Late
    <3>4. \A p \in Pages : \A k \in Watching(p) :
            answer'[k] \in Versions => answer'[k] = answer[k] \/ answer'[k] = cache[p]
      BY <2>2, <3>1, <3>2
    <3> QED
      BY <2>1, <2>2, <3>3, <3>4, NoMoreAreLate
  <2>3. ASSUME w \in Pages, cache[w] = NoAnswer, UNCHANGED cache,
               job' = [job EXCEPT ![i] = "fetching"], answer' = [answer EXCEPT ![i] = NoAnswer]
        PROVE  LateAreFew'
    <3>1. /\ \A k \in Work : k # i => job'[k] = job[k] /\ answer'[k] = answer[k]
          /\ answer'[i] = NoAnswer
      BY <2>3 DEF Basics, Typed
    <3>2. ASSUME NEW p \in Pages
          PROVE  /\ cache'[p] = NoAnswer => \A k \in Watching(p)' : answer'[k] \notin Versions
                 /\ cache'[p] # NoAnswer => Cardinality(Late(p)') < Threads
      <4>1. \A k \in Watching(p) : k \in Work
        BY DEF Watching
      <4>2. CASE cache[p] = NoAnswer
        BY <2>1, <2>3, <3>1, <4>1, <4>2, VersionsAre DEF LateAreFew
      <4>3. CASE cache[p] # NoAnswer
        <5>1. i \notin Watching(p)
          BY <2>3, <4>3 DEF Watching
        <5>2. Late(p)' = Late(p)
          BY <1>v, <2>1, <2>3, <3>1, <4>1, <5>1 DEF Late
        <5> QED
          BY <2>3, <4>3, <5>2 DEF LateAreFew
      <4> QED
        BY <4>2, <4>3
    <3> QED
      BY <1>v, <3>2 DEF LateAreFew
  <2>4. ASSUME w \in Pages, cache[w] # NoAnswer, cache' = Cached(w, upstream[w]), job[i] = "fetching",
               job' = [job EXCEPT ![i] = "done"], answer' = [answer EXCEPT ![i] = upstream[w]]
        PROVE  LateAreFew'
    <3>1. cache' = cache
      BY <2>4 DEF Cached, Basics, Typed
    <3>2. /\ \A k \in Work : k # i => job'[k] = job[k] /\ answer'[k] = answer[k]
          /\ job'[i] = "done"
      BY <2>4 DEF Basics, Typed
    <3>3. ASSUME NEW p \in Pages
          PROVE  /\ cache'[p] = NoAnswer => \A k \in Watching(p)' : answer'[k] \notin Versions
                 /\ cache'[p] # NoAnswer => Cardinality(Late(p)') < Threads
      <4>1. \A k \in Watching(p) : k \in Work
        BY DEF Watching
      <4>2. CASE cache[p] = NoAnswer
        <5>1. i \notin Watching(p)
          BY <2>4, <4>2 DEF Watching
        <5> QED
          BY <2>1, <3>1, <3>2, <4>1, <4>2, <5>1, VersionsAre DEF LateAreFew
      <4>3. CASE cache[p] # NoAnswer
        <5>1. Late(p)' \subseteq Late(p)
          BY <1>v, <2>1, <2>4, <3>1, <3>2, <4>1 DEF Late
        <5> QED
          BY <3>1, <4>3, <5>1, FewerAreLate DEF LateAreFew
      <4> QED
        BY <4>2, <4>3
    <3> QED
      BY <1>v, <3>3 DEF LateAreFew
  <2>5. ASSUME w \in Pages, cache[w] = NoAnswer, cache' = Cached(w, upstream[w]), job[i] = "fetching",
               job' = [job EXCEPT ![i] = "done"], answer' = [answer EXCEPT ![i] = upstream[w]]
        PROVE  LateAreFew'
    BY <2>1, <2>5, FirstFetched
  <2>6. \A p \in Pages : i \in Watching(p) <=> p = w
    BY DEF Watching
  <2>7. ASSUME w \in Pages, cache' = cache,
               job' = [job EXCEPT ![i] = "done"], answer' = [answer EXCEPT ![i] = cache[w]]
        PROVE  LateAreFew'
    <3>1. \A p \in Pages : i \in Watching(p) => cache[w] = cache[p]
      BY <2>6
    <3> QED
      BY <2>2, <2>7, <3>1
  <2>8. ASSUME w \notin Pages, cache' = cache,
               job' = [job EXCEPT ![i] = "done"], answer' = [answer EXCEPT ![i] = InFile]
        PROVE  LateAreFew'
    <3>1. \A p \in Pages : i \notin Watching(p)
      BY <2>6, <2>8
    <3> QED
      BY <2>2, <2>8, <3>1
  <2>9. ASSUME w \in Pages, cache' = cache,
               job' = [job EXCEPT ![i] = "done"], answer' = [answer EXCEPT ![i] = Failure]
        PROVE  LateAreFew'
    BY <2>2, <2>9, VersionsAre
  <2> HIDE DEF w
  <2> QED
    BY <1>2, <2>3, <2>4, <2>5, <2>7, <2>8, <2>9, ThreadDoes DEF w
<1>3. CASE PoolEnds
  BY <1>3, <1>s DEF PoolEnds
<1>4. CASE PostHandle
  BY <1>4, <1>s, PostHandleDoes
<1>5. CASE PrintLists
  BY <1>5, <1>s DEF PrintLists
<1>6. ASSUME NEW p \in Pages, Release(p)
      PROVE  LateAreFew'
  BY <1>6, <1>s DEF Release
<1>7. CASE UNCHANGED vars
  BY <1>7, <1>s DEF vars
<1> QED
  BY <1>1, <1>2, <1>3, <1>4, <1>5, <1>6, <1>7 DEF Next, Main

\* However the threads run, and whatever is released meanwhile, fewer works than
\* there are threads end with another version of a page than the one in the cache.
THEOREM FewStaleAnswers == Spec => []StaleAnswersAreFew
<1>1. Init => LateAreFew
  <2> SUFFICES ASSUME Init PROVE LateAreFew
    OBVIOUS
  <2>1. \A p \in Pages : cache[p] = NoAnswer /\ \A i \in Watching(p) : answer[i] \notin Versions
    BY VersionsAre DEF Init, Watching
  <2> QED
    BY <2>1 DEF LateAreFew
<1>2. Spec => [](Basics /\ LateAreFew)
  <2>1. Spec => []PoolIsBounded
    <3>1. TypeOK => PoolIsBounded
      BY DEF TypeOK, PoolIsBounded
    <3> QED
      BY <3>1, ChecksTypeCorrect, PTL
  <2> QED
    BY <1>1, <2>1, LateNext, BasicsInvariant, PTL DEF Spec
<1>3. Basics /\ LateAreFew => StaleAnswersAreFew
  <2> SUFFICES ASSUME Basics, LateAreFew, NEW p \in Pages
               PROVE  Cardinality({i \in Watching(p) : answer[i] \in Versions /\ answer[i] # cache[p]}) < Threads
    BY DEF StaleAnswersAreFew
  <2> DEFINE S == {i \in Watching(p) : answer[i] \in Versions /\ answer[i] # cache[p]}
  <2>1. CASE cache[p] = NoAnswer
    <3>1. S = {}
      BY <2>1 DEF LateAreFew
    <3> QED
      BY <3>1, FS_EmptySet, CheckAssumption
  <2>2. CASE cache[p] # NoAnswer
    <3>1. S \subseteq Late(p)
      BY DEF Late
    <3>2. Cardinality(Late(p)) < Threads
      BY <2>2 DEF LateAreFew
    <3> HIDE DEF S
    <3>3. Cardinality(S) < Threads
      BY <3>1, <3>2, FewerAreLate
    <3> QED
      BY <3>3 DEF S
  <2> QED
    BY <2>1, <2>2
<1> QED
  BY <1>2, <1>3, PTL

-----------------------------------------------------------------------------
(***************************************************************************)
(* The lists.                                                              *)
(***************************************************************************)

\* Until they are printed, the lists have their works in the order of the queue.
Ascending(list) == \A j, k \in DOMAIN list : j < k => list[j] < list[k]

\* A set of numbers that is not empty has a least one.
LEMMA HasLeast ==
    ASSUME NEW T \in SUBSET Nat, T # {}
    PROVE  \E x \in T : \A y \in T : ~(y < x)
<1> DEFINE R == OpToRel(<, Nat)
<1>1. IsWellFoundedOn(R, Nat)
  BY NatLessThanWellFounded
<1>2. \A x, y \in Nat : x < y => <<x, y>> \in R
  BY DEF OpToRel
<1> HIDE DEF R
<1>3. PICK x \in T : \A y \in T : ~(<<y, x>> \in R)
  BY <1>1, WFMin
<1> QED
  BY <1>2, <1>3

\* A list gets a number that is beyond all it has: it is in order still, and has
\* one more.
LEMMA AppendedInOrder ==
    ASSUME NEW s \in Seq(Nat), NEW n \in Nat, Ascending(s), \A m \in Listed(s) : m < n
    PROVE  Ascending(Append(s, n)) /\ Listed(Append(s, n)) = Listed(s) \cup {n}
<1> DEFINE d == Len(s)
           t == Append(s, n)
<1>1. /\ d \in Nat /\ DOMAIN s = 1..d /\ DOMAIN t = 1..(d + 1)
      /\ \A k \in 1..d : t[k] = s[k] /\ s[k] \in Nat
      /\ t[d + 1] = n
  BY AppendProperties, LenProperties, ElementOfSeq
<1> HIDE DEF d, t
<1>2. \A k \in 1..d : s[k] < n
  BY <1>1 DEF Listed
<1>3. \A k \in 1..(d + 1) : k \in 1..d \/ k = d + 1
  BY <1>1
<1>4. Ascending(t)
  <2> SUFFICES ASSUME NEW j \in 1..(d + 1), NEW k \in 1..(d + 1), j < k
               PROVE  t[j] < t[k]
    BY <1>1 DEF Ascending
  <2>1. j \in 1..d
    BY <1>1
  <2>2. CASE k = d + 1
    BY <1>1, <1>2, <2>1, <2>2
  <2>3. CASE k \in 1..d
    BY <1>1, <2>1, <2>3 DEF Ascending
  <2> QED
    BY <1>3, <2>2, <2>3
<1>5. Listed(t) = Listed(s) \cup {n}
  <2>1. d + 1 \in 1..(d + 1) /\ \A k \in 1..d : k \in 1..(d + 1)
    BY <1>1
  <2> QED
    BY <1>1, <1>3, <2>1 DEF Listed
<1> QED
  BY <1>4, <1>5 DEF t

\* Sorting a list that is in the order of the queue gives the list that is printed.
LEMMA SortedInOrder ==
    ASSUME queue \in Seq(Tags), NEW list \in Seq(Work), Ascending(list)
    PROVE  InOrder(Sorted(list)) /\ Listed(Sorted(list)) = Listed(list)
<1>1. PICK at \in [DOMAIN list -> DOMAIN list] :
        /\ DOMAIN Sorted(list) = DOMAIN list
        /\ \A n \in DOMAIN list : Sorted(list)[n] = list[at[n]]
        /\ \A k \in DOMAIN list : \E n \in DOMAIN list : at[n] = k
        /\ \A n, m \in DOMAIN list : n < m => SortsBefore(list, at[n], at[m])
  BY SortedIs
<1>2. InOrder(Sorted(list))
  <2> SUFFICES ASSUME NEW n \in DOMAIN list, NEW m \in DOMAIN list, n < m
               PROVE  \/ PathOf(Sorted(list)[n]) < PathOf(Sorted(list)[m])
                      \/ /\ PathOf(Sorted(list)[n]) = PathOf(Sorted(list)[m])
                         /\ Sorted(list)[n] < Sorted(list)[m]
    BY <1>1 DEF InOrder
  <2>1. /\ SortsBefore(list, at[n], at[m])
        /\ Sorted(list)[n] = list[at[n]] /\ Sorted(list)[m] = list[at[m]]
    BY <1>1
  <2>2. at[n] < at[m] => list[at[n]] < list[at[m]]
    BY DEF Ascending
  <2> QED
    BY <2>1, <2>2 DEF SortsBefore
<1>3. Listed(Sorted(list)) = Listed(list)
  BY <1>1 DEF Listed
<1> QED
  BY <1>2, <1>3

\* The works that the lists account for so far.
Reported(i) ==
    \/ job[i] = "missing"
    \/ phase = "posting" /\ job[i] = "done" /\ i < next
    \/ phase = "printed" /\ job[i] = "done"

\* The lists have exactly those, where their outcomes belong, in the order of the
\* queue until they are printed, and their tags are seen.
ListsFit ==
    /\ \A l \in Lists :
         /\ phase # "printed" => Ascending(report[l])
         /\ phase = "printed" /\ l \in Printed => InOrder(report[l])
         /\ Listed(report[l]) = {i \in Work : Reported(i) /\ Belongs(i, l)}
    /\ seen = {queue[i] : i \in {k \in Work : Reported(k)}}

\* A step that neither reports a work nor changes what a reported one belongs to.
LEMMA NothingReported ==
    ASSUME ListsFit, UNCHANGED <<report, seen, queue>>, Work' = Work,
           phase' = "printed" <=> phase = "printed",
           \A i \in Work : Reported(i)' <=> Reported(i),
           \A i \in Work : Reported(i) => \A l \in Lists : Belongs(i, l)' <=> Belongs(i, l)
    PROVE  ListsFit'
<1>1. ASSUME NEW l \in Lists
      PROVE  /\ phase' # "printed" => Ascending(report'[l])
             /\ phase' = "printed" /\ l \in Printed => InOrder(report'[l])
             /\ Listed(report'[l]) = {i \in Work' : Reported(i)' /\ Belongs(i, l)'}
  <2>1. {i \in Work' : Reported(i)' /\ Belongs(i, l)'} = {i \in Work : Reported(i) /\ Belongs(i, l)}
    OBVIOUS
  <2> QED
    BY <2>1 DEF ListsFit
<1>2. {k \in Work' : Reported(k)'} = {k \in Work : Reported(k)}
  OBVIOUS
<1>3. seen' = {queue'[i] : i \in {k \in Work' : Reported(k)'}}
  BY <1>2 DEF ListsFit
<1>4. Lists' = Lists
  BY DEF Lists
<1>5. \A l \in Lists : InOrder(report[l])' <=> InOrder(report'[l])
  BY DEF InOrder, PathOf
<1> QED
  BY <1>1, <1>3, <1>4, <1>5 DEF ListsFit, Ascending, Listed, Printed

\* A step that reports one more work, later than all the others, in the lists where
\* it belongs.
LEMMA OneReported ==
    ASSUME Basics, ListsFit, NEW n \in Work, NEW L, UNCHANGED queue, Work' = Work,
           phase # "printed", phase' # "printed",
           report' = [l \in Lists |-> IF l \in L THEN Append(report[l], n) ELSE report[l]],
           seen' = seen \cup {queue[n]},
           \A i \in Work : Reported(i)' <=> Reported(i) \/ i = n,
           \A i \in Work : \A l \in Lists : Belongs(i, l)' <=> Belongs(i, l),
           \A l \in Lists : Belongs(n, l) <=> l \in L,
           \A l \in L \cap Lists : \A i \in Work : Reported(i) /\ Belongs(i, l) => i < n
    PROVE  ListsFit'
<1>1. ASSUME NEW l \in Lists
      PROVE  /\ Ascending(report'[l])
             /\ Listed(report'[l]) = {i \in Work' : Reported(i)' /\ Belongs(i, l)'}
  <2>1. report[l] \in Seq(Nat) /\ n \in Nat
    BY WorkIs DEF Basics, Typed
  <2>2. Ascending(report[l]) /\ Listed(report[l]) = {i \in Work : Reported(i) /\ Belongs(i, l)}
    BY DEF ListsFit
  <2>3. CASE l \in L
    <3>1. \A m \in Listed(report[l]) : m < n
      BY <2>2, <2>3
    <3>2. report'[l] = Append(report[l], n)
      BY <2>3
    <3>3. Ascending(report'[l]) /\ Listed(report'[l]) = Listed(report[l]) \cup {n}
      BY <2>1, <2>2, <3>1, <3>2, AppendedInOrder
    <3> QED
      BY <2>2, <2>3, <3>3
  <2>4. CASE l \notin L
    BY <2>2, <2>4
  <2> QED
    BY <2>3, <2>4
<1>2. {k \in Work' : Reported(k)'} = {k \in Work : Reported(k)} \cup {n}
  OBVIOUS
<1>3. seen' = {queue'[i] : i \in {k \in Work' : Reported(k)'}}
  BY <1>2 DEF ListsFit
<1>4. Lists' = Lists
  BY DEF Lists
<1> QED
  BY <1>1, <1>3, <1>4 DEF ListsFit, Ascending, Listed

\* Every step keeps the lists as they should be.
LEMMA ListsNext == Basics /\ ListsFit /\ [Next]_vars => ListsFit'
<1> SUFFICES ASSUME Basics, ListsFit, [Next]_vars
             PROVE  ListsFit'
  OBVIOUS
<1>w. Work = 1..Len(queue) /\ Len(queue) \in Nat /\ Work \subseteq Nat /\ next \in Nat /\ next # 0
  BY WorkIs DEF Basics, Typed
<1>p. "absent" \notin Pages
  BY CheckAssumption
<1>l. Lists = {"missing", "new", "ok", "error"}
  BY DEF Lists
<1>s. ASSUME UNCHANGED <<watch, queue, job, answer, seen, report, phase, next>>
      PROVE  ListsFit'
  BY <1>s DEF ListsFit, Reported, Belongs, Ascending, InOrder, PathOf, Listed, Work, Lists, Printed
<1>1. CASE PreHandle
  <2>1. /\ next \in Work /\ phase = "submitting" /\ UNCHANGED <<watch, queue, answer>> /\ Work' = Work
        /\ phase' \in {"submitting", "raised"}
    BY <1>1, PreHandleDoes
  <2>2. \A i \in Work : \A l \in Lists : Belongs(i, l)' <=> Belongs(i, l)
    BY <2>1 DEF Belongs
  <2>3. \A i \in Work : Reported(i) <=> job[i] = "missing"
    BY <2>1 DEF Reported
  <2>4. \A i \in Work : Reported(i)' <=> job'[i] = "missing"
    BY <2>1 DEF Reported
  <2>5. job[next] = "unhandled" /\ \A i \in Work : job[i] = "missing" => i < next
    BY <1>w, <2>1 DEF Basics, InTurn
  <2>6. CASE /\ watch[queue[next]] = "absent" /\ job' = [job EXCEPT ![next] = "missing"]
             /\ report' = [report EXCEPT !["missing"] = Append(report["missing"], next)]
             /\ seen' = seen \cup {queue[next]}
    <3>1. \A i \in Work : Reported(i)' <=> Reported(i) \/ i = next
      BY <2>1, <2>3, <2>4, <2>6 DEF Basics, Typed
    <3>2. \A l \in Lists : Belongs(next, l) <=> l \in {"missing"}
      BY <2>6 DEF Belongs
    <3>3. report' = [l \in Lists |-> IF l \in {"missing"} THEN Append(report[l], next) ELSE report[l]]
      BY <2>6 DEF Basics, Typed
    <3>4. \A i \in Work : Reported(i) => i < next
      BY <2>3, <2>5
    <3> QED
      BY <2>1, <2>2, <2>6, <3>1, <3>2, <3>3, <3>4, OneReported
  <2>7. CASE UNCHANGED <<report, seen>> /\ (job' = job \/ job' = [job EXCEPT ![next] = "queued"])
    <3>1. \A i \in Work : Reported(i)' <=> Reported(i)
      BY <2>1, <2>3, <2>4, <2>5, <2>7 DEF Basics, Typed
    <3> QED
      BY <2>1, <2>2, <2>7, <3>1, NothingReported
  <2> QED
    BY <1>1, <2>6, <2>7, PreHandleDoes
<1>2. ASSUME NEW i \in Work, Thread(i)
      PROVE  ListsFit'
  <2>1. /\ UNCHANGED <<watch, queue, phase, next, seen, report>> /\ Work' = Work
        /\ job[i] \in {"queued", "fetching"}
        /\ \E j \in {"fetching", "done"} : job' = [job EXCEPT ![i] = j]
        /\ \E a : answer' = [answer EXCEPT ![i] = a]
    BY <1>2, ThreadDoes
  <2>2. phase \notin {"posting", "printed"}
    BY <2>1 DEF Basics, InTurn
  <2>3. \A k \in Work : k # i => job'[k] = job[k] /\ answer'[k] = answer[k]
    BY <2>1 DEF Basics, Typed
  <2>4. job'[i] # "missing"
    BY <2>1 DEF Basics, Typed
  <2>5. \A k \in Work : Reported(k)' <=> Reported(k)
    BY <2>1, <2>2, <2>3, <2>4 DEF Reported
  <2>6. \A k \in Work : Reported(k) => k # i
    BY <2>1, <2>2 DEF Reported
  <2>7. \A k \in Work : Reported(k) => \A l \in Lists : Belongs(k, l)' <=> Belongs(k, l)
    BY <2>1, <2>3, <2>6 DEF Belongs
  <2> QED
    BY <2>1, <2>5, <2>7, NothingReported
<1>3. CASE PoolEnds
  <2>1. /\ UNCHANGED <<watch, queue, job, answer, seen, report>> /\ Work' = Work /\ next' = 1
        /\ phase \in {"raised", "submitting"} /\ phase' \in {"died", "posting"}
    BY <1>3 DEF PoolEnds, Work
  <2>2. \A k \in Work : ~(k < 1)
    BY <1>w
  <2>3. \A k \in Work : Reported(k)' <=> Reported(k)
    BY <2>1, <2>2 DEF Reported
  <2>4. \A k \in Work : Reported(k) => \A l \in Lists : Belongs(k, l)' <=> Belongs(k, l)
    BY <2>1 DEF Belongs
  <2> QED
    BY <2>1, <2>3, <2>4, NothingReported
<1>4. CASE PostHandle
  <2>1. /\ phase = "posting" /\ UNCHANGED <<watch, queue, phase, job, answer>> /\ Work' = Work
    BY <1>4, PostHandleDoes
  <2>2. PICK i \in Work :
           /\ NextResult(i) /\ i \in Nat /\ next' = i + 1
           /\ report' = [l \in Lists |->
                IF l \in ListsOf(answer[i]) THEN Append(report[l], i) ELSE report[l]]
           /\ seen' = seen \cup {queue[i]}
    BY <1>4, PostHandleDoes
  <2>3. /\ i >= next /\ job[i] = "done"
        /\ \A j \in Work : next <= j /\ j < i => job[j] # "done"
    BY <2>2 DEF NextResult
  <2>4. \A k \in Work : job[k] = "done" => (k < next' <=> k < next \/ k = i)
    <3> SUFFICES ASSUME NEW k \in Work, job[k] = "done"
                 PROVE  k < next' <=> k < next \/ k = i
      OBVIOUS
    <3>1. k \in Nat /\ ~(next <= k /\ k < i)
      BY <1>w, <2>3
    <3> QED
      BY <1>w, <2>2, <2>3, <3>1
  <2>5. \A k \in Work : Reported(k)' <=> Reported(k) \/ k = i
    BY <2>1, <2>3, <2>4 DEF Reported
  <2>6. \A k \in Work : \A l \in Lists : Belongs(k, l)' <=> Belongs(k, l)
    BY <2>1 DEF Belongs
  <2>7. watch[queue[i]] # "absent"
    BY <1>p, <2>3 DEF Basics, JobsFit
  <2>8. \A l \in Lists : Belongs(i, l) <=> l \in ListsOf(answer[i])
    BY <1>l, <2>7, VersionsAre DEF Belongs, ListsOf
  <2>9. \A l \in ListsOf(answer[i]) : l # "missing"
    BY DEF ListsOf
  <2>10. \A l \in ListsOf(answer[i]) \cap Lists : \A k \in Work : Reported(k) /\ Belongs(k, l) => k < i
    <3> SUFFICES ASSUME NEW l \in ListsOf(answer[i]), NEW k \in Work, Reported(k), Belongs(k, l)
                 PROVE  k < i
      OBVIOUS
    <3>1. watch[queue[k]] # "absent"
      BY <2>9 DEF Belongs
    <3>2. k < next
      BY <2>1, <3>1 DEF Reported, Basics, JobsFit
    <3> QED
      BY <1>w, <2>2, <2>3, <3>2
  <2> QED
    BY <2>1, <2>2, <2>5, <2>6, <2>8, <2>10, OneReported
<1>5. CASE PrintLists
  <2>1. /\ phase = "posting" /\ \A i \in Work : ~NextResult(i)
        /\ phase' = "printed" /\ UNCHANGED <<watch, queue, next, job, answer, seen>> /\ Work' = Work
        /\ \A l \in Lists : report'[l] = IF l \in Printed THEN Sorted(report[l]) ELSE report[l]
    BY <1>5 DEF PrintLists, Work
  <2>2. \A i \in Work : job[i] = "done" => i < next
    <3> DEFINE Left == {i \in Work : job[i] = "done" /\ ~(i < next)}
    <3> SUFFICES ASSUME Left # {}
                 PROVE  FALSE
      OBVIOUS
    <3>1. Left \subseteq Nat
      BY <1>w
    <3>2. PICK i \in Left : \A j \in Left : ~(j < i)
      BY <3>1, HasLeast
    <3>3. ASSUME NEW j \in Work, next <= j, j < i
          PROVE  job[j] # "done"
      BY <1>w, <3>2, <3>3
    <3>4. NextResult(i)
      BY <1>w, <3>3 DEF NextResult
    <3> QED
      BY <2>1, <3>4
  <2>3. \A k \in Work : Reported(k)' <=> Reported(k)
    BY <2>1, <2>2 DEF Reported
  <2>4. \A k \in Work : \A l \in Lists : Belongs(k, l)' <=> Belongs(k, l)
    BY <2>1 DEF Belongs
  <2>5. ASSUME NEW l \in Lists
        PROVE  /\ l \in Printed => InOrder(report'[l])
               /\ Listed(report'[l]) = {i \in Work' : Reported(i)' /\ Belongs(i, l)'}
    <3>1. queue \in Seq(Tags) /\ report[l] \in Seq(Work) /\ Ascending(report[l])
      BY <2>1 DEF Basics, Typed, ListsFit
    <3>2. Listed(report[l]) = {i \in Work : Reported(i) /\ Belongs(i, l)}
      BY DEF ListsFit
    <3>3. Listed(report[l]) = {i \in Work' : Reported(i)' /\ Belongs(i, l)'}
      BY <2>1, <2>3, <2>4, <3>2
    <3> QED
      BY <2>1, <3>1, <3>3, SortedInOrder
  <2>6. seen' = {queue'[i] : i \in {k \in Work' : Reported(k)'}}
    <3>1. {k \in Work' : Reported(k)'} = {k \in Work : Reported(k)}
      BY <2>1, <2>3
    <3> QED
      BY <2>1, <3>1 DEF ListsFit
  <2>7. \A l \in Lists : InOrder(report[l])' <=> InOrder(report'[l])
    BY <2>1 DEF InOrder, PathOf
  <2> QED
    BY <2>1, <2>5, <2>6, <2>7 DEF ListsFit, Listed, Lists, Printed
<1>6. ASSUME NEW p \in Pages, Release(p)
      PROVE  ListsFit'
  BY <1>6, <1>s DEF Release
<1>7. CASE UNCHANGED vars
  BY <1>7, <1>s DEF vars
<1> QED
  BY <1>1, <1>2, <1>3, <1>4, <1>5, <1>6, <1>7 DEF Next, Main

\* What is printed accounts for every line found, once in each list of its outcome,
\* by path and, of one path, as the lines were found, whatever order the threads of
\* the pool worked in; and the obsolete entries are those that no line is for.
THEOREM EveryWorkIsListed == Spec => []EachWorkIsListed
<1>1. Init => ListsFit
  <2> SUFFICES ASSUME Init PROVE ListsFit
    OBVIOUS
  <2>1. \A i \in Work : ~Reported(i)
    BY DEF Init, Reported
  <2>2. \A l \in Lists : report[l] = <<>>
    BY DEF Init
  <2>3. Ascending(<<>>) /\ Listed(<<>>) = {} /\ phase # "printed"
    BY DEF Init, Ascending, Listed
  <2>4. seen = {}
    BY DEF Init
  <2> QED
    BY <2>1, <2>2, <2>3, <2>4 DEF ListsFit
<1>2. Spec => [](Basics /\ ListsFit)
  BY <1>1, ListsNext, BasicsInvariant, PTL DEF Spec
<1>3. Basics /\ ListsFit => EachWorkIsListed
  <2> SUFFICES ASSUME Basics, ListsFit, phase = "printed"
               PROVE  /\ \A l \in Printed : /\ InOrder(report[l])
                                            /\ Listed(report[l]) = {i \in Work : Belongs(i, l)}
                      /\ Obsolete = {t \in Tags : watch[t] # "absent" /\ \A i \in Work : queue[i] # t}
    BY DEF EachWorkIsListed
  <2>1. \A i \in Work : Reported(i)
    BY DEF Basics, InTurn, Reported
  <2>2. seen = {queue[i] : i \in Work}
    <3>1. {k \in Work : Reported(k)} = Work
      BY <2>1
    <3> QED
      BY <3>1 DEF ListsFit
  <2>3. ASSUME NEW l \in Printed
        PROVE  InOrder(report[l]) /\ Listed(report[l]) = {i \in Work : Belongs(i, l)}
    <3>1. {i \in Work : Reported(i) /\ Belongs(i, l)} = {i \in Work : Belongs(i, l)}
      BY <2>1
    <3> QED
      BY <3>1 DEF ListsFit, Printed, Lists
  <2>4. Obsolete = {t \in Tags : watch[t] # "absent" /\ \A i \in Work : queue[i] # t}
    BY <2>2 DEF Obsolete
  <2> QED
    BY <2>3, <2>4
<1> QED
  BY <1>2, <1>3, PTL
=============================================================================
