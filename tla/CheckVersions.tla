----------------------------- MODULE CheckVersions -----------------------------
(***************************************************************************)
(* The run of check-versions (check-versions.py, checkers.py): the version *)
(* lines found in the tree are looked up online by a pool of threads that  *)
(* share a cache of what they fetch, while the main thread still submits   *)
(* work; then the results are sorted into lists.                           *)
(* A checker is abstracted to one page it watches: the calls themselves    *)
(* are modelled in DockerDigest, SvnSession and TagChoice.                 *)
(***************************************************************************)
EXTENDS Integers, Sequences, FiniteSets

CONSTANTS
    Paths,       \* files of the tree, as numbers in the order of their paths
    Names,       \* tags that their lines may have
    Pages,       \* what is fetched and cached: arguments of a cached function
    Threads,     \* max_workers of the pool
    MaxWork,     \* bound: version lines found
    MaxVersion,  \* bound: versions published, before and during the run
    Debug        \* DEBUG: equal versions are printed too

ASSUME CheckAssumption ==
    /\ Threads \in Nat \ {0} /\ MaxWork \in Nat /\ MaxVersion \in Nat \ {0}
    /\ Pages \cap {"absent", "ignore", "broken"} = {}
    /\ Paths \subseteq Nat /\ Debug \in BOOLEAN

Tags == Paths \X Names
Versions == 1..MaxVersion
InFile == 1         \* the version that the files have
NoAnswer == 0
Failure == -1       \* the checker raised
Lists == {"missing", "new", "ok", "error"}

VARIABLES
    watch,     \* config.VERSIONS: per tag the page its checker watches; "absent"
               \* without an entry, "broken" if lookup refuses the entry
    upstream,  \* newest version on each page
    queue,     \* the tags of the version lines found, in order
    phase,     \* of the main thread
    next,      \* the main thread's place in the queue, for submitting and for results
    job,       \* per entry of the queue: where its work is
    answer,    \* per entry: the version found, or Failure
    cache,     \* per page: the version of the cached page, 0 without one
    seen,      \* seen_tags
    report     \* per list: entries of the queue, in the order of the list

vars == <<watch, upstream, queue, phase, next, job, answer, cache, seen, report>>

Work == DOMAIN queue
Fetching == {i \in Work : job[i] = "fetching"}
PathOf(i) == queue[i][1]
Watching(p) == {i \in Work : watch[queue[i]] = p}

TypeOK ==
    /\ watch \in [Tags -> Pages \cup {"absent", "ignore", "broken"}]
    /\ upstream \in [Pages -> Versions]
    /\ queue \in Seq(Tags)
    /\ phase \in {"submitting", "raised", "posting", "printed", "died"}
    /\ next \in Nat \ {0}
    /\ job \in [Work -> {"unhandled", "missing", "queued", "fetching", "done"}]
    /\ answer \in [Work -> Versions \cup {NoAnswer, Failure}]
    /\ cache \in [Pages -> Versions \cup {NoAnswer}]
    /\ seen \subseteq Tags
    /\ report \in [Lists -> Seq(Work)]
    /\ Cardinality(Fetching) <= Threads

\* Any lines of the files, in any order (os.walk has none, and a file is read
\* again if two configured paths lead to it), of which one tag may have several.
Found == UNION {[1..n -> Tags] : n \in 0..MaxWork}

Init ==
    /\ watch \in [Tags -> Pages \cup {"absent", "ignore", "broken"}]
    /\ upstream \in [Pages -> Versions]
    /\ queue \in Found
    /\ phase = "submitting" /\ next = 1
    /\ job = [i \in Work |-> "unhandled"]
    /\ answer = [i \in Work |-> NoAnswer]
    /\ cache = [p \in Pages |-> NoAnswer]
    /\ seen = {}
    /\ report = [l \in Lists |-> <<>>]

Release(p) ==
    /\ upstream[p] < MaxVersion
    /\ upstream' = [upstream EXCEPT ![p] = @ + 1]
    /\ UNCHANGED <<watch, queue, phase, next, job, answer, cache, seen, report>>

-----------------------------------------------------------------------------
(***************************************************************************)
(* The main thread submits: pool.map draws all the work from the generator *)
(* at once, while the first of it is already being done.                   *)
(***************************************************************************)
PreHandle ==
    /\ phase = "submitting" /\ next \in Work
    /\ LET t == queue[next] IN
       \/ /\ watch[t] = "absent"
          /\ job' = [job EXCEPT ![next] = "missing"]
          /\ report' = [report EXCEPT !["missing"] = Append(@, next)]
          /\ seen' = seen \cup {t}
          /\ next' = next + 1
          /\ UNCHANGED phase
       \/ /\ watch[t] = "broken"
          /\ phase' = "raised"
          /\ UNCHANGED <<next, job, seen, report>>
       \/ /\ watch[t] \notin {"absent", "broken"}
          /\ job' = [job EXCEPT ![next] = "queued"]
          /\ next' = next + 1
          /\ UNCHANGED <<phase, seen, report>>
    /\ UNCHANGED <<watch, upstream, queue, answer, cache>>

\* Mutant: a thread that has waited for an answer takes no more work.
FreeOnce == Cardinality({i \in Work : answer[i] # NoAnswer} \cup Fetching) < Threads
\* Mutant: more threads than max_workers.
FreeAlways == TRUE

\* A thread of the pool has nothing to do.
Free == Cardinality(Fetching) < Threads

\* A free thread takes the first work of the pool's queue, which ends at once if
\* nothing is looked up or the page is in the cache.
Take(i) ==
    /\ job[i] = "queued" /\ Free
    /\ \A j \in 1..(i - 1) : job[j] # "queued"
    /\ LET p == watch[queue[i]]
           known == IF p = "ignore" THEN InFile ELSE cache[p]
       IN /\ job' = [job EXCEPT ![i] = IF known = NoAnswer THEN "fetching" ELSE "done"]
          /\ answer' = [answer EXCEPT ![i] = known]
    /\ UNCHANGED <<watch, upstream, queue, phase, next, cache, seen, report>>

\* Mutant: the last page fetched takes the place of the one in the cache.
CachedLast(p, v) == [cache EXCEPT ![p] = v]

\* lru_cache keeps what another thread has put there during the call.
Cached(p, v) == [cache EXCEPT ![p] = IF @ = NoAnswer THEN v ELSE @]

Fetched(i) ==
    /\ job[i] = "fetching"
    /\ LET p == watch[queue[i]] IN
        /\ answer' = [answer EXCEPT ![i] = upstream[p]]
        /\ cache' = Cached(p, upstream[p])
    /\ job' = [job EXCEPT ![i] = "done"]
    /\ UNCHANGED <<watch, upstream, queue, phase, next, seen, report>>

\* An exception, which handle_version returns; it is not cached.
Fails(i) ==
    /\ job[i] = "fetching"
    /\ answer' = [answer EXCEPT ![i] = Failure]
    /\ job' = [job EXCEPT ![i] = "done"]
    /\ UNCHANGED <<watch, upstream, queue, phase, next, cache, seen, report>>

\* The end of the with statement: the pool has done everything submitted, also
\* when the generator raised, and then the exception ends the program.
PoolEnds ==
    /\ phase = "raised" \/ (phase = "submitting" /\ next \notin Work)
    /\ \A i \in Work : job[i] \notin {"queued", "fetching"}
    /\ phase' = IF phase = "raised" THEN "died" ELSE "posting"
    /\ next' = 1
    /\ UNCHANGED <<watch, upstream, queue, job, answer, cache, seen, report>>

(***************************************************************************)
(* The results, in the order in which the work was submitted.              *)
(***************************************************************************)

\* The next work that was submitted.
NextResult(i) ==
    /\ i >= next /\ job[i] = "done"
    /\ \A j \in Work : next <= j /\ j < i => job[j] # "done"

\* Mutant: the error returns.
ListsIfReturned(a) == {IF a = Failure THEN "error" ELSE IF a = InFile THEN "ok" ELSE "new"}

\* An error is an exception, which is a true result: it goes on to the lists of
\* equal versions too.
ListsOf(a) == IF a = Failure THEN {"error", "ok"} ELSE IF a = InFile THEN {"ok"} ELSE {"new"}

PostHandle ==
    /\ phase = "posting"
    /\ \E i \in Work :
        /\ NextResult(i)
        /\ report' = [l \in Lists |->
             IF l \in ListsOf(answer[i]) THEN Append(report[l], i) ELSE report[l]]
        /\ seen' = seen \cup {queue[i]}
        /\ next' = i + 1
    /\ UNCHANGED <<watch, upstream, queue, phase, job, answer, cache>>

\* The sort by path is stable: of one path, what was first in the list stays first.
SortsBefore(list, j, k) ==
    LET p == PathOf(list[j])
        q == PathOf(list[k])
    IN p < q \/ (p = q /\ j < k)

\* The entry that gets place n has n - 1 others before it.
Sorted(list) ==
    LET place == [k \in DOMAIN list |->
                    Cardinality({j \in DOMAIN list : j = k \/ SortsBefore(list, j, k)})]
    IN [n \in DOMAIN list |-> list[CHOOSE k \in DOMAIN list : place[k] = n]]

\* Every list is sorted when it is printed.
Printed == {"missing", "new", "error"} \cup (IF Debug THEN {"ok"} ELSE {})

PrintLists ==
    /\ phase = "posting" /\ \A i \in Work : ~NextResult(i)
    /\ phase' = "printed"
    /\ report' = [l \in Lists |-> IF l \in Printed THEN Sorted(report[l]) ELSE report[l]]
    /\ UNCHANGED <<watch, upstream, queue, next, job, answer, cache, seen>>

\* print_obsolete_versions.
Obsolete == {t \in Tags : watch[t] # "absent"} \ seen

Main == PreHandle \/ PoolEnds \/ PostHandle \/ PrintLists
Thread(i) == Take(i) \/ Fetched(i) \/ Fails(i)

Next ==
    \/ Main
    \/ \E i \in Work : Thread(i)
    \/ \E p \in Pages : Release(p)

Spec == Init /\ [][Next]_vars

\* The main thread and the pool run, and every request is answered or fails.
FairSpec == Spec /\ WF_vars(Main) /\ \A i \in 1..MaxWork : WF_vars(i \in Work /\ Thread(i))

-----------------------------------------------------------------------------
(***************************************************************************)
(* Properties.                                                             *)
(***************************************************************************)

\* A page is fetched by several threads at once if they miss it together, and
\* they may see different versions; all later works see the one in the cache.
\* So fewer works than there are threads were told another version than that.
StaleAnswersAreFew ==
    \A p \in Pages :
        Cardinality({i \in Watching(p) : answer[i] \in Versions /\ answer[i] # cache[p]})
            < Threads

\* The lists that the outcome of a work calls for.
Belongs(i, l) ==
    IF watch[queue[i]] = "absent" THEN l = "missing"
    ELSE \/ l = "error" /\ answer[i] = Failure
         \/ l = "ok" /\ answer[i] \in {InFile, Failure}
         \/ l = "new" /\ answer[i] \notin {InFile, Failure}

\* A list has its works once each, by path and, of one path, as they were found.
InOrder(list) ==
    \A j, k \in DOMAIN list : j < k =>
        LET p == PathOf(list[j]) q == PathOf(list[k]) IN p < q \/ (p = q /\ list[j] < list[k])
Listed(list) == {list[k] : k \in DOMAIN list}

\* What is printed accounts for every line found: it is in the lists that its
\* outcome calls for and in no other, once in each, and the lists are by path and
\* have the lines of one path as they were found, whatever order the threads
\* worked in.  A failed check is among the equal versions as well as among the
\* errors.  The entries printed as obsolete are those that no line is for.
EachWorkIsListed ==
    phase = "printed" =>
        /\ \A l \in Printed : InOrder(report[l]) /\ Listed(report[l]) = {i \in Work : Belongs(i, l)}
        /\ Obsolete = {t \in Tags : watch[t] # "absent" /\ \A i \in Work : queue[i] # t}

\* If requests end, the run ends, and what was fetched is lost exactly when an
\* entry that the tree uses cannot be looked up.
RunIsReported ==
    <>(phase = IF \E i \in Work : watch[queue[i]] = "broken" THEN "died" ELSE "printed")
=============================================================================
