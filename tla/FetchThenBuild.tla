----------------------------- MODULE FetchThenBuild -----------------------------
(***************************************************************************)
(* What the locks of builds.py promise, without queues, workers or steps:  *)
(* the source of a project only changes when nobody reads it and no build  *)
(* of what was fetched is left to do.                                      *)
(***************************************************************************)
CONSTANTS Projects, Platforms, Contents, Workers

VARIABLES
    content,  \* what each source directory holds
    reading,  \* the builds that read it
    todo      \* platforms that the current launch of each project still owes

vars == <<content, reading, todo>>

\* The source is written: nobody reads it and nothing is owed on it.
Write(p) ==
    /\ reading[p] = {} /\ todo[p] = {}
    /\ \E c \in Contents : content' = [content EXCEPT ![p] = c]
    /\ UNCHANGED <<reading, todo>>

\* Builds of the platforms ts are owed on the source as it is.
Launch(p) ==
    /\ todo[p] = {}
    /\ \E ts \in SUBSET Platforms : todo' = [todo EXCEPT ![p] = ts]
    /\ UNCHANGED <<content, reading>>

\* A builder starts to read, on its own account or for one of the builds owed.
Read(p, r) ==
    /\ r \notin reading[p]
    /\ reading' = [reading EXCEPT ![p] = @ \cup {r}]
    /\ UNCHANGED <<content, todo>>

\* It is done, and may have settled one of the builds owed.
Done(p, r) ==
    /\ r \in reading[p]
    /\ reading' = [reading EXCEPT ![p] = @ \ {r}]
    /\ \E t \in Platforms : todo' \in {todo, [todo EXCEPT ![p] = @ \ {t}]}
    /\ UNCHANGED content

\* A restart stops every build and forgets what is owed.
Restart ==
    /\ reading' = [p \in Projects |-> {}]
    /\ todo' = [p \in Projects |-> {}]
    /\ UNCHANGED content

\* What is owed is given up, while builds may go on reading.
Abandon(p) ==
    /\ todo' = [todo EXCEPT ![p] = {}]
    /\ UNCHANGED <<content, reading>>

Init ==
    /\ content \in [Projects -> Contents]
    /\ reading = [p \in Projects |-> {}]
    /\ todo = [p \in Projects |-> {}]

Next ==
    \/ \E p \in Projects :
        Write(p) \/ Launch(p) \/ Abandon(p) \/ \E r \in Workers : Read(p, r) \/ Done(p, r)
    \/ Restart

Spec == Init /\ [][Next]_vars

\* A read that goes on keeps the content it started on (action property; the
\* refinement carries it over to the build farm).
StableWhileRead ==
    [][\A p \in Projects : reading[p] # {} => content'[p] = content[p]]_vars
=============================================================================
