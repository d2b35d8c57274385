------------------------------ MODULE DailyBuilds ------------------------------
(***************************************************************************)
(* The directory of daily packages of one project: the upload and link     *)
(* steps of a packaging build (utils/scummsteps.py, get_package_steps) and *)
(* the cleaner (CleanupDailyBuilds), one action per step between which     *)
(* the master does other things.  The cleaner scans the directory in one   *)
(* go and then removes what it found one file at a time.                   *)
(***************************************************************************)
EXTENDS Integers, FiniteSets

CONSTANTS
    Platforms,       \* platformnames of the cleaner: those that can be packaged
    OldPlatforms,    \* names of platforms that were removed since
    KeepBuilds,      \* daily_builds_keep_builds
    ObsoleteAge,     \* daily_builds_obsolete_days
    CleanupUnknown,  \* values daily_builds_clean_unknown takes
    Canonical,       \* no component of the directory's path is a symbolic link
    MaxRev,          \* bound: revisions packaged
    MaxTime          \* bound: moments

ASSUME DailyAssumption ==
    /\ Platforms \cap OldPlatforms = {}
    /\ {KeepBuilds, ObsoleteAge, MaxTime} \subseteq Nat /\ MaxRev \in Nat \ {0}
    /\ CleanupUnknown \subseteq BOOLEAN /\ Canonical \in BOOLEAN

AllPlatforms == Platforms \cup OldPlatforms
Revs == 1..MaxRev

\* File names: a package, a latest link, or the temporary file of an upload,
\* which is neither; only a package has a revision, which is not 0.
Package == [kind : {"package"}, plat : AllPlatforms, id : Revs]
Link == [kind : {"latest"}, plat : AllPlatforms, id : {0}]
Temp == [kind : {"temp"}, plat : Platforms, id : {0}]
Names == Package \cup Link \cup Temp

PackageOf(p, r) == [kind |-> "package", plat |-> p, id |-> r]
LatestOf(p) == [kind |-> "latest", plat |-> p, id |-> 0]
TempOf(p) == [kind |-> "temp", plat |-> p, id |-> 0]

\* What a name stands for.
Absent == [is |-> "absent"]
FileAt(t) == [is |-> "file", mtime |-> t]
LinkTo(n) == [is |-> "link", to |-> n]
Entries == {Absent} \cup {FileAt(t) : t \in 0..MaxTime} \cup {LinkTo(n) : n \in Package}

VARIABLES
    now,      \* the moment; of two packages that were uploaded, each has its own
    exists,   \* the directory has been created
    dir,      \* what each name in it stands for
    upload,   \* per platform: step and revision of the packaging build
    cleaner,  \* the clean build: whether one runs, alone or beside uploads, its
              \* dry_run property and its cleanup_unknown setting
    toClean,  \* how often each name is still on the cleaner's list
    result,   \* result of the clean build, so far or of the last one
    overtaken \* history: names that an upload or a link step has put in place
              \* while the cleaner had them on its list

vars == <<now, exists, dir, upload, cleaner, toClean, result, overtaken>>

NoUpload == [step |-> "none", rev |-> 0]
Idle == [st |-> "idle", dry |-> FALSE, unknown |-> FALSE]
Uploading(p) == upload[p].step # "none"

TypeOK ==
    /\ now \in 0..MaxTime
    /\ exists \in BOOLEAN
    /\ dir \in [Names -> Entries]
    /\ upload \in [Platforms -> [step : {"none", "writing", "linking"}, rev : 0..MaxRev]]
    /\ cleaner \in [st : {"idle", "alone", "beside"}, dry : BOOLEAN, unknown : BOOLEAN]
    /\ toClean \in [Names -> 0..2]
    /\ result \in {"none", "SUCCESS", "FAILURE", "RETRY"}
    /\ overtaken \subseteq Names

\* Platforms that were removed may have left their latest link and the package
\* that it points at.
Init ==
    /\ now = 0
    /\ \E left \in SUBSET {LatestOf(p) : p \in OldPlatforms} :
        /\ dir = [n \in Names |->
                    IF n \in left THEN LinkTo(PackageOf(n.plat, 1))
                    ELSE IF \E l \in left : n = PackageOf(l.plat, 1) THEN FileAt(0)
                    ELSE Absent]
        /\ exists = (left # {})
    /\ upload = [p \in Platforms |-> NoUpload]
    /\ cleaner = Idle
    /\ toClean = [n \in Names |-> 0]
    /\ result = "none"
    /\ overtaken = {}

IsFile(n) == dir[n].is = "file"
Resolves(l) == dir[l].is = "link" /\ IsFile(dir[l].to)
Packages(p) == {n \in Package : n.plat = p /\ IsFile(n)}

\* The package that a build of p uploads and links.
Current(p) == PackageOf(p, upload[p].rev)

\* Assumed of the environment: a build comes to its link step, or is broken off,
\* before the package it has just uploaded would be obsolete.
Timely(t) ==
    \A p \in Platforms : upload[p].step = "linking" /\ IsFile(Current(p)) =>
        dir[Current(p)].mtime >= t - ObsoleteAge

Pass ==
    /\ now < MaxTime /\ Timely(now + 1)
    /\ now' = now + 1
    /\ UNCHANGED <<exists, dir, upload, cleaner, toClean, result, overtaken>>

-----------------------------------------------------------------------------
(***************************************************************************)
(* Packaging a build of revision r for platform p.                         *)
(***************************************************************************)

\* "upload package" creates the directory and a temporary file in it, the time
\* of which nobody reads.  Any revision may be built: the sources can go back, a
\* request can wait.
BeginUpload(p, r) ==
    /\ ~Uploading(p)
    /\ cleaner.st # "alone"
    /\ upload' = [upload EXCEPT ![p] = [step |-> "writing", rev |-> r]]
    /\ dir' = [dir EXCEPT ![TempOf(p)] = FileAt(0)]
    /\ exists' = TRUE
    /\ UNCHANGED <<now, cleaner, toClean, result, overtaken>>

\* What the list says of names that are put in place while it is worked off.
Overtake(S) == overtaken' = (overtaken \ S) \cup {n \in S : toClean[n] > 0}

\* It ends by renaming the file to the package, which makes the package, and the
\* link if it leads there, good again.  Without the file it fails, and a failure
\* halts the build.
EndUpload(p) ==
    /\ upload[p].step = "writing"
    /\ IF IsFile(TempOf(p))
       THEN /\ now < MaxTime /\ Timely(now + 1)
            /\ now' = now + 1
            /\ dir' = [dir EXCEPT ![Current(p)] = FileAt(now + 1), ![TempOf(p)] = Absent]
            /\ upload' = [upload EXCEPT ![p].step = "linking"]
            /\ Overtake({Current(p), LatestOf(p)})
       ELSE /\ upload' = [upload EXCEPT ![p] = NoUpload]
            /\ UNCHANGED <<now, dir, overtaken>>
    /\ UNCHANGED <<exists, cleaner, toClean, result>>

\* "link latest daily build": ln -sf.
LinkLatest(p) ==
    /\ upload[p].step = "linking"
    /\ dir' = [dir EXCEPT ![LatestOf(p)] = LinkTo(Current(p))]
    /\ upload' = [upload EXCEPT ![p] = NoUpload]
    /\ Overtake({LatestOf(p)})
    /\ UNCHANGED <<now, exists, cleaner, toClean, result>>

\* The build is cut short: the worker or the master goes away, and what the
\* upload has written so far stays.
BreakOff(p) ==
    /\ Uploading(p)
    /\ upload' = [upload EXCEPT ![p] = NoUpload]
    /\ UNCHANGED <<now, exists, dir, cleaner, toClean, result, overtaken>>

-----------------------------------------------------------------------------
(***************************************************************************)
(* CleanupDailyBuilds.run, the scan.                                       *)
(***************************************************************************)

Present == {n \in Names : dir[n] # Absent}

\* Names that do not parse as a package of this project for a known platform.
Unknown == {n \in Present : n.kind = "temp" \/ n.plat \notin Platforms}

\* Without cleanup_unknown, the packages of an outdated platform are subject to
\* the rules for packages; its latest link is removed either way.
Ruled(unknown) == IF unknown THEN Platforms ELSE AllPlatforms
Links == {n \in Present : n.kind = "latest" /\ n.plat \in Platforms}
History(p) == Packages(p)

\* Mutant: unknown files are never removed.
FishyKeepsUnknown(unknown) ==
    {n \in Present : n.kind = "latest" /\ n.plat \notin Platforms} \cup {l \in Links : ~Resolves(l)}

\* Removed because of what they are.
Fishy(unknown) ==
    (IF unknown THEN Unknown ELSE {n \in Unknown : n.kind = "latest"})
    \cup {l \in Links : ~Resolves(l)}

\* The latest links that hold.
Latests == {l \in Links : Resolves(l)}

\* The order by time.
MoreRecent(n, m) == dir[n].mtime > dir[m].mtime

\* Mutant: sorted without reverse.
KeptOldest(p) == {n \in History(p) : Cardinality({m \in History(p) : MoreRecent(n, m)}) < KeepBuilds}

\* history[:keep_builds], most recent first.
Kept(p) == {n \in History(p) : Cardinality({m \in History(p) : MoreRecent(m, n)}) < KeepBuilds}

\* Mutant: the path is compared with the link itself.
SparesLinks == Latests

\* Packages that a remembered link spares.  Paths are compared with the link's
\* real path, which differs when the directory is reached by a link.
Spared == IF Canonical THEN {dir[l].to : l \in Latests} ELSE {}

Excess(p) == History(p) \ (Kept(p) \cup Spared)

Obsolete(p) == {n \in History(p) : dir[n].mtime < now - ObsoleteAge} \ Spared

\* Remembered links whose platform has no package.
Stray == {l \in Latests : History(l.plat) = {}}

\* How often a name is put on the list, which is not a set.
Listed(n, unknown) ==
    Cardinality({c \in {"fishy", "excess", "obsolete", "stray"} :
        \/ c = "fishy" /\ n \in Fishy(unknown)
        \/ c = "excess" /\ n \in Excess(n.plat) /\ n.plat \in Ruled(unknown)
        \/ c = "obsolete" /\ n \in Obsolete(n.plat) /\ n.plat \in Ruled(unknown)
        \/ c = "stray" /\ n \in Stray})

\* A clean build starts, nightly or forced with or without dry_run.  The farm
\* keeps uploads away from it, except those of builds retried after a restart.
Scan(how, dry, unknown) ==
    /\ cleaner = Idle /\ exists
    /\ how = "alone" => \A p \in Platforms : ~Uploading(p)
    /\ cleaner' = [st |-> how, dry |-> dry, unknown |-> unknown]
    /\ toClean' = [n \in Names |-> Listed(n, unknown)]
    /\ overtaken' = {n \in overtaken : dir[n] = Absent}
    /\ result' = "SUCCESS"
    /\ UNCHANGED <<now, exists, dir, upload>>

\* The directory is only created by the first upload.
ScanFails ==
    /\ cleaner = Idle /\ ~exists
    /\ result' = "FAILURE"
    /\ UNCHANGED <<now, exists, dir, upload, cleaner, toClean, overtaken>>

(***************************************************************************)
(* The removals.                                                           *)
(***************************************************************************)

\* Mutant: the removal does not go by the list.
RemoveAny(n) ==
    /\ cleaner # Idle
    /\ toClean' = [toClean EXCEPT ![n] = @ - 1]
    /\ dir' = [dir EXCEPT ![n] = Absent]
    /\ UNCHANGED <<now, exists, upload, cleaner, result, overtaken>>

Remove(n) ==
    /\ cleaner # Idle /\ toClean[n] > 0
    /\ toClean' = [toClean EXCEPT ![n] = @ - 1]
    /\ IF cleaner.dry
       THEN UNCHANGED <<dir, result>>
       ELSE /\ dir' = [dir EXCEPT ![n] = Absent]
            /\ result' = IF dir[n] = Absent THEN "FAILURE" ELSE result
    /\ UNCHANGED <<now, exists, upload, cleaner, overtaken>>

Finish ==
    /\ cleaner # Idle /\ \A n \in Names : toClean[n] = 0
    /\ cleaner' = Idle
    /\ UNCHANGED <<now, exists, dir, upload, toClean, result, overtaken>>

\* The cleaning is cut short; a retry scans again.
CleanBreaksOff ==
    /\ cleaner # Idle
    /\ cleaner' = Idle
    /\ toClean' = [n \in Names |-> 0]
    /\ result' = "RETRY"
    /\ UNCHANGED <<now, exists, dir, upload, overtaken>>

-----------------------------------------------------------------------------
Next ==
    \/ Pass
    \/ \E p \in Platforms :
        (\E r \in Revs : BeginUpload(p, r)) \/ EndUpload(p) \/ LinkLatest(p) \/ BreakOff(p)
    \/ \E how \in {"alone", "beside"}, dry \in BOOLEAN, unknown \in CleanupUnknown :
         Scan(how, dry, unknown)
    \/ ScanFails
    \/ \E n \in Names : Remove(n)
    \/ Finish
    \/ CleanBreaksOff

Spec == Init /\ [][Next]_vars

-----------------------------------------------------------------------------
(***************************************************************************)
(* Properties.                                                             *)
(***************************************************************************)

\* A latest link of p, or the package it leads to, was put in place while the
\* cleaner had it on its list for what it was before.
LatestOvertaken(p) ==
    \/ LatestOf(p) \in overtaken
    \/ dir[LatestOf(p)].is = "link" /\ dir[LatestOf(p)].to \in overtaken

\* A platform that has a downloadable latest package never loses it, whatever
\* is uploaded, in whatever order of revisions, cleaned or broken off: the latest
\* link keeps pointing at a file (config.py.example, "Latest one will always be
\* spared from cleaning").  The exception is what an upload or link step has put
\* in place of something on the list of a cleaner beside it.
PublishedStays ==
    [][\A p \in Platforms :
        Resolves(LatestOf(p)) => (Resolves(LatestOf(p)) \/ LatestOvertaken(p))']_vars

\* A package is only removed when it is obsolete or keep_builds others that are
\* more recent are there, also while uploads go on between scan and removal;
\* unless it was put there when the cleaner had an older one of its name listed.
NothingRecentIsLost ==
    [][\A n \in Package :
        IsFile(n) /\ n.plat \in Ruled(cleaner.unknown) /\ ~IsFile(n)' =>
            \/ n \in overtaken
            \/ dir[n].mtime < now - ObsoleteAge
            \/ Cardinality({m \in Packages(n.plat) : MoreRecent(m, n)}) >= KeepBuilds]_vars

\* A clean build with nothing uploaded meanwhile leaves at most keep_builds
\* packages of a platform and the latest one, and nothing it does not know.
CleanTidiesUp ==
    [][cleaner.st = "alone" /\ cleaner' = Idle /\ result' # "RETRY" /\ ~cleaner.dry =>
        /\ \A p \in Platforms : Cardinality(Packages(p)) <= KeepBuilds + 1
        /\ cleaner.unknown => Unknown = {}
        /\ \A l \in Links : Resolves(l)]_vars

(***************************************************************************)
(* What comments say and the code does not do.                             *)
(***************************************************************************)

\* The second pass cleans up "obsolete remaining packages": no package is on the
\* list twice, so no removal fails for a file the cleaner has itself removed.
CleanSucceeds == cleaner.st = "alone" => result = "SUCCESS"
=============================================================================
