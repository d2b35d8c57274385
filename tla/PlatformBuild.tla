----------------------------- MODULE PlatformBuild -----------------------------
(***************************************************************************)
(* The steps of one platform builder (builds.py, getPerPlatformBuilders;   *)
(* utils/scummsteps.py) on its build directory, which stays from one build *)
(* to the next: clean, check of the configure script's age, configure,     *)
(* compile, test, strip, package.  Upload and link, which follow, are      *)
(* DailyBuilds.  That the source directory is not written during a build   *)
(* is shown in BuildFarm and assumed here.                                 *)
(***************************************************************************)
EXTENDS Naturals

CONSTANTS
    HasStrip,     \* the platform has a strip_cmd and no packaging_cmd
    CanPackage,   \* platform.canPackage holds
    MaxRev,       \* bound: revisions of the source
    MaxTime       \* bound: seconds of the clock

ASSUME BuildAssumption ==
    /\ {MaxRev, MaxTime} \subseteq Nat
    /\ {HasStrip, CanPackage} \subseteq BOOLEAN

NoRev == 0
Revs == 0..MaxRev

VARIABLES
    now,    \* the clock of the host, in the seconds of a file's mtime
    src,    \* source directory: revision, and version and mtime of configure
    dir,    \* build directory
    build   \* the build that runs

vars == <<now, src, dir, build>>

\* Compiled binaries: of which revision, configured by which version of the
\* script, and whether they are stripped.
Binaries == [rev : Revs, conf : Revs, stripped : BOOLEAN]
NoBinaries == [rev |-> NoRev, conf |-> NoRev, stripped |-> FALSE]

\* The generated file (CONFIGURE_GENERATED_FILE), if it is there.
NoStamp == [there |-> FALSE, at |-> 0]
StampAt(t) == [there |-> TRUE, at |-> t]

\* A build directory: generated file, the configuration it stands for, what is
\* compiled, leftover directories and archives of packages by revision.
Empty ==
    [stamp |-> NoStamp, conf |-> NoRev, bin |-> NoBinaries,
     names |-> {}, archive |-> [r \in Revs |-> NoBinaries]]
Dirs ==
    [stamp : [there : BOOLEAN, at : 0..MaxTime], conf : Revs, bin : Binaries,
     names : SUBSET Revs, archive : [Revs -> Binaries]]

Steps == {"none", "clean", "check", "configure", "compile", "test", "strip", "package", "upload"}
Triggers == {"fetch", "orphan", "daily", "force"}
NoBuild ==
    [step |-> "none", by |-> "force", rev |-> NoRev, clean |-> FALSE, package |-> FALSE,
     doConfigure |-> TRUE, failed |-> FALSE]

TypeOK ==
    /\ now \in 0..MaxTime
    /\ src \in [rev : Revs, script : Revs, at : 0..MaxTime]
    /\ dir \in Dirs
    /\ build \in [step : Steps, by : Triggers, rev : Revs, clean : BOOLEAN,
                  package : BOOLEAN, doConfigure : BOOLEAN, failed : BOOLEAN]

Init ==
    /\ now = 0
    /\ src = [rev |-> NoRev, script |-> NoRev, at |-> 0]
    /\ dir = Empty
    /\ build = NoBuild

Tick ==
    /\ now < MaxTime
    /\ now' = now + 1
    /\ UNCHANGED <<src, dir, build>>

\* A fetch brings the next revision, which may come with a new configure script.
Fetch ==
    /\ build.step = "none" /\ src.rev < MaxRev
    /\ \/ src' = [src EXCEPT !.rev = @ + 1, !.script = src.rev + 1, !.at = now]
       \/ src.rev # NoRev /\ src' = [src EXCEPT !.rev = @ + 1]
    /\ UNCHANGED <<now, dir, build>>

-----------------------------------------------------------------------------
(***************************************************************************)
(* A build starts, goes on to the next step, or ends.                      *)
(***************************************************************************)

\* The revision a trigger hands down.  That a fetch which waits for the build has
\* checked out what it hands down is shown in BuildFarm (FetchedRevisionIsBuilt).
\* A daily build, and a request whose fetch was lost, hand down what was noted
\* some time ago, and a forced build has none.
Labels(by) ==
    CASE by = "fetch" -> {src.rev} \ {NoRev}
      [] by \in {"orphan", "daily"} -> (0..src.rev) \ {NoRev}
      [] by = "force" -> {NoRev}

\* A daily build asks to clean and package; the boxes of the force schedulers,
\* which a fetch hands down too, are free.
Start(by, rev, clean, package) ==
    /\ build.step = "none" /\ rev \in Labels(by)
    /\ by = "daily" => clean /\ package
    /\ build' = [NoBuild EXCEPT !.step = "clean", !.by = by, !.rev = rev,
                                !.clean = clean, !.package = package]
    /\ UNCHANGED <<now, src, dir>>

Goes(from, to) == build.step = from /\ build' = [build EXCEPT !.step = to]
FailsButGoes(from, to) ==
    build.step = from /\ build' = [build EXCEPT !.step = to, !.failed = TRUE]
Ends == build' = NoBuild

\* Whatever a removal of all files got to before it broke off.
PartlyEmpty ==
    {[stamp |-> st, conf |-> c, bin |-> b, names |-> ns, archive |-> dir.archive] :
        st \in {dir.stamp, NoStamp}, c \in {dir.conf, NoRev}, b \in {dir.bin, NoBinaries},
        ns \in {dir.names, {}}}

\* Mutant: the clean command removes files and leaves directories.
CleanFilesOnly ==
    /\ \/ Goes("clean", "check") /\ dir' = IF build.clean THEN [Empty EXCEPT !.names = dir.names] ELSE dir
       \/ build.clean /\ FailsButGoes("clean", "check") /\ dir' \in PartlyEmpty
    /\ UNCHANGED <<now, src>>

\* "clean": its failure does not halt the build.
Clean ==
    /\ \/ Goes("clean", "check") /\ dir' = IF build.clean THEN Empty ELSE dir
       \/ build.clean /\ FailsButGoes("clean", "check") /\ dir' \in PartlyEmpty
    /\ UNCHANGED <<now, src>>

\* Mutant: a generated file of the same second counts as newer.
OlderStrictly == ~dir.stamp.there \/ dir.stamp.at < src.at

\* The generated file is missing or not newer than the configure script.
Older == ~dir.stamp.there \/ dir.stamp.at <= src.at

\* SetPropertyIfOlder: without the script it fails and halts the build.
CheckAge ==
    /\ build.step = "check"
    /\ build' = IF src.rev = NoRev THEN NoBuild
                ELSE [build EXCEPT !.step = "configure", !.doConfigure = Older]
    /\ UNCHANGED <<now, src, dir>>

\* Mutant: the worker's clock runs ahead of the host's.
ConfigureAhead ==
    /\ Goes("configure", "compile")
    /\ dir' = IF build.doConfigure
              THEN [dir EXCEPT !.conf = src.script, !.stamp = StampAt(now + 1)] ELSE dir
    /\ UNCHANGED <<now, src>>

\* Configure writes the configuration and the generated file last.  When it
\* fails, what it has written of the configuration is of no use.
Configure ==
    /\ \/ /\ Goes("configure", "compile")
          /\ dir' = IF build.doConfigure
                    THEN [dir EXCEPT !.conf = src.script, !.stamp = StampAt(now)] ELSE dir
       \/ /\ build.step = "configure" /\ build.doConfigure /\ Ends
          /\ dir' \in {dir, [dir EXCEPT !.conf = NoRev]}
    /\ UNCHANGED <<now, src>>

\* Make brings the binaries up to date, and leaves them alone when they are.
Compiled ==
    IF dir.bin.rev = src.rev /\ dir.bin.conf = dir.conf THEN dir.bin
    ELSE [rev |-> src.rev, conf |-> dir.conf, stripped |-> FALSE]

Compile ==
    /\ \/ dir.conf # NoRev /\ Goes("compile", "test") /\ dir' = [dir EXCEPT !.bin = Compiled]
       \/ build.step = "compile" /\ Ends /\ dir' \in {dir, [dir EXCEPT !.bin = NoBinaries]}
    /\ UNCHANGED <<now, src>>

\* "test": a failure flunks the build and does not halt it.
Test ==
    /\ Goes("test", "strip") \/ FailsButGoes("test", "strip")
    /\ UNCHANGED <<now, src, dir>>

\* Mutant: the binaries of a build that cleaned are not stripped.
StripsIncremental == HasStrip /\ build.package /\ ~build.clean

\* "strip" asks for the package property only.
Strips == HasStrip /\ build.package

Strip ==
    /\ \/ Goes("strip", "package") /\ dir' = [dir EXCEPT !.bin.stripped = @ \/ Strips]
       \/ Strips /\ FailsButGoes("strip", "package") /\ dir' = dir
    /\ UNCHANGED <<now, src>>

\* doPackage: the build was asked to package and has a revision.
DoPackage == CanPackage /\ build.package /\ build.rev # NoRev

\* "package": make a directory named for the revision, fill it, archive it; the
\* directory is removed again, also when one of these failed.
Package ==
    /\ LET tidy == [dir EXCEPT !.names = @ \ {build.rev}] IN
       \/ ~DoPackage /\ build.step = "package" /\ Ends /\ dir' = dir
       \/ /\ DoPackage /\ build.rev \notin dir.names /\ Goes("package", "upload")
          /\ dir' = [tidy EXCEPT !.archive[build.rev] = dir.bin]
       \/ DoPackage /\ build.step = "package" /\ Ends /\ dir' = tidy
    /\ UNCHANGED <<now, src>>

\* "upload" and "link": the build ends.
Upload ==
    /\ build.step = "upload" /\ Ends
    /\ UNCHANGED <<now, src, dir>>

\* The worker is lost or the build is stopped: what the step was doing to the
\* directory is left half done, and nothing is tidied up.
Cut ==
    /\ build.step # "none" /\ Ends
    /\ dir' \in
         CASE build.step = "clean" /\ build.clean -> PartlyEmpty
           [] build.step = "configure" /\ build.doConfigure -> {dir, [dir EXCEPT !.conf = NoRev]}
           [] build.step = "compile" -> {dir, [dir EXCEPT !.bin = NoBinaries]}
           [] build.step = "package" /\ DoPackage -> {dir, [dir EXCEPT !.names = @ \cup {build.rev}]}
           [] OTHER -> {dir}
    /\ UNCHANGED <<now, src>>

-----------------------------------------------------------------------------
Next ==
    \/ Tick \/ Fetch
    \/ \E by \in Triggers, rev \in Revs, clean, package \in BOOLEAN : Start(by, rev, clean, package)
    \/ Clean \/ CheckAge \/ Configure \/ Compile \/ Test \/ Strip \/ Package \/ Upload \/ Cut

Spec == Init /\ [][Next]_vars

-----------------------------------------------------------------------------
(***************************************************************************)
(* Properties.                                                             *)
(***************************************************************************)

\* Whatever earlier builds left behind, and within whatever second they ran, no
\* build compiles with the configuration of another version of the configure
\* script than the source directory holds.
ConfiguredAlike == build.step = "compile" => dir.conf \in {NoRev, src.script}

\* What is handed to the upload is, whatever earlier builds left behind, compiled
\* of the revision in the source directory with its configuration, and stripped
\* unless a step failed.  For a build that its fetch waits for, that is the
\* revision in the name of the package; a daily build's name can be another one.
UploadsWhatItSays ==
    build.step = "upload" =>
        /\ dir.archive[build.rev].rev = src.rev
        /\ dir.archive[build.rev].conf = src.script
        /\ HasStrip /\ ~build.failed => dir.archive[build.rev].stripped
        /\ build.by = "fetch" => dir.archive[build.rev].rev = build.rev

\* A build that cleaned never trips over the package directory of an earlier
\* one of the same revision that was cut short.
CleanBuildsCanPackage ==
    build.step = "package" /\ build.clean /\ ~build.failed => build.rev \notin dir.names
=============================================================================
