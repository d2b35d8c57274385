-------------------------- MODULE PlatformBuildProofs --------------------------
(***************************************************************************)
(* Proofs about PlatformBuild, for any number of revisions and seconds and *)
(* for any platform: whatever earlier builds have left in the directory,   *)
(* what is compiled is configured for the source, what is packaged is made *)
(* of the source, and a cleaned build can package.                         *)
(***************************************************************************)
EXTENDS PlatformBuild, TLAPS

(***************************************************************************)
(* Type correctness.                                                       *)
(***************************************************************************)

\* What a build finds at first, and what leaves nothing behind, has its type.
LEMMA ConstantTypes ==
    /\ NoRev \in Revs /\ 0 \in 0..MaxTime
    /\ NoBinaries \in Binaries
    /\ NoStamp \in [there : BOOLEAN, at : 0..MaxTime]
    /\ Empty \in Dirs
    /\ NoBuild \in [step : Steps, by : Triggers, rev : Revs, clean : BOOLEAN,
                    package : BOOLEAN, doConfigure : BOOLEAN, failed : BOOLEAN]
<1>1. NoRev \in Revs /\ 0 \in 0..MaxTime
  BY BuildAssumption DEF NoRev, Revs
<1>2. NoBinaries \in Binaries
  BY <1>1 DEF NoBinaries, Binaries
<1>3. NoStamp \in [there : BOOLEAN, at : 0..MaxTime]
  BY <1>1 DEF NoStamp
<1>4. [r \in Revs |-> NoBinaries] \in [Revs -> Binaries]
  BY <1>2
<1>5. Empty \in Dirs
  BY <1>1, <1>2, <1>3, <1>4 DEF Empty, Dirs
<1>6. NoBuild \in [step : Steps, by : Triggers, rev : Revs, clean : BOOLEAN,
                   package : BOOLEAN, doConfigure : BOOLEAN, failed : BOOLEAN]
  BY <1>1 DEF NoBuild, Steps, Triggers
<1> QED
  BY <1>1, <1>2, <1>3, <1>5, <1>6

Builds == [step : Steps, by : Triggers, rev : Revs, clean : BOOLEAN,
           package : BOOLEAN, doConfigure : BOOLEAN, failed : BOOLEAN]

\* The changes that the steps make to the directory keep its type.
LEMMA DirTypes ==
    ASSUME TypeOK
    PROVE  /\ PartlyEmpty \subseteq Dirs
           /\ [dir EXCEPT !.conf = NoRev] \in Dirs
           /\ [dir EXCEPT !.conf = src.script, !.stamp = StampAt(now)] \in Dirs
           /\ \A b \in Binaries : [dir EXCEPT !.bin = b] \in Dirs
           /\ Compiled \in Binaries
           /\ [dir EXCEPT !.bin.stripped = @ \/ Strips] \in Dirs
           /\ \A ns \in SUBSET Revs : [dir EXCEPT !.names = ns] \in Dirs
           /\ \A ns \in SUBSET Revs :
                [[dir EXCEPT !.names = ns] EXCEPT !.archive[build.rev] = dir.bin] \in Dirs
<1>0. /\ dir.stamp \in [there : BOOLEAN, at : 0..MaxTime] /\ dir.conf \in Revs
      /\ dir.bin \in Binaries /\ dir.names \in SUBSET Revs /\ dir.archive \in [Revs -> Binaries]
      /\ dir = [stamp |-> dir.stamp, conf |-> dir.conf, bin |-> dir.bin, names |-> dir.names,
                archive |-> dir.archive]
      /\ src.rev \in Revs /\ src.script \in Revs /\ now \in 0..MaxTime /\ build.rev \in Revs
      /\ build.package \in BOOLEAN
  BY DEF TypeOK, Dirs
<1>1. PartlyEmpty \subseteq Dirs
  BY <1>0, ConstantTypes DEF PartlyEmpty, Dirs
<1>2. [dir EXCEPT !.conf = NoRev] \in Dirs
  BY <1>0, ConstantTypes DEF Dirs
<1>3. [dir EXCEPT !.conf = src.script, !.stamp = StampAt(now)] \in Dirs
  BY <1>0 DEF Dirs, StampAt
<1>4. \A b \in Binaries : [dir EXCEPT !.bin = b] \in Dirs
  BY <1>0 DEF Dirs
<1>5. Compiled \in Binaries
  BY <1>0 DEF Compiled, Binaries
<1>6. [dir EXCEPT !.bin.stripped = @ \/ Strips] \in Dirs
  <2>1. Strips \in BOOLEAN
    BY <1>0, BuildAssumption DEF Strips
  <2>2. (dir.bin.stripped \/ Strips) \in BOOLEAN
    OBVIOUS
  <2>3. [dir.bin EXCEPT !.stripped = @ \/ Strips] \in Binaries
    BY <1>0, <2>2 DEF Binaries
  <2>4. [dir EXCEPT !.bin.stripped = @ \/ Strips]
          = [dir EXCEPT !.bin = [dir.bin EXCEPT !.stripped = @ \/ Strips]]
    BY <1>0
  <2> QED
    BY <1>4, <2>3, <2>4
<1>7. \A ns \in SUBSET Revs : [dir EXCEPT !.names = ns] \in Dirs
  BY <1>0 DEF Dirs
<1>8. ASSUME NEW ns \in SUBSET Revs
      PROVE  [[dir EXCEPT !.names = ns] EXCEPT !.archive[build.rev] = dir.bin] \in Dirs
  <2>1. [dir.archive EXCEPT ![build.rev] = dir.bin] \in [Revs -> Binaries]
    BY <1>0
  <2> DEFINE d == [dir EXCEPT !.names = ns]
  <2>2. d \in Dirs /\ d.archive = dir.archive
    BY <1>0, <1>7
  <2>3. \A a \in [Revs -> Binaries] : [d EXCEPT !.archive = a] \in Dirs
    BY <2>2 DEF Dirs
  <2>4. [d EXCEPT !.archive[build.rev] = dir.bin]
          = [d EXCEPT !.archive = [d.archive EXCEPT ![build.rev] = dir.bin]]
    BY <2>2
  <2> QED
    BY <2>1, <2>2, <2>3, <2>4
<1> QED
  BY <1>1, <1>2, <1>3, <1>4, <1>5, <1>6, <1>7, <1>8

\* A step that goes on, fails or ends leaves a build.
LEMMA BuildTypes ==
    ASSUME TypeOK
    PROVE  /\ NoBuild \in Builds
           /\ \A from, to \in Steps : Goes(from, to) \/ FailsButGoes(from, to) \/ Ends => build' \in Builds
<1>1. NoBuild \in Builds
  BY ConstantTypes DEF Builds
<1>2. build \in Builds
  BY DEF TypeOK, Builds
<1>3. ASSUME NEW to \in Steps
      PROVE  /\ [build EXCEPT !.step = to] \in Builds
             /\ [build EXCEPT !.step = to, !.failed = TRUE] \in Builds
  BY <1>2 DEF Builds
<1> QED
  BY <1>1, <1>3 DEF Goes, FailsButGoes, Ends

\* Every step keeps the types.
LEMMA TypeNext == TypeOK /\ [Next]_vars => TypeOK'
<1> SUFFICES ASSUME TypeOK, [Next]_vars
             PROVE  TypeOK'
  OBVIOUS
<1>0. /\ build \in Builds /\ dir \in Dirs
      /\ dir' \in Dirs /\ build' \in Builds /\ now' \in 0..MaxTime
         /\ src' \in [rev : Revs, script : Revs, at : 0..MaxTime] => TypeOK'
      /\ {"none", "clean", "check", "configure", "compile", "test", "strip", "package", "upload"}
            \subseteq Steps
  BY DEF TypeOK, Builds, Steps
<1>a. UNCHANGED <<now, src>> => /\ now' \in 0..MaxTime
                                /\ src' \in [rev : Revs, script : Revs, at : 0..MaxTime]
  BY DEF TypeOK
<1>1. CASE Tick
  BY <1>1, <1>0, BuildAssumption DEF Tick, TypeOK
<1>2. CASE Fetch
  <2>1. src.rev + 1 \in Revs
    BY <1>2, BuildAssumption DEF Fetch, TypeOK, Revs
  <2>2. src' \in [rev : Revs, script : Revs, at : 0..MaxTime]
    BY <1>2, <2>1 DEF Fetch, TypeOK
  <2>3. now' = now /\ dir' = dir /\ build' = build
    BY <1>2 DEF Fetch
  <2> QED
    BY <2>2, <2>3 DEF TypeOK
<1>3. ASSUME NEW by \in Triggers, NEW rev \in Revs, NEW clean \in BOOLEAN, NEW package \in BOOLEAN,
             Start(by, rev, clean, package)
      PROVE  TypeOK'
  <2>1. build' \in Builds
    <3>1. build' = [NoBuild EXCEPT !.step = "clean", !.by = by, !.rev = rev,
                                   !.clean = clean, !.package = package]
      BY <1>3 DEF Start
    <3>2. NoBuild \in Builds /\ "clean" \in Steps
      BY ConstantTypes DEF Builds, Steps
    <3> QED
      BY <3>1, <3>2 DEF Builds
  <2> QED
    BY <1>3, <1>0, <1>a, <2>1 DEF Start
<1>4. CASE Clean
  <2>1. dir' \in Dirs
    BY <1>4, <1>0, DirTypes, ConstantTypes DEF Clean
  <2> QED
    BY <1>4, <1>0, <1>a, <2>1, BuildTypes DEF Clean
<1>5. CASE CheckAge
  <2>1. Older \in BOOLEAN
    BY DEF Older, TypeOK, Dirs
  <2>2. build' \in Builds
    BY <1>5, <1>0, <2>1, BuildTypes DEF CheckAge, Builds
  <2> QED
    BY <1>5, <1>0, <1>a, <2>2 DEF CheckAge
<1>6. CASE Configure
  <2>1. dir' \in Dirs
    BY <1>6, <1>0, DirTypes DEF Configure
  <2> QED
    BY <1>6, <1>0, <1>a, <2>1, BuildTypes DEF Configure
<1>7. CASE Compile
  <2>1. dir' \in Dirs
    BY <1>7, <1>0, DirTypes, ConstantTypes DEF Compile
  <2> QED
    BY <1>7, <1>0, <1>a, <2>1, BuildTypes DEF Compile
<1>8. CASE Test
  BY <1>8, <1>0, <1>a, BuildTypes DEF Test
<1>9. CASE Strip
  <2>1. dir' \in Dirs
    BY <1>9, <1>0, DirTypes DEF Strip
  <2> QED
    BY <1>9, <1>0, <1>a, <2>1, BuildTypes DEF Strip
<1>10. CASE Package
  <2>1. dir.names \ {build.rev} \in SUBSET Revs
    BY DEF TypeOK, Dirs
  <2>2. dir' \in Dirs
    BY <1>10, <1>0, <2>1, DirTypes DEF Package
  <2> QED
    BY <1>10, <1>0, <1>a, <2>2, BuildTypes DEF Package
<1>11. CASE Upload
  BY <1>11, <1>0, <1>a, BuildTypes DEF Upload
<1>12. CASE Cut
  <2>1. dir.names \cup {build.rev} \in SUBSET Revs
    BY DEF TypeOK, Dirs
  <2>2. \/ dir' \in PartlyEmpty \/ dir' = dir \/ dir' = [dir EXCEPT !.conf = NoRev]
        \/ dir' = [dir EXCEPT !.bin = NoBinaries] \/ dir' = [dir EXCEPT !.names = @ \cup {build.rev}]
    BY <1>12 DEF Cut
  <2>3. dir' \in Dirs
    BY <1>0, <2>1, <2>2, DirTypes, ConstantTypes
  <2> QED
    BY <1>12, <1>0, <1>a, <2>3, BuildTypes DEF Cut
<1>13. CASE UNCHANGED vars
  BY <1>13 DEF vars, TypeOK
<1> QED
  BY <1>1, <1>2, <1>3, <1>4, <1>5, <1>6, <1>7, <1>8, <1>9, <1>10, <1>11, <1>12, <1>13 DEF Next

\* Every state of a build directory has its type.
THEOREM BuildTypeCorrect == Spec => []TypeOK
<1>1. Init => TypeOK
  BY ConstantTypes DEF Init, TypeOK
<1> QED
  BY <1>1, TypeNext, PTL DEF Spec

-----------------------------------------------------------------------------
(***************************************************************************)
(* What the directory and the build that runs on it have to do with each   *)
(* other.                                                                  *)
(***************************************************************************)

\* No file is of the future.
FilesArePast ==
    /\ src.at <= now
    /\ dir.stamp.there => dir.stamp.at <= now

\* A generated file that is newer than the script stands for a configuration by
\* that script, or for one that broke off and is of no use.
FreshIsAlike == dir.stamp.there /\ src.at < dir.stamp.at => dir.conf \in {NoRev, src.script}

\* Configure is only left out on such a file.
LeftOutIsFresh ==
    build.step = "configure" /\ ~build.doConfigure => dir.stamp.there /\ src.at < dir.stamp.at

\* From the test on the binaries are those of the source, and a build that its
\* fetch waits for has the revision of the source.
BinariesAreOfSource ==
    /\ build.step # "none" /\ build.by = "fetch" => build.rev = src.rev
    /\ build.step \in {"test", "strip", "package"} =>
         dir.bin.rev = src.rev /\ dir.bin.conf = src.script
    /\ build.step = "package" /\ HasStrip /\ build.package /\ ~build.failed => dir.bin.stripped

\* A build that could clean has no package directory but its own.
CleanedHasNoNames ==
    build.step \notin {"none", "clean"} /\ build.clean /\ ~build.failed => dir.names = {}

\* What a build directory and its build are like at any time.
BuildInv ==
    /\ FilesArePast /\ FreshIsAlike /\ LeftOutIsFresh /\ ConfiguredAlike
    /\ BinariesAreOfSource /\ UploadsWhatItSays /\ CleanedHasNoNames

\* It holds of an empty directory.
LEMMA BuildInvInit == Init => BuildInv
BY DEF Init, BuildInv, FilesArePast, FreshIsAlike, LeftOutIsFresh, ConfiguredAlike,
       BinariesAreOfSource, UploadsWhatItSays, CleanedHasNoNames, Empty, NoBuild, NoStamp

\* Without a build only what is said of the directory and its files is left.
LEMMA NoBuildInv ==
    ASSUME build' = NoBuild, FilesArePast', FreshIsAlike'
    PROVE  BuildInv'
BY DEF BuildInv, NoBuild, LeftOutIsFresh, ConfiguredAlike, BinariesAreOfSource,
       UploadsWhatItSays, CleanedHasNoNames

\* A step that leaves the files alone, or loses some of them, adds no stale one.
LEMMA FilesKept ==
    ASSUME TypeOK, FilesArePast, FreshIsAlike, UNCHANGED <<now, src>>,
           dir'.stamp \in {dir.stamp, NoStamp}, dir'.conf \in {dir.conf, NoRev}
    PROVE  FilesArePast' /\ FreshIsAlike'
BY DEF FilesArePast, FreshIsAlike, NoStamp, TypeOK

\* What is left of a directory when a removal breaks off.
LEMMA PartlyEmptyParts ==
    ASSUME NEW d \in PartlyEmpty
    PROVE  d.stamp \in {dir.stamp, NoStamp} /\ d.conf \in {dir.conf, NoRev}
BY DEF PartlyEmpty

\* The clock, the sources and the start of a build.
LEMMA BuildInvStart ==
    ASSUME TypeOK, BuildInv,
           \/ Tick \/ Fetch
           \/ \E by \in Triggers, rev \in Revs, clean, package \in BOOLEAN :
                Start(by, rev, clean, package)
    PROVE  BuildInv'
<1> USE DEF BuildInv
<1>1. CASE Tick
  BY <1>1 DEF Tick, TypeOK, Dirs, FilesArePast, FreshIsAlike, LeftOutIsFresh, ConfiguredAlike,
              BinariesAreOfSource, UploadsWhatItSays, CleanedHasNoNames
<1>2. CASE Fetch
  <2>1. build.step = "none" /\ build' = build /\ dir' = dir /\ now' = now
    BY <1>2 DEF Fetch
  <2>2. src'.at = now \/ (src'.at = src.at /\ src'.script = src.script)
    BY <1>2 DEF Fetch, TypeOK
  <2>3. FilesArePast' /\ FreshIsAlike'
    BY <2>1, <2>2 DEF FilesArePast, FreshIsAlike, TypeOK, Dirs
  <2> QED
    BY <2>1, <2>3 DEF LeftOutIsFresh, ConfiguredAlike, BinariesAreOfSource, UploadsWhatItSays,
                      CleanedHasNoNames
<1>3. ASSUME NEW by \in Triggers, NEW rev \in Revs, NEW clean \in BOOLEAN, NEW package \in BOOLEAN,
             Start(by, rev, clean, package)
      PROVE  BuildInv'
  <2>1. /\ build'.step = "clean" /\ (build'.by = "fetch" => build'.rev = src.rev)
        /\ dir' = dir /\ src' = src /\ now' = now
    BY <1>3 DEF Start, NoBuild, Labels
  <2> QED
    BY <2>1 DEF FilesArePast, FreshIsAlike, LeftOutIsFresh, ConfiguredAlike, BinariesAreOfSource,
                UploadsWhatItSays, CleanedHasNoNames
<1> QED
  BY <1>1, <1>2, <1>3

\* The steps up to the compilation: nothing stale is configured.
LEMMA BuildInvConfigures ==
    ASSUME TypeOK, BuildInv, Clean \/ CheckAge \/ Configure
    PROVE  BuildInv'
<1> USE DEF BuildInv
<1>0. UNCHANGED <<now, src>>
  BY DEF Clean, CheckAge, Configure
<1>1. CASE Clean
  <2>1. dir'.stamp \in {dir.stamp, NoStamp} /\ dir'.conf \in {dir.conf, NoRev}
    BY <1>1, PartlyEmptyParts DEF Clean, Empty
  <2>2. FilesArePast' /\ FreshIsAlike'
    BY <1>0, <2>1, FilesKept
  <2>3. /\ build.step = "clean" /\ build'.step = "check"
        /\ build'.rev = build.rev /\ build'.by = build.by
        /\ build'.clean /\ ~build'.failed => dir' = Empty
    BY <1>1 DEF Clean, Goes, FailsButGoes, TypeOK
  <2> QED
    BY <1>0, <2>2, <2>3 DEF LeftOutIsFresh, ConfiguredAlike, BinariesAreOfSource, UploadsWhatItSays,
                            CleanedHasNoNames, Empty
<1>2. CASE CheckAge
  <2>1. dir' = dir /\ FilesArePast' /\ FreshIsAlike'
    BY <1>0, <1>2, FilesKept DEF CheckAge
  <2>2. CASE build' = NoBuild
    BY <2>1, <2>2, NoBuildInv
  <2>3. CASE build' = [build EXCEPT !.step = "configure", !.doConfigure = Older]
    <3>1. /\ build.step = "check" /\ build'.step = "configure" /\ build'.doConfigure = Older
          /\ build'.rev = build.rev /\ build'.by = build.by
          /\ build'.clean = build.clean /\ build'.failed = build.failed
      BY <1>2, <2>3 DEF CheckAge, TypeOK
    <3>a. ~Older => dir.stamp.there /\ src.at < dir.stamp.at
      BY DEF Older, TypeOK, Dirs
    <3>2. LeftOutIsFresh'
      BY <1>0, <2>1, <3>1, <3>a, Zenon DEF LeftOutIsFresh
    <3> QED
      BY <1>0, <2>1, <3>1, <3>2 DEF ConfiguredAlike, BinariesAreOfSource, UploadsWhatItSays,
                                    CleanedHasNoNames
  <2> QED
    BY <1>2, <2>2, <2>3 DEF CheckAge
<1>3. CASE Configure
  <2>1. CASE Ends
    <3>1. dir'.stamp = dir.stamp /\ dir'.conf \in {dir.conf, NoRev}
      BY <1>3, <2>1 DEF Configure, Goes, Ends, NoBuild, TypeOK, Dirs
    <3> QED
      BY <1>0, <2>1, <3>1, FilesKept, NoBuildInv DEF Ends
  <2>2. CASE Goes("configure", "compile") /\ build.doConfigure
             /\ dir' = [dir EXCEPT !.conf = src.script, !.stamp = StampAt(now)]
    <3>1. /\ build.step = "configure" /\ build'.step = "compile"
          /\ build'.rev = build.rev /\ build'.by = build.by
          /\ build'.clean = build.clean /\ build'.failed = build.failed
          /\ dir'.conf = src.script /\ dir'.stamp = StampAt(now) /\ dir'.names = dir.names
      BY <2>2 DEF Goes, TypeOK, Dirs
    <3>2. FilesArePast' /\ FreshIsAlike' /\ ConfiguredAlike'
      BY <1>0, <3>1 DEF FilesArePast, FreshIsAlike, ConfiguredAlike, StampAt, TypeOK
    <3> QED
      BY <1>0, <3>1, <3>2 DEF LeftOutIsFresh, BinariesAreOfSource, UploadsWhatItSays,
                              CleanedHasNoNames
  <2>3. CASE Goes("configure", "compile") /\ ~build.doConfigure /\ dir' = dir
    <3>1. /\ build.step = "configure" /\ build'.step = "compile"
          /\ build'.rev = build.rev /\ build'.by = build.by
          /\ build'.clean = build.clean /\ build'.failed = build.failed
      BY <2>3 DEF Goes, TypeOK
    <3>2. dir.conf \in {NoRev, src.script}
      BY <2>3, <3>1 DEF LeftOutIsFresh, FreshIsAlike
    <3> QED
      BY <1>0, <2>3, <3>1, <3>2 DEF FilesArePast, FreshIsAlike, ConfiguredAlike, LeftOutIsFresh,
         BinariesAreOfSource, UploadsWhatItSays, CleanedHasNoNames
  <2> QED
    BY <1>3, <2>1, <2>2, <2>3 DEF Configure
<1> QED
  BY <1>1, <1>2, <1>3

\* The steps from the compilation on: what is packaged is of the source.
LEMMA BuildInvMakes ==
    ASSUME TypeOK, BuildInv, Compile \/ Test \/ Strip \/ Package \/ Upload
    PROVE  BuildInv'
<1> USE DEF BuildInv
<1>0. UNCHANGED <<now, src>>
  BY DEF Compile, Test, Strip, Package, Upload
<1>1. dir'.stamp = dir.stamp /\ dir'.conf = dir.conf
  BY DEF Compile, Test, Strip, Package, Upload, TypeOK, Dirs
<1>2. FilesArePast' /\ FreshIsAlike'
  BY <1>0, <1>1, FilesKept
<1>3. CASE Ends
  BY <1>2, <1>3, NoBuildInv DEF Ends
<1>4. CASE Compile /\ ~Ends
  <2>1. /\ build.step = "compile" /\ build'.step = "test"
        /\ build'.rev = build.rev /\ build'.by = build.by
        /\ build'.clean = build.clean /\ build'.failed = build.failed
        /\ dir.conf = src.script /\ dir' = [dir EXCEPT !.bin = Compiled]
    BY <1>4 DEF Compile, Goes, ConfiguredAlike, TypeOK
  <2>2. dir'.bin = Compiled /\ dir'.names = dir.names
    BY <2>1 DEF TypeOK, Dirs
  <2>3. Compiled.rev = src.rev /\ Compiled.conf = src.script
    BY <2>1 DEF Compiled
  <2> QED
    BY <1>0, <1>2, <2>1, <2>2, <2>3 DEF LeftOutIsFresh, ConfiguredAlike, BinariesAreOfSource,
       UploadsWhatItSays, CleanedHasNoNames
<1>5. CASE Test
  <2>1. /\ build.step = "test" /\ build'.step = "strip"
        /\ build'.rev = build.rev /\ build'.by = build.by
        /\ build'.clean = build.clean /\ (~build'.failed => ~build.failed) /\ dir' = dir
    BY <1>5 DEF Test, Goes, FailsButGoes, TypeOK
  <2> QED
    BY <1>0, <1>2, <2>1 DEF LeftOutIsFresh, ConfiguredAlike, BinariesAreOfSource,
       UploadsWhatItSays, CleanedHasNoNames
<1>6. CASE Strip
  <2>1. /\ build.step = "strip" /\ build'.step = "package"
        /\ build'.rev = build.rev /\ build'.by = build.by
        /\ build'.clean = build.clean /\ build'.package = build.package
        /\ (~build'.failed => ~build.failed)
    BY <1>6 DEF Strip, Goes, FailsButGoes, TypeOK
  <2>2. /\ dir'.names = dir.names
        /\ dir'.bin.rev = dir.bin.rev /\ dir'.bin.conf = dir.bin.conf
        /\ ~build'.failed => (dir'.bin.stripped <=> (dir.bin.stripped \/ Strips))
    <3>1. CASE dir' = [dir EXCEPT !.bin.stripped = @ \/ Strips]
      <4>1. dir'.bin = [dir.bin EXCEPT !.stripped = @ \/ Strips] /\ dir'.names = dir.names
        BY <3>1 DEF TypeOK, Dirs
      <4>2. "stripped" \in DOMAIN dir.bin
        BY DEF TypeOK, Dirs, Binaries
      <4>3. dir'.bin.stripped = (dir.bin.stripped \/ Strips)
        BY <4>1, <4>2, Zenon
      <4>4. dir'.bin.rev = dir.bin.rev /\ dir'.bin.conf = dir.bin.conf
        BY <4>1
      <4> QED
        BY <4>1, <4>3, <4>4, Zenon
    <3>2. CASE build'.failed /\ dir' = dir
      BY <3>2
    <3> QED
      BY <1>6, <3>1, <3>2 DEF Strip, FailsButGoes, TypeOK
  <2>3. BinariesAreOfSource'
    BY <1>0, <2>1, <2>2 DEF BinariesAreOfSource, Strips
  <2> QED
    BY <1>0, <1>2, <2>1, <2>2, <2>3 DEF LeftOutIsFresh, ConfiguredAlike, UploadsWhatItSays,
       CleanedHasNoNames
<1>7. CASE Package /\ ~Ends
  <2> DEFINE tidy == [dir EXCEPT !.names = @ \ {build.rev}]
  <2>1. /\ DoPackage /\ build.step = "package" /\ build'.step = "upload"
        /\ build'.rev = build.rev /\ build'.by = build.by
        /\ build'.clean = build.clean /\ build'.failed = build.failed
        /\ dir' = [tidy EXCEPT !.archive[build.rev] = dir.bin]
    BY <1>7 DEF Package, Goes, TypeOK
  <2>2. tidy.archive = dir.archive /\ tidy.names = dir.names \ {build.rev} /\ build.rev \in Revs
        /\ dir.archive \in [Revs -> Binaries] /\ tidy \in Dirs
    BY DEF TypeOK, Dirs
  <2>3. dir'.names = dir.names \ {build.rev} /\ dir'.archive[build.rev] = dir.bin
    BY <2>1, <2>2 DEF Dirs
  <2>4. UploadsWhatItSays'
    BY <1>0, <2>1, <2>3 DEF UploadsWhatItSays, BinariesAreOfSource, DoPackage
  <2> QED
    BY <1>0, <1>2, <2>1, <2>3, <2>4 DEF LeftOutIsFresh, ConfiguredAlike,
       BinariesAreOfSource, CleanedHasNoNames
<1>8. CASE Upload
  BY <1>3, <1>8 DEF Upload
<1> QED
  BY <1>3, <1>4, <1>5, <1>6, <1>7, <1>8

\* A build that is cut short leaves nothing that passes for fresh.
LEMMA BuildInvCut ==
    ASSUME TypeOK, BuildInv, Cut
    PROVE  BuildInv'
<1>1. UNCHANGED <<now, src>> /\ build' = NoBuild
  BY DEF Cut, Ends
<1>2. \/ dir' \in PartlyEmpty \/ dir' = dir \/ dir' = [dir EXCEPT !.conf = NoRev]
      \/ dir' = [dir EXCEPT !.bin = NoBinaries] \/ dir' = [dir EXCEPT !.names = @ \cup {build.rev}]
  BY DEF Cut
<1>3. dir'.stamp \in {dir.stamp, NoStamp} /\ dir'.conf \in {dir.conf, NoRev}
  BY <1>2, PartlyEmptyParts DEF TypeOK, Dirs
<1> QED
  BY <1>1, <1>3, FilesKept, NoBuildInv DEF BuildInv

\* Every step of a build, and whatever happens between builds, keeps it.
LEMMA BuildInvNext == TypeOK /\ BuildInv /\ [Next]_vars => BuildInv'
<1> SUFFICES ASSUME TypeOK, BuildInv, [Next]_vars
             PROVE  BuildInv'
  OBVIOUS
<1>1. CASE UNCHANGED vars
  BY <1>1 DEF vars, BuildInv, FilesArePast, FreshIsAlike, LeftOutIsFresh, ConfiguredAlike,
              BinariesAreOfSource, UploadsWhatItSays, CleanedHasNoNames
<1> QED
  BY <1>1, BuildInvStart, BuildInvConfigures, BuildInvMakes, BuildInvCut DEF Next

\* It holds always, with the types.
LEMMA BuildInvariant == Spec => []BuildInv
BY BuildInvInit, BuildInvNext, BuildTypeCorrect, PTL DEF Spec

\* Whatever earlier builds left behind and within whatever second they ran, a
\* build is never compiled with the configuration of another configure script.
THEOREM CompiledAlike == Spec => []ConfiguredAlike
BY BuildInvariant, PTL DEF BuildInv

\* What is uploaded is compiled of the source directory's revision only, and
\* configured for it and stripped; the name of a package that a waiting fetch
\* asked for is that revision.
THEOREM PackagesWhatItSays == Spec => []UploadsWhatItSays
BY BuildInvariant, PTL DEF BuildInv

\* The package directory of a build that was cut short is no obstacle to a
\* later one that cleans.
THEOREM CleanedCanPackage == Spec => []CleanBuildsCanPackage
<1>1. BuildInv => CleanBuildsCanPackage
  BY DEF BuildInv, CleanedHasNoNames, CleanBuildsCanPackage
<1> QED
  BY <1>1, BuildInvariant, PTL
=============================================================================
