--------------------------- MODULE DailyBuildsProofs ---------------------------
(***************************************************************************)
(* Proofs about DailyBuilds, for any platforms, revisions and times: with  *)
(* a directory that is reached by its real path and at least one build     *)
(* kept, uploads, retries and cleaning in any order never take a published *)
(* package away.  For any settings, what the cleaner removes is obsolete   *)
(* or has keep_builds others that are more recent, also while uploads go   *)
(* on after its scan; and what it leaves when nothing is uploaded          *)
(* meanwhile is tidy.  What an upload puts in place of something that a    *)
(* cleaner beside it has listed is excepted, and nothing else.             *)
(***************************************************************************)
EXTENDS DailyBuilds, FiniteSetTheorems, WellFoundedInduction, TLAPS

(***************************************************************************)
(* Names and entries.                                                      *)
(***************************************************************************)

\* The three kinds of names, and what they are made of.
LEMMA NameKinds ==
    /\ \A p \in AllPlatforms, r \in Revs : PackageOf(p, r) \in Package
    /\ \A p, r : PackageOf(p, r).kind = "package" /\ PackageOf(p, r).plat = p /\ PackageOf(p, r).id = r
    /\ \A n \in Package : /\ n.kind = "package" /\ n.plat \in AllPlatforms /\ n.id \in Revs
                          /\ n = PackageOf(n.plat, n.id)
    /\ \A p \in AllPlatforms : LatestOf(p) \in Link
    /\ \A p : LatestOf(p).kind = "latest" /\ LatestOf(p).plat = p
    /\ \A n \in Link : n.kind = "latest" /\ n.plat \in AllPlatforms /\ n = LatestOf(n.plat)
    /\ \A p \in Platforms : TempOf(p) \in Temp
    /\ \A p : TempOf(p).kind = "temp" /\ TempOf(p).plat = p
    /\ \A n \in Temp : n.kind = "temp" /\ n.plat \in Platforms
    /\ Platforms \subseteq AllPlatforms
    /\ Names = Package \cup Link \cup Temp
<1>1. \A n \in Package : /\ n.kind = "package" /\ n.plat \in AllPlatforms /\ n.id \in Revs
                         /\ n = PackageOf(n.plat, n.id)
  BY DEF Package, PackageOf
<1>2. \A n \in Link : n.kind = "latest" /\ n.plat \in AllPlatforms /\ n = LatestOf(n.plat)
  BY DEF Link, LatestOf
<1>3. \A n \in Temp : n.kind = "temp" /\ n.plat \in Platforms
  BY DEF Temp
<1>4. /\ \A p \in AllPlatforms, r \in Revs : PackageOf(p, r) \in Package
      /\ \A p \in AllPlatforms : LatestOf(p) \in Link
      /\ \A p \in Platforms : TempOf(p) \in Temp
  BY DEF Package, PackageOf, Link, LatestOf, Temp, TempOf
<1>5. /\ \A p, r : PackageOf(p, r).kind = "package" /\ PackageOf(p, r).plat = p /\ PackageOf(p, r).id = r
      /\ \A p : LatestOf(p).kind = "latest" /\ LatestOf(p).plat = p
      /\ \A p : TempOf(p).kind = "temp" /\ TempOf(p).plat = p
  BY DEF PackageOf, LatestOf, TempOf
<1>6. Platforms \subseteq AllPlatforms /\ Names = Package \cup Link \cup Temp
  BY DEF AllPlatforms, Names
<1> QED
  BY <1>1, <1>2, <1>3, <1>4, <1>5, <1>6

\* What a name can stand for.
LEMMA EntryKinds ==
    /\ Absent \in Entries /\ Absent.is = "absent"
    /\ \A t : FileAt(t).is = "file" /\ FileAt(t).mtime = t
    /\ \A n : LinkTo(n).is = "link" /\ LinkTo(n).to = n
    /\ \A t \in 0..MaxTime : FileAt(t) \in Entries
    /\ \A n \in Package : LinkTo(n) \in Entries
    /\ \A e \in Entries : /\ e.is \in {"absent", "file", "link"}
                          /\ e.is = "absent" => e = Absent
                          /\ e.is = "file" => e.mtime \in 0..MaxTime
                          /\ e.is = "link" => e.to \in Package
<1>1. \A e \in Entries : \/ e = Absent
                         \/ \E t \in 0..MaxTime : e = FileAt(t)
                         \/ \E n \in Package : e = LinkTo(n)
  BY DEF Entries
<1>2. /\ Absent.is = "absent"
      /\ \A t : FileAt(t).is = "file" /\ FileAt(t).mtime = t
      /\ \A n : LinkTo(n).is = "link" /\ LinkTo(n).to = n
  BY DEF Absent, FileAt, LinkTo
<1>3. /\ Absent \in Entries
      /\ \A t \in 0..MaxTime : FileAt(t) \in Entries
      /\ \A n \in Package : LinkTo(n) \in Entries
  BY DEF Entries
<1> QED
  BY <1>1, <1>2, <1>3

-----------------------------------------------------------------------------
(***************************************************************************)
(* Type correctness.                                                       *)
(***************************************************************************)

\* Why a name can be on the list: a package of a known platform only by the
\* rules for packages, a latest link for what it is or for what it points at.
LEMMA ReasonsListed ==
    ASSUME NEW n \in Names, NEW unknown \in BOOLEAN
    PROVE  /\ n \in Package /\ n \in Excess(n.plat) \cup Obsolete(n.plat) /\ n.plat \in Ruled(unknown)
                => n \notin Fishy(unknown)
           /\ n \in Package /\ n.plat \in Platforms => n \notin Fishy(unknown)
           /\ n \in Package => n \notin Stray
           /\ n \notin Package => n \notin Excess(n.plat) \cup Obsolete(n.plat)
           /\ n \in Stray => n \notin Fishy(unknown)
<1>1. \A p : Excess(p) \subseteq Package /\ Obsolete(p) \subseteq Package
  BY DEF Excess, Obsolete, History, Packages
<1>2. Stray \subseteq Latests /\ Latests \subseteq Links
      /\ \A l \in Links : l.kind = "latest" /\ l.plat \in Platforms /\ (l \in Latests => Resolves(l))
  BY DEF Stray, Latests, Links
<1>3. \A l \in Fishy(unknown) : \/ l.kind = "temp"
                                \/ unknown /\ l.plat \notin Platforms
                                \/ l.kind = "latest" /\ l.plat \notin Platforms
                                \/ l.kind = "latest" /\ ~Resolves(l)
  BY <1>2 DEF Fishy, Unknown
<1>4. unknown => Ruled(unknown) = Platforms
  BY DEF Ruled
<1> QED
  BY <1>1, <1>2, <1>3, <1>4, NameKinds

\* A name that nothing speaks against is not on the list; and none is on it more
\* than twice.
LEMMA ListedBounds ==
    ASSUME NEW n \in Names, NEW unknown \in BOOLEAN
    PROVE  /\ Listed(n, unknown) \in 0..2
           /\ Listed(n, unknown) = 0 <=>
                /\ n \notin Fishy(unknown) /\ n \notin Stray
                /\ n.plat \in Ruled(unknown) => n \notin Excess(n.plat) \cup Obsolete(n.plat)
<1> DEFINE Holds(c) == \/ c = "fishy" /\ n \in Fishy(unknown)
                       \/ c = "excess" /\ n \in Excess(n.plat) /\ n.plat \in Ruled(unknown)
                       \/ c = "obsolete" /\ n \in Obsolete(n.plat) /\ n.plat \in Ruled(unknown)
                       \/ c = "stray" /\ n \in Stray
           Why == {c \in {"fishy", "excess", "obsolete", "stray"} : Holds(c)}
<1>1. Listed(n, unknown) = Cardinality(Why)
  BY DEF Listed
<1>2. Why = {} <=> /\ n \notin Fishy(unknown) /\ n \notin Stray
                   /\ n.plat \in Ruled(unknown) => n \notin Excess(n.plat) \cup Obsolete(n.plat)
  BY DEF Why, Holds
<1>3. Why \subseteq {"fishy"} \/ Why \subseteq {"stray"} \/ Why \subseteq {"excess", "obsolete"}
  BY ReasonsListed
<1> HIDE DEF Why
<1>4. \A a, b : IsFiniteSet({a, b}) /\ Cardinality({a, b}) <= 2
  <2> TAKE a, b
  <2>1. IsFiniteSet({a}) /\ Cardinality({a}) = 1
    BY FS_Singleton
  <2>2. {a, b} = {a} \cup {b}
    OBVIOUS
  <2> QED
    BY <2>1, <2>2, FS_AddElement
<1>5. PICK a, b : Why \subseteq {a, b}
  BY <1>3
<1>6. IsFiniteSet(Why) /\ Cardinality(Why) <= Cardinality({a, b})
  BY <1>4, <1>5, FS_Subset
<1>7. Cardinality(Why) \in Nat /\ Cardinality({a, b}) \in Nat
  BY <1>4, <1>6, FS_CardinalityType
<1>8. Cardinality(Why) = 0 <=> Why = {}
  BY <1>6, FS_EmptySet
<1>9. Cardinality(Why) \in 0..2
  <2>1. Cardinality({a, b}) <= 2
    BY <1>4
  <2> QED
    BY <2>1, <1>6, <1>7
<1> QED
  BY <1>1, <1>2, <1>8, <1>9

\* An upload is of a revision.
UploadHasRev == \A p \in Platforms : Uploading(p) => upload[p].rev \in Revs

\* No step but the start of an upload makes one.
LEMMA UploadHasRevNext == TypeOK /\ UploadHasRev /\ [Next]_vars => UploadHasRev'
<1> SUFFICES ASSUME TypeOK, UploadHasRev, [Next]_vars, NEW p \in Platforms, Uploading(p)'
             PROVE  upload'[p].rev \in Revs
  BY DEF UploadHasRev
<1>1. ASSUME NEW q \in Platforms,
             (\E r \in Revs : BeginUpload(q, r)) \/ EndUpload(q) \/ LinkLatest(q) \/ BreakOff(q)
      PROVE  upload'[p].rev \in Revs
  BY <1>1 DEF BeginUpload, EndUpload, LinkLatest, BreakOff, NoUpload, TypeOK, UploadHasRev, Uploading
<1>2. CASE UNCHANGED upload
  BY <1>2 DEF UploadHasRev, Uploading
<1> QED
  BY <1>1, <1>2 DEF Next, Pass, Scan, ScanFails, Remove, Finish, CleanBreaksOff, vars

\* Every step keeps the types.
LEMMA TypeNext == TypeOK /\ UploadHasRev /\ [Next]_vars => TypeOK'
<1> SUFFICES ASSUME TypeOK, UploadHasRev, [Next]_vars
             PROVE  TypeOK'
  OBVIOUS
<1>0. /\ now \in 0..MaxTime /\ 0 \in 0..MaxRev /\ Revs \subseteq 0..MaxRev
      /\ FileAt(0) \in Entries /\ Absent \in Entries
      /\ NoUpload \in [step : {"none", "writing", "linking"}, rev : 0..MaxRev]
      /\ now < MaxTime => now + 1 \in 0..MaxTime /\ FileAt(now + 1) \in Entries
  BY EntryKinds, DailyAssumption DEF TypeOK, Revs, NoUpload
<1>1. CASE Pass
  BY <1>0, <1>1 DEF Pass, TypeOK
<1>2. ASSUME NEW p \in Platforms, NEW r \in Revs, BeginUpload(p, r)
      PROVE  TypeOK'
  <2>1. upload' \in [Platforms -> [step : {"none", "writing", "linking"}, rev : 0..MaxRev]]
    BY <1>2, <1>0 DEF BeginUpload, TypeOK
  <2>2. dir' \in [Names -> Entries]
    BY <1>2, <1>0 DEF BeginUpload, TypeOK
  <2> QED
    BY <1>2, <2>1, <2>2 DEF BeginUpload, TypeOK
<1>3. ASSUME NEW p \in Platforms, EndUpload(p)
      PROVE  TypeOK'
  <2>1. upload' \in [Platforms -> [step : {"none", "writing", "linking"}, rev : 0..MaxRev]]
    BY <1>0, <1>3 DEF EndUpload, TypeOK
  <2>2. dir' \in [Names -> Entries]
    BY <1>3, <1>0 DEF EndUpload, TypeOK
  <2>3. now' \in 0..MaxTime /\ overtaken' \subseteq Names
    <3>1. Current(p) \in Names /\ LatestOf(p) \in Names
      BY <1>3, NameKinds DEF EndUpload, UploadHasRev, Uploading, Current
    <3> QED
      BY <1>0, <1>3, <3>1 DEF EndUpload, Overtake, TypeOK
  <2> QED
    BY <1>3, <2>1, <2>2, <2>3 DEF EndUpload, TypeOK
<1>4. ASSUME NEW p \in Platforms, BreakOff(p)
      PROVE  TypeOK'
  BY <1>0, <1>4 DEF BreakOff, TypeOK
<1>5. ASSUME NEW p \in Platforms, LinkLatest(p)
      PROVE  TypeOK'
  <2>1. LinkTo(Current(p)) \in Entries /\ LatestOf(p) \in Names
    BY <1>5, NameKinds, EntryKinds DEF LinkLatest, UploadHasRev, Uploading, Current
  <2>2. upload' \in [Platforms -> [step : {"none", "writing", "linking"}, rev : 0..MaxRev]]
    BY <1>0, <1>5 DEF LinkLatest, TypeOK
  <2>3. dir' \in [Names -> Entries] /\ overtaken' \subseteq Names
    BY <1>5, <2>1 DEF LinkLatest, Overtake, TypeOK
  <2> QED
    BY <1>5, <2>2, <2>3 DEF LinkLatest, TypeOK
<1>6. ASSUME NEW how \in {"alone", "beside"}, NEW dry \in BOOLEAN, NEW unknown \in CleanupUnknown,
             Scan(how, dry, unknown)
      PROVE  TypeOK'
  <2>1. unknown \in BOOLEAN
    BY DailyAssumption
  <2>2. toClean' \in [Names -> 0..2] /\ overtaken' \subseteq Names
    BY <1>6, <2>1, ListedBounds DEF Scan, TypeOK
  <2> QED
    BY <1>6, <2>1, <2>2 DEF Scan, TypeOK
<1>7. ASSUME NEW n \in Names, Remove(n)
      PROVE  TypeOK'
  <2>1. toClean' \in [Names -> 0..2]
    BY <1>7 DEF Remove, TypeOK
  <2>2. dir' \in [Names -> Entries] /\ result' \in {"none", "SUCCESS", "FAILURE", "RETRY"}
    BY <1>7, <1>0 DEF Remove, TypeOK
  <2> QED
    BY <1>7, <2>1, <2>2 DEF Remove, TypeOK
<1>8. CASE ScanFails \/ Finish \/ CleanBreaksOff
  <2>1. Idle \in [st : {"idle", "alone", "beside"}, dry : BOOLEAN, unknown : BOOLEAN]
    BY DEF Idle
  <2>2. [n \in Names |-> 0] \in [Names -> 0..2]
    OBVIOUS
  <2>3. CASE ScanFails
    BY <2>3 DEF ScanFails, TypeOK
  <2>4. CASE Finish
    BY <2>1, <2>4 DEF Finish, TypeOK
  <2>5. CASE CleanBreaksOff
    BY <2>1, <2>2, <2>5 DEF CleanBreaksOff, TypeOK
  <2> QED
    BY <1>8, <2>3, <2>4, <2>5
<1>9. CASE UNCHANGED vars
  BY <1>9 DEF vars, TypeOK
<1> QED
  BY <1>1, <1>2, <1>3, <1>4, <1>5, <1>6, <1>7, <1>8, <1>9 DEF Next

\* The types, and what uploads add to them.
TypeInv == TypeOK /\ UploadHasRev

\* At the start there is nothing of the platforms, and of those that were
\* removed a link with its package.
LEMMA InitEntries ==
    ASSUME Init
    PROVE  /\ dir \in [Names -> Entries]
           /\ \A n \in Names : n.plat \in Platforms => dir[n] = Absent
           /\ \A n \in Package : dir[n] = Absent \/ (dir[n] = FileAt(0) /\ n.id = 1)
<1> PICK left \in SUBSET {LatestOf(p) : p \in OldPlatforms} :
           dir = [n \in Names |->
                    IF n \in left THEN LinkTo(PackageOf(n.plat, 1))
                    ELSE IF \E l \in left : n = PackageOf(l.plat, 1) THEN FileAt(0)
                    ELSE Absent]
  BY DEF Init
<1>1. \A l \in left : l.plat \in OldPlatforms /\ l.kind = "latest"
  BY NameKinds
<1>2. 1 \in Revs /\ OldPlatforms \subseteq AllPlatforms /\ 0 \in 0..MaxTime
  BY DailyAssumption DEF Revs, AllPlatforms
<1>3. \A n \in left : LinkTo(PackageOf(n.plat, 1)) \in Entries
  BY <1>1, <1>2, NameKinds, EntryKinds
<1>4. FileAt(0) \in Entries /\ Absent \in Entries
  BY <1>2, EntryKinds
<1>5. \A n \in Names : dir[n] \in Entries
  BY <1>3, <1>4
<1>6. dir \in [Names -> Entries]
  BY <1>5
<1>7. ASSUME NEW n \in Names, n.plat \in Platforms
      PROVE  dir[n] = Absent
  <2>1. n \notin left /\ \A l \in left : n # PackageOf(l.plat, 1)
    BY <1>1, <1>7, NameKinds, DailyAssumption
  <2> QED
    BY <2>1
<1>8. ASSUME NEW n \in Package
      PROVE  dir[n] = Absent \/ (dir[n] = FileAt(0) /\ n.id = 1)
  <2>1. n \in Names /\ n \notin left
    BY <1>1, NameKinds
  <2> QED
    BY <2>1, NameKinds
<1> QED
  BY <1>6, <1>7, <1>8

\* Types hold always.
LEMMA TypeInvariant == Spec => []TypeInv
<1>1. Init => TypeInv
  <2> SUFFICES ASSUME Init PROVE TypeInv
    OBVIOUS
  <2>1. upload \in [Platforms -> [step : {"none", "writing", "linking"}, rev : 0..MaxRev]]
    BY DailyAssumption DEF Init, NoUpload
  <2>2. now \in 0..MaxTime /\ toClean \in [Names -> 0..2] /\ exists \in BOOLEAN /\ overtaken \subseteq Names
    BY DailyAssumption DEF Init
  <2> QED
    BY <2>1, <2>2, InitEntries DEF Init, TypeInv, TypeOK, UploadHasRev, Uploading, Idle, NoUpload
<1>2. TypeInv /\ [Next]_vars => TypeInv'
  BY TypeNext, UploadHasRevNext DEF TypeInv
<1> QED
  BY <1>1, <1>2, PTL DEF Spec

\* Every state of the directory, of the uploads and of the cleaner has its type.
THEOREM DailyTypeCorrect == Spec => []TypeOK
BY TypeInvariant, PTL DEF TypeInv

-----------------------------------------------------------------------------
(***************************************************************************)
(* What a step does to a name.                                             *)
(***************************************************************************)

\* The package that a build uploads and links is one of its platform, and none of
\* the other names that its steps touch.
LEMMA CurrentIs ==
    ASSUME TypeInv, NEW p \in Platforms, Uploading(p)
    PROVE  /\ Current(p) \in Package /\ Current(p) \in Names /\ Current(p).plat = p
           /\ Current(p) # LatestOf(p) /\ Current(p) # TempOf(p) /\ LatestOf(p) # TempOf(p)
<1>1. upload[p].rev \in Revs
  BY DEF TypeInv, UploadHasRev
<1> QED
  BY <1>1, NameKinds DEF Current

\* The list only gets shorter but for a scan, which makes it anew from what is
\* there; and a name is overtaken when a step puts it in place while it is listed.
LEMMA NameNext ==
    ASSUME TypeInv, [Next]_vars, NEW n \in Names
    PROVE  \/ /\ n \in overtaken' <=> n \in overtaken
              /\ toClean'[n] \in Nat /\ toClean'[n] <= toClean[n]
           \/ /\ \E p \in Platforms : \/ EndUpload(p) /\ n \in {Current(p), LatestOf(p)}
                                      \/ LinkLatest(p) /\ n = LatestOf(p)
              /\ n \in overtaken' <=> toClean[n] > 0
              /\ toClean'[n] = toClean[n]
           \/ /\ \E how \in {"alone", "beside"}, dry \in BOOLEAN, unknown \in CleanupUnknown :
                   Scan(how, dry, unknown) /\ toClean'[n] = Listed(n, unknown)
              /\ n \in overtaken' <=> n \in overtaken /\ dir[n] = Absent
              /\ UNCHANGED <<now, dir, upload>>
<1> USE DEF TypeInv
<1>1. ASSUME NEW how \in {"alone", "beside"}, NEW dry \in BOOLEAN, NEW unknown \in CleanupUnknown,
             Scan(how, dry, unknown)
      PROVE  /\ toClean'[n] = Listed(n, unknown)
             /\ n \in overtaken' <=> n \in overtaken /\ dir[n] = Absent
             /\ UNCHANGED <<now, dir, upload>>
  BY <1>1 DEF Scan
<1>2. ASSUME NEW m \in Names, Remove(m)
      PROVE  overtaken' = overtaken /\ toClean'[n] \in Nat /\ toClean'[n] <= toClean[n]
  BY <1>2 DEF Remove, TypeOK
<1>3. CASE CleanBreaksOff
  BY <1>3 DEF CleanBreaksOff, TypeOK
<1>4. CASE UNCHANGED <<toClean, overtaken>>
  BY <1>4 DEF TypeOK
<1>5. ASSUME NEW p \in Platforms, EndUpload(p) \/ LinkLatest(p)
      PROVE  /\ toClean' = toClean
             /\ \/ overtaken' = overtaken
                \/ EndUpload(p) /\ Overtake({Current(p), LatestOf(p)})
                \/ LinkLatest(p) /\ Overtake({LatestOf(p)})
  BY <1>5 DEF EndUpload, LinkLatest
<1>6. ASSUME NEW S, Overtake(S)
      PROVE  /\ n \in S => (n \in overtaken' <=> toClean[n] > 0)
             /\ n \notin S => (n \in overtaken' <=> n \in overtaken)
  BY <1>6 DEF Overtake
<1>7. toClean' = toClean => toClean'[n] \in Nat /\ toClean'[n] <= toClean[n]
  BY DEF TypeOK
<1>8. ASSUME NEW p \in Platforms, EndUpload(p) \/ LinkLatest(p)
      PROVE  \/ /\ n \in overtaken' <=> n \in overtaken
                /\ toClean'[n] \in Nat /\ toClean'[n] <= toClean[n]
             \/ /\ \/ EndUpload(p) /\ n \in {Current(p), LatestOf(p)}
                   \/ LinkLatest(p) /\ n = LatestOf(p)
                /\ n \in overtaken' <=> toClean[n] > 0
                /\ toClean'[n] = toClean[n]
  BY <1>5, <1>6, <1>7, <1>8
<1> QED
  BY <1>1, <1>2, <1>3, <1>4, <1>8
  DEF Next, Pass, BeginUpload, BreakOff, ScanFails, Finish, vars

\* What a step does to a package: an upload of that very package makes it a file
\* of a moment of its own, the cleaner may remove it if it is on its list, and
\* nothing else touches it.
LEMMA PackageNext ==
    ASSUME TypeInv, [Next]_vars, NEW n \in Package
    PROVE  \/ dir'[n] = dir[n]
           \/ /\ n.plat \in Platforms /\ EndUpload(n.plat) /\ n = Current(n.plat)
              /\ now' = now + 1 /\ IsFile(n)' /\ dir'[n].mtime = now'
              /\ n \in overtaken' <=> toClean[n] > 0
              /\ LatestOf(n.plat) \in overtaken' <=> toClean[LatestOf(n.plat)] > 0
              /\ toClean' = toClean
           \/ Remove(n) /\ ~cleaner.dry /\ toClean[n] > 0 /\ dir'[n] = Absent
<1> USE DEF TypeInv
<1>0. n \in Names /\ n = PackageOf(n.plat, n.id)
  BY NameKinds
<1>1. ASSUME NEW p \in Platforms, NEW r \in Revs, BeginUpload(p, r)
      PROVE  dir'[n] = dir[n]
  <2>1. TempOf(p) # n
    BY NameKinds
  <2> QED
    BY <1>0, <1>1, <2>1 DEF BeginUpload, TypeOK
<1>2. ASSUME NEW p \in Platforms, EndUpload(p)
      PROVE  \/ dir'[n] = dir[n]
             \/ /\ n.plat = p /\ n = Current(p) /\ now' = now + 1
                /\ IsFile(n)' /\ dir'[n].mtime = now'
                /\ n \in overtaken' <=> toClean[n] > 0
                /\ LatestOf(p) \in overtaken' <=> toClean[LatestOf(p)] > 0
                /\ toClean' = toClean
  <2>1. TempOf(p) # n /\ TempOf(p) \in Names /\ Current(p).plat = p /\ TempOf(p) # Current(p)
    BY NameKinds DEF Current
  <2>2. CASE n = Current(p) /\ IsFile(TempOf(p))
    <3>1. dir'[n] = FileAt(now + 1) /\ now' = now + 1
      BY <1>0, <1>2, <2>1, <2>2 DEF EndUpload, TypeOK
    <3>2. Overtake({n, LatestOf(p)}) /\ toClean' = toClean /\ LatestOf(p) \in Names
      BY <1>2, <2>2, NameKinds DEF EndUpload
    <3>3. IsFile(n)' /\ dir'[n].mtime = now'
      BY <3>1, EntryKinds DEF IsFile
    <3> QED
      BY <2>1, <2>2, <3>1, <3>2, <3>3, <1>0 DEF Overtake
  <2>3. CASE n # Current(p) \/ ~IsFile(TempOf(p))
    BY <1>0, <1>2, <2>1, <2>3 DEF EndUpload, TypeOK
  <2> QED
    BY <2>2, <2>3
<1>3. ASSUME NEW p \in Platforms, LinkLatest(p)
      PROVE  dir'[n] = dir[n]
  <2>1. LatestOf(p) # n
    BY NameKinds
  <2> QED
    BY <1>0, <1>3, <2>1 DEF LinkLatest, TypeOK
<1>4. ASSUME NEW m \in Names, Remove(m)
      PROVE  dir'[n] = dir[n] \/ (m = n /\ ~cleaner.dry /\ toClean[n] > 0 /\ dir'[n] = Absent)
  BY <1>0, <1>4 DEF Remove, TypeOK
<1>5. CASE UNCHANGED dir
  BY <1>5
<1> QED
  BY <1>1, <1>2, <1>3, <1>4, <1>5 DEF Next, Pass, BreakOff, Scan, ScanFails, Finish, CleanBreaksOff, vars

\* What a step does to the latest link of a platform: only the step "link latest"
\* makes it, and it makes it to a package of that platform.
LEMMA LatestNext ==
    ASSUME TypeInv, [Next]_vars, NEW p \in Platforms
    PROVE  \/ dir'[LatestOf(p)] = dir[LatestOf(p)]
           \/ LinkLatest(p) /\ dir'[LatestOf(p)] = LinkTo(Current(p))
           \/ Remove(LatestOf(p)) /\ toClean[LatestOf(p)] > 0 /\ dir'[LatestOf(p)] = Absent
<1> USE DEF TypeInv
<1>0. LatestOf(p) \in Names
  BY NameKinds
<1>1. ASSUME NEW q \in Platforms, NEW r \in Revs, BeginUpload(q, r)
      PROVE  dir'[LatestOf(p)] = dir[LatestOf(p)]
  <2>1. TempOf(q) # LatestOf(p)
    BY NameKinds
  <2> QED
    BY <1>0, <1>1, <2>1 DEF BeginUpload, TypeOK
<1>2. ASSUME NEW q \in Platforms, EndUpload(q)
      PROVE  dir'[LatestOf(p)] = dir[LatestOf(p)]
  <2>1. TempOf(q) # LatestOf(p) /\ Current(q) # LatestOf(p)
    BY NameKinds DEF Current
  <2> QED
    BY <1>0, <1>2, <2>1 DEF EndUpload, TypeOK
<1>3. ASSUME NEW q \in Platforms, LinkLatest(q)
      PROVE  \/ dir'[LatestOf(p)] = dir[LatestOf(p)]
             \/ LinkLatest(p) /\ dir'[LatestOf(p)] = LinkTo(Current(p))
  <2>1. q # p => LatestOf(q) # LatestOf(p)
    BY NameKinds
  <2> QED
    BY <1>0, <1>3, <2>1 DEF LinkLatest, TypeOK
<1>4. ASSUME NEW m \in Names, Remove(m)
      PROVE  \/ dir'[LatestOf(p)] = dir[LatestOf(p)]
             \/ Remove(LatestOf(p)) /\ toClean[LatestOf(p)] > 0 /\ dir'[LatestOf(p)] = Absent
  BY <1>0, <1>4 DEF Remove, TypeOK
<1>5. CASE UNCHANGED dir
  BY <1>5
<1> QED
  BY <1>1, <1>2, <1>3, <1>4, <1>5
  DEF Next, Pass, BreakOff, Scan, ScanFails, Finish, CleanBreaksOff, vars

\* Types of what is compared.
LEMMA NumberTypes ==
    ASSUME TypeOK
    PROVE  /\ now \in Nat /\ ObsoleteAge \in Nat /\ KeepBuilds \in Nat
           /\ \A n \in Names : /\ dir[n] \in Entries /\ toClean[n] \in Nat
                               /\ IsFile(n) => dir[n].mtime \in Nat
           /\ \A n \in Package : n \in Names
<1>1. now \in Nat /\ ObsoleteAge \in Nat /\ KeepBuilds \in Nat
  BY DailyAssumption DEF TypeOK
<1>2. \A n \in Names : /\ dir[n] \in Entries /\ toClean[n] \in Nat
                       /\ IsFile(n) => dir[n].mtime \in Nat
  BY EntryKinds, DailyAssumption DEF TypeOK, IsFile
<1> QED
  BY <1>1, <1>2, NameKinds

\* Time goes forward by one moment at most, and never so far that a package which
\* is about to be linked becomes obsolete.
LEMMA TimeNext ==
    ASSUME TypeInv, [Next]_vars
    PROVE  \/ now' = now
           \/ now' = now + 1 /\ Timely(now + 1)
<1>1. ASSUME NEW p \in Platforms, EndUpload(p)
      PROVE  now' = now \/ (now' = now + 1 /\ Timely(now + 1))
  BY <1>1 DEF EndUpload
<1>2. CASE Pass
  BY <1>2 DEF Pass
<1> QED
  BY <1>1, <1>2 DEF Next, BeginUpload, LinkLatest, BreakOff, Scan, ScanFails, Remove, Finish, CleanBreaksOff, vars

\* Packages are files of moments that have been, and no two of a platform are of
\* the same moment.
TimesAreOwn ==
    \A n \in Package :
        /\ dir[n] = Absent \/ IsFile(n)
        /\ IsFile(n) => dir[n].mtime <= now
        /\ \A m \in Package : IsFile(n) /\ IsFile(m) /\ m.plat = n.plat /\ m # n =>
             dir[m].mtime # dir[n].mtime

\* At the start there is one package of a platform at most; and every upload ends
\* at a moment of its own.
LEMMA TimesAreOwnHolds ==
    /\ Init => TimesAreOwn
    /\ TypeInv /\ TimesAreOwn /\ [Next]_vars => TimesAreOwn'
<1>1. ASSUME Init
      PROVE  TimesAreOwn
  <2>1. now = 0
    BY <1>1 DEF Init
  <2>2. \A n \in Package : /\ dir[n] = Absent \/ IsFile(n)
                           /\ IsFile(n) => dir[n].mtime = 0 /\ n = PackageOf(n.plat, 1)
    BY <1>1, InitEntries, NameKinds, EntryKinds DEF IsFile
  <2> QED
    BY <2>1, <2>2 DEF TimesAreOwn
<1>2. ASSUME TypeInv, TimesAreOwn, [Next]_vars
      PROVE  TimesAreOwn'
  <2>0. TypeOK
    BY <1>2 DEF TypeInv
  <2>1. now \in Nat /\ (now' = now \/ now' = now + 1)
    BY <1>2, <2>0, NumberTypes, TimeNext
  <2>2. ASSUME NEW n \in Package
        PROVE  \/ dir'[n] = dir[n]
               \/ n = Current(n.plat) /\ now' = now + 1 /\ dir'[n].is = "file" /\ dir'[n].mtime = now'
               \/ dir'[n] = Absent
    BY <1>2, PackageNext DEF IsFile
  <2>3. ASSUME NEW n \in Package
        PROVE  /\ dir'[n] = Absent \/ IsFile(n)'
               /\ IsFile(n)' => dir'[n].mtime <= now'
    <3>1. IsFile(n) => dir[n].mtime \in Nat /\ dir[n].mtime <= now
      BY <1>2, <2>0, NumberTypes DEF TimesAreOwn
    <3> QED
      BY <1>2, <2>1, <2>2, <3>1, EntryKinds DEF TimesAreOwn, IsFile
  <2>4. ASSUME NEW n \in Package, NEW m \in Package, IsFile(n)', IsFile(m)', m.plat = n.plat, m # n
        PROVE  dir'[m].mtime # dir'[n].mtime
    <3>1. \A k \in {m, n} : \/ dir'[k] = dir[k] /\ dir[k].is = "file"
                            \/ k = Current(n.plat) /\ now' = now + 1 /\ dir'[k].mtime = now'
      BY <2>2, <2>4, EntryKinds DEF IsFile
    <3>2. \A k \in {m, n} : dir[k].is = "file" => dir[k].mtime \in Nat /\ dir[k].mtime <= now
      BY <1>2, <2>0, NumberTypes DEF TimesAreOwn, IsFile
    <3>3. dir[m].is = "file" /\ dir[n].is = "file" => dir[m].mtime # dir[n].mtime
      BY <1>2, <2>4 DEF TimesAreOwn, IsFile
    <3> QED
      BY <2>1, <2>4, <3>1, <3>2, <3>3
  <2> QED
    BY <2>3, <2>4 DEF TimesAreOwn
<1> QED
  BY <1>1, <1>2

-----------------------------------------------------------------------------
(***************************************************************************)
(* The order of the packages of a platform and its first keep_builds.      *)
(***************************************************************************)

\* A set of natural numbers that is not empty has a least one.
LEMMA LeastExists ==
    ASSUME NEW T \in SUBSET Nat, T # {}
    PROVE  \E x \in T : \A y \in T : ~(y < x)
<1> DEFINE R == OpToRel(<, Nat)
<1>1. IsWellFoundedOn(R, Nat)
  BY NatLessThanWellFounded
<1>2. \A x, y \in Nat : x < y => <<x, y>> \in R
  BY DEF OpToRel
<1> HIDE DEF R
<1>3. PICK x \in T : \A y \in T : ~(<<y, x>> \in R)
  BY <1>1, WFMin
<1> QED
  BY <1>2, <1>3

\* The packages that come before a package when the most recent is first, and
\* how many there are.
Ahead(n) == {m \in History(n.plat) : MoreRecent(m, n)}
Rank(n) == Cardinality(Ahead(n))

\* Packages of a platform are told apart by their revision, so there are no more
\* of them than revisions.
LEMMA HistoryIsFinite ==
    ASSUME NEW p
    PROVE  /\ IsFiniteSet(History(p))
           /\ \A n \in History(p) : n \in Package /\ n \in Names /\ n.plat = p /\ IsFile(n) /\ n.id \in Revs
           /\ \A m, n \in History(p) : m.id = n.id => m = n
<1>1. \A n \in History(p) : n \in Package /\ n \in Names /\ n.plat = p /\ IsFile(n) /\ n.id \in Revs
                            /\ n = PackageOf(p, n.id)
  BY NameKinds DEF History, Packages
<1>2. \A m, n \in History(p) : m.id = n.id => m = n
  BY <1>1
<1> DEFINE f == [n \in History(p) |-> n.id]
<1>3. f \in Injection(History(p), Revs)
  BY <1>1, <1>2 DEF Injection, IsInjective
<1>4. IsFiniteSet(Revs)
  BY FS_Interval, DailyAssumption DEF Revs
<1> QED
  BY <1>1, <1>2, <1>3, <1>4, FS_Injection

\* MoreRecent is a strict order on the packages of a platform, and a linear one
\* when each is of a moment of its own.
LEMMA RecentIsStrict ==
    ASSUME TypeOK, NEW p
    PROVE  /\ \A k, m, n \in History(p) :
                /\ ~MoreRecent(n, n)
                /\ MoreRecent(k, m) /\ MoreRecent(m, n) => MoreRecent(k, n)
           /\ TimesAreOwn =>
                \A m, n \in History(p) : m # n => MoreRecent(m, n) \/ MoreRecent(n, m)
<1>1. \A n \in History(p) : n \in Package /\ n.plat = p /\ IsFile(n) /\ dir[n].mtime \in Nat
  BY HistoryIsFinite, NumberTypes
<1> QED
  BY <1>1 DEF MoreRecent, TimesAreOwn

\* Of two packages of a platform the more recent one has the smaller rank.
LEMMA RankGrows ==
    ASSUME TypeOK, NEW p, NEW m \in History(p), NEW n \in History(p), MoreRecent(m, n)
    PROVE  /\ Rank(m) \in Nat /\ Rank(n) \in Nat /\ Rank(m) < Rank(n)
           /\ IsFiniteSet(Ahead(n)) /\ Ahead(m) \subseteq Ahead(n)
<1>1. m.plat = p /\ n.plat = p /\ IsFiniteSet(History(p))
  BY HistoryIsFinite
<1>2. Ahead(m) \in SUBSET History(p) /\ Ahead(n) \in SUBSET History(p)
  BY <1>1 DEF Ahead
<1>3. IsFiniteSet(Ahead(m)) /\ IsFiniteSet(Ahead(n))
  BY <1>1, <1>2, FS_Subset
<1>4. Ahead(m) \subseteq Ahead(n)
  BY <1>1, RecentIsStrict DEF Ahead
<1>5. m \in Ahead(n) /\ m \notin Ahead(m)
  BY <1>1, RecentIsStrict DEF Ahead
<1>6. Cardinality(Ahead(m)) <= Cardinality(Ahead(n)) /\ Cardinality(Ahead(m)) # Cardinality(Ahead(n))
  BY <1>3, <1>4, <1>5, FS_Subset
<1>7. Cardinality(Ahead(m)) \in Nat /\ Cardinality(Ahead(n)) \in Nat
  BY <1>3, FS_CardinalityType
<1> QED
  BY <1>3, <1>4, <1>6, <1>7 DEF Rank

\* What is kept are the packages of the first keep_builds ranks.
LEMMA KeptByRank ==
    ASSUME NEW p
    PROVE  Kept(p) = {n \in History(p) : Rank(n) < KeepBuilds}
<1>1. \A n \in History(p) : n.plat = p
  BY HistoryIsFinite
<1> QED
  BY <1>1 DEF Kept, Rank, Ahead

\* keep_builds packages are kept at most.
LEMMA KeptAreFew ==
    ASSUME TypeOK, TimesAreOwn, NEW p
    PROVE  IsFiniteSet(Kept(p)) /\ Cardinality(Kept(p)) <= KeepBuilds
<1> DEFINE f == [n \in Kept(p) |-> Rank(n)]
<1>0. KeepBuilds \in Nat
  BY DailyAssumption
<1>1. \A n \in Kept(p) : n \in History(p) /\ Rank(n) < KeepBuilds
  BY KeptByRank
<1>2. \A n \in Kept(p) : Rank(n) \in Nat
  <2> SUFFICES ASSUME NEW n \in Kept(p) PROVE Rank(n) \in Nat
    OBVIOUS
  <2>1. Ahead(n) \in SUBSET History(p) /\ IsFiniteSet(History(p))
    BY <1>1, HistoryIsFinite DEF Ahead
  <2> QED
    BY <2>1, FS_Subset, FS_CardinalityType DEF Rank
<1>3. \A m, n \in Kept(p) : m # n => Rank(m) # Rank(n)
  <2> SUFFICES ASSUME NEW m \in Kept(p), NEW n \in Kept(p), m # n
               PROVE  Rank(m) # Rank(n)
    OBVIOUS
  <2>1. m \in History(p) /\ n \in History(p)
    BY <1>1
  <2>2. MoreRecent(m, n) \/ MoreRecent(n, m)
    BY <2>1, RecentIsStrict
  <2>3. ASSUME MoreRecent(m, n) PROVE Rank(m) # Rank(n)
    BY <2>1, <2>3, RankGrows
  <2>4. ASSUME MoreRecent(n, m) PROVE Rank(m) # Rank(n)
    BY <2>1, <2>4, RankGrows
  <2> QED
    BY <2>2, <2>3, <2>4
<1>4. \A n \in Kept(p) : Rank(n) \in 0..(KeepBuilds - 1)
  BY <1>0, <1>1, <1>2
<1>5. f \in Injection(Kept(p), 0..(KeepBuilds - 1))
  BY <1>3, <1>4 DEF Injection, IsInjective
<1>6. IsFiniteSet(0..(KeepBuilds - 1)) /\ Cardinality(0..(KeepBuilds - 1)) = KeepBuilds
  BY <1>0, FS_Interval
<1> QED
  BY <1>5, <1>6, FS_Injection

\* What has keep_builds packages ahead of it has keep_builds kept ones ahead.
LEMMA KeptAhead ==
    ASSUME TypeOK, NEW p, NEW n \in History(p), n \notin Kept(p)
    PROVE  /\ IsFiniteSet(Ahead(n) \cap Kept(p))
           /\ Cardinality(Ahead(n) \cap Kept(p)) >= KeepBuilds
<1> DEFINE T == Ahead(n) \cap Kept(p)
           L == Ahead(n) \ T
<1>0. KeepBuilds \in Nat /\ n.plat = p
  BY DailyAssumption, HistoryIsFinite
<1>1. Ahead(n) \in SUBSET History(p) /\ IsFiniteSet(Ahead(n)) /\ Rank(n) \in Nat
  <2>1. Ahead(n) \in SUBSET History(p) /\ IsFiniteSet(History(p))
    BY <1>0, HistoryIsFinite DEF Ahead
  <2> QED
    BY <2>1, FS_Subset, FS_CardinalityType DEF Rank
<1>2. Rank(n) >= KeepBuilds
  BY <1>0, <1>1, KeptByRank
<1>3. IsFiniteSet(T) /\ Cardinality(T) \in Nat
  BY <1>1, FS_Subset, FS_CardinalityType
<1>4. ASSUME Cardinality(T) < KeepBuilds
      PROVE  FALSE
  <2>1. L # {}
    <3>1. L = {} => T = Ahead(n)
      OBVIOUS
    <3> QED
      BY <1>0, <1>1, <1>2, <1>3, <1>4, <3>1 DEF Rank
  <2>2. \A m \in L : m \in History(p) /\ MoreRecent(m, n) /\ m \notin Kept(p) /\ m.plat = p
    BY <1>0, <1>1, HistoryIsFinite DEF Ahead
  <2>3. \A m \in L : Rank(m) \in Nat
    BY <2>2, RankGrows
  <2> DEFINE Ranks == {Rank(m) : m \in L}
  <2>4. Ranks \in SUBSET Nat /\ Ranks # {}
    BY <2>1, <2>3
  <2>5. PICK m \in L : \A k \in L : ~(Rank(k) < Rank(m))
    <3>1. PICK x \in Ranks : \A y \in Ranks : ~(y < x)
      BY <2>4, LeastExists
    <3>2. PICK m \in L : x = Rank(m)
      OBVIOUS
    <3> QED
      BY <3>1, <3>2
  <2>6. m \in History(p) /\ MoreRecent(m, n) /\ m \notin Kept(p) /\ m.plat = p
    BY <2>2
  <2>7. Ahead(m) \subseteq T
    <3> SUFFICES ASSUME NEW k \in Ahead(m) PROVE k \in T
      OBVIOUS
    <3>1. k \in History(p) /\ MoreRecent(k, m)
      BY <2>6 DEF Ahead
    <3>2. k \in Ahead(n)
      BY <1>0, <2>6, <3>1, RecentIsStrict DEF Ahead
    <3>3. Rank(k) < Rank(m)
      BY <2>6, <3>1, RankGrows
    <3> QED
      BY <2>5, <3>2, <3>3
  <2>8. IsFiniteSet(Ahead(m)) /\ Rank(m) <= Cardinality(T) /\ Rank(m) \in Nat
    BY <1>3, <2>3, <2>7, FS_Subset DEF Rank
  <2>9. m \in Kept(p)
    BY <1>0, <1>3, <1>4, <2>6, <2>8, KeptByRank
  <2> QED
    BY <2>6, <2>9
<1> QED
  BY <1>0, <1>3, <1>4

-----------------------------------------------------------------------------
(***************************************************************************)
(* What is removed is obsolete or has enough others.                       *)
(***************************************************************************)

\* The packages that are more recent than a package and stay when it goes.
Others(n) == {m \in Packages(n.plat) : MoreRecent(m, n) /\ toClean[m] = 0}

\* A package that is on the list by the rules for packages, and was there when the
\* list was made, is obsolete, or there are keep_builds others off the list.
RecentIsKept ==
    \A n \in Package :
        IsFile(n) /\ toClean[n] # 0 /\ n.plat \in Ruled(cleaner.unknown) /\ n \notin overtaken =>
            dir[n].mtime < now - ObsoleteAge \/ Cardinality(Others(n)) >= KeepBuilds

\* A scan lists no package of a platform it rules that is kept and not obsolete.
LEMMA KeptIsNotListed ==
    ASSUME TypeOK, NEW unknown \in BOOLEAN, NEW n \in Package, n.plat \in Ruled(unknown)
    PROVE  /\ Listed(n, unknown) = 0 <=> n \notin Excess(n.plat) \cup Obsolete(n.plat)
           /\ n \in Kept(n.plat) /\ ~(dir[n].mtime < now - ObsoleteAge) => Listed(n, unknown) = 0
<1>0. n \in Names /\ n.kind = "package"
  BY NameKinds
<1>1. n \notin Fishy(unknown)
  <2>1. n \notin Links /\ (unknown => n \notin Unknown)
    BY <1>0 DEF Links, Unknown, Ruled
  <2> QED
    BY <1>0, <2>1 DEF Fishy
<1>2. n \notin Stray
  BY <1>0, ReasonsListed
<1>3. Listed(n, unknown) = 0 <=> n \notin Excess(n.plat) \cup Obsolete(n.plat)
  BY <1>0, <1>1, <1>2, ListedBounds
<1>4. n \in Kept(n.plat) /\ ~(dir[n].mtime < now - ObsoleteAge)
        => n \notin Excess(n.plat) \cup Obsolete(n.plat)
  BY DEF Excess, Obsolete
<1> QED
  BY <1>3, <1>4

\* At the scan: a package in excess has keep_builds kept ones ahead of it, and if
\* it is not obsolete they are not and stay off the list.
LEMMA ScanKeepsRecent ==
    ASSUME TypeInv, NEW unknown \in BOOLEAN, NEW n \in Package, IsFile(n),
           Listed(n, unknown) # 0, n.plat \in Ruled(unknown), ~(dir[n].mtime < now - ObsoleteAge)
    PROVE  Cardinality({m \in Packages(n.plat) : MoreRecent(m, n) /\ Listed(m, unknown) = 0})
             >= KeepBuilds
<1> DEFINE p == n.plat
           A == Ahead(n) \cap Kept(p)
           B == {m \in Packages(p) : MoreRecent(m, n) /\ Listed(m, unknown) = 0}
<1>0. /\ TypeOK /\ History(p) = Packages(p) /\ KeepBuilds \in Nat /\ now \in Nat /\ ObsoleteAge \in Nat
      /\ \A m \in History(p) : m \in Package /\ m.plat = p /\ dir[m].mtime \in Nat
  <2>1. \A m \in History(p) : m \in Package /\ m.plat = p /\ m \in Names /\ dir[m].is = "file"
    BY HistoryIsFinite DEF IsFile
  <2> QED
    BY <2>1, EntryKinds, DailyAssumption DEF TypeInv, TypeOK, History
<1>1. n \in History(p)
  BY <1>0 DEF Packages
<1>2. n \notin Kept(p)
  <2>1. n \in Excess(p) \cup Obsolete(p)
    BY <1>0, KeptIsNotListed
  <2> QED
    BY <2>1 DEF Excess, Obsolete
<1>3. IsFiniteSet(A) /\ Cardinality(A) >= KeepBuilds
  BY <1>0, <1>1, <1>2, KeptAhead
<1>4. A \subseteq B
  <2> SUFFICES ASSUME NEW m \in A PROVE m \in B
    OBVIOUS
  <2>1. m \in History(p) /\ MoreRecent(m, n) /\ m \in Kept(p)
    BY DEF Ahead
  <2>3. ~(dir[m].mtime < now - ObsoleteAge)
    BY <1>0, <1>1, <2>1 DEF MoreRecent
  <2>4. Listed(m, unknown) = 0
    BY <1>0, <2>1, <2>3, KeptIsNotListed
  <2> QED
    BY <1>0, <2>1, <2>4
<1>5. IsFiniteSet(B)
  <2>1. B \in SUBSET History(p) /\ IsFiniteSet(History(p))
    BY <1>0, HistoryIsFinite
  <2> QED
    BY <2>1, FS_Subset
<1>6. Cardinality(A) <= Cardinality(B) /\ Cardinality(A) \in Nat /\ Cardinality(B) \in Nat
  BY <1>3, <1>4, <1>5, FS_Subset, FS_CardinalityType
<1> QED
  BY <1>0, <1>3, <1>6

\* However many of the packages of a platform there are, they are finitely many.
LEMMA PackagesAreFinite ==
    ASSUME NEW p, NEW S \in SUBSET {n \in Package : n.plat = p}
    PROVE  IsFiniteSet(S) /\ Cardinality(S) \in Nat
<1> DEFINE f == [n \in S |-> n.id]
<1>1. \A n \in S : n.id \in Revs /\ n = PackageOf(p, n.id)
  BY NameKinds
<1>2. f \in Injection(S, Revs)
  BY <1>1 DEF Injection, IsInjective
<1>3. IsFiniteSet(Revs)
  BY FS_Interval, DailyAssumption DEF Revs
<1> QED
  BY <1>2, <1>3, FS_Injection, FS_CardinalityType

\* What a step does to the list as a whole: a scan makes it, the end of the
\* cleaning empties it, and otherwise it gets shorter under the settings it was
\* made with.
LEMMA ListNext ==
    ASSUME TypeInv, [Next]_vars
    PROVE  \/ \E how \in {"alone", "beside"}, dry \in BOOLEAN, unknown \in CleanupUnknown :
                Scan(how, dry, unknown)
           \/ \A n \in Names : toClean'[n] = 0
           \/ cleaner' = cleaner /\ \A n \in Names : toClean'[n] \in Nat /\ toClean'[n] <= toClean[n]
<1> USE DEF TypeInv
<1>1. ASSUME NEW m \in Names, Remove(m)
      PROVE  /\ cleaner' = cleaner
             /\ \A n \in Names : toClean'[n] \in Nat /\ toClean'[n] <= toClean[n]
  BY <1>1 DEF Remove, TypeOK
<1>2. CASE Finish \/ CleanBreaksOff
  BY <1>2 DEF Finish, CleanBreaksOff
<1>3. ASSUME NEW p \in Platforms,
             (\E r \in Revs : BeginUpload(p, r)) \/ EndUpload(p) \/ LinkLatest(p) \/ BreakOff(p)
      PROVE  cleaner' = cleaner /\ toClean' = toClean
  BY <1>3 DEF BeginUpload, EndUpload, LinkLatest, BreakOff
<1>4. ASSUME Pass \/ ScanFails \/ UNCHANGED vars
      PROVE  cleaner' = cleaner /\ toClean' = toClean
  BY <1>4 DEF Pass, ScanFails, vars
<1>5. toClean' = toClean => \A n \in Names : toClean'[n] \in Nat /\ toClean'[n] <= toClean[n]
  BY DEF TypeOK
<1> QED
  BY <1>1, <1>2, <1>3, <1>4, <1>5 DEF Next

\* An upload after the scan makes what it puts in place more recent, or overtakes
\* the list; a removal is of what is on it.
LEMMA RecentIsKeptNext ==
    ASSUME TypeInv, TimesAreOwn, RecentIsKept, [Next]_vars
    PROVE  RecentIsKept'
<1> SUFFICES ASSUME NEW n \in Package, IsFile(n)', toClean'[n] # 0, n.plat \in Ruled(cleaner'.unknown),
                    n \notin overtaken'
             PROVE  \/ dir'[n].mtime < now' - ObsoleteAge
                    \/ Cardinality(Others(n)') >= KeepBuilds
  BY DEF RecentIsKept
<1>0. /\ TypeOK /\ n \in Names /\ now \in Nat /\ ObsoleteAge \in Nat /\ KeepBuilds \in Nat
      /\ toClean[n] \in Nat
  BY NumberTypes DEF TypeInv
<1>1. ASSUME NEW how \in {"alone", "beside"}, NEW dry \in BOOLEAN, NEW unknown \in CleanupUnknown,
             Scan(how, dry, unknown)
      PROVE  \/ dir'[n].mtime < now' - ObsoleteAge
             \/ Cardinality(Others(n)') >= KeepBuilds
  <2>1. /\ dir' = dir /\ now' = now /\ cleaner'.unknown = unknown /\ unknown \in BOOLEAN
        /\ \A m \in Names : toClean'[m] = Listed(m, unknown)
    BY <1>1, DailyAssumption DEF Scan
  <2>2. IsFile(n) /\ Listed(n, unknown) # 0 /\ n.plat \in Ruled(unknown)
    BY <1>0, <2>1 DEF IsFile
  <2>3. Others(n)' = {m \in Packages(n.plat) : MoreRecent(m, n) /\ Listed(m, unknown) = 0}
    BY <2>1, NameKinds DEF Others, Packages, IsFile, MoreRecent
  <2>4. ASSUME ~(dir[n].mtime < now - ObsoleteAge)
        PROVE  Cardinality(Others(n)') >= KeepBuilds
    BY <2>1, <2>2, <2>3, <2>4, ScanKeepsRecent
  <2> QED
    BY <2>1, <2>4
<1>2. ASSUME ~\E how \in {"alone", "beside"}, dry \in BOOLEAN, unknown \in CleanupUnknown :
                Scan(how, dry, unknown),
             cleaner' = cleaner, \A m \in Names : toClean'[m] \in Nat /\ toClean'[m] <= toClean[m]
      PROVE  \/ dir'[n].mtime < now' - ObsoleteAge
             \/ Cardinality(Others(n)') >= KeepBuilds
  <2>1. toClean[n] # 0 /\ toClean[n] > 0 /\ n.plat \in Ruled(cleaner.unknown) /\ toClean'[n] # 0
    BY <1>0, <1>2
  <2>2. dir'[n] = dir[n]
    <3>1. dir'[n] # Absent
      BY EntryKinds DEF IsFile
    <3> QED
      BY <2>1, <3>1, PackageNext
  <2>3. IsFile(n) /\ dir[n].mtime \in Nat /\ dir'[n].mtime = dir[n].mtime
    BY <1>0, <2>2, NumberTypes DEF IsFile
  <2>4. CASE dir[n].mtime < now - ObsoleteAge
    BY <1>0, <2>3, <2>4, TimeNext
  <2>5. CASE Cardinality(Others(n)) >= KeepBuilds
    <3>1. ASSUME NEW m \in Others(n)
          PROVE  m \in Others(n)'
      <4>1. /\ m \in Package /\ m.plat = n.plat /\ IsFile(m) /\ m \in Names
            /\ dir[m].mtime > dir[n].mtime /\ toClean[m] = 0
        BY NameKinds DEF Others, Packages, MoreRecent
      <4>2. toClean'[m] = 0
        BY <1>2, <4>1
      <4>3. CASE dir'[m] = dir[m]
        BY <2>2, <4>1, <4>2, <4>3 DEF Others, Packages, IsFile, MoreRecent
      <4>4. CASE now' = now + 1 /\ IsFile(m)' /\ dir'[m].mtime = now'
        <5>1. dir[n].mtime <= now
          BY <2>3 DEF TimesAreOwn
        <5>2. dir'[m].mtime > dir'[n].mtime
          BY <1>0, <2>3, <4>4, <5>1
        <5> QED
          BY <4>1, <4>2, <4>4, <5>2 DEF Others, Packages, IsFile, MoreRecent
      <4>5. CASE toClean[m] > 0
        BY <4>1, <4>5
      <4> QED
        BY <4>1, <4>3, <4>4, <4>5, PackageNext
    <3>2. Others(n)' \in SUBSET {m \in Package : m.plat = n.plat}
      BY DEF Others, Packages
    <3>3. IsFiniteSet(Others(n)') /\ Cardinality(Others(n)') \in Nat
      BY <3>2, PackagesAreFinite
    <3>4. Others(n) \subseteq Others(n)'
      BY <3>1
    <3>5. Cardinality(Others(n)) <= Cardinality(Others(n)') /\ Cardinality(Others(n)) \in Nat
      BY <3>3, <3>4, FS_Subset, FS_CardinalityType
    <3> QED
      BY <1>0, <2>5, <3>3, <3>5
  <2>6. n \notin overtaken
    BY <1>0, <1>2, <2>1, NameNext
  <2> QED
    BY <2>1, <2>3, <2>4, <2>5, <2>6 DEF RecentIsKept
<1> QED
  BY <1>0, <1>1, <1>2, ListNext

\* What there is is of moments of its own, and what is on the list is old or has
\* others.
RetentionInv == TypeInv /\ TimesAreOwn /\ RecentIsKept

\* They hold always: at the start nothing is on the list.
LEMMA RetentionInvariant == Spec => []RetentionInv
<1>1. Init /\ TypeInv => RetentionInv
  <2> SUFFICES ASSUME Init, TypeInv PROVE RecentIsKept
    BY TimesAreOwnHolds DEF RetentionInv
  <2>1. \A n \in Names : toClean[n] = 0
    BY DEF Init
  <2> QED
    BY <2>1, NameKinds DEF RecentIsKept
<1>2. RetentionInv /\ [Next]_vars => RetentionInv'
  BY TypeNext, UploadHasRevNext, TimesAreOwnHolds, RecentIsKeptNext DEF RetentionInv, TypeInv
<1> QED
  BY <1>1, <1>2, TypeInvariant, PTL DEF Spec

\* Whatever its platform, how many builds are to be kept, and whatever is uploaded
\* between the scan and the removal: a package that goes was there when it was put
\* on the list, and is obsolete, or keep_builds more recent ones are there.
THEOREM RecentStays == Spec => NothingRecentIsLost
<1> DEFINE Lossless ==
      \A n \in Package :
        IsFile(n) /\ n.plat \in Ruled(cleaner.unknown) /\ ~IsFile(n)' =>
            \/ n \in overtaken
            \/ dir[n].mtime < now - ObsoleteAge
            \/ Cardinality({m \in Packages(n.plat) : MoreRecent(m, n)}) >= KeepBuilds
<1>1. RetentionInv /\ [Next]_vars => [Lossless]_vars
  <2> SUFFICES ASSUME RetentionInv, [Next]_vars, NEW n \in Package,
                      IsFile(n), n.plat \in Ruled(cleaner.unknown), ~IsFile(n)', n \notin overtaken,
                      ~(dir[n].mtime < now - ObsoleteAge)
               PROVE  Cardinality({m \in Packages(n.plat) : MoreRecent(m, n)}) >= KeepBuilds
    OBVIOUS
  <2> DEFINE Ahd == {m \in Packages(n.plat) : MoreRecent(m, n)}
  <2>1. toClean[n] # 0
    <3>1. dir'[n] # dir[n]
      BY DEF IsFile
    <3>2. toClean[n] > 0
      BY <3>1, PackageNext DEF RetentionInv
    <3> QED
      BY <3>2
  <2>2. Cardinality(Others(n)) >= KeepBuilds
    BY <2>1 DEF RetentionInv, RecentIsKept
  <2>3. Others(n) \subseteq Ahd /\ Ahd \in SUBSET {m \in Package : m.plat = n.plat}
    BY DEF Others, Packages
  <2>4. IsFiniteSet(Ahd) /\ Cardinality(Ahd) \in Nat
    BY <2>3, PackagesAreFinite
  <2>5. Cardinality(Others(n)) <= Cardinality(Ahd) /\ Cardinality(Others(n)) \in Nat
    BY <2>3, <2>4, FS_Subset, FS_CardinalityType
  <2> QED
    BY <2>2, <2>4, <2>5, DailyAssumption
<1> QED
  BY <1>1, RetentionInvariant, PTL DEF Spec, NothingRecentIsLost

-----------------------------------------------------------------------------
(***************************************************************************)
(* What is published.                                                      *)
(***************************************************************************)

\* A latest link leads to a package of its own platform.
LinksAreOwn ==
    \A p \in Platforms : dir[LatestOf(p)].is = "link" => dir[LatestOf(p)].to.plat = p

\* There is none at the start, and only the step "link latest" makes one.
LEMMA LinksAreOwnHolds ==
    /\ Init => LinksAreOwn
    /\ TypeInv /\ LinksAreOwn /\ [Next]_vars => LinksAreOwn'
<1>1. ASSUME Init, NEW p \in Platforms
      PROVE  dir[LatestOf(p)].is # "link"
  <2>1. LatestOf(p) \in Names /\ LatestOf(p).plat \in Platforms
    BY NameKinds
  <2> QED
    BY <1>1, <2>1, InitEntries, EntryKinds
<1>2. ASSUME TypeInv, LinksAreOwn, [Next]_vars, NEW p \in Platforms, dir'[LatestOf(p)].is = "link"
      PROVE  dir'[LatestOf(p)].to.plat = p
  <2>1. CASE dir'[LatestOf(p)] = dir[LatestOf(p)]
    BY <1>2, <2>1 DEF LinksAreOwn
  <2>2. CASE dir'[LatestOf(p)] = LinkTo(Current(p))
    BY <2>2, NameKinds, EntryKinds DEF Current
  <2> QED
    BY <1>2, <2>1, <2>2, LatestNext, EntryKinds
<1> QED
  BY <1>1, <1>2 DEF LinksAreOwn

\* A package that is there is the most recent one of its platform.
IsNewest(n) ==
    \A m \in Package : m.plat = n.plat /\ IsFile(m) => dir[m].mtime <= dir[n].mtime

\* The package that a build is about to link is the most recent one and not
\* obsolete, and it is not on the list unless it has overtaken it.
ReadyToLink ==
    \A p \in Platforms : upload[p].step = "linking" =>
        /\ IsFile(Current(p)) => IsNewest(Current(p)) /\ dir[Current(p)].mtime >= now - ObsoleteAge
        /\ \/ Current(p) \in overtaken
           \/ IsFile(Current(p)) /\ toClean[Current(p)] = 0

\* A scan spares the most recent package, if it keeps any and it is not obsolete.
LEMMA ScanSparesNewest ==
    ASSUME TypeInv, KeepBuilds > 0, NEW unknown \in BOOLEAN,
           NEW n \in Package, n.plat \in Platforms, IsFile(n), IsNewest(n), dir[n].mtime >= now - ObsoleteAge
    PROVE  Listed(n, unknown) = 0
<1>1. n \in History(n.plat) /\ n.plat \in Ruled(unknown)
  BY NameKinds DEF History, Packages, Ruled
<1>2. /\ now \in Nat /\ ObsoleteAge \in Nat
      /\ \A m \in Package : IsFile(m) => dir[m].mtime \in Nat
  BY NumberTypes DEF TypeInv
<1>3. {m \in History(n.plat) : MoreRecent(m, n)} = {}
  <2> SUFFICES ASSUME NEW m \in History(n.plat) PROVE ~MoreRecent(m, n)
    OBVIOUS
  <2>1. m \in Package /\ m.plat = n.plat /\ IsFile(m)
    BY DEF History, Packages
  <2> QED
    BY <1>2, <2>1 DEF IsNewest, MoreRecent
<1>4. n \in Kept(n.plat)
  BY <1>1, <1>3, FS_EmptySet DEF Kept
<1>5. ~(dir[n].mtime < now - ObsoleteAge)
  BY <1>2
<1> QED
  BY <1>1, <1>4, <1>5, KeptIsNotListed DEF TypeInv

\* What makes a build ready to link: the end of its upload.  Otherwise it was
\* ready before.
LEMMA LinkingNext ==
    ASSUME TypeInv, [Next]_vars, NEW p \in Platforms, upload'[p].step = "linking"
    PROVE  \/ upload'[p] = upload[p] /\ upload[p].step = "linking" /\ ~EndUpload(p)
           \/ /\ EndUpload(p) /\ IsFile(TempOf(p)) /\ upload'[p].rev = upload[p].rev
<1> USE DEF TypeInv
<1>1. ASSUME NEW q \in Platforms, NEW r \in Revs, BeginUpload(q, r)
      PROVE  upload'[p] = upload[p] /\ ~EndUpload(p)
  BY <1>1 DEF BeginUpload, EndUpload, TypeOK
<1>2. ASSUME NEW q \in Platforms, EndUpload(q)
      PROVE  \/ upload'[p] = upload[p] /\ ~EndUpload(p)
             \/ EndUpload(p) /\ IsFile(TempOf(p)) /\ upload'[p].rev = upload[p].rev
  <2>1. CASE q = p
    BY <1>2, <2>1 DEF EndUpload, TypeOK, NoUpload
  <2>2. CASE q # p
    <3>1. upload'[p] = upload[p]
      BY <1>2, <2>2 DEF EndUpload, TypeOK
    <3>2. ~EndUpload(p)
      BY <3>1 DEF EndUpload
    <3> QED
      BY <3>1, <3>2
  <2> QED
    BY <2>1, <2>2
<1>3. ASSUME NEW q \in Platforms, LinkLatest(q) \/ BreakOff(q)
      PROVE  upload'[p] = upload[p]
  BY <1>3 DEF LinkLatest, BreakOff, TypeOK, NoUpload
<1>4. upload'[p] = upload[p] => ~EndUpload(p)
  BY DEF EndUpload
<1>5. CASE UNCHANGED upload
  BY <1>4, <1>5
<1> QED
  BY <1>1, <1>2, <1>3, <1>4, <1>5
  DEF Next, Pass, Scan, ScanFails, Remove, Finish, CleanBreaksOff, vars

\* Nothing makes another package more recent before the link is there.
LEMMA ReadyToLinkNext ==
    ASSUME TypeInv, TimesAreOwn, ReadyToLink, KeepBuilds > 0, [Next]_vars
    PROVE  ReadyToLink'
<1> SUFFICES ASSUME NEW p \in Platforms, upload'[p].step = "linking"
             PROVE  /\ IsFile(Current(p))' =>
                         /\ \A m \in Package : m.plat = p /\ IsFile(m)' =>
                              dir'[m].mtime <= dir'[Current(p)'].mtime
                         /\ dir'[Current(p)'].mtime >= now' - ObsoleteAge
                    /\ \/ Current(p)' \in overtaken'
                       \/ IsFile(Current(p))' /\ toClean'[Current(p)'] = 0
  BY CurrentIs DEF ReadyToLink, IsNewest, Current, PackageOf
<1>0. /\ TypeOK /\ now \in Nat /\ ObsoleteAge \in Nat /\ KeepBuilds \in Nat
      /\ \A n \in Package : n \in Names /\ toClean[n] \in Nat /\ (IsFile(n) => dir[n].mtime \in Nat)
  BY NumberTypes DEF TypeInv
<1>1. PICK c \in Package : /\ Uploading(p) /\ c = Current(p) /\ c \in Names /\ c.plat = p
                           /\ c # LatestOf(p) /\ c # TempOf(p)
  <2>1. Uploading(p)
    BY LinkingNext DEF Uploading, EndUpload
  <2> QED
    BY <2>1, CurrentIs
<1>2. Current(p)' = c
  BY <1>1, LinkingNext DEF Current
<1>3. \A q \in Platforms : LatestOf(q) # c /\ (q # p => q # c.plat)
  BY <1>1, NameKinds
<1>4. CASE upload'[p] = upload[p] /\ upload[p].step = "linking" /\ ~EndUpload(p)
  <2>1. /\ IsFile(c) => /\ \A m \in Package : m.plat = p /\ IsFile(m) => dir[m].mtime <= dir[c].mtime
                        /\ dir[c].mtime >= now - ObsoleteAge
        /\ c \in overtaken \/ (IsFile(c) /\ toClean[c] = 0)
    BY <1>1, <1>4 DEF ReadyToLink, IsNewest
  <2>2. \A m \in Package : m.plat = p /\ IsFile(m)' => dir'[m] = dir[m] /\ IsFile(m)
    BY <1>4, PackageNext, EntryKinds DEF IsFile
  <2>3. IsFile(c)' => dir[c].mtime >= now' - ObsoleteAge
    <3>1. Timely(now + 1) /\ IsFile(c) => dir[c].mtime >= (now + 1) - ObsoleteAge
      BY <1>1, <1>4 DEF Timely
    <3> QED
      BY <1>1, <2>1, <2>2, <3>1, TimeNext
  <2>4. IsFile(c)' => /\ \A m \in Package : m.plat = p /\ IsFile(m)' => dir'[m].mtime <= dir'[c].mtime
                      /\ dir'[c].mtime >= now' - ObsoleteAge
    BY <1>1, <2>1, <2>2, <2>3
  <2>5. \A q \in Platforms : ~(EndUpload(q) /\ c \in {Current(q), LatestOf(q)}) /\ ~(LinkLatest(q) /\ c = LatestOf(q))
    BY <1>1, <1>3, <1>4, NameKinds DEF Current
  <2>6. ASSUME c \in overtaken' <=> c \in overtaken,
               toClean'[c] \in Nat, toClean'[c] <= toClean[c]
        PROVE  c \in overtaken' \/ (IsFile(c)' /\ toClean'[c] = 0)
    <3>1. CASE c \in overtaken
      BY <2>6, <3>1
    <3>2. CASE IsFile(c) /\ toClean[c] = 0
      <4>1. dir'[c] = dir[c]
        BY <1>1, <1>4, <3>2, PackageNext
      <4> QED
        BY <2>6, <3>2, <4>1 DEF IsFile
    <3> QED
      BY <2>1, <3>1, <3>2
  <2>7. ASSUME NEW how \in {"alone", "beside"}, NEW dry \in BOOLEAN, NEW unknown \in CleanupUnknown,
               toClean'[c] = Listed(c, unknown), UNCHANGED <<now, dir, upload>>,
               c \in overtaken' <=> c \in overtaken /\ dir[c] = Absent
        PROVE  c \in overtaken' \/ (IsFile(c)' /\ toClean'[c] = 0)
    <3>1. unknown \in BOOLEAN
      BY DailyAssumption
    <3>2. CASE dir[c] = Absent
      <4>1. ~IsFile(c)
        BY <3>2, EntryKinds DEF IsFile
      <4> QED
        BY <2>1, <2>7, <3>2, <4>1
    <3>3. CASE IsFile(c)
      <4>1. Listed(c, unknown) = 0
        BY <1>1, <2>1, <3>1, <3>3, ScanSparesNewest DEF IsNewest
      <4> QED
        BY <2>7, <3>3, <4>1 DEF IsFile
    <3> QED
      BY <1>1, <3>2, <3>3 DEF TimesAreOwn
  <2>8. c \in overtaken' \/ (IsFile(c)' /\ toClean'[c] = 0)
    BY <1>1, <2>5, <2>6, <2>7, NameNext
  <2> QED
    BY <1>2, <2>4, <2>8 DEF IsFile
<1>5. CASE EndUpload(p) /\ IsFile(TempOf(p))
  <2>1. /\ now' = now + 1 /\ toClean' = toClean /\ Overtake({c, LatestOf(p)})
        /\ dir' = [dir EXCEPT ![c] = FileAt(now + 1), ![TempOf(p)] = Absent]
    BY <1>1, <1>5 DEF EndUpload
  <2>2. dir'[c] = FileAt(now + 1) /\ TempOf(p) \in Names
    BY <1>0, <1>1, <2>1, NameKinds DEF TypeOK
  <2>3. dir'[c].is = "file" /\ dir'[c].mtime = now + 1
    BY <2>2, EntryKinds
  <2>4. c \in overtaken' <=> toClean[c] > 0
    BY <1>1, <2>1 DEF Overtake
  <2>5. TimesAreOwn'
    BY TimesAreOwnHolds
  <2>6. \A m \in Package : IsFile(m)' => dir'[m].mtime <= now + 1
    BY <2>1, <2>5 DEF TimesAreOwn
  <2>7. IsFile(Current(p))' =>
             /\ \A m \in Package : m.plat = p /\ IsFile(m)' => dir'[m].mtime <= dir'[Current(p)'].mtime
             /\ dir'[Current(p)'].mtime >= now' - ObsoleteAge
    <3>1. dir'[c].mtime >= now' - ObsoleteAge
      BY <1>0, <2>1, <2>3
    <3>2. \A m \in Package : m.plat = p /\ IsFile(m)' => dir'[m].mtime <= dir'[c].mtime
      BY <2>3, <2>6
    <3> QED
      BY <1>2, <3>1, <3>2
  <2>8. c \in overtaken' \/ (dir'[c].is = "file" /\ toClean'[c] = 0)
    BY <1>0, <2>1, <2>3, <2>4
  <2> QED
    BY <1>2, <2>7, <2>8 DEF IsFile
<1> QED
  BY <1>4, <1>5, LinkingNext

\* A scan spares a link that holds and what it leads to, in a directory that is
\* reached by its real path.
LEMMA ScanSparesLatest ==
    ASSUME TypeInv, LinksAreOwn, Canonical, NEW p \in Platforms, Resolves(LatestOf(p)), NEW unknown \in BOOLEAN
    PROVE  Listed(LatestOf(p), unknown) = 0 /\ Listed(dir[LatestOf(p)].to, unknown) = 0
<1> DEFINE l == LatestOf(p)
           t == dir[l].to
<1>1. l \in Names /\ l \notin Package /\ l.kind = "latest" /\ l.plat = p
  BY NameKinds
<1>2. t \in Package /\ t.plat = p /\ IsFile(t) /\ t \in History(p) /\ dir[l] # Absent
  BY <1>1, EntryKinds DEF Resolves, TypeInv, TypeOK, LinksAreOwn, History, Packages
<1>3. l \in Latests /\ t \in Spared
  BY <1>1, <1>2 DEF Latests, Links, Present, Spared
<1>4. l \notin Fishy(unknown) /\ l \notin Stray
  BY <1>1, <1>2 DEF Fishy, Unknown, Stray
<1>5. t \notin Excess(p) \cup Obsolete(p)
  BY <1>3 DEF Excess, Obsolete
<1>6. p \in Ruled(unknown)
  BY NameKinds DEF Ruled
<1>7. l \notin Excess(l.plat) \cup Obsolete(l.plat)
  BY <1>1, ReasonsListed
<1> QED
  BY <1>1, <1>2, <1>4, <1>5, <1>6, <1>7, ListedBounds, KeptIsNotListed DEF TypeInv

\* What the cleaner may remove of what is published has overtaken its list.
PublishedIsSafe ==
    \A p \in Platforms : Resolves(LatestOf(p)) =>
        \A n \in {LatestOf(p), dir[LatestOf(p)].to} : n \in overtaken \/ toClean[n] = 0

\* A link holds because it did before, because it was made, or because its package
\* was put in place.
LEMMA PublishedIsSafeNext ==
    ASSUME TypeInv, TimesAreOwn, LinksAreOwn, ReadyToLink, PublishedIsSafe, Canonical, [Next]_vars
    PROVE  PublishedIsSafe'
<1> SUFFICES ASSUME NEW p \in Platforms, Resolves(LatestOf(p))',
                    NEW n \in {LatestOf(p), dir'[LatestOf(p)].to}
             PROVE  n \in overtaken' \/ toClean'[n] = 0
  BY DEF PublishedIsSafe
<1>0. /\ LatestOf(p) \in Names /\ LatestOf(p) \notin Package /\ Package \subseteq Names
      /\ dir \in [Names -> Entries] /\ \A m \in Names : toClean[m] \in Nat
  BY NameKinds, NumberTypes DEF TypeInv, TypeOK
<1>1. CASE LinkLatest(p) /\ dir'[LatestOf(p)] = LinkTo(Current(p))
  <2>1. /\ Current(p) \in Package /\ Current(p) # LatestOf(p)
        /\ Current(p) \in overtaken \/ toClean[Current(p)] = 0
    BY <1>1, CurrentIs DEF LinkLatest, Uploading, ReadyToLink
  <2>2. toClean' = toClean /\ Overtake({LatestOf(p)})
    BY <1>1 DEF LinkLatest
  <2>3. dir'[LatestOf(p)].to = Current(p)
    BY <1>1, EntryKinds
  <2> QED
    BY <1>0, <2>1, <2>2, <2>3 DEF Overtake
<1>2. CASE dir'[LatestOf(p)] = dir[LatestOf(p)]
  <2>1. PICK t \in Package : /\ dir[LatestOf(p)].is = "link" /\ dir[LatestOf(p)].to = t
                             /\ t.plat = p /\ dir'[t].is = "file" /\ t \in Names
    BY <1>0, <1>2, EntryKinds DEF Resolves, IsFile, LinksAreOwn
  <2>2. n \in {LatestOf(p), t} /\ n \in Names
    BY <1>0, <1>2, <2>1
  <2>3. CASE IsFile(t)
    <3>1. Resolves(LatestOf(p)) /\ (n \in overtaken \/ toClean[n] = 0)
      BY <2>1, <2>2, <2>3 DEF Resolves, PublishedIsSafe
    <3>2. dir[n] # Absent
      BY <2>1, <2>2, <2>3, EntryKinds DEF IsFile
    <3>3. ASSUME NEW unknown \in CleanupUnknown, toClean'[n] = Listed(n, unknown)
          PROVE  toClean'[n] = 0
      <4>1. unknown \in BOOLEAN
        BY DailyAssumption
      <4> QED
        BY <2>1, <2>2, <3>1, <3>3, <4>1, ScanSparesLatest
    <3> QED
      BY <1>0, <2>2, <3>1, <3>2, <3>3, NameNext
  <2>4. CASE ~IsFile(t)
    <3>1. dir'[t] # dir[t] /\ dir'[t] # Absent
      BY <2>1, <2>4, EntryKinds DEF IsFile
    <3>2. /\ toClean' = toClean
          /\ t \in overtaken' <=> toClean[t] > 0
          /\ LatestOf(p) \in overtaken' <=> toClean[LatestOf(p)] > 0
      BY <2>1, <3>1, PackageNext
    <3> QED
      BY <1>0, <2>2, <3>2
  <2> QED
    BY <2>3, <2>4
<1>3. dir'[LatestOf(p)] # Absent
  BY EntryKinds DEF Resolves
<1> QED
  BY <1>1, <1>2, <1>3, LatestNext

\* What keeps a published package where it is.
PublishedInv == TypeInv /\ TimesAreOwn /\ LinksAreOwn /\ ReadyToLink /\ PublishedIsSafe

\* It holds always, with a directory reached by its real path and builds to keep.
LEMMA PublishedInvariant ==
    ASSUME Canonical, KeepBuilds > 0
    PROVE  Spec => []PublishedInv
<1>1. Init /\ TypeInv => PublishedInv
  <2> SUFFICES ASSUME Init, TypeInv PROVE ReadyToLink /\ PublishedIsSafe
    BY TimesAreOwnHolds, LinksAreOwnHolds DEF PublishedInv
  <2>1. \A p \in Platforms : upload[p].step = "none" /\ ~Resolves(LatestOf(p))
    <3>1. \A p \in Platforms : LatestOf(p) \in Names /\ LatestOf(p).plat \in Platforms
      BY NameKinds
    <3> QED
      BY <3>1, InitEntries, EntryKinds DEF Init, NoUpload, Resolves
  <2> QED
    BY <2>1 DEF ReadyToLink, PublishedIsSafe
<1>2. PublishedInv /\ [Next]_vars => PublishedInv'
  BY TypeNext, UploadHasRevNext, TimesAreOwnHolds, LinksAreOwnHolds, ReadyToLinkNext, PublishedIsSafeNext
  DEF PublishedInv, TypeInv
<1> QED
  BY <1>1, <1>2, TypeInvariant, PTL DEF Spec

\* In a directory reached by its real path, with at least one build kept, a
\* latest package that can be downloaded always can be, whatever is uploaded,
\* retried, cleaned or broken off, and in whatever order of revisions; unless an
\* upload put it or its link in place of what a cleaner beside it had listed.
THEOREM PublishedStaysThere ==
    ASSUME Canonical, KeepBuilds > 0
    PROVE  Spec => PublishedStays
<1>1. PublishedInv /\ [Next]_vars
        => [\A p \in Platforms :
              Resolves(LatestOf(p)) => (Resolves(LatestOf(p)) \/ LatestOvertaken(p))']_vars
  <2> SUFFICES ASSUME PublishedInv, [Next]_vars, NEW p \in Platforms, Resolves(LatestOf(p))
               PROVE  (Resolves(LatestOf(p)) \/ LatestOvertaken(p))'
    OBVIOUS
  <2> USE DEF PublishedInv
  <2>0. /\ LatestOf(p) \in Names /\ LatestOf(p) \notin Package
        /\ dir \in [Names -> Entries] /\ \A m \in Names : toClean[m] \in Nat
    BY NameKinds, NumberTypes DEF TypeInv, TypeOK
  <2>1. PICK t \in Package : /\ dir[LatestOf(p)].is = "link" /\ dir[LatestOf(p)].to = t
                             /\ dir[t].is = "file" /\ t \in Names
    BY <2>0, EntryKinds, NameKinds DEF Resolves, IsFile
  <2>2. \A n \in {LatestOf(p), t} : n \in overtaken \/ toClean[n] = 0
    BY <2>1 DEF PublishedIsSafe
  <2>3. CASE dir'[LatestOf(p)] = dir[LatestOf(p)]
    <3>1. CASE dir'[t].is = "file"
      BY <2>1, <2>3, <3>1 DEF Resolves, IsFile
    <3>2. CASE Remove(t) /\ toClean[t] > 0
      <4>1. overtaken' = overtaken
        BY <3>2 DEF Remove
      <4>2. t \in overtaken'
        BY <2>2, <3>2, <4>1
      <4> QED
        BY <2>1, <2>3, <4>2 DEF LatestOvertaken
    <3> QED
      BY <2>1, <3>1, <3>2, PackageNext DEF IsFile
  <2>4. CASE LinkLatest(p) /\ dir'[LatestOf(p)] = LinkTo(Current(p))
    <3>1. PICK c \in Package : c = Current(p) /\ c \in Names /\ c # LatestOf(p)
      BY <2>4, CurrentIs DEF LinkLatest, Uploading
    <3>2. c \in overtaken \/ dir[c].is = "file"
      BY <2>4, <3>1 DEF ReadyToLink, LinkLatest, IsFile
    <3>3. dir'[c] = dir[c] /\ Overtake({LatestOf(p)})
      BY <2>0, <2>4, <3>1 DEF LinkLatest
    <3>4. dir'[LatestOf(p)].is = "link" /\ dir'[LatestOf(p)].to = c
      BY <2>4, <3>1, EntryKinds
    <3>5. c \in overtaken' \/ dir'[c].is = "file"
      BY <3>1, <3>2, <3>3 DEF Overtake
    <3> QED
      BY <3>4, <3>5 DEF Resolves, IsFile, LatestOvertaken
  <2>5. CASE Remove(LatestOf(p)) /\ toClean[LatestOf(p)] > 0
    <3>1. overtaken' = overtaken
      BY <2>5 DEF Remove
    <3>2. LatestOf(p) \in overtaken'
      BY <2>2, <2>5, <3>1
    <3> QED
      BY <3>2 DEF LatestOvertaken
  <2> QED
    BY <2>3, <2>4, <2>5, LatestNext
<1> QED
  BY <1>1, PublishedInvariant, PTL DEF Spec, PublishedStays

-----------------------------------------------------------------------------
(***************************************************************************)
(* What a clean build leaves.                                              *)
(***************************************************************************)

\* The tidiness of what is left: with the cleaner alone and not on a dry run no
\* upload is under way; of each platform at most one package more than
\* keep_builds is off the list; and all unknown names and all links that will not
\* hold are on it.
Tidy ==
    cleaner.st = "alone" /\ ~cleaner.dry =>
        /\ \A p \in Platforms :
             /\ ~Uploading(p)
             /\ Cardinality({m \in Packages(p) : toClean[m] = 0}) <= KeepBuilds + 1
        /\ cleaner.unknown => \A n \in Unknown : toClean[n] # 0
        /\ \A l \in Links : toClean[l] # 0 \/ (Resolves(l) /\ toClean[dir[l].to] = 0)

\* With a directory reached by its real path, the links of a scan that hold spare
\* one package of each platform at most, their own.
LEMMA SparedAreOwn ==
    ASSUME TypeInv, LinksAreOwn, NEW p \in Platforms
    PROVE  Spared \cap History(p) \subseteq {dir[LatestOf(p)].to}
<1> SUFFICES ASSUME NEW l \in Latests, dir[l].to \in History(p)
             PROVE  dir[l].to = dir[LatestOf(p)].to
  BY DEF Spared
<1>1. l \in Names /\ l.kind = "latest" /\ l.plat \in Platforms /\ Resolves(l)
  BY DEF Latests, Links, Present
<1>2. l = LatestOf(l.plat)
  BY <1>1, NameKinds
<1>3. dir[l].to.plat = l.plat
  BY <1>1, <1>2 DEF LinksAreOwn, Resolves
<1>4. dir[l].to.plat = p
  BY HistoryIsFinite
<1> QED
  BY <1>2, <1>3, <1>4

\* What a scan with no upload under way leaves off its list.
LEMMA ScanIsTidy ==
    ASSUME TypeInv, TimesAreOwn, LinksAreOwn, Canonical, NEW unknown \in BOOLEAN
    PROVE  /\ \A p \in Platforms :
                Cardinality({m \in Packages(p) : Listed(m, unknown) = 0}) <= KeepBuilds + 1
           /\ unknown => \A n \in Unknown : Listed(n, unknown) # 0
           /\ \A l \in Links : \/ Listed(l, unknown) # 0
                               \/ Resolves(l) /\ Listed(dir[l].to, unknown) = 0
<1> USE DEF TypeInv
<1>0. Platforms \subseteq Ruled(unknown) /\ KeepBuilds \in Nat
  BY DailyAssumption DEF Ruled, AllPlatforms
<1>1. ASSUME NEW p \in Platforms
      PROVE  Cardinality({m \in Packages(p) : Listed(m, unknown) = 0}) <= KeepBuilds + 1
  <2> DEFINE S == {m \in Packages(p) : Listed(m, unknown) = 0}
             K == Kept(p) \cup {dir[LatestOf(p)].to}
  <2>1. S \subseteq K
    <3> SUFFICES ASSUME NEW m \in S PROVE m \in K
      OBVIOUS
    <3>1. m \in History(p) /\ m \in Package /\ m.plat = p /\ Listed(m, unknown) = 0
      BY DEF Packages, History
    <3>2. m \notin Excess(p)
      BY <1>0, <3>1, KeptIsNotListed
    <3>3. m \in Kept(p) \cup Spared
      BY <3>1, <3>2 DEF Excess
    <3> QED
      BY <3>1, <3>3, SparedAreOwn
  <2>2. /\ IsFiniteSet(Kept(p)) /\ Cardinality(Kept(p)) <= KeepBuilds
        /\ Cardinality(Kept(p)) \in Nat
    BY KeptAreFew, FS_CardinalityType
  <2>3. IsFiniteSet(K) /\ Cardinality(K) <= KeepBuilds + 1 /\ Cardinality(K) \in Nat
    <3>1. IsFiniteSet(K) /\ Cardinality(K) \in {Cardinality(Kept(p)), Cardinality(Kept(p)) + 1}
      BY <2>2, FS_AddElement
    <3> QED
      BY <1>0, <2>2, <3>1
  <2>4. Cardinality(S) <= Cardinality(K) /\ Cardinality(S) \in Nat
    BY <2>1, <2>3, FS_Subset, FS_CardinalityType
  <2> QED
    BY <1>0, <2>3, <2>4
<1>2. ASSUME unknown, NEW n \in Unknown
      PROVE  Listed(n, unknown) # 0
  <2>1. n \in Names /\ n \in Fishy(unknown)
    BY <1>2 DEF Fishy, Unknown, Present
  <2> QED
    BY <2>1, ListedBounds
<1>3. ASSUME NEW l \in Links
      PROVE  \/ Listed(l, unknown) # 0
             \/ Resolves(l) /\ Listed(dir[l].to, unknown) = 0
  <2>1. l \in Names /\ l.kind = "latest" /\ l.plat \in Platforms
    BY DEF Links, Present
  <2>2. CASE ~Resolves(l)
    <3>1. l \in Fishy(unknown)
      BY <2>2 DEF Fishy
    <3> QED
      BY <2>1, <3>1, ListedBounds
  <2>3. CASE Resolves(l)
    <3>1. l = LatestOf(l.plat)
      BY <2>1, NameKinds
    <3> QED
      BY <2>1, <2>3, <3>1, ScanSparesLatest
  <2> QED
    BY <2>2, <2>3
<1> QED
  BY <1>1, <1>2, <1>3

\* Nothing is uploaded beside a cleaner that is alone, and what it removes it has
\* on its list: what is off it stays, and nothing else comes.
LEMMA TidyNext ==
    ASSUME TypeInv, TimesAreOwn, LinksAreOwn, Canonical, Tidy, [Next]_vars
    PROVE  Tidy'
<1> SUFFICES ASSUME cleaner'.st = "alone", ~cleaner'.dry
             PROVE  /\ \A p \in Platforms :
                         /\ ~Uploading(p)'
                         /\ Cardinality({m \in Packages(p)' : toClean'[m] = 0}) <= KeepBuilds + 1
                    /\ cleaner'.unknown => \A n \in Unknown' : toClean'[n] # 0
                    /\ \A l \in Links' : toClean'[l] # 0 \/ (Resolves(l)' /\ toClean'[dir'[l].to] = 0)
  BY DEF Tidy
<1> USE DEF TypeInv
<1>0. KeepBuilds \in Nat /\ Idle.st # "alone"
  BY DailyAssumption DEF Idle
<1>1. ASSUME NEW how \in {"alone", "beside"}, NEW dry \in BOOLEAN, NEW unknown \in CleanupUnknown,
             Scan(how, dry, unknown)
      PROVE  Tidy'
  <2>1. /\ dir' = dir /\ upload' = upload /\ cleaner'.unknown = unknown /\ unknown \in BOOLEAN
        /\ how = "alone" /\ toClean' = [n \in Names |-> Listed(n, unknown)]
    BY <1>1, DailyAssumption DEF Scan
  <2>2. \A p \in Platforms : ~Uploading(p)
    BY <1>1, <2>1 DEF Scan
  <2>3. /\ Unknown' = Unknown /\ Links' = Links
        /\ \A p \in Platforms : Packages(p)' = Packages(p) /\ (Uploading(p)' <=> Uploading(p))
        /\ \A l \in Links : Resolves(l)' <=> Resolves(l)
    BY <2>1 DEF Unknown, Links, Present, Packages, IsFile, Resolves, Uploading
  <2>4. \A p \in Platforms : {m \in Packages(p)' : toClean'[m] = 0} = {m \in Packages(p) : Listed(m, unknown) = 0}
    BY <2>1, <2>3, NameKinds DEF Packages
  <2>5. \A l \in Links : Resolves(l) => dir[l].to \in Names
    BY EntryKinds, NameKinds DEF Links, Present, Resolves, TypeOK
  <2>6. Unknown \subseteq Names /\ Links \subseteq Names
    BY DEF Unknown, Links, Present
  <2>7. \A p \in Platforms : Cardinality({m \in Packages(p)' : toClean'[m] = 0}) <= KeepBuilds + 1
    BY <2>1, <2>4, ScanIsTidy
  <2>8. cleaner'.unknown => \A n \in Unknown' : toClean'[n] # 0
    BY <2>1, <2>3, <2>6, ScanIsTidy
  <2>9. \A l \in Links' : toClean'[l] # 0 \/ (Resolves(l)' /\ toClean'[dir'[l].to] = 0)
    BY <2>1, <2>3, <2>5, <2>6, ScanIsTidy
  <2> QED
    BY <2>2, <2>3, <2>7, <2>8, <2>9 DEF Tidy
<1>2. ASSUME NEW k \in Names, Remove(k)
      PROVE  Tidy'
  <2>1. /\ cleaner' = cleaner /\ upload' = upload /\ toClean[k] # 0
        /\ dir' = [dir EXCEPT ![k] = Absent] /\ toClean' = [toClean EXCEPT ![k] = @ - 1]
    BY <1>2 DEF Remove
  <2>2. /\ dir'[k] = Absent
        /\ \A n \in Names : n # k => dir'[n] = dir[n] /\ toClean'[n] = toClean[n]
    BY <2>1 DEF TypeOK
  <2>3. Unknown' \subseteq Unknown \ {k} /\ Links' \subseteq Links \ {k}
    BY <2>2 DEF Unknown, Links, Present
  <2>4. /\ Unknown \subseteq Names /\ Links \subseteq Names
        /\ \A l \in Links : Resolves(l) => dir[l].to \in Names
    BY EntryKinds, NameKinds DEF Unknown, Links, Present, Resolves, TypeOK
  <2>5. Tidy /\ cleaner.st = "alone" /\ ~cleaner.dry
    BY <2>1
  <2>6. ASSUME NEW p \in Platforms
        PROVE  Cardinality({m \in Packages(p)' : toClean'[m] = 0}) <= KeepBuilds + 1
    <3> DEFINE S == {m \in Packages(p) : toClean[m] = 0}
               T == {m \in Packages(p)' : toClean'[m] = 0}
    <3>1. T \subseteq S
      BY <2>2, NameKinds, EntryKinds DEF Packages, IsFile
    <3>2. S \in SUBSET {m \in Package : m.plat = p}
      BY DEF Packages
    <3>3. IsFiniteSet(S) /\ Cardinality(S) \in Nat
      BY <3>2, PackagesAreFinite
    <3>4. Cardinality(T) <= Cardinality(S) /\ Cardinality(T) \in Nat
      BY <3>1, <3>3, FS_Subset, FS_CardinalityType
    <3>5. Cardinality(S) <= KeepBuilds + 1
      BY <2>5 DEF Tidy
    <3> QED
      BY <1>0, <3>3, <3>4, <3>5
  <2>7. cleaner'.unknown => \A n \in Unknown' : toClean'[n] # 0
    BY <2>1, <2>2, <2>3, <2>4, <2>5 DEF Tidy
  <2>8. ASSUME NEW l \in Links'
        PROVE  toClean'[l] # 0 \/ (Resolves(l)' /\ toClean'[dir'[l].to] = 0)
    <3>1. l \in Links /\ l # k /\ l \in Names /\ dir'[l] = dir[l] /\ toClean'[l] = toClean[l]
      BY <2>2, <2>3, <2>4
    <3>2. CASE Resolves(l) /\ toClean[dir[l].to] = 0
      <4>1. dir[l].to \in Names /\ dir[l].to # k
        BY <2>1, <2>4, <3>1, <3>2
      <4> QED
        BY <2>2, <3>1, <3>2, <4>1 DEF Resolves, IsFile
    <3> QED
      BY <2>5, <3>1, <3>2 DEF Tidy
  <2>9. \A p \in Platforms : ~Uploading(p)'
    BY <2>1, <2>5 DEF Tidy, Uploading
  <2> QED
    BY <2>6, <2>7, <2>8, <2>9 DEF Tidy
<1>3. ASSUME NEW p \in Platforms,
             (\E r \in Revs : BeginUpload(p, r)) \/ EndUpload(p) \/ LinkLatest(p) \/ BreakOff(p)
      PROVE  FALSE
  <2>1. cleaner' = cleaner
    BY <1>3 DEF BeginUpload, EndUpload, LinkLatest, BreakOff
  <2>2. ~Uploading(p)
    BY <2>1 DEF Tidy
  <2> QED
    BY <1>3, <2>1, <2>2 DEF BeginUpload, EndUpload, LinkLatest, BreakOff, Uploading
<1>4. CASE ScanFails \/ Finish \/ CleanBreaksOff
  BY <1>0, <1>4 DEF ScanFails, Finish, CleanBreaksOff
<1>5. CASE Pass \/ UNCHANGED vars
  <2>1. UNCHANGED <<dir, upload, cleaner, toClean>>
    BY <1>5 DEF Pass, vars
  <2> QED
    BY <2>1 DEF Tidy, Unknown, Links, Present, Packages, IsFile, Resolves, Uploading
<1> QED
  BY <1>1, <1>2, <1>3, <1>4, <1>5 DEF Next, Tidy

\* Links are of their own platforms, and what a lone cleaner leaves is tidy.
TidyInv == TypeInv /\ TimesAreOwn /\ LinksAreOwn /\ Tidy

\* They hold always: at the start no clean build runs.
LEMMA TidyInvariant ==
    ASSUME Canonical
    PROVE  Spec => []TidyInv
<1>1. Init /\ TypeInv => TidyInv
  <2> SUFFICES ASSUME Init, TypeInv PROVE Tidy
    BY TimesAreOwnHolds, LinksAreOwnHolds DEF TidyInv
  <2>1. cleaner.st # "alone"
    BY DEF Init, Idle
  <2> QED
    BY <2>1 DEF Tidy
<1>2. TidyInv /\ [Next]_vars => TidyInv'
  BY TypeNext, UploadHasRevNext, TimesAreOwnHolds, LinksAreOwnHolds, TidyNext DEF TidyInv, TypeInv
<1> QED
  BY <1>1, <1>2, TypeInvariant, PTL DEF Spec

\* In a directory reached by its real path, a clean build that comes to its end
\* with nothing uploaded meanwhile leaves keep_builds packages of a platform and
\* the latest one at most, no link that leads nowhere and, with cleanup_unknown,
\* no name it does not know.
THEOREM CleanLeavesTidy ==
    ASSUME Canonical
    PROVE  Spec => CleanTidiesUp
<1> DEFINE Tidies ==
      cleaner.st = "alone" /\ cleaner' = Idle /\ result' # "RETRY" /\ ~cleaner.dry =>
        /\ \A p \in Platforms : Cardinality(Packages(p)) <= KeepBuilds + 1
        /\ cleaner.unknown => Unknown = {}
        /\ \A l \in Links : Resolves(l)
<1>1. TidyInv /\ [Next]_vars => [Tidies]_vars
  <2> SUFFICES ASSUME TidyInv, [Next]_vars, cleaner.st = "alone", cleaner' = Idle,
                      result' # "RETRY", ~cleaner.dry
               PROVE  /\ \A p \in Platforms : Cardinality(Packages(p)) <= KeepBuilds + 1
                      /\ cleaner.unknown => Unknown = {}
                      /\ \A l \in Links : Resolves(l)
    OBVIOUS
  <2>1. cleaner # Idle /\ cleaner' # cleaner
    BY DEF Idle
  <2>2. \A n \in Names : toClean[n] = 0
    BY <2>1 DEF Next, Pass, BeginUpload, EndUpload, LinkLatest, BreakOff, Scan, ScanFails, Remove,
                Finish, CleanBreaksOff, vars
  <2>3. \A p \in Platforms : {m \in Packages(p) : toClean[m] = 0} = Packages(p)
    BY <2>2, NameKinds DEF Packages
  <2>4. Unknown \subseteq Names /\ Links \subseteq Names
    BY DEF Unknown, Links, Present
  <2> QED
    BY <2>2, <2>3, <2>4 DEF TidyInv, Tidy
<1> QED
  BY <1>1, TidyInvariant, PTL DEF Spec, CleanTidiesUp
=============================================================================
