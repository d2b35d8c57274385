--------------------------- MODULE VersionCallsProofs ---------------------------
(***************************************************************************)
(* Proofs about VersionCalls, for any strings of bytes, lists of refs and  *)
(* lists of names: the comparison of versions is Debian's, and Debian's is *)
(* an order; lists of refs are read whole; the newest tag is recognised.   *)
(***************************************************************************)
EXTENDS VersionCalls, SequenceTheorems, FiniteSetTheorems, WellFoundedInduction, TLAPS

(***************************************************************************)
(* Induction and recursion, with a set in the place of a predicate and a   *)
(* function in the place of an operator.                                   *)
(***************************************************************************)

\* A set of numbers that is not empty has a least one.
LEMMA HasLeast ==
    ASSUME NEW T \in SUBSET Nat, T # {}
    PROVE  \E x \in T : \A y \in T : x <= y
<1> DEFINE R == OpToRel(<, Nat)
<1>1. IsWellFoundedOn(R, Nat)
  BY NatLessThanWellFounded
<1>2. \A x, y \in Nat : x < y => <<x, y>> \in R
  BY DEF OpToRel
<1> HIDE DEF R
<1>3. PICK x \in T : \A y \in T : ~(<<y, x>> \in R)
  BY <1>1, WFMin
<1>4. \A y \in T : ~(y < x)
  BY <1>2, <1>3
<1>5. \A n, y \in Nat : ~(y < n) => n <= y
  OBVIOUS
<1> QED
  BY <1>4, <1>5

\* A set with 0 and the successor of each of its numbers has all numbers.
LEMMA Induction ==
    ASSUME NEW T, 0 \in T, \A n \in Nat : n \in T => n + 1 \in T
    PROVE  Nat \subseteq T
<1> SUFFICES ASSUME Nat \ T # {}
             PROVE  FALSE
  OBVIOUS
<1>1. PICK n \in Nat \ T : \A m \in Nat \ T : n <= m
  BY HasLeast
<1>2. n - 1 \in Nat /\ n - 1 \in T /\ n = (n - 1) + 1
  BY <1>1
<1> QED
  BY <1>1, <1>2

\* What a loop of m turns has after each of them.
Loops(S, a, m, step) ==
    {f \in [0..m -> S] : f[0] = a /\ \A n \in 1..m : f[n] = step[<<n, f[n - 1]>>]}

\* A loop has a result after each turn, if every turn has one.
LEMMA LoopHasResults ==
    ASSUME NEW S, NEW a \in S, NEW m \in Nat, NEW step \in [(1..m) \X S -> S]
    PROVE  Loops(S, a, m, step) # {}
<1> DEFINE HasResult(i) == \E f \in [0..i -> S] : f[0] = a /\ \A n \in 1..i : f[n] = step[<<n, f[n - 1]>>]
           T == {i \in Nat : i <= m => HasResult(i)}
<1>1. 0 \in T
  <2>1. /\ [n \in 0..0 |-> a] \in [0..0 -> S]
        /\ [n \in 0..0 |-> a][0] = a
        /\ 1..0 = {}
    OBVIOUS
  <2> QED
    BY <2>1
<1>2. ASSUME NEW i \in Nat, i \in T
      PROVE  i + 1 \in T
  <2> SUFFICES ASSUME i + 1 <= m
               PROVE  HasResult(i + 1)
    OBVIOUS
  <2>1. PICK f \in [0..i -> S] : f[0] = a /\ \A n \in 1..i : f[n] = step[<<n, f[n - 1]>>]
    BY <1>2
  <2> DEFINE v == step[<<i + 1, f[i]>>]
             h == [n \in 0..(i + 1) |-> IF n = i + 1 THEN v ELSE f[n]]
  <2>2. i \in 0..i /\ i + 1 \in 1..m
    OBVIOUS
  <2>3. v \in S
    BY <2>1, <2>2
  <2>4. h \in [0..(i + 1) -> S] /\ h[0] = a
    BY <2>1, <2>3
  <2>5. ASSUME NEW n \in 1..(i + 1)
        PROVE  h[n] = step[<<n, h[n - 1]>>]
    <3>1. CASE n = i + 1
      <4>1. n - 1 = i /\ i # i + 1 /\ i \in 0..(i + 1) /\ n \in 0..(i + 1)
        BY <3>1
      <4>2. h[n] = v /\ h[n - 1] = f[i]
        BY <3>1, <4>1
      <4> QED
        BY <3>1, <4>2
    <3>2. CASE n # i + 1
      <4>1. n \in 1..i /\ n - 1 \in 0..i /\ n - 1 # i + 1
        BY <3>2
      <4> QED
        BY <4>1, <2>1
    <3> QED
      BY <3>1, <3>2
  <2> QED
    BY <2>4, <2>5
<1>3. Nat \subseteq T
  <2> HIDE DEF T
  <2> QED
    BY <1>1, <1>2, Induction
<1> QED
  BY <1>3 DEF Loops

-----------------------------------------------------------------------------
(***************************************************************************)
(* What a version is parsed into.                                          *)
(***************************************************************************)
Text == {c \in 0..255 : ~IsDigit(c)}

\* The loop of Number over all digits gives an integer.
LEMMA NumberType ==
    ASSUME NEW d \in Bytes
    PROVE  Number(d) \in Int
<1> DEFINE m == Len(d)
           Body(n) == [k \in 0..m |-> IF k = 0 THEN 0 ELSE 10 * n[k - 1] + (d[k] - 48)]
           step == [p \in (1..m) \X Int |-> 10 * p[2] + (d[p[1]] - 48)]
<1>1. m \in Nat /\ \A k \in 1..m : d[k] \in Int
  <2>1. d \in Seq(0..255) /\ 0..255 \subseteq Int
    BY DEF Bytes
  <2> QED
    BY <2>1, LenProperties, ElementOfSeq
<1>2. step \in [(1..m) \X Int -> Int]
  BY <1>1
<1>3. PICK f : f \in Loops(Int, 0, m, step)
  <2>1. 0 \in Int
    OBVIOUS
  <2> HIDE DEF m, step, Body
  <2> QED
    BY <1>1, <1>2, <2>1, LoopHasResults
<1>4. f = Body(f)
  <2>1. ASSUME NEW n \in 1..m
        PROVE  f[n] = 10 * f[n - 1] + (d[n] - 48)
    <3>1. n - 1 \in 0..m
      BY <1>1
    <3> QED
      BY <1>3, <2>1, <3>1 DEF Loops
  <2> QED
    BY <1>3, <2>1 DEF Loops
<1> DEFINE g == CHOOSE n : n = Body(n)
<1>5. g = Body(g)
  BY <1>4
<1>6. g[m] \in Int
  <2> DEFINE T == {i \in Nat : i <= m => g[i] \in Int}
  <2> HIDE DEF g
  <2>1. 0 \in T
    BY <1>1, <1>5
  <2>2. ASSUME NEW i \in Nat, i \in T
        PROVE  i + 1 \in T
    <3> SUFFICES ASSUME i + 1 <= m
                 PROVE  g[i + 1] \in Int
      OBVIOUS
    <3>1. g[i] \in Int /\ d[i + 1] \in Int /\ i + 1 \in 0..m
      BY <1>1, <2>2
    <3>2. g[i + 1] = 10 * g[i] + (d[i + 1] - 48)
      BY <1>5, <3>1
    <3> QED
      BY <3>1, <3>2
  <2>3. Nat \subseteq T
    <3> HIDE DEF T
    <3> QED
      BY <2>1, <2>2, Induction
  <2> QED
    BY <1>1, <2>3
<1>7. Number(d) = g[m]
  BY DEF Number
<1> QED
  BY <1>6, <1>7

\* The components that the bytes of s belong to, and a component's bytes.
Turns(s, place) ==
    \A k \in 1..Len(s) :
        place[k] = IF IsDigit(s[k]) = (place[k - 1] % 2 = 0) THEN place[k - 1] ELSE place[k - 1] + 1
Run(s, place, j) ==
    LET ks == {k \in DOMAIN s : place[k] = j}
    IN IF ks = {} THEN <<>> ELSE SubSeq(s, Min(ks), Max(ks))

\* Parsing takes the turns of its loop, each byte has its component.
LEMMA ParsingTakesTurns ==
    ASSUME NEW s \in Bytes
    PROVE  \E place \in [0..Len(s) -> Nat \ {0}] :
             /\ place[0] = 1 /\ Turns(s, place)
             /\ Components(s) =
                  [j \in 1..(IF s = <<>> THEN 0 ELSE place[Len(s)]) |->
                     IF j % 2 = 0 THEN Number(Run(s, place, j)) ELSE Run(s, place, j)]
<1> DEFINE m == Len(s)
           Next1(k, v) == IF IsDigit(s[k]) = (v % 2 = 0) THEN v ELSE v + 1
           Body(place) == [k \in 0..m |-> IF k = 0 THEN 1 ELSE Next1(k, place[k - 1])]
           step == [p \in (1..m) \X (Nat \ {0}) |-> Next1(p[1], p[2])]
<1>1. m \in Nat
  BY DEF Bytes
<1>2. step \in [(1..m) \X (Nat \ {0}) -> Nat \ {0}]
  OBVIOUS
<1>3. PICK f : f \in Loops(Nat \ {0}, 1, m, step)
  <2> DEFINE Positive == Nat \ {0}
  <2>1. 1 \in Positive /\ step \in [(1..m) \X Positive -> Positive]
    BY <1>2
  <2> HIDE DEF m, step, Body, Next1, Positive
  <2>2. Loops(Positive, 1, m, step) # {}
    BY <1>1, <2>1, LoopHasResults
  <2> QED
    BY <2>2 DEF Positive
<1>4. f = Body(f)
  <2>1. ASSUME NEW n \in 1..m
        PROVE  f[n] = Next1(n, f[n - 1])
    <3>1. n - 1 \in 0..m
      BY <1>1
    <3> QED
      BY <1>3, <2>1, <3>1 DEF Loops
  <2> HIDE DEF Next1
  <2> QED
    BY <1>3, <2>1 DEF Loops
<1> DEFINE g == CHOOSE place : place = Body(place)
<1>5. g = Body(g)
  BY <1>4
<1>6. \A k \in 0..m : g[k] \in Nat \ {0}
  <2> DEFINE T == {i \in Nat : i <= m => g[i] \in Nat \ {0}}
  <2> HIDE DEF g
  <2>1. 0 \in T
    BY <1>1, <1>5
  <2>2. ASSUME NEW i \in Nat, i \in T
        PROVE  i + 1 \in T
    <3> SUFFICES ASSUME i + 1 <= m
                 PROVE  g[i + 1] \in Nat \ {0}
      OBVIOUS
    <3>1. g[i] \in Nat \ {0} /\ i + 1 \in 0..m
      BY <1>1, <2>2
    <3>2. g[i + 1] = Next1(i + 1, g[i])
      BY <1>5, <3>1
    <3> QED
      BY <3>1, <3>2
  <2>3. Nat \subseteq T
    <3> HIDE DEF T
    <3> QED
      BY <2>1, <2>2, Induction
  <2> QED
    BY <1>1, <2>3
<1>7. Components(s) = [j \in 1..(IF s = <<>> THEN 0 ELSE g[m]) |->
                         IF j % 2 = 0 THEN Number(Run(s, g, j)) ELSE Run(s, g, j)]
  BY DEF Components, Run
<1>8. g \in [0..m -> Nat \ {0}] /\ g[0] = 1 /\ Turns(s, g)
  <2> HIDE DEF g
  <2>1. g[0] = 1 /\ \A k \in 1..m : g[k] = Next1(k, g[k - 1])
    BY <1>1, <1>5
  <2>2. g \in [0..m -> Nat \ {0}]
    <3> HIDE DEF Next1
    <3> QED
      BY <1>5, <1>6
  <2> QED
    BY <2>1, <2>2 DEF Turns
<1> QED
  BY <1>7, <1>8

\* The least number of a set.
LEMMA MinIsLeast ==
    ASSUME NEW T \in SUBSET Nat, T # {}
    PROVE  Min(T) \in T /\ \A y \in T : Min(T) <= y
BY HasLeast DEF Min

\* The greatest number of a bounded set.
LEMMA MaxIsGreatest ==
    ASSUME NEW m \in Nat, NEW T \in SUBSET (0..m), T # {}
    PROVE  Max(T) \in T /\ \A y \in T : y <= Max(T)
<1> DEFINE Below == {m - t : t \in T}
<1>1. Below \in SUBSET Nat /\ Below # {}
  <2>1. \A t \in T : m - t \in Nat
    OBVIOUS
  <2> QED
    BY <2>1
<1>2. PICK x \in Below : \A y \in Below : x <= y
  <2> HIDE DEF Below
  <2> QED
    BY <1>1, HasLeast
<1>3. PICK t \in T : x = m - t
  BY <1>2
<1>4. \A y \in T : y <= t
  <2> TAKE y \in T
  <2>1. m - y \in Below /\ y \in Nat /\ t \in Nat
    OBVIOUS
  <2>2. m - t <= m - y
    BY <1>2, <1>3, <2>1
  <2> QED
    BY <2>1, <2>2
<1> QED
  BY <1>4 DEF Max

\* Bytes later in the string belong to later components.
LEMMA TurnsAscend ==
    ASSUME NEW s \in Bytes, NEW place \in [0..Len(s) -> Nat \ {0}], Turns(s, place)
    PROVE  \A k \in 0..Len(s) : \A i \in 0..k : place[i] <= place[k]
<1> DEFINE m == Len(s)
           T == {k \in Nat : k <= m => \A i \in 0..k : place[i] <= place[k]}
<1>1. m \in Nat /\ \A k \in 0..m : place[k] \in Nat
  BY DEF Bytes
<1>2. 0 \in T
  BY <1>1
<1>3. ASSUME NEW k \in Nat, k \in T
      PROVE  k + 1 \in T
  <2> SUFFICES ASSUME k + 1 <= m, NEW i \in 0..(k + 1)
               PROVE  place[i] <= place[k + 1]
    OBVIOUS
  <2>1. k + 1 \in 1..m /\ k \in 0..m /\ k <= m /\ (k + 1) - 1 = k
    BY <1>1
  <2>2. place[k + 1] = place[k] \/ place[k + 1] = place[k] + 1
    BY <2>1 DEF Turns
  <2>3. place[k] <= place[k + 1]
    BY <1>1, <2>1, <2>2
  <2>4. CASE i = k + 1
    BY <2>1, <2>4, <1>1
  <2>5. CASE i # k + 1
    <3>1. i \in 0..k /\ i \in 0..m
      BY <2>1, <2>5
    <3>2. place[i] <= place[k]
      BY <1>3, <2>1, <3>1
    <3> QED
      BY <1>1, <2>1, <2>3, <3>1, <3>2
  <2> QED
    BY <2>4, <2>5
<1>4. Nat \subseteq T
  <2> HIDE DEF T
  <2> QED
    BY <1>2, <1>3, Induction
<1> QED
  BY <1>1, <1>4

\* Digits belong to the even components.
LEMMA KindOfTurn ==
    ASSUME NEW s \in Bytes, NEW place \in [0..Len(s) -> Nat \ {0}], Turns(s, place)
    PROVE  \A k \in 1..Len(s) : IsDigit(s[k]) <=> place[k] % 2 = 0
<1> TAKE k \in 1..Len(s)
<1> DEFINE p == place[k - 1]
<1>1. Len(s) \in Nat /\ k - 1 \in 0..Len(s)
  BY DEF Bytes
<1>2. p \in Nat
  BY <1>1
<1>3. place[k] = IF IsDigit(s[k]) = (p % 2 = 0) THEN p ELSE p + 1
  BY DEF Turns
<1>4. IsDigit(s[k]) \in BOOLEAN
  BY DEF IsDigit
<1>5. (p + 1) % 2 = 0 <=> p % 2 # 0
  BY <1>2
<1>6. CASE IsDigit(s[k]) = (p % 2 = 0)
  BY <1>3, <1>6
<1>7. CASE IsDigit(s[k]) # (p % 2 = 0)
  BY <1>3, <1>4, <1>5, <1>7
<1> QED
  BY <1>6, <1>7

\* A component has bytes, and at an odd place no digits.
LEMMA RunIsOfKind ==
    ASSUME NEW s \in Bytes, NEW place \in [0..Len(s) -> Nat \ {0}], Turns(s, place), NEW j \in Nat
    PROVE  Run(s, place, j) \in Bytes /\ (j % 2 = 1 => Run(s, place, j) \in Seq(Text))
<1> DEFINE m == Len(s)
           ks == {k \in DOMAIN s : place[k] = j}
<1>1. m \in Nat /\ DOMAIN s = 1..m /\ \A k \in 1..m : s[k] \in 0..255
  BY LenProperties, ElementOfSeq DEF Bytes
<1>2. CASE ks = {}
  BY <1>2 DEF Run, Bytes
<1>3. CASE ks # {}
  <2>1. /\ Min(ks) \in ks /\ Max(ks) \in ks
        /\ \A k \in ks : Min(ks) <= k /\ k <= Max(ks)
    <3>1. ks \in SUBSET (0..m) /\ ks \in SUBSET Nat
      BY <1>1
    <3> HIDE DEF ks, m
    <3> QED
      BY <1>1, <1>3, <3>1, MinIsLeast, MaxIsGreatest
  <2>2. PICK a, b : a = Min(ks) /\ b = Max(ks)
    OBVIOUS
  <2>3. a \in 1..m /\ b \in 1..m /\ place[a] = j /\ place[b] = j
    BY <1>1, <2>1, <2>2
  <2>4. ASSUME NEW k \in a..b
        PROVE  k \in 1..m /\ place[k] = j
    <3>1. k \in 1..m /\ k \in 0..b /\ a \in 0..k /\ b \in 0..m /\ k \in 0..m
      BY <1>1, <2>3
    <3>2. place[a] <= place[k] /\ place[k] <= place[b]
      BY <3>1, TurnsAscend
    <3> QED
      BY <2>3, <3>1, <3>2
  <2>5. Run(s, place, j) = SubSeq(s, a, b)
    BY <1>3, <2>2 DEF Run
  <2>6. SubSeq(s, a, b) \in Bytes
    <3>1. a \in Int /\ b \in Int /\ \A k \in a..b : s[k] \in 0..255
      BY <1>1, <2>3, <2>4
    <3> QED
      BY <3>1, SubSeqProperties DEF Bytes
  <2>7. ASSUME j % 2 = 1
        PROVE  SubSeq(s, a, b) \in Seq(Text)
    <3>1. ASSUME NEW k \in a..b
          PROVE  s[k] \in Text
      <4>1. k \in 1..m /\ place[k] % 2 # 0 /\ s[k] \in 0..255
        <5>1. k \in 1..m /\ place[k] = j
          BY <2>4
        <5>2. place[k] % 2 # 0
          BY <2>7, <5>1
        <5> QED
          BY <1>1, <5>1, <5>2
      <4>2. ~IsDigit(s[k])
        BY <4>1, KindOfTurn
      <4> QED
        BY <4>1, <4>2 DEF Text
    <3>2. a \in Int /\ b \in Int
      BY <2>3
    <3> QED
      BY <3>1, <3>2, SubSeqProperties
  <2> QED
    BY <2>5, <2>6, <2>7
<1> QED
  BY <1>2, <1>3

\* What parsing gives: strings without digits at odd places, numbers at even ones.
IsParsed(c) ==
    /\ Len(c) \in Nat /\ DOMAIN c = 1..Len(c)
    /\ \A k \in DOMAIN c : IF k % 2 = 1 THEN c[k] \in Seq(Text) ELSE c[k] \in Int

LEMMA ComponentsAreParsed ==
    ASSUME NEW s \in Bytes
    PROVE  IsParsed(Components(s))
<1>1. PICK place \in [0..Len(s) -> Nat \ {0}] :
        /\ place[0] = 1 /\ Turns(s, place)
        /\ Components(s) =
             [j \in 1..(IF s = <<>> THEN 0 ELSE place[Len(s)]) |->
                IF j % 2 = 0 THEN Number(Run(s, place, j)) ELSE Run(s, place, j)]
  BY ParsingTakesTurns
<1>2. PICK n \in Nat : n = IF s = <<>> THEN 0 ELSE place[Len(s)]
  <2>1. Len(s) \in 0..Len(s)
    BY DEF Bytes
  <2> QED
    BY <2>1
<1>3. PICK c : c = Components(s)
  OBVIOUS
<1>4. c = [j \in 1..n |-> IF j % 2 = 0 THEN Number(Run(s, place, j)) ELSE Run(s, place, j)]
  BY <1>1, <1>2, <1>3
<1>5. Len(c) = n /\ DOMAIN c = 1..n
  BY <1>4
<1>6. \A k \in 1..n : c[k] = IF k % 2 = 0 THEN Number(Run(s, place, k)) ELSE Run(s, place, k)
  BY <1>4
<1>7. ASSUME NEW k \in 1..n
      PROVE  IF k % 2 = 1 THEN c[k] \in Seq(Text) ELSE c[k] \in Int
  <2>1. Run(s, place, k) \in Bytes /\ (k % 2 = 1 => Run(s, place, k) \in Seq(Text))
    BY <1>1, RunIsOfKind
  <2>2. Number(Run(s, place, k)) \in Int
    BY <2>1, NumberType
  <2>3. k % 2 = 0 \/ k % 2 = 1
    OBVIOUS
  <2> QED
    BY <1>6, <2>1, <2>2, <2>3
<1> QED
  BY <1>3, <1>5, <1>7 DEF IsParsed

\* Both parts of a version are bytes.
LEMMA PartsAreBytes ==
    ASSUME NEW s \in Bytes
    PROVE  Suffix(s) \in Bytes /\ CompString(s) \in Bytes /\ Parsed(s) \in Bytes
<1> DEFINE m == Len(s)
<1>1. m \in Nat /\ \A k \in 1..m : s[k] \in 0..255
  BY LenProperties, ElementOfSeq DEF Bytes
<1>2. ASSUME NEW a \in Nat \ {0}, NEW b \in Int, b <= m
      PROVE  SubSeq(s, a, b) \in Bytes
  <2>1. \A k \in a..b : s[k] \in 0..255
    BY <1>1, <1>2
  <2> QED
    BY <2>1, SubSeqProperties DEF Bytes
<1>3. Suffix(s) \in Bytes
  <2>1. PICK e : e = End(s)
    OBVIOUS
  <2>2. e \in Nat /\ e <= m
    <3>1. CASE s = <<>>
      BY <1>1, <2>1, <3>1 DEF End
    <3>2. CASE s # <<>>
      <4>1. m # 0
        BY <3>2, EmptySeq DEF Bytes
      <4>2. e = m - 1 \/ e = m
        BY <2>1 DEF End
      <4> QED
        BY <1>1, <4>1, <4>2
    <3> QED
      BY <3>1, <3>2
  <2> DEFINE T == {k \in 1..(e + 1) : IsExtensions(SubSeq(s, k, e))}
  <2>3. e + 1 \in T
    <3>1. SubSeq(s, e + 1, e) = <<>>
      BY <2>2, SubSeqEmpty
    <3>2. IsExtensions(<<>>)
      BY DEF IsExtensions
    <3>3. IsExtensions(SubSeq(s, e + 1, e))
      BY <3>1, <3>2
    <3>4. e + 1 \in 1..(e + 1)
      BY <2>2
    <3> QED
      BY <3>3, <3>4
  <2>4. Min(T) \in T
    <3>1. T \in SUBSET Nat /\ T # {}
      BY <2>2, <2>3
    <3> HIDE DEF T
    <3> QED
      BY <3>1, MinIsLeast
  <2>5. PICK from : from = Min(T)
    OBVIOUS
  <2>6. Suffix(s) = SubSeq(s, from, e)
    BY <2>1, <2>5 DEF Suffix
  <2>7. from \in Nat \ {0}
    BY <2>2, <2>4, <2>5
  <2> QED
    BY <1>2, <2>2, <2>6, <2>7
<1>4. CompString(s) \in Bytes
  <2>1. PICK n \in Nat : n = Len(Suffix(s))
    BY <1>3, LenProperties DEF Bytes
  <2>2. CompString(s) = SubSeq(s, 1, m - n)
    BY <2>1 DEF CompString
  <2>3. m - n \in Int /\ m - n <= m
    BY <1>1, <2>1
  <2> QED
    BY <1>2, <2>2, <2>3
<1>5. Parsed(s) \in Bytes
  <2>1. CASE s = <<>>
    BY <2>1 DEF Parsed, Flag
  <2>2. CASE s # <<>>
    BY <2>2, HeadTailProperties DEF Parsed, Bytes
  <2> QED
    BY <2>1, <2>2
<1> QED
  BY <1>3, <1>4, <1>5

LEMMA ComparedIsParsed ==
    ASSUME NEW s \in Bytes, NEW other \in Bytes
    PROVE  IsParsed(Compared(s, other))
BY PartsAreBytes, ComponentsAreParsed DEF Compared

-----------------------------------------------------------------------------
(***************************************************************************)
(* The comparison is Debian's.                                             *)
(***************************************************************************)
WeightAt(t, j) == IF j \in DOMAIN t THEN Weight(t[j]) ELSE 0

\* A byte of the comparison in the code, where the end counts as the digit 0.
ByteAt(t, k) == IF k \in DOMAIN t THEN t[k] ELSE 48

\* The bytes of a string without digits and its end are told apart by their weight.
LEMMA WeightsTellApart ==
    ASSUME NEW t \in Seq(Text), NEW u \in Seq(Text), NEW k \in Nat
    PROVE  /\ ByteAt(t, k) \in Text \cup {48}
           /\ WeightAt(t, k) = IF ByteAt(t, k) = 48 THEN 0 ELSE Weight(ByteAt(t, k))
           /\ WeightAt(t, k) \in Int
           /\ ByteAt(t, k) = ByteAt(u, k) <=> WeightAt(t, k) = WeightAt(u, k)
<1>1. \A v \in Seq(Text) : k \in DOMAIN v => v[k] \in Text
  BY LenProperties, ElementOfSeq
<1>2. 48 \notin Text /\ \A c \in Text : c \in 0..255
  BY DEF Text, IsDigit
<1>3. \A c \in Text : Weight(c) \in Int /\ Weight(c) # 0
  <2> TAKE c \in Text
  <2>1. c \in 0..255
    BY <1>2
  <2> QED
    BY <2>1 DEF Weight, IsAlpha, Tilde
<1>4. \A c, d \in Text : Weight(c) = Weight(d) => c = d
  <2> TAKE c, d \in Text
  <2>1. c \in 0..255 /\ d \in 0..255
    BY <1>2
  <2> QED
    BY <2>1 DEF Weight, IsAlpha, Tilde
<1>5. \A v \in Seq(Text) :
        /\ ByteAt(v, k) \in Text \cup {48}
        /\ WeightAt(v, k) = IF ByteAt(v, k) = 48 THEN 0 ELSE Weight(ByteAt(v, k))
  BY <1>1, <1>2 DEF ByteAt, WeightAt
<1>6. PICK c, d : c = ByteAt(t, k) /\ d = ByteAt(u, k)
  OBVIOUS
<1>7. c \in Text \cup {48} /\ d \in Text \cup {48}
  BY <1>5, <1>6
<1>8. /\ WeightAt(t, k) = IF c = 48 THEN 0 ELSE Weight(c)
      /\ WeightAt(u, k) = IF d = 48 THEN 0 ELSE Weight(d)
  BY <1>5, <1>6
<1>9. c = d <=> WeightAt(t, k) = WeightAt(u, k)
  BY <1>3, <1>4, <1>7, <1>8
<1>10. WeightAt(t, k) \in Int
  BY <1>3, <1>7, <1>8
<1> QED
  BY <1>5, <1>6, <1>9, <1>10

\* Of two different strings the comparison of the code looks at the first place at
\* which their weights differ, and finds the same.
LEMMA StringsDiffer ==
    ASSUME NEW s \in Seq(Text), NEW o \in Seq(Text), s # o
    PROVE  \E k \in DOMAIN s \cup DOMAIN o :
             /\ k \in Nat \ {0}
             /\ WeightAt(s, k) # WeightAt(o, k)
             /\ \A i \in 1..(k - 1) : WeightAt(s, i) = WeightAt(o, i)
             /\ StringLess(s, o) <=> WeightAt(s, k) < WeightAt(o, k)
<1>1. PICK m, n : m = Len(s) /\ n = Len(o)
  OBVIOUS
<1>2. /\ m \in Nat /\ DOMAIN s = 1..m /\ \A k \in 1..m : s[k] \in Text
      /\ n \in Nat /\ DOMAIN o = 1..n /\ \A k \in 1..n : o[k] \in Text
  BY <1>1, LenProperties, ElementOfSeq
<1> DEFINE T == {j \in 1..(m + n) : ByteAt(s, j) # ByteAt(o, j)}
<1>3. \A c \in Text : c # 48
  BY DEF Text, IsDigit
<1>4. T # {}
  <2>1. CASE m < n
    <3>1. m + 1 \in 1..n /\ m + 1 \notin 1..m /\ m + 1 \in 1..(m + n)
      BY <1>2, <2>1
    <3>2. ByteAt(s, m + 1) # ByteAt(o, m + 1)
      BY <1>2, <1>3, <3>1 DEF ByteAt
    <3> QED
      BY <3>1, <3>2
  <2>2. CASE n < m
    <3>1. n + 1 \in 1..m /\ n + 1 \notin 1..n /\ n + 1 \in 1..(m + n)
      BY <1>2, <2>2
    <3>2. ByteAt(s, n + 1) # ByteAt(o, n + 1)
      BY <1>2, <1>3, <3>1 DEF ByteAt
    <3> QED
      BY <3>1, <3>2
  <2>3. CASE m = n
    <3>1. \E j \in 1..m : s[j] # o[j]
      BY <1>1, <2>3, SeqEqual
    <3> QED
      BY <1>2, <2>3, <3>1 DEF ByteAt
  <2> QED
    BY <1>2, <2>1, <2>2, <2>3
<1>5. Min(T) \in T /\ \A y \in T : Min(T) <= y
  <2>1. T \in SUBSET Nat
    BY <1>2
  <2> HIDE DEF T
  <2> QED
    BY <1>4, <2>1, MinIsLeast
<1>6. PICK k : k = Min(T)
  OBVIOUS
<1>7. k \in 1..(m + n) /\ ByteAt(s, k) # ByteAt(o, k)
  BY <1>5, <1>6
<1>8. \A i \in 1..(k - 1) : ByteAt(s, i) = ByteAt(o, i)
  <2> TAKE i \in 1..(k - 1)
  <2>1. i \in 1..(m + n) /\ ~(k <= i)
    BY <1>2, <1>7
  <2> QED
    BY <1>5, <1>6, <2>1
<1>9. PICK c, d : c = ByteAt(s, k) /\ d = ByteAt(o, k)
  OBVIOUS
<1>10. StringLess(s, o) <=>
         \/ c = Tilde
         \/ d # Tilde /\ IsDigit(c)
         \/ d # Tilde /\ ~IsDigit(d) /\ IF IsAlpha(c) = IsAlpha(d) THEN c < d ELSE IsAlpha(c)
  <2>1. T = {j \in 1..(Len(s) + Len(o)) :
               (IF j \in DOMAIN s THEN s[j] ELSE 48) # (IF j \in DOMAIN o THEN o[j] ELSE 48)}
    BY <1>1 DEF ByteAt
  <2> HIDE DEF T
  <2> QED
    BY <1>6, <1>9, <2>1 DEF StringLess, ByteAt
<1>11. /\ c \in Text \cup {48} /\ d \in Text \cup {48} /\ c # d
       /\ WeightAt(s, k) = IF c = 48 THEN 0 ELSE Weight(c)
       /\ WeightAt(o, k) = IF d = 48 THEN 0 ELSE Weight(d)
  BY <1>7, <1>9, WeightsTellApart
<1>12. StringLess(s, o) <=> WeightAt(s, k) < WeightAt(o, k)
  BY <1>10, <1>11 DEF Text, IsDigit, IsAlpha, Weight, Tilde
<1>13. WeightAt(s, k) # WeightAt(o, k) /\ \A i \in 1..(k - 1) : WeightAt(s, i) = WeightAt(o, i)
  <2>1. k \in Nat /\ \A i \in 1..(k - 1) : i \in Nat
    BY <1>7
  <2> QED
    BY <1>7, <1>8, <2>1, WeightsTellApart
<1>14. k \in DOMAIN s \cup DOMAIN o
  BY <1>7 DEF ByteAt
<1> QED
  BY <1>7, <1>12, <1>13, <1>14

\* Keys are integers, and at an odd place the weights of the string there.
LEMMA KeysAreIntegers ==
    ASSUME NEW c, IsParsed(c), NEW k \in Nat, NEW j \in Nat
    PROVE  /\ KeyAt(c, k, j) \in Int
           /\ k % 2 = 1 => /\ Component(c, k) \in Seq(Text)
                           /\ KeyAt(c, k, j) = WeightAt(Component(c, k), j)
<1>1. CASE k \notin DOMAIN c
  <2>1. Component(c, k) = <<>> /\ DOMAIN <<>> = {} /\ <<>> \in Seq(Text)
    BY <1>1 DEF Component
  <2>2. KeyAt(c, k, j) = 0 /\ WeightAt(<<>>, j) = 0
    BY <1>1, <2>1 DEF KeyAt, WeightAt
  <2> QED
    BY <2>1, <2>2
<1>2. CASE k \in DOMAIN c /\ k % 2 = 1
  <2>1. c[k] \in Seq(Text) /\ Component(c, k) = c[k]
    BY <1>2 DEF IsParsed, Component
  <2>2. KeyAt(c, k, j) = WeightAt(c[k], j)
    BY <1>2 DEF KeyAt, WeightAt
  <2> QED
    BY <2>1, <2>2, WeightsTellApart
<1>3. CASE k \in DOMAIN c /\ k % 2 = 0
  BY <1>3 DEF IsParsed, KeyAt
<1>4. k % 2 = 0 \/ k % 2 = 1
  OBVIOUS
<1> QED
  BY <1>1, <1>2, <1>3, <1>4

\* Places are counted from one.
LEMMA PlacesAreNumbers ==
    ASSUME NEW a, NEW b, IsParsed(a), IsParsed(b), NEW k \in Nat
    PROVE  Places(a, b, k) \subseteq Nat \ {0}
<1>1. CASE k % 2 = 0
  BY <1>1 DEF Places
<1>2. CASE k % 2 = 1
  <2>1. Component(a, k) \in Seq(Text) /\ Component(b, k) \in Seq(Text)
    BY <1>2, KeysAreIntegers
  <2>2. \A t \in Seq(Text) : DOMAIN t \subseteq Nat \ {0}
    BY LenProperties
  <2>3. Places(a, b, k) = DOMAIN Component(a, k) \cup DOMAIN Component(b, k)
    BY <1>2 DEF Places
  <2> QED
    BY <2>1, <2>2, <2>3
<1> QED
  BY <1>1, <1>2

\* Components that do not differ have the same keys.
LEMMA SameComponentsSameKeys ==
    ASSUME NEW a, NEW b, IsParsed(a), IsParsed(b), NEW k \in Nat, ~Differs(a, b, k), NEW j \in Nat
    PROVE  KeyAt(a, k, j) = KeyAt(b, k, j)
<1>1. CASE k % 2 = 0
  BY <1>1 DEF Differs, Component, KeyAt
<1>2. CASE k % 2 = 1
  <2>1. Component(a, k) = Component(b, k)
    BY <1>2 DEF Differs
  <2>2. KeyAt(a, k, j) = WeightAt(Component(a, k), j)
    BY <1>2, KeysAreIntegers
  <2>3. KeyAt(b, k, j) = WeightAt(Component(b, k), j)
    BY <1>2, KeysAreIntegers
  <2> QED
    BY <2>1, <2>2, <2>3
<1> QED
  BY <1>1, <1>2

\* The first place of the first component that differs decides the order.
LEMMA FirstPlaceDecides ==
    ASSUME NEW a, NEW b, IsParsed(a), IsParsed(b),
           NEW k \in DOMAIN a \cup DOMAIN b, \A i \in 1..(k - 1) : ~Differs(a, b, i),
           NEW j \in Places(a, b, k), KeyAt(a, k, j) # KeyAt(b, k, j),
           \A h \in Places(a, b, k) : h < j => KeyAt(a, k, h) = KeyAt(b, k, h)
    PROVE  KeyLess(a, b) <=> KeyAt(a, k, j) < KeyAt(b, k, j)
<1>1. k \in Nat \ {0} /\ \A i \in DOMAIN a \cup DOMAIN b : i \in Nat \ {0}
  BY DEF IsParsed
<1>2. \A i \in Nat : Places(a, b, i) \subseteq Nat \ {0}
  BY PlacesAreNumbers
<1>3. j \in Nat \ {0}
  BY <1>1, <1>2
<1>4. \A i \in 1..(k - 1) : \A h \in Nat : KeyAt(a, i, h) = KeyAt(b, i, h)
  <2>1. \A i \in 1..(k - 1) : i \in Nat
    BY <1>1
  <2> QED
    BY <2>1, SameComponentsSameKeys
<1>5. ASSUME KeyAt(a, k, j) < KeyAt(b, k, j)
      PROVE  KeyLess(a, b)
  <2>1. ASSUME NEW i \in 1..k, NEW h \in Places(a, b, i), i < k \/ h < j
        PROVE  KeyAt(a, i, h) = KeyAt(b, i, h)
    <3>1. i \in Nat /\ h \in Nat
      BY <1>1, <1>2
    <3>2. CASE i = k
      BY <2>1, <3>2, <1>1
    <3>3. CASE i # k
      <4>1. i \in 1..(k - 1)
        BY <1>1, <3>3
      <4> QED
        BY <1>4, <3>1, <4>1
    <3> QED
      BY <3>2, <3>3
  <2> QED
    BY <1>5, <2>1 DEF KeyLess
<1>6. ASSUME KeyLess(a, b)
      PROVE  KeyAt(a, k, j) < KeyAt(b, k, j)
  <2>1. PICK n \in DOMAIN a \cup DOMAIN b : \E p \in Places(a, b, n) :
          /\ KeyAt(a, n, p) < KeyAt(b, n, p)
          /\ \A i \in 1..n : \A h \in Places(a, b, i) :
              i < n \/ h < p => KeyAt(a, i, h) = KeyAt(b, i, h)
    BY <1>6 DEF KeyLess
  <2>2. PICK p \in Places(a, b, n) :
          /\ KeyAt(a, n, p) < KeyAt(b, n, p)
          /\ \A i \in 1..n : \A h \in Places(a, b, i) :
              i < n \/ h < p => KeyAt(a, i, h) = KeyAt(b, i, h)
    BY <2>1
  <2>3. n \in Nat \ {0} /\ p \in Nat \ {0}
    BY <1>1, <1>2
  <2>4. KeyAt(a, n, p) # KeyAt(b, n, p)
    BY <2>2, <2>3, KeysAreIntegers
  <2>5. ~(n < k)
    BY <1>1, <1>4, <2>3, <2>4
  <2>6. ~(k < n)
    BY <1>1, <2>2, <2>3
  <2>7. n = k
    BY <1>1, <2>3, <2>5, <2>6
  <2>8. ~(p < j) /\ ~(j < p)
    BY <1>1, <2>2, <2>4, <2>7
  <2>9. p = j
    BY <1>3, <2>3, <2>8
  <2> QED
    BY <2>2, <2>7, <2>9
<1> QED
  BY <1>5, <1>6

\* The components in which two versions can differ are those that one of them has.
LEMMA ComponentsOfBoth ==
    ASSUME NEW a, NEW b, IsParsed(a), IsParsed(b)
    PROVE  1..Max({Len(a), Len(b)}) = DOMAIN a \cup DOMAIN b
<1>1. PICK m, n : m = Len(a) /\ n = Len(b)
  OBVIOUS
<1>2. m \in Nat /\ n \in Nat /\ DOMAIN a = 1..m /\ DOMAIN b = 1..n
  BY <1>1 DEF IsParsed
<1>3. PICK T : T = {m, n}
  OBVIOUS
<1>4. Max(T) \in T /\ \A y \in T : y <= Max(T)
  <2>1. m + n \in Nat /\ T \in SUBSET (0..(m + n)) /\ T # {}
    BY <1>2, <1>3
  <2> QED
    BY <2>1, MaxIsGreatest
<1>5. Max({Len(a), Len(b)}) = Max(T)
  BY <1>1, <1>3
<1>6. PICK x : x = Max(T)
  OBVIOUS
<1>7. (x = m \/ x = n) /\ m <= x /\ n <= x
  BY <1>3, <1>4, <1>6
<1> QED
  BY <1>2, <1>5, <1>6, <1>7

\* The first component that differs decides the order, as it decides the comparison.
LEMMA FirstComponentDecides ==
    ASSUME NEW a, NEW b, IsParsed(a), IsParsed(b), NEW k, Differences(a, b) # {}, k = Min(Differences(a, b))
    PROVE  /\ k \in DOMAIN a \cup DOMAIN b /\ k \in Nat \ {0} /\ k \in Differences(a, b)
           /\ \A i \in 1..(k - 1) : ~Differs(a, b, i)
           /\ k % 2 = 1 => (KeyLess(a, b) <=> StringLess(Component(a, k), Component(b, k)))
           /\ k % 2 = 0 /\ k \in DOMAIN a /\ k \in DOMAIN b => (KeyLess(a, b) <=> a[k] < b[k])
<1> DEFINE D == DOMAIN a \cup DOMAIN b
<1>1. D \subseteq Nat \ {0} /\ \A n \in D : \A i \in 1..n : i \in D
  BY DEF IsParsed
<1>2. Differences(a, b) = {n \in D : Differs(a, b, n)}
  BY ComponentsOfBoth DEF Differences
<1>3. k \in Differences(a, b) /\ \A n \in Differences(a, b) : k <= n
  <2>1. Differences(a, b) \in SUBSET Nat
    BY <1>1, <1>2
  <2> QED
    BY <2>1, MinIsLeast
<1>4. k \in D /\ k \in Nat \ {0} /\ Differs(a, b, k)
  BY <1>1, <1>2, <1>3
<1>5. \A i \in 1..(k - 1) : ~Differs(a, b, i)
  <2> TAKE i \in 1..(k - 1)
  <2>1. i \in D /\ ~(k <= i)
    BY <1>1, <1>4
  <2> QED
    BY <1>2, <1>3, <2>1
<1>6. ASSUME k % 2 = 1
      PROVE  KeyLess(a, b) <=> StringLess(Component(a, k), Component(b, k))
  <2>1. PICK s, o : s = Component(a, k) /\ o = Component(b, k)
    OBVIOUS
  <2>2. s \in Seq(Text) /\ o \in Seq(Text) /\ s # o
    BY <1>4, <1>6, <2>1, KeysAreIntegers DEF Differs
  <2>3. PICK j \in DOMAIN s \cup DOMAIN o :
          /\ j \in Nat \ {0}
          /\ WeightAt(s, j) # WeightAt(o, j)
          /\ \A i \in 1..(j - 1) : WeightAt(s, i) = WeightAt(o, i)
          /\ StringLess(s, o) <=> WeightAt(s, j) < WeightAt(o, j)
    BY <2>2, StringsDiffer
  <2>4. \A h \in Nat : KeyAt(a, k, h) = WeightAt(s, h) /\ KeyAt(b, k, h) = WeightAt(o, h)
    BY <1>4, <1>6, <2>1, KeysAreIntegers
  <2>5. Places(a, b, k) = DOMAIN s \cup DOMAIN o
    BY <1>6, <2>1 DEF Places
  <2>6. \A h \in Places(a, b, k) : h < j => KeyAt(a, k, h) = KeyAt(b, k, h)
    <3> TAKE h \in Places(a, b, k)
    <3>1. h \in Nat \ {0}
      BY <1>4, PlacesAreNumbers
    <3>2. h < j => h \in 1..(j - 1)
      BY <2>3, <3>1
    <3> QED
      BY <2>3, <2>4, <3>1, <3>2
  <2>7. KeyAt(a, k, j) # KeyAt(b, k, j)
    BY <2>3, <2>4
  <2>8. KeyLess(a, b) <=> KeyAt(a, k, j) < KeyAt(b, k, j)
    BY <1>4, <1>5, <2>3, <2>5, <2>6, <2>7, FirstPlaceDecides
  <2> QED
    BY <2>1, <2>3, <2>4, <2>8
<1>7. ASSUME k % 2 = 0, k \in DOMAIN a, k \in DOMAIN b
      PROVE  KeyLess(a, b) <=> a[k] < b[k]
  <2>1. KeyAt(a, k, 1) = a[k] /\ KeyAt(b, k, 1) = b[k] /\ a[k] # b[k]
    BY <1>4, <1>7 DEF KeyAt, Differs, Component
  <2>2. Places(a, b, k) = {1} /\ ~(1 < 1)
    BY <1>7 DEF Places
  <2>3. KeyLess(a, b) <=> KeyAt(a, k, 1) < KeyAt(b, k, 1)
    BY <1>4, <1>5, <2>1, <2>2, FirstPlaceDecides
  <2> QED
    BY <2>1, <2>3
<1> QED
  BY <1>3, <1>4, <1>5, <1>6, <1>7

\* Versions without a difference are not in order.
LEMMA NoDifferenceNoOrder ==
    ASSUME NEW a, NEW b, IsParsed(a), IsParsed(b), Differences(a, b) = {}
    PROVE  ~KeyLess(a, b)
<1> SUFFICES ASSUME NEW k \in DOMAIN a \cup DOMAIN b, NEW j \in Places(a, b, k),
                    KeyAt(a, k, j) < KeyAt(b, k, j)
             PROVE  FALSE
  BY DEF KeyLess
<1>1. k \in Nat /\ j \in Nat
  <2>1. k \in Nat
    BY DEF IsParsed
  <2> QED
    BY <2>1, PlacesAreNumbers
<1>2. ~Differs(a, b, k)
  BY ComponentsOfBoth DEF Differences
<1>3. KeyAt(a, k, j) = KeyAt(b, k, j) /\ KeyAt(a, k, j) \in Int
  BY <1>1, <1>2, SameComponentsSameKeys, KeysAreIntegers
<1> QED
  BY <1>3

\* A version does not differ from itself.
LEMMA NoneDiffersFromItself ==
    ASSUME NEW a, IsParsed(a)
    PROVE  Differences(a, a) = {}
<1>1. Differences(a, a) = {k \in DOMAIN a : Differs(a, a, k)}
  BY ComponentsOfBoth DEF Differences
<1> QED
  BY <1>1 DEF Differs

\* The ranks follow the flags, and three of the flags say what the version is.
LEMMA RanksAreOfFlags ==
    ASSUME NEW s \in Bytes, NEW other \in Bytes
    PROVE  /\ Rank(s) \in 1..5 /\ Rank(other) \in 1..5
           /\ Rank(s) = Rank(other) => Flag(s) = Flag(other)
           /\ Rank(s) = Rank(other) /\ Flag(s) \notin {"hidden", "none"} => s = other
<1>1. \A t : Flag(t) \in {"empty", "current", "parent", "hidden", "none"}
  BY DEF Flag
<1>2. DOMAIN Flags = 1..5 /\ \A f \in {"empty", "current", "parent", "hidden", "none"} : \E r \in 1..5 : Flags[r] = f
  <2>1. /\ DOMAIN Flags = 1..5 /\ Flags[1] = "empty" /\ Flags[2] = "current" /\ Flags[3] = "parent"
        /\ Flags[4] = "hidden" /\ Flags[5] = "none"
    BY DEF Flags
  <2>2. 1 \in 1..5 /\ 2 \in 1..5 /\ 3 \in 1..5 /\ 4 \in 1..5 /\ 5 \in 1..5
    OBVIOUS
  <2> QED
    BY <2>1, <2>2
<1>3. \A t : Rank(t) \in 1..5 /\ Flags[Rank(t)] = Flag(t)
  BY <1>1, <1>2 DEF Rank
<1>4. Flag(s) = Flag(other) /\ Flag(s) \notin {"hidden", "none"} => s = other
  BY DEF Flag
<1> QED
  BY <1>3, <1>4

\* Less compares as Debian does, or finds a number at the end of one version.
LEMMA LessIsDebian ==
    ASSUME NEW s \in Bytes, NEW other \in Bytes
    PROVE  IF NumberAfter(s, other)
           THEN Less(s, other) = (IF Len(Compared(s, other)) > Len(Compared(other, s)) THEN "raises" ELSE "not")
           ELSE Less(s, other) = (IF Precedes(s, other) THEN "less" ELSE "not")
<1>1. PICK a, b : a = Compared(s, other) /\ b = Compared(other, s)
  OBVIOUS
<1>2. IsParsed(a) /\ IsParsed(b)
  BY <1>1, ComparedIsParsed
<1>3. PICK k : k = Min(Differences(a, b))
  OBVIOUS
<1>4. Less(s, other) =
        IF s = other \/ Rank(s) > Rank(other) THEN "not"
        ELSE IF Rank(s) < Rank(other) THEN "less"
        ELSE IF Differences(a, b) = {} THEN "not"
        ELSE IF k % 2 = 1 THEN (IF StringLess(Component(a, k), Component(b, k)) THEN "less" ELSE "not")
        ELSE IF k \notin DOMAIN a THEN "not" ELSE IF k \notin DOMAIN b THEN "raises"
        ELSE IF a[k] < b[k] THEN "less" ELSE "not"
  BY <1>1, <1>3 DEF Less
<1>5. NumberAfter(s, other) <=> /\ Rank(s) = Rank(other) /\ Differences(a, b) # {}
                                /\ k % 2 = 0 /\ ~(k \in DOMAIN a /\ k \in DOMAIN b)
  BY <1>1, <1>3 DEF NumberAfter
<1>6. Precedes(s, other) <=>
        \/ Rank(s) < Rank(other)
        \/ Rank(s) = Rank(other) /\ Flag(s) \in {"hidden", "none"} /\ KeyLess(a, b)
  BY <1>1 DEF Precedes
<1>7. /\ Rank(s) \in 1..5 /\ Rank(other) \in 1..5
      /\ Rank(s) = Rank(other) /\ Flag(s) \notin {"hidden", "none"} => s = other
  BY RanksAreOfFlags
<1>8. CASE s = other
  <2>1. Differences(a, b) = {} /\ ~KeyLess(a, b)
    BY <1>1, <1>2, <1>8, NoneDiffersFromItself, NoDifferenceNoOrder
  <2> QED
    BY <1>4, <1>5, <1>6, <1>7, <1>8, <2>1
<1>9. CASE s # other /\ Rank(s) # Rank(other)
  BY <1>4, <1>5, <1>6, <1>7, <1>9
<1>10. CASE s # other /\ Rank(s) = Rank(other) /\ Differences(a, b) = {}
  <2>1. ~KeyLess(a, b)
    BY <1>2, <1>10, NoDifferenceNoOrder
  <2> QED
    BY <1>4, <1>5, <1>6, <1>7, <1>10, <2>1
<1>11. CASE s # other /\ Rank(s) = Rank(other) /\ Differences(a, b) # {}
  <2>1. /\ k \in DOMAIN a \cup DOMAIN b /\ k \in Nat \ {0}
        /\ k % 2 = 1 => (KeyLess(a, b) <=> StringLess(Component(a, k), Component(b, k)))
        /\ k % 2 = 0 /\ k \in DOMAIN a /\ k \in DOMAIN b => (KeyLess(a, b) <=> a[k] < b[k])
    BY <1>2, <1>3, <1>11, FirstComponentDecides
  <2>2. /\ ~(Rank(s) > Rank(other)) /\ ~(Rank(s) < Rank(other))
        /\ Flag(s) \in {"hidden", "none"}
    BY <1>7, <1>11
  <2>3. CASE k % 2 = 1
    BY <1>4, <1>5, <1>6, <1>11, <2>1, <2>2, <2>3
  <2>4. CASE k % 2 = 0 /\ k \in DOMAIN a /\ k \in DOMAIN b
    BY <1>4, <1>5, <1>6, <1>11, <2>1, <2>2, <2>4
  <2>5. CASE k % 2 = 0 /\ ~(k \in DOMAIN a /\ k \in DOMAIN b)
    <3>1. NumberAfter(s, other)
      BY <1>5, <1>11, <2>5
    <3>2. Less(s, other) = IF k \notin DOMAIN a THEN "not" ELSE "raises"
      BY <1>4, <1>11, <2>2, <2>5
    <3>3. Len(a) > Len(b) <=> k \in DOMAIN a
      BY <1>2, <2>1, <2>5 DEF IsParsed
    <3> QED
      BY <1>1, <3>1, <3>2, <3>3
  <2>6. k % 2 = 0 \/ k % 2 = 1
    BY <2>1
  <2> QED
    BY <2>3, <2>4, <2>5, <2>6
<1> QED
  BY <1>8, <1>9, <1>10, <1>11

-----------------------------------------------------------------------------
(***************************************************************************)
(* Debian's order is an order: dictionaries over integers.                 *)
(***************************************************************************)

\* Two lists of components differ at a place for the first time.
DifferFirst(a, b, k, j) ==
    /\ KeyAt(a, k, j) < KeyAt(b, k, j)
    /\ \A i, h \in Nat \ {0} : i < k \/ (i = k /\ h < j) => KeyAt(a, i, h) = KeyAt(b, i, h)

\* At the places that are not compared there is what is compared, or nothing.
LEMMA OtherPlaces ==
    ASSUME NEW a, NEW b, IsParsed(a), IsParsed(b), NEW i \in Nat \ {0}, NEW h \in Nat \ {0},
           h \notin Places(a, b, i)
    PROVE  \/ /\ i % 2 = 0 /\ Places(a, b, i) = {1}
              /\ KeyAt(a, i, h) = KeyAt(a, i, 1) /\ KeyAt(b, i, h) = KeyAt(b, i, 1)
           \/ i % 2 = 1 /\ KeyAt(a, i, h) = 0 /\ KeyAt(b, i, h) = 0
<1>1. CASE i % 2 = 0
  BY <1>1 DEF Places, KeyAt
<1>2. CASE i % 2 = 1
  <2>1. h \notin DOMAIN Component(a, i) /\ h \notin DOMAIN Component(b, i)
    BY <1>2 DEF Places
  <2> QED
    BY <1>2, <2>1 DEF Component, KeyAt
<1> QED
  BY <1>1, <1>2

\* The order of dictionaries, without the ends of the components.
LEMMA FirstKeyDecides ==
    ASSUME NEW a, NEW b, IsParsed(a), IsParsed(b)
    PROVE  KeyLess(a, b) <=> \E k, j \in Nat \ {0} : DifferFirst(a, b, k, j)
<1>1. \A i \in DOMAIN a \cup DOMAIN b : i \in Nat \ {0}
  BY DEF IsParsed
<1>2. \A i \in Nat : Places(a, b, i) \subseteq Nat \ {0}
  BY PlacesAreNumbers
<1>3. ASSUME KeyLess(a, b)
      PROVE  \E k, j \in Nat \ {0} : DifferFirst(a, b, k, j)
  <2>1. PICK k \in DOMAIN a \cup DOMAIN b : \E j \in Places(a, b, k) :
          /\ KeyAt(a, k, j) < KeyAt(b, k, j)
          /\ \A i \in 1..k : \A h \in Places(a, b, i) :
              i < k \/ h < j => KeyAt(a, i, h) = KeyAt(b, i, h)
    BY <1>3 DEF KeyLess
  <2>2. PICK j \in Places(a, b, k) :
          /\ KeyAt(a, k, j) < KeyAt(b, k, j)
          /\ \A i \in 1..k : \A h \in Places(a, b, i) :
              i < k \/ h < j => KeyAt(a, i, h) = KeyAt(b, i, h)
    BY <2>1
  <2>3. k \in Nat \ {0} /\ j \in Nat \ {0}
    BY <1>1, <1>2
  <2>4. ASSUME NEW i \in Nat \ {0}, NEW h \in Nat \ {0}, i < k \/ (i = k /\ h < j)
        PROVE  KeyAt(a, i, h) = KeyAt(b, i, h)
    <3>1. i \in 1..k /\ (i < k \/ h < j)
      BY <2>3, <2>4
    <3>2. CASE h \in Places(a, b, i)
      BY <2>2, <3>1, <3>2
    <3>3. CASE h \notin Places(a, b, i)
      <4>1. CASE i < k
        <5>1. 1 \in Places(a, b, i) => KeyAt(a, i, 1) = KeyAt(b, i, 1)
          BY <2>2, <3>1, <4>1
        <5> QED
          BY <3>3, <5>1, OtherPlaces
      <4>2. CASE i = k /\ h < j
        <5>1. Places(a, b, i) # {1}
          BY <2>3, <4>2
        <5> QED
          BY <3>3, <5>1, OtherPlaces
      <4> QED
        BY <2>4, <4>1, <4>2
    <3> QED
      BY <3>2, <3>3
  <2> QED
    BY <2>2, <2>3, <2>4 DEF DifferFirst
<1>4. ASSUME NEW k \in Nat \ {0}, NEW j \in Nat \ {0}, DifferFirst(a, b, k, j)
      PROVE  KeyLess(a, b)
  <2>1. KeyAt(a, k, j) < KeyAt(b, k, j) /\ KeyAt(a, k, j) # KeyAt(b, k, j)
    BY <1>4, KeysAreIntegers DEF DifferFirst
  <2>2. k \in DOMAIN a \cup DOMAIN b
    BY <2>1 DEF KeyAt
  <2>3. PICK p \in Places(a, b, k) : p <= j /\ KeyAt(a, k, p) < KeyAt(b, k, p)
    <3>1. CASE j \in Places(a, b, k)
      BY <2>1, <3>1
    <3>2. CASE j \notin Places(a, b, k)
      <4>1. /\ Places(a, b, k) = {1}
            /\ KeyAt(a, k, j) = KeyAt(a, k, 1) /\ KeyAt(b, k, j) = KeyAt(b, k, 1)
        BY <2>1, <3>2, OtherPlaces
      <4> QED
        BY <2>1, <4>1
    <3> QED
      BY <3>1, <3>2
  <2>4. ASSUME NEW i \in 1..k, NEW h \in Places(a, b, i), i < k \/ h < p
        PROVE  KeyAt(a, i, h) = KeyAt(b, i, h)
    <3>1. i \in Nat \ {0} /\ h \in Nat \ {0} /\ p \in Nat
      BY <1>2
    <3>2. i < k \/ (i = k /\ h < j)
      BY <2>3, <2>4, <3>1
    <3> QED
      BY <1>4, <3>1, <3>2 DEF DifferFirst
  <2> QED
    BY <2>2, <2>3, <2>4 DEF KeyLess
<1> QED
  BY <1>3, <1>4

\* What comes before something that comes before a third comes before the third.
LEMMA KeyLessIsTransitive ==
    ASSUME NEW a, NEW b, NEW c, IsParsed(a), IsParsed(b), IsParsed(c), KeyLess(a, b), KeyLess(b, c)
    PROVE  KeyLess(a, c)
<1>1. PICK k, j \in Nat \ {0} : DifferFirst(a, b, k, j)
  BY FirstKeyDecides
<1>2. PICK l, m \in Nat \ {0} : DifferFirst(b, c, l, m)
  BY FirstKeyDecides
<1>3. \A i, h \in Nat \ {0} : KeyAt(a, i, h) \in Int /\ KeyAt(b, i, h) \in Int /\ KeyAt(c, i, h) \in Int
  BY KeysAreIntegers
<1>4. CASE k < l \/ (k = l /\ j < m)
  <2>1. KeyAt(a, k, j) < KeyAt(c, k, j)
    BY <1>1, <1>2, <1>4 DEF DifferFirst
  <2>2. ASSUME NEW i \in Nat \ {0}, NEW h \in Nat \ {0}, i < k \/ (i = k /\ h < j)
        PROVE  KeyAt(a, i, h) = KeyAt(c, i, h)
    <3>1. i < l \/ (i = l /\ h < m)
      BY <1>4, <2>2
    <3> QED
      BY <1>1, <1>2, <2>2, <3>1 DEF DifferFirst
  <2>3. DifferFirst(a, c, k, j)
    BY <2>1, <2>2 DEF DifferFirst
  <2> QED
    BY <2>3, FirstKeyDecides
<1>5. CASE l < k \/ (k = l /\ m <= j)
  <2>1. KeyAt(a, l, m) <= KeyAt(b, l, m)
    <3>1. CASE k = l /\ m = j
      BY <1>1, <1>3, <3>1 DEF DifferFirst
    <3>2. CASE l < k \/ (k = l /\ m < j)
      <4>1. KeyAt(a, l, m) = KeyAt(b, l, m)
        BY <1>1, <3>2 DEF DifferFirst
      <4> QED
        BY <1>3, <4>1
    <3> QED
      BY <1>5, <3>1, <3>2
  <2>2. KeyAt(a, l, m) < KeyAt(c, l, m)
    BY <1>2, <1>3, <2>1 DEF DifferFirst
  <2>3. ASSUME NEW i \in Nat \ {0}, NEW h \in Nat \ {0}, i < l \/ (i = l /\ h < m)
        PROVE  KeyAt(a, i, h) = KeyAt(c, i, h)
    <3>1. i < k \/ (i = k /\ h < j)
      BY <1>5, <2>3
    <3> QED
      BY <1>1, <1>2, <2>3, <3>1 DEF DifferFirst
  <2>4. DifferFirst(a, c, l, m)
    BY <2>2, <2>3 DEF DifferFirst
  <2> QED
    BY <2>4, FirstKeyDecides
<1> QED
  BY <1>4, <1>5

\* Two different versions are compared by what is left of the extensions, if that
\* differs, and by the extensions otherwise.
LEMMA WhatIsCompared ==
    ASSUME NEW s \in Bytes, NEW other \in Bytes
    PROVE  LET p == Parsed(s)
               q == Parsed(other)
           IN /\ CompString(p) = CompString(q) =>
                    /\ Compared(s, other) = Components(Suffix(p))
                    /\ Compared(other, s) = Components(Suffix(q))
              /\ CompString(p) # CompString(q) =>
                    /\ Compared(s, other) = Components(CompString(p))
                    /\ Compared(other, s) = Components(CompString(q))
BY DEF Compared

\* Debian's order of versions is an order: no version comes before itself, and one
\* that comes before another comes before all that come after that one.
THEOREM PrecedesIsAnOrder ==
    \A s, t, u \in Bytes : ~Precedes(s, s) /\ (Precedes(s, t) /\ Precedes(t, u) => Precedes(s, u))
<1>1. ASSUME NEW s \in Bytes
      PROVE  ~Precedes(s, s)
  <2>1. IsParsed(Compared(s, s))
    BY ComparedIsParsed
  <2>2. ~KeyLess(Compared(s, s), Compared(s, s))
    BY <2>1, NoDifferenceNoOrder, NoneDiffersFromItself
  <2>3. ~(Rank(s) < Rank(s))
    BY RanksAreOfFlags
  <2> QED
    BY <2>2, <2>3 DEF Precedes
<1>2. ASSUME NEW s \in Bytes, NEW t \in Bytes, NEW u \in Bytes, Precedes(s, t), Precedes(t, u)
      PROVE  Precedes(s, u)
  <2>1. /\ Rank(s) \in Int /\ Rank(t) \in Int /\ Rank(u) \in Int
        /\ Rank(s) = Rank(t) => Flag(s) = Flag(t)
    BY RanksAreOfFlags
  <2>2. CASE Rank(s) < Rank(t) \/ Rank(t) < Rank(u)
    <3>1. Rank(s) <= Rank(t) /\ Rank(t) <= Rank(u)
      BY <1>2, <2>1 DEF Precedes
    <3>2. Rank(s) < Rank(u)
      BY <2>1, <2>2, <3>1
    <3> QED
      BY <3>2 DEF Precedes
  <2>3. CASE ~(Rank(s) < Rank(t)) /\ ~(Rank(t) < Rank(u))
    <3>1. /\ Rank(s) = Rank(t) /\ Rank(t) = Rank(u) /\ Flag(s) \in {"hidden", "none"}
          /\ KeyLess(Compared(s, t), Compared(t, s)) /\ KeyLess(Compared(t, u), Compared(u, t))
      BY <1>2, <2>1, <2>3 DEF Precedes
    <3>2. PICK p, q, r : p = Parsed(s) /\ q = Parsed(t) /\ r = Parsed(u)
      OBVIOUS
    <3>3. p \in Bytes /\ q \in Bytes /\ r \in Bytes
      BY <3>2, PartsAreBytes
    <3>4. \A x \in {p, q, r} :
            IsParsed(Components(Suffix(x))) /\ IsParsed(Components(CompString(x)))
      BY <3>3, PartsAreBytes, ComponentsAreParsed
    <3>5. KeyLess(Compared(s, u), Compared(u, s))
      <4>1. CASE CompString(p) = CompString(q) /\ CompString(q) = CompString(r)
        <5>1. /\ KeyLess(Components(Suffix(p)), Components(Suffix(q)))
              /\ KeyLess(Components(Suffix(q)), Components(Suffix(r)))
          BY <3>1, <3>2, <4>1, WhatIsCompared
        <5>2. KeyLess(Components(Suffix(p)), Components(Suffix(r)))
          BY <3>4, <5>1, KeyLessIsTransitive
        <5> QED
          BY <3>2, <4>1, <5>2, WhatIsCompared
      <4>2. CASE CompString(p) = CompString(q) /\ CompString(q) # CompString(r)
        <5>1. KeyLess(Components(CompString(q)), Components(CompString(r)))
          BY <3>1, <3>2, <4>2, WhatIsCompared
        <5> QED
          BY <3>2, <4>2, <5>1, WhatIsCompared
      <4>3. CASE CompString(p) # CompString(q) /\ CompString(q) = CompString(r)
        <5>1. KeyLess(Components(CompString(p)), Components(CompString(q)))
          BY <3>1, <3>2, <4>3, WhatIsCompared
        <5> QED
          BY <3>2, <4>3, <5>1, WhatIsCompared
      <4>4. CASE CompString(p) # CompString(q) /\ CompString(q) # CompString(r)
        <5>1. /\ KeyLess(Components(CompString(p)), Components(CompString(q)))
              /\ KeyLess(Components(CompString(q)), Components(CompString(r)))
          BY <3>1, <3>2, <4>4, WhatIsCompared
        <5>2. KeyLess(Components(CompString(p)), Components(CompString(r)))
          BY <3>4, <5>1, KeyLessIsTransitive
        <5>3. ~KeyLess(Components(CompString(p)), Components(CompString(p)))
          BY <3>4, NoDifferenceNoOrder, NoneDiffersFromItself
        <5>4. CompString(p) # CompString(r)
          BY <5>2, <5>3
        <5> QED
          BY <3>2, <5>2, <5>4, WhatIsCompared
      <4> QED
        BY <4>1, <4>2, <4>3, <4>4
    <3> QED
      BY <3>1, <3>5 DEF Precedes
  <2> QED
    BY <2>2, <2>3
<1> QED
  BY <1>1, <1>2

-----------------------------------------------------------------------------
(***************************************************************************)
(* Lists of refs.                                                          *)
(***************************************************************************)
Entry(line) == [ref |-> line.ref, obj |-> line.obj]
Entries(R, O) == Seq([ref : R, obj : O])
Reads(R, O) == {Raises} \cup [raises : {FALSE}, value : Entries(R, O)]
Lines(R, O) == [ref : R, obj : O, peeled : BOOLEAN]

\* What has been read of the first k lines: their refs, last that of line k, and of
\* each line before it the object, unless a peeled line comes next.
ReadSoFar(lines, k, v) ==
    /\ {v[i].ref : i \in DOMAIN v} = {lines[j].ref : j \in 1..k}
    /\ k > 0 => v # <<>> /\ v[Len(v)] = Entry(lines[k])
    /\ \A j \in 1..(k - 1) : lines[j + 1].peeled \/ \E i \in 1..(Len(v) - 1) : v[i] = Entry(lines[j])

\* A line raises, is appended, or replaces the last.
LEMMA AddLineCases ==
    ASSUME NEW R, NEW O, NEW r \in Reads(R, O), NEW line \in Lines(R, O)
    PROVE  \/ AddLine(r, line) = Raises
           \/ /\ ~r.raises /\ r.value \in Entries(R, O) /\ Entry(line) \in [ref : R, obj : O]
              /\ \/ ~line.peeled /\ AddLine(r, line) = Returns(Append(r.value, Entry(line)))
                 \/ /\ line.peeled /\ r.value # <<>> /\ r.value[Len(r.value)].ref = line.ref
                    /\ AddLine(r, line) = Returns(Append(Front(r.value), Entry(line)))
<1>1. /\ line.peeled \in BOOLEAN
      /\ Entry(line) \in [ref : R, obj : O]
  BY DEF Lines, Entry
<1>2. CASE r.raises
  BY <1>2 DEF AddLine, Reads, Raises
<1>3. CASE ~r.raises
  <2>1. r.value \in Entries(R, O)
    <3>1. Raises.raises
      BY DEF Raises
    <3>2. r \in [raises : {FALSE}, value : Entries(R, O)]
      BY <1>3, <3>1 DEF Reads
    <3> QED
      BY <3>2
  <2>2. AddLine(r, line) =
          IF ~line.peeled THEN Returns(Append(r.value, Entry(line)))
          ELSE IF r.value # <<>> /\ r.value[Len(r.value)].ref = line.ref
               THEN Returns(Append(Front(r.value), Entry(line)))
          ELSE Raises
    BY <1>3 DEF AddLine, Entry, Last
  <2> QED
    BY <1>1, <1>3, <2>1, <2>2
<1> QED
  BY <1>2, <1>3

\* The last of a list replaced.
LEMMA LastReplaced ==
    ASSUME NEW S, NEW v \in Seq(S), v # <<>>, NEW e \in S
    PROVE  /\ Append(Front(v), e) \in Seq(S) /\ Len(Append(Front(v), e)) = Len(v) /\ Len(v) \in Nat \ {0}
           /\ Append(Front(v), e)[Len(v)] = e
           /\ \A i \in 1..(Len(v) - 1) : Append(Front(v), e)[i] = v[i]
<1>1. PICK n : n = Len(v)
  OBVIOUS
<1>2. n \in Nat \ {0} /\ DOMAIN v = 1..n /\ \A i \in 1..n : v[i] \in S
  BY <1>1, EmptySeq, LenProperties, ElementOfSeq
<1>3. PICK u : u = Front(v)
  OBVIOUS
<1>4. u = SubSeq(v, 1, n - 1)
  BY <1>1, <1>3 DEF Front
<1>5. 1 \in Int /\ n - 1 \in Int /\ (\A i \in 1..(n - 1) : v[i] \in S) /\ (n - 1) - 1 + 1 = n - 1
  BY <1>2
<1>6. u \in Seq(S) /\ Len(u) = n - 1 /\ \A i \in 1..(n - 1) : u[i] = v[i]
  <2>1. /\ SubSeq(v, 1, n - 1) \in Seq(S)
        /\ Len(SubSeq(v, 1, n - 1)) = (IF 1 <= n - 1 THEN (n - 1) - 1 + 1 ELSE 0)
        /\ \A i \in 1..((n - 1) - 1 + 1) : SubSeq(v, 1, n - 1)[i] = v[1 + i - 1]
    BY <1>5, SubSeqProperties
  <2>2. \A i \in 1..(n - 1) : 1 + i - 1 = i
    OBVIOUS
  <2> QED
    BY <1>2, <1>4, <1>5, <2>1, <2>2
<1>7. /\ Append(u, e) \in Seq(S) /\ Len(Append(u, e)) = n
      /\ Append(u, e)[n] = e
      /\ \A i \in 1..(n - 1) : Append(u, e)[i] = u[i]
  BY <1>2, <1>6, AppendProperties
<1> QED
  BY <1>1, <1>2, <1>3, <1>6, <1>7

\* Reading goes on as it began.
LEMMA ReadingGoesOn ==
    ASSUME NEW R, NEW O, NEW lines \in Seq(Lines(R, O)), NEW k \in Nat, k + 1 <= Len(lines),
           NEW v \in Entries(R, O), ReadSoFar(lines, k, v), NEW e, e = Entry(lines[k + 1]),
           e \in [ref : R, obj : O], NEW w,
           \/ w = Append(v, e)
           \/ /\ lines[k + 1].peeled /\ v # <<>> /\ v[Len(v)].ref = lines[k + 1].ref
              /\ w = Append(Front(v), e)
    PROVE  w \in Entries(R, O) /\ ReadSoFar(lines, k + 1, w)
<1>1. PICK n : n = Len(v)
  OBVIOUS
<1>2. n \in Nat /\ DOMAIN v = 1..n /\ v \in Seq([ref : R, obj : O])
  BY <1>1, LenProperties DEF Entries
<1>3. e.ref = lines[k + 1].ref
  BY DEF Entry
<1>4. 1..(k + 1) = 1..k \cup {k + 1} /\ (k + 1) - 1 = k
  OBVIOUS
<1>5. CASE w = Append(v, e)
  <2>1. /\ w \in Entries(R, O) /\ Len(w) = n + 1 /\ DOMAIN w = 1..(n + 1) /\ w # <<>>
        /\ w[n + 1] = e /\ \A i \in 1..n : w[i] = v[i]
    <3>1. /\ w \in Entries(R, O) /\ Len(w) = n + 1
          /\ w[n + 1] = e /\ \A i \in 1..n : w[i] = v[i]
      BY <1>1, <1>2, <1>5, AppendProperties DEF Entries
    <3>2. DOMAIN w = 1..(n + 1) /\ w # <<>>
      BY <1>2, <3>1, LenProperties, EmptySeq DEF Entries
    <3> QED
      BY <3>1, <3>2
  <2>2. {w[i].ref : i \in DOMAIN w} = {lines[j].ref : j \in 1..(k + 1)}
    <3>1. 1..(n + 1) = 1..n \cup {n + 1}
      BY <1>2
    <3>2. {w[i].ref : i \in DOMAIN w} = {v[i].ref : i \in 1..n} \cup {e.ref}
      <4>1. DOMAIN w = 1..n \cup {n + 1}
        BY <2>1, <3>1
      <4>2. w[n + 1].ref = e.ref /\ \A i \in 1..n : w[i].ref = v[i].ref
        BY <2>1
      <4>3. {w[i].ref : i \in 1..n} = {v[i].ref : i \in 1..n}
        BY <4>2
      <4>4. {w[i].ref : i \in DOMAIN w} = {w[i].ref : i \in 1..n} \cup {w[n + 1].ref}
        BY <4>1
      <4> QED
        BY <4>2, <4>3, <4>4
    <3>3. {lines[j].ref : j \in 1..(k + 1)} = {lines[j].ref : j \in 1..k} \cup {lines[k + 1].ref}
      BY <1>4
    <3> QED
      BY <1>2, <1>3, <3>2, <3>3 DEF ReadSoFar
  <2>3. ASSUME NEW j \in 1..k
        PROVE  lines[j + 1].peeled \/ \E i \in 1..n : w[i] = Entry(lines[j])
    <3>1. CASE j = k
      <4>1. k > 0 /\ v # <<>> /\ v[n] = Entry(lines[k])
        BY <1>1, <3>1 DEF ReadSoFar
      <4>2. n \in 1..n
        BY <1>1, <1>2, <4>1, EmptySeq
      <4> QED
        BY <2>1, <3>1, <4>1, <4>2
    <3>2. CASE j # k
      <4>1. j \in 1..(k - 1) /\ \A i \in 1..(n - 1) : i \in 1..n
        BY <1>2, <3>2
      <4> QED
        BY <1>1, <2>1, <4>1 DEF ReadSoFar
    <3> QED
      BY <3>1, <3>2
  <2>4. Len(w) - 1 = n
    BY <1>2, <2>1
  <2> QED
    BY <1>2, <1>4, <2>1, <2>2, <2>3, <2>4 DEF ReadSoFar
<1>6. CASE lines[k + 1].peeled /\ v # <<>> /\ v[Len(v)].ref = lines[k + 1].ref /\ w = Append(Front(v), e)
  <2>1. /\ w \in Entries(R, O) /\ Len(w) = n /\ n \in Nat \ {0} /\ DOMAIN w = 1..n /\ w # <<>>
        /\ w[n] = e /\ \A i \in 1..(n - 1) : w[i] = v[i]
    <3>1. /\ w \in Entries(R, O) /\ Len(w) = n /\ n \in Nat \ {0}
          /\ w[n] = e /\ \A i \in 1..(n - 1) : w[i] = v[i]
      <4>1. PICK S : S = [ref : R, obj : O]
        OBVIOUS
      <4>2. v \in Seq(S) /\ v # <<>> /\ e \in S
        BY <1>2, <1>6, <4>1
      <4>3. /\ Append(Front(v), e) \in Seq(S) /\ Len(Append(Front(v), e)) = Len(v) /\ Len(v) \in Nat \ {0}
            /\ Append(Front(v), e)[Len(v)] = e
            /\ \A i \in 1..(Len(v) - 1) : Append(Front(v), e)[i] = v[i]
        BY <4>2, LastReplaced
      <4> QED
        BY <1>1, <1>6, <4>1, <4>3 DEF Entries
    <3>2. DOMAIN w = 1..n /\ w # <<>>
      BY <3>1, LenProperties, EmptySeq DEF Entries
    <3> QED
      BY <3>1, <3>2
  <2>2. k > 0
    <3>1. n \in DOMAIN v
      BY <1>2, <2>1
    <3>2. v[n].ref \in {lines[j].ref : j \in 1..k}
      BY <3>1 DEF ReadSoFar
    <3>3. 1..k # {}
      BY <3>2
    <3> QED
      BY <3>3
  <2>3. {w[i].ref : i \in DOMAIN w} = {lines[j].ref : j \in 1..(k + 1)}
    <3>1. \A i \in 1..n : w[i].ref = v[i].ref
      <4>1. w[n].ref = v[n].ref
        BY <1>1, <1>3, <1>6, <2>1
      <4>2. \A i \in 1..n : i = n \/ i \in 1..(n - 1)
        BY <2>1
      <4> QED
        BY <2>1, <4>1, <4>2
    <3>2. {w[i].ref : i \in DOMAIN w} = {lines[j].ref : j \in 1..k}
      <4>1. {w[i].ref : i \in 1..n} = {v[i].ref : i \in 1..n}
        BY <3>1
      <4>2. {v[i].ref : i \in DOMAIN v} = {lines[j].ref : j \in 1..k}
        BY DEF ReadSoFar
      <4> QED
        BY <1>2, <2>1, <4>1, <4>2
    <3>3. lines[k + 1].ref \in {lines[j].ref : j \in 1..k}
      <4>1. n \in DOMAIN v
        BY <1>2, <2>1
      <4> QED
        BY <1>1, <1>6, <4>1 DEF ReadSoFar
    <3> QED
      BY <1>4, <3>2, <3>3
  <2>4. ASSUME NEW j \in 1..k
        PROVE  lines[j + 1].peeled \/ \E i \in 1..(n - 1) : w[i] = Entry(lines[j])
    <3>1. CASE j = k
      BY <1>6, <3>1
    <3>2. CASE j # k
      <4>1. j \in 1..(k - 1)
        BY <3>2
      <4> QED
        BY <1>1, <2>1, <4>1 DEF ReadSoFar
    <3> QED
      BY <3>1, <3>2
  <2> QED
    BY <1>4, <2>1, <2>3, <2>4 DEF ReadSoFar
<1> QED
  BY <1>5, <1>6

\* A dictionary made of what was read.
RefsFrom(read) ==
    IF read.raises THEN Raises
    ELSE IF \E i, j \in DOMAIN read.value : i # j /\ read.value[i].ref = read.value[j].ref THEN Raises
    ELSE Returns([r \in {read.value[i].ref : i \in DOMAIN read.value} |->
           read.value[CHOOSE i \in DOMAIN read.value : read.value[i].ref = r].obj])

\* The lines read one by one are all of them, or the reading raises.
LEMMA ReadingAllLines ==
    ASSUME NEW R, NEW O, NEW lines \in Seq(Lines(R, O))
    PROVE  \E read \in Reads(R, O) :
             /\ ~read.raises => ReadSoFar(lines, Len(lines), read.value)
             /\ RefsOf(lines) = RefsFrom(read)
<1> DEFINE m == Len(lines)
           Body(refs) == [k \in 0..m |-> IF k = 0 THEN Returns(<<>>) ELSE AddLine(refs[k - 1], lines[k])]
           step == [p \in (1..m) \X Reads(R, O) |-> AddLine(p[2], lines[p[1]])]
<1>1. m \in Nat /\ \A k \in 1..m : lines[k] \in Lines(R, O)
  BY LenProperties, ElementOfSeq
<1>2. \A r \in Reads(R, O), line \in Lines(R, O) : AddLine(r, line) \in Reads(R, O)
  <2> TAKE r \in Reads(R, O), line \in Lines(R, O)
  <2>1. \A v, e : v \in Entries(R, O) /\ e \in [ref : R, obj : O] => Returns(Append(v, e)) \in Reads(R, O)
    BY AppendProperties DEF Entries, Returns, Reads
  <2>2. \A v, e : v \in Entries(R, O) /\ v # <<>> /\ e \in [ref : R, obj : O]
                  => Returns(Append(Front(v), e)) \in Reads(R, O)
    BY LastReplaced DEF Entries, Returns, Reads
  <2>3. Raises \in Reads(R, O)
    BY DEF Reads
  <2>4. CASE AddLine(r, line) = Raises
    BY <2>3, <2>4
  <2>5. CASE AddLine(r, line) # Raises
    <3>1. \E v, e : /\ v \in Entries(R, O) /\ e \in [ref : R, obj : O]
                    /\ \/ AddLine(r, line) = Returns(Append(v, e))
                       \/ v # <<>> /\ AddLine(r, line) = Returns(Append(Front(v), e))
      BY <2>5, AddLineCases
    <3> QED
      BY <2>1, <2>2, <3>1
  <2> QED
    BY <2>4, <2>5
<1>3. Returns(<<>>) \in Reads(R, O)
  BY EmptySeq DEF Reads, Returns, Entries
<1>4. PICK f : f \in Loops(Reads(R, O), Returns(<<>>), m, step)
  <2>1. step \in [(1..m) \X Reads(R, O) -> Reads(R, O)]
    BY <1>1, <1>2
  <2> HIDE DEF step, m
  <2> QED
    BY <1>1, <1>3, <2>1, LoopHasResults
<1>5. f = Body(f)
  <2>1. ASSUME NEW n \in 1..m
        PROVE  f[n] = AddLine(f[n - 1], lines[n])
    <3>1. n - 1 \in 0..m
      BY <1>1
    <3>2. f[n] = step[<<n, f[n - 1]>>] /\ f[n - 1] \in Reads(R, O)
      BY <1>4, <3>1 DEF Loops
    <3> QED
      BY <3>2
  <2> QED
    BY <1>4, <2>1 DEF Loops
<1> DEFINE g == CHOOSE refs : refs = Body(refs)
<1>6. g = Body(g)
  BY <1>5
<1>7. g[m] \in Reads(R, O) /\ (~g[m].raises => ReadSoFar(lines, m, g[m].value))
  <2> DEFINE T == {i \in Nat : i <= m => g[i] \in Reads(R, O) /\ (~g[i].raises => ReadSoFar(lines, i, g[i].value))}
  <2> HIDE DEF g
  <2>1. 0 \in T
    <3>1. g[0] = Returns(<<>>)
      BY <1>1, <1>6
    <3>2. Returns(<<>>).value = <<>>
      BY DEF Returns
    <3>3. ReadSoFar(lines, 0, <<>>)
      BY DEF ReadSoFar
    <3> QED
      BY <1>3, <3>1, <3>2, <3>3
  <2>2. ASSUME NEW i \in Nat, i \in T
        PROVE  i + 1 \in T
    <3> SUFFICES ASSUME i + 1 <= m
                 PROVE  g[i + 1] \in Reads(R, O) /\ (~g[i + 1].raises => ReadSoFar(lines, i + 1, g[i + 1].value))
      OBVIOUS
    <3>1. i + 1 \in 0..m /\ i + 1 \in 1..m /\ i <= m /\ i + 1 # 0 /\ (i + 1) - 1 = i
      BY <1>1
    <3>2. PICK r, line : r = g[i] /\ line = lines[i + 1]
      OBVIOUS
    <3>3. r \in Reads(R, O) /\ (~r.raises => ReadSoFar(lines, i, r.value)) /\ line \in Lines(R, O)
      BY <1>1, <2>2, <3>1, <3>2
    <3>4. g[i + 1] = AddLine(r, line)
      BY <1>6, <3>1, <3>2
    <3>5. AddLine(r, line) \in Reads(R, O)
      BY <1>2, <3>3
    <3>6. ASSUME ~AddLine(r, line).raises
          PROVE  ReadSoFar(lines, i + 1, AddLine(r, line).value)
      <4>1. AddLine(r, line) # Raises
        BY <3>6 DEF Raises
      <4>2. PICK w : /\ ~r.raises /\ r.value \in Entries(R, O) /\ Entry(line) \in [ref : R, obj : O]
                     /\ AddLine(r, line) = Returns(w)
                     /\ \/ w = Append(r.value, Entry(line))
                        \/ /\ line.peeled /\ r.value # <<>> /\ r.value[Len(r.value)].ref = line.ref
                           /\ w = Append(Front(r.value), Entry(line))
        <5>1. /\ ~r.raises /\ r.value \in Entries(R, O) /\ Entry(line) \in [ref : R, obj : O]
              /\ \/ ~line.peeled /\ AddLine(r, line) = Returns(Append(r.value, Entry(line)))
                 \/ /\ line.peeled /\ r.value # <<>> /\ r.value[Len(r.value)].ref = line.ref
                    /\ AddLine(r, line) = Returns(Append(Front(r.value), Entry(line)))
          BY <3>3, <4>1, AddLineCases
        <5> QED
          BY <5>1
      <4>3. ReadSoFar(lines, i + 1, w)
        BY <3>1, <3>2, <3>3, <4>2, ReadingGoesOn
      <4>4. Returns(w).value = w
        BY DEF Returns
      <4> QED
        BY <4>2, <4>3, <4>4
    <3> QED
      BY <3>4, <3>5, <3>6
  <2>3. Nat \subseteq T
    <3> HIDE DEF T
    <3> QED
      BY <2>1, <2>2, Induction
  <2> QED
    BY <1>1, <2>3
<1>8. PICK read : read = g[m]
  OBVIOUS
<1>9. RefsOf(lines) = RefsFrom(read)
  BY <1>8 DEF RefsOf, RefsFrom
<1> HIDE DEF g
<1> QED
  BY <1>7, <1>8, <1>9

\* The refs are those of all lines, each with its object unless a peeled line comes
\* next.
LEMMA RefsOfAllLines ==
    ASSUME NEW R, NEW O, NEW lines \in Seq(Lines(R, O))
    PROVE  \/ RefsOf(lines) = Raises
           \/ \E f : /\ RefsOf(lines) = Returns(f)
                     /\ DOMAIN f = {lines[j].ref : j \in 1..Len(lines)}
                     /\ \A j \in 1..Len(lines) :
                          \/ f[lines[j].ref] = lines[j].obj
                          \/ j + 1 \in 1..Len(lines) /\ lines[j + 1].peeled
<1>1. PICK read \in Reads(R, O) :
        /\ ~read.raises => ReadSoFar(lines, Len(lines), read.value)
        /\ RefsOf(lines) = RefsFrom(read)
  BY ReadingAllLines
<1> SUFFICES ASSUME ~read.raises,
                    \A i, j \in DOMAIN read.value : read.value[i].ref = read.value[j].ref => i = j
             PROVE  \E f : /\ RefsOf(lines) = Returns(f)
                           /\ DOMAIN f = {lines[j].ref : j \in 1..Len(lines)}
                           /\ \A j \in 1..Len(lines) :
                                \/ f[lines[j].ref] = lines[j].obj
                                \/ j + 1 \in 1..Len(lines) /\ lines[j + 1].peeled
  BY <1>1 DEF RefsFrom
<1>2. PICK v, m : v = read.value /\ m = Len(lines)
  OBVIOUS
<1>3. m \in Nat /\ ReadSoFar(lines, m, v)
  BY <1>1, <1>2, LenProperties
<1> DEFINE f == [r \in {v[i].ref : i \in DOMAIN v} |-> v[CHOOSE i \in DOMAIN v : v[i].ref = r].obj]
<1>4. RefsOf(lines) = Returns(f)
  BY <1>1, <1>2 DEF RefsFrom
<1>5. DOMAIN f = {lines[j].ref : j \in 1..m}
  BY <1>3 DEF ReadSoFar
<1>6. ASSUME NEW i \in DOMAIN v
      PROVE  f[v[i].ref] = v[i].obj
  <2>1. (CHOOSE n \in DOMAIN v : v[n].ref = v[i].ref) = i
    BY <1>2
  <2> QED
    BY <2>1
<1>7. DOMAIN v = 1..Len(v) /\ Len(v) \in Nat /\ (v # <<>> => Len(v) \in DOMAIN v)
  <2>1. v \in Entries(R, O)
    <3>1. Raises.raises
      BY DEF Raises
    <3>2. read \in [raises : {FALSE}, value : Entries(R, O)]
      BY <3>1 DEF Reads
    <3> QED
      BY <1>2, <3>2
  <2> QED
    BY <2>1, LenProperties, EmptySeq DEF Entries
<1>8. ASSUME NEW j \in 1..m
      PROVE  f[lines[j].ref] = lines[j].obj \/ (j + 1 \in 1..m /\ lines[j + 1].peeled)
  <2>1. Entry(lines[j]).ref = lines[j].ref /\ Entry(lines[j]).obj = lines[j].obj
    BY DEF Entry
  <2>2. \A i \in DOMAIN v : v[i] = Entry(lines[j]) => f[lines[j].ref] = lines[j].obj
    <3> HIDE DEF f
    <3> QED
      BY <1>6, <2>1
  <2>3. CASE j = m
    <3>1. v # <<>> /\ v[Len(v)] = Entry(lines[j])
      BY <1>3, <2>3 DEF ReadSoFar
    <3> QED
      BY <1>7, <2>2, <3>1
  <2>4. CASE j # m
    <3>1. j \in 1..(m - 1) /\ j + 1 \in 1..m
      BY <1>3, <2>4
    <3>2. lines[j + 1].peeled \/ \E i \in 1..(Len(v) - 1) : v[i] = Entry(lines[j])
      BY <1>3, <3>1 DEF ReadSoFar
    <3>3. \A i \in 1..(Len(v) - 1) : i \in DOMAIN v
      BY <1>7
    <3> QED
      BY <2>2, <3>1, <3>2, <3>3
  <2> QED
    BY <2>3, <2>4
<1> HIDE DEF f
<1> QED
  BY <1>2, <1>4, <1>5, <1>8

\* Refs that are all that is listed.
AllListed(c, refs) ==
    /\ DOMAIN refs = {Line(c, k).ref : k \in Listed(c)}
    /\ \A k \in Listed(c) :
        \/ refs[Line(c, k).ref] = Line(c, k).obj
        \/ \E j \in Listed(c) : Replaces(c, j, k)

\* The lines of a file are all listed.
LEMMA FileIsListed ==
    ASSUME NEW c, ~Smart(c), c.body \in Seq(FileLines)
    PROVE  /\ Len(c.body) \in Nat /\ DOMAIN c.body = 1..Len(c.body)
           /\ Listed(c) = 1..Len(c.body) /\ \A k : Line(c, k) = c.body[k]
           /\ c.body \in Seq(Lines(Refs, Objects))
<1>1. Len(c.body) \in Nat /\ DOMAIN c.body = 1..Len(c.body)
  BY LenProperties
<1>2. c.body \in Seq(Lines(Refs, Objects))
  BY DEF FileLines, Lines
<1> QED
  BY <1>1, <1>2 DEF Listed, Line

\* Files without git's protocol are read line by line.
LEMMA DumbRefsAreComplete ==
    ASSUME NEW c, c.kind = "dumb", c.preface = FALSE, c.body \in Seq(FileLines), ~ReadOf(c).raises
    PROVE  AllListed(c, ReadOf(c).value)
<1>1. PICK b, n : b = c.body /\ n = Len(b)
  OBVIOUS
<1>2. b \in Seq(Lines(Refs, Objects)) /\ n \in Nat /\ DOMAIN b = 1..n
  BY <1>1, FileIsListed DEF Smart
<1>3. Listed(c) = 1..n /\ \A k : Line(c, k) = b[k]
  BY <1>1, FileIsListed DEF Smart
<1>4. ReadOf(c) = RefsOf(b)
  BY <1>1 DEF ReadOf, Smart, Stream, DumbRefs
<1>5. RefsOf(b) # Raises
  BY <1>4 DEF Raises
<1>6. PICK f : /\ RefsOf(b) = Returns(f)
               /\ DOMAIN f = {b[j].ref : j \in 1..n}
               /\ \A j \in 1..n : f[b[j].ref] = b[j].obj \/ (j + 1 \in 1..n /\ b[j + 1].peeled)
  <2>1. \/ RefsOf(b) = Raises
        \/ \E f : /\ RefsOf(b) = Returns(f)
                  /\ DOMAIN f = {b[j].ref : j \in 1..Len(b)}
                  /\ \A j \in 1..Len(b) :
                       f[b[j].ref] = b[j].obj \/ (j + 1 \in 1..Len(b) /\ b[j + 1].peeled)
    BY <1>2, RefsOfAllLines
  <2> QED
    BY <1>1, <1>5, <2>1
<1>7. ReadOf(c).value = f
  BY <1>4, <1>6 DEF Returns
<1>8. \A j, k : Replaces(c, j, k) <=> j = k + 1 /\ b[j].peeled
  BY <1>3 DEF Replaces
<1>9. {Line(c, k).ref : k \in Listed(c)} = {b[j].ref : j \in 1..n}
  BY <1>3
<1> QED
  BY <1>3, <1>6, <1>7, <1>8, <1>9 DEF AllListed

\* Of the lines of .hgtags the last of a name counts.
LEMMA HgTagsAreComplete ==
    ASSUME NEW c, c.kind = "hg", c.preface = FALSE, c.body \in Seq(FileLines), ~ReadOf(c).raises
    PROVE  AllListed(c, ReadOf(c).value) /\ Listed(c) # {}
<1>1. PICK b, n : b = c.body /\ n = Len(b)
  OBVIOUS
<1>2. b \in Seq(Lines(Refs, Objects)) /\ n \in Nat /\ DOMAIN b = 1..n
  BY <1>1, FileIsListed DEF Smart
<1>3. Listed(c) = 1..n /\ \A k : Line(c, k) = b[k]
  BY <1>1, FileIsListed DEF Smart
<1> DEFINE f == [r \in {b[k].ref : k \in DOMAIN b} |-> b[Max({k \in DOMAIN b : b[k].ref = r})].obj]
<1>4. ReadOf(c).value = f /\ b # <<>>
  <2>1. ReadOf(c) = IF b = <<>> THEN Raises ELSE Returns(f)
    BY <1>1 DEF ReadOf, Smart, Stream, HgTags
  <2>2. ReadOf(c) # Raises
    BY DEF Raises
  <2> QED
    BY <2>1, <2>2 DEF Returns
<1>5. DOMAIN f = {b[k].ref : k \in 1..n}
  BY <1>2
<1>6. ASSUME NEW k \in 1..n
      PROVE  f[b[k].ref] = b[k].obj \/ \E j \in 1..n : j > k /\ b[j].ref = b[k].ref
  <2>1. PICK T : T = {j \in DOMAIN b : b[j].ref = b[k].ref}
    OBVIOUS
  <2>2. PICK x : x = Max(T)
    OBVIOUS
  <2>3. x \in T /\ \A y \in T : y <= x
    <3>1. T \in SUBSET (0..n) /\ T # {}
      BY <1>2, <2>1
    <3> QED
      BY <1>2, <2>2, <3>1, MaxIsGreatest
  <2>4. f[b[k].ref] = b[x].obj
    BY <1>2, <2>1, <2>2
  <2>5. k \in T /\ x \in 1..n /\ b[x].ref = b[k].ref
    BY <1>2, <2>1, <2>3
  <2>6. k <= x
    BY <2>3, <2>5
  <2> HIDE DEF f
  <2>7. CASE x = k
    BY <2>4, <2>7
  <2>8. CASE x # k
    BY <2>5, <2>6, <2>8
  <2> QED
    BY <2>7, <2>8
<1>7. \A j, k : Replaces(c, j, k) <=> j > k /\ b[j].ref = b[k].ref
  BY <1>3 DEF Replaces
<1> HIDE DEF f
<1>8. 1 \in 1..n
  <2>1. Len(b) # 0
    BY <1>2, <1>4, EmptySeq
  <2> QED
    BY <1>1, <1>2, <2>1
<1>9. {Line(c, k).ref : k \in Listed(c)} = {b[j].ref : j \in 1..n}
  BY <1>3
<1> QED
  BY <1>3, <1>4, <1>5, <1>6, <1>7, <1>8, <1>9 DEF AllListed

\* What git's protocol sends is read up to its end, which has to be there.
LEMMA SmartRefsAreComplete ==
    ASSUME NEW c, c.kind \in {"git", "http"}, c.preface \in BOOLEAN, c.body \in Seq(Packets),
           ~ReadOf(c).raises
    PROVE  /\ Flushes(c.body) # {} /\ c.preface = (c.kind = "http")
           /\ AllListed(c, ReadOf(c).value)
<1>1. PICK b, n, st, o, w :
        /\ b = c.body /\ n = Len(b) /\ st = Stream(c) /\ w = Len(st)
        /\ o = IF c.preface THEN 2 ELSE 0
  OBVIOUS
<1>2. /\ n \in Nat /\ DOMAIN b = 1..n /\ \A k \in 1..n : b[k] \in Packets
      /\ (c.preface /\ o = 2) \/ (~c.preface /\ o = 0)
  BY <1>1, LenProperties, ElementOfSeq
<1>3. /\ w = o + n /\ \A k \in 1..n : st[o + k] = b[k]
      /\ c.preface => st[1].is = "service" /\ st[2].is = "flush"
  <2>1. CASE c.preface
    <3> DEFINE Anything == {[is |-> "service"], [is |-> "flush"]} \cup Packets
    <3>1. /\ Preface \in Seq(Anything) /\ Len(Preface) = 2
          /\ Preface[1].is = "service" /\ Preface[2].is = "flush"
      BY DEF Preface
    <3>2. st = Preface \o b /\ o = 2
      BY <1>1, <1>2, <2>1 DEF Stream
    <3>3. b \in Seq(Anything)
      <4>1. \A k \in 1..n : b[k] \in Anything
        BY <1>2
      <4> HIDE DEF Anything
      <4>2. b = [k \in 1..n |-> b[k]]
        BY <1>1, LenProperties
      <4> QED
        BY <1>2, <4>1, <4>2, IsASeq
    <3> HIDE DEF Anything
    <3>4. /\ Len(Preface \o b) = Len(Preface) + Len(b)
          /\ \A k \in 1..(Len(Preface) + Len(b)) :
                (Preface \o b)[k] = IF k <= Len(Preface) THEN Preface[k] ELSE b[k - Len(Preface)]
      BY <3>1, <3>3, ConcatProperties
    <3>5. w = 2 + n /\ \A k \in 1..(2 + n) : st[k] = IF k <= 2 THEN Preface[k] ELSE b[k - 2]
      BY <1>1, <3>1, <3>2, <3>4
    <3>6. 1 \in 1..(2 + n) /\ 2 \in 1..(2 + n)
      BY <1>2
    <3>7. \A k \in 1..n : 2 + k \in 1..(2 + n) /\ ~(2 + k <= 2) /\ (2 + k) - 2 = k
      BY <1>2
    <3>8. \A k \in 1..n : st[2 + k] = b[k]
      <4> TAKE k \in 1..n
      <4>1. st[2 + k] = b[(2 + k) - 2]
        BY <3>5, <3>7
      <4> QED
        BY <3>7, <4>1
    <3>9. w = o + n /\ \A k \in 1..n : st[o + k] = b[k]
      BY <3>2, <3>5, <3>8
    <3>10. st[1].is = "service" /\ st[2].is = "flush"
      BY <3>1, <3>5, <3>6
    <3> QED
      BY <3>9, <3>10
  <2>2. CASE ~c.preface
    <3>1. st = b /\ o = 0
      BY <1>1, <1>2, <2>2 DEF Stream
    <3>2. w = n /\ \A k \in 1..n : 0 + k = k
      BY <1>1, <3>1
    <3> QED
      BY <1>2, <2>2, <3>1, <3>2
  <2> QED
    BY <2>1, <2>2
<1>4. \A p \in Packets : p.is # "service" /\ (p.is = "line" => p \in RefLines)
  BY DEF Packets, RefLines
<1> DEFINE first == IF c.kind = "http" THEN 3 ELSE 1
           from == IF first <= Len(st) /\ st[first].is = "version" THEN first + 1 ELSE first
           end == Flush(st, from)
           lines == SubSeq(st, from, end - 1)
<1>5. /\ first = IF c.kind = "http" THEN 3 ELSE 1
      /\ from = IF first <= w /\ st[first].is = "version" THEN first + 1 ELSE first
      /\ end = Flush(st, from)
      /\ lines = SubSeq(st, from, end - 1)
  BY <1>1
<1>6. ReadOf(c) =
        IF \/ ~(~(c.kind = "http") \/ (w >= 2 /\ st[1].is = "service" /\ st[2].is = "flush"))
           \/ ~(first <= w /\ st[first].is \notin {"flush", "delim"})
           \/ end = 0 \/ (c.kind = "http" /\ end < w)
        THEN Raises
        ELSE IF lines = <<>> \/ (Len(lines) = 1 /\ lines[1].is = "no refs") THEN Returns(<<>>)
        ELSE IF ~IsLine(lines[1]) \/ ~lines[1].caps THEN Raises
        ELSE IF \E k \in DOMAIN lines : lines[k].is = "delim" THEN Raises
        ELSE RefsOf([k \in DOMAIN lines |-> LineRead(lines[k], k = 1)])
  <2>1. ReadOf(c) = SmartRefs(st, c.kind = "http")
    BY <1>1 DEF ReadOf, Smart
  <2>2. w = Len(st)
    BY <1>1
  <2> QED
    BY <2>1, <2>2 DEF SmartRefs
<1> HIDE DEF first, from, end, lines
<1>7. ReadOf(c) # Raises
  <2>1. Raises.raises
    BY DEF Raises
  <2> QED
    BY <2>1
<1>8. /\ c.kind = "http" => w >= 2 /\ st[1].is = "service" /\ st[2].is = "flush"
      /\ first <= w /\ st[first].is \notin {"flush", "delim"}
      /\ end # 0
      /\ lines = <<>> \/ (Len(lines) = 1 /\ lines[1].is = "no refs") \/ IsLine(lines[1])
  BY <1>6, <1>7
<1>9. /\ end \in from..w /\ st[end].is = "flush"
      /\ \A k \in from..w : st[k].is = "flush" => end <= k
  <2>1. PICK ks : ks = {k \in from..w : st[k].is = "flush"}
    OBVIOUS
  <2>2. end = IF ks = {} THEN 0 ELSE Min(ks)
    BY <1>1, <1>5, <2>1 DEF Flush
  <2>3. ks # {} /\ end = Min(ks)
    BY <1>8, <2>2
  <2>4. ks \in SUBSET Nat
    <3>1. from \in Nat /\ w \in Nat
      BY <1>2, <1>3, <1>5
    <3> QED
      BY <2>1, <3>1
  <2>5. end \in ks /\ \A k \in ks : end <= k
    BY <2>3, <2>4, MinIsLeast
  <2> QED
    BY <2>1, <2>5
<1>10. PICK f : f = from - o
  OBVIOUS
<1>11. /\ c.preface = (c.kind = "http") /\ 1 \in 1..n /\ b[1].is \notin {"flush", "delim"}
       /\ first = o + 1 /\ from = o + f /\ (f = 1 \/ (f = 2 /\ b[1].is = "version"))
       /\ f = Start(b)
  <2>1. CASE c.kind = "http" /\ ~c.preface
    <3>1. o = 0 /\ w = n /\ w >= 2
      <4>1. o = 0 /\ w = o + n
        BY <1>2, <1>3, <2>1
      <4>2. w >= 2
        BY <1>8, <2>1
      <4> QED
        BY <1>2, <4>1, <4>2
    <3>2. 1 \in 1..n /\ 0 + 1 = 1
      BY <1>2, <3>1
    <3>3. st[1] = b[1] /\ b[1] \in Packets
      BY <1>2, <1>3, <3>1, <3>2
    <3> QED
      BY <1>4, <1>8, <2>1, <3>3
  <2>2. CASE c.kind # "http" /\ c.preface
    <3>1. from = 1 /\ w = n + 2
      BY <1>2, <1>3, <1>5, <2>2
    <3>2. 1 \in from..w /\ 2 \in from..w
      BY <1>2, <3>1
    <3>3. end \in {1, 2}
      BY <1>2, <1>3, <1>9, <2>2, <3>1, <3>2
    <3>4. end = 2
      BY <1>3, <1>9, <2>2, <3>3
    <3>5. lines = SubSeq(st, 1, 1)
      BY <1>5, <3>1, <3>4
    <3>6. Len(lines) = 1 /\ lines[1] = st[1] /\ DOMAIN lines = {1}
      <4>1. \A i \in 1..1 : st[i] \in {st[1]}
        OBVIOUS
      <4>2. /\ SubSeq(st, 1, 1) \in Seq({st[1]})
            /\ Len(SubSeq(st, 1, 1)) = 1
            /\ SubSeq(st, 1, 1)[1] = st[1]
        BY <4>1, SubSeqProperties
      <4>3. DOMAIN SubSeq(st, 1, 1) = 1..1
        BY <4>2, LenProperties
      <4>4. 1..1 = {1}
        OBVIOUS
      <4> QED
        BY <3>5, <4>2, <4>3, <4>4
    <3>7. lines # <<>>
      <4> SUFFICES ASSUME lines = <<>>
                   PROVE  FALSE
        OBVIOUS
      <4>1. DOMAIN <<>> = {}
        OBVIOUS
      <4> QED
        BY <3>6, <4>1
    <3> QED
      BY <1>3, <1>8, <2>2, <3>6, <3>7 DEF IsLine
  <2>3. CASE (c.kind = "http" /\ c.preface) \/ (c.kind # "http" /\ ~c.preface)
    <3>1. first = o + 1
      BY <1>2, <1>5, <2>3
    <3>2. 1 \in 1..n
      <4>1. first <= w
        BY <1>8
      <4>2. o \in Nat /\ w = o + n /\ o + 1 <= w
        BY <1>2, <1>3, <3>1, <4>1
      <4> QED
        BY <1>2, <4>2
    <3>3. st[first] = b[1]
      BY <1>3, <3>1, <3>2
    <3>4. \/ from = o + 1 /\ b[1].is # "version"
          \/ from = o + 2 /\ b[1].is = "version"
      <4>1. from = IF b[1].is = "version" THEN first + 1 ELSE first
        BY <1>5, <1>8, <3>3
      <4>2. o \in Nat /\ first = o + 1 /\ first + 1 = o + 2
        BY <1>2, <3>1
      <4> QED
        BY <4>1, <4>2
    <3>5. /\ from = o + f
          /\ (f = 1 /\ b[1].is # "version") \/ (f = 2 /\ b[1].is = "version")
      <4>1. o \in Nat
        BY <1>2
      <4>2. from = o + 1 => f = 1 /\ from = o + f
        BY <1>10, <4>1
      <4>3. from = o + 2 => f = 2 /\ from = o + f
        BY <1>10, <4>1
      <4> QED
        BY <3>4, <4>2, <4>3
    <3>6. c.preface = (c.kind = "http")
      BY <2>3
    <3> QED
      BY <1>8, <3>1, <3>2, <3>3, <3>5, <3>6 DEF Start
  <2> QED
    BY <2>1, <2>2, <2>3
<1>12. PICK e : e = end - o
  OBVIOUS
<1> DEFINE Where == o \in Nat /\ f \in 1..2 /\ e \in f..n /\ from = o + f /\ end = o + e
<1>13. Where
  <2>1. o \in Nat /\ f \in 1..2 /\ from = o + f
    BY <1>2, <1>11
  <2>2. end \in Nat /\ end = o + e /\ e \in f..n
    BY <1>2, <1>3, <1>9, <1>12, <2>1
  <2> QED
    BY <2>1, <2>2
<1>14. /\ e \in 1..n /\ b[e].is = "flush"
        /\ \A k \in 1..n : b[k].is = "flush" => e <= k
  <2>1. e \in 1..n
    BY <1>2, <1>13
  <2>2. b[e].is = "flush"
    BY <1>3, <1>9, <1>13, <2>1
  <2>3. ASSUME NEW k \in 1..n, b[k].is = "flush"
        PROVE  e <= k
    <3>1. k # 1 /\ (f = 2 => k >= 2)
      BY <1>11, <2>3
    <3>2. o + k \in from..w
      BY <1>2, <1>3, <1>13, <3>1
    <3>3. end <= o + k
      BY <1>3, <1>9, <2>3, <3>2
    <3> QED
      BY <1>2, <1>13, <3>3
  <2> QED
    BY <2>1, <2>2, <2>3
<1>15. /\ Flushes(b) # {}
       /\ Listed(c) = {k \in f..(e - 1) : k = f => b[k].is # "no refs"}
  <2>1. e \in Flushes(b) /\ \A k \in Flushes(b) : k \in 1..n /\ e <= k
    BY <1>2, <1>13, <1>14 DEF Flushes
  <2>2. ASSUME NEW k \in 1..n
        PROVE  (\A g \in Flushes(b) : k < g) <=> k < e
    BY <1>2, <1>13, <1>14, <2>1
  <2>3. Listed(c) = {k \in 1..n : f <= k /\ k < e /\ (k = f => b[k].is # "no refs")}
    BY <1>1, <1>2, <1>11, <2>2 DEF Listed, Smart
  <2>4. \A k \in 1..n : f <= k /\ k < e <=> k \in f..(e - 1)
    BY <1>2, <1>13, <1>14
  <2>5. \A k \in f..(e - 1) : k \in 1..n
    BY <1>2, <1>13, <1>14
  <2> QED
    BY <2>1, <2>3, <2>4, <2>5
<1>16. /\ Len(lines) = e - f /\ e - f \in Nat /\ DOMAIN lines = 1..(e - f)
       /\ \A i \in 1..(e - f) : lines[i] = b[f + i - 1] /\ lines[i] \in Packets
  <2>1. /\ from \in Int /\ end - 1 \in Int /\ (end - 1) - from + 1 = e - f /\ e - f \in Nat
        /\ from <= end - 1 \/ e - f = 0
    BY <1>2, <1>13
  <2>2. \A k \in from..(end - 1) : st[k] \in Packets
    <3> TAKE k \in from..(end - 1)
    <3>1. k - o \in 1..n /\ k = o + (k - o)
      BY <1>11, <1>12, <1>2, <1>13, <1>14
    <3> QED
      BY <1>2, <1>3, <3>1
  <2>3. /\ SubSeq(st, from, end - 1) \in Seq(Packets)
        /\ Len(SubSeq(st, from, end - 1)) = (IF from <= end - 1 THEN (end - 1) - from + 1 ELSE 0)
        /\ \A i \in 1..((end - 1) - from + 1) : SubSeq(st, from, end - 1)[i] = st[from + i - 1]
    BY <2>1, <2>2, SubSeqProperties
  <2>4. /\ lines \in Seq(Packets) /\ Len(lines) = e - f
        /\ \A i \in 1..(e - f) : lines[i] = st[from + i - 1]
    BY <1>5, <2>1, <2>3
  <2>5. \A i \in 1..(e - f) : f + i - 1 \in 1..n /\ from + i - 1 = o + (f + i - 1)
    BY <1>11, <1>2, <1>13, <1>14
  <2>6. \A i \in 1..(e - f) : lines[i] = b[f + i - 1]
    BY <1>3, <2>4, <2>5
  <2>7. DOMAIN lines = 1..(e - f)
    BY <2>4, LenProperties
  <2> QED
    BY <1>2, <2>1, <2>4, <2>5, <2>6, <2>7
<1>17. /\ \A k : Line(c, k) = LineRead(b[k], k = f)
       /\ \A j, k : Replaces(c, j, k) <=> j = k + 1 /\ Line(c, j).peeled
  BY <1>1, <1>11 DEF Replaces, Line, Smart
<1>18. CASE lines = <<>> \/ (Len(lines) = 1 /\ lines[1].is = "no refs")
  <2>1. ReadOf(c) = Returns(<<>>)
    BY <1>6, <1>7, <1>18
  <2>2. ReadOf(c).value = <<>> /\ DOMAIN <<>> = {}
    BY <2>1 DEF Returns
  <2>3. ASSUME lines = <<>>
        PROVE  Listed(c) = {}
    <3>1. e - f = 0
      <4>1. Len(<<>>) = 0
        OBVIOUS
      <4> QED
        BY <1>16, <2>3, <4>1
    <3>2. f..(e - 1) = {}
      BY <1>13, <3>1
    <3> QED
      BY <1>15, <3>2
  <2>4. ASSUME Len(lines) = 1 /\ lines[1].is = "no refs"
        PROVE  Listed(c) = {}
    <3>1. e - f = 1
      BY <1>16, <2>4
    <3>2. 1 \in 1..(e - f) /\ f + 1 - 1 = f /\ \A k \in f..(e - 1) : k = f
      BY <1>2, <1>13, <3>1
    <3>3. b[f].is = "no refs"
      BY <1>16, <2>4, <3>2
    <3> QED
      BY <1>15, <3>2, <3>3
  <2>5. Listed(c) = {}
    BY <1>18, <2>3, <2>4
  <2> QED
    BY <1>1, <1>11, <1>15, <2>2, <2>5 DEF AllListed
<1>19. CASE ~(lines = <<>> \/ (Len(lines) = 1 /\ lines[1].is = "no refs"))
  <2>1. PICK m, read :
          /\ m = e - f
          /\ read = [i \in 1..m |-> LineRead(lines[i], i = 1)]
    OBVIOUS
  <2>2. ReadOf(c) = RefsOf(read) /\ RefsOf(read) # Raises /\ IsLine(lines[1])
    BY <1>6, <1>7, <1>16, <1>19, <2>1
  <2>3. PICK R, O : R = {read[i].ref : i \in 1..m} /\ O = {read[i].obj : i \in 1..m}
    OBVIOUS
  <2>4. m \in Nat /\ read \in Seq(Lines(R, O)) /\ Len(read) = m
    <3>1. m \in Nat
      BY <1>16, <2>1
    <3>2. ASSUME NEW i \in 1..m
          PROVE  read[i] \in Lines(R, O)
      <4>1. read[i] = LineRead(lines[i], i = 1)
        BY <2>1
      <4>2. read[i].ref \in R /\ read[i].obj \in O
        BY <2>3
      <4>3. /\ read[i] = [ref |-> read[i].ref, obj |-> read[i].obj, peeled |-> read[i].peeled]
            /\ read[i].peeled \in BOOLEAN
        BY <4>1 DEF LineRead
      <4> QED
        BY <4>2, <4>3 DEF Lines
    <3>3. read = [i \in 1..m |-> read[i]]
      BY <2>1
    <3>4. read \in Seq(Lines(R, O))
      BY <3>1, <3>2, <3>3, IsASeq
    <3>5. DOMAIN read = 1..m
      BY <2>1
    <3> QED
      BY <3>1, <3>4, <3>5, LenProperties
  <2>5. PICK g : /\ RefsOf(read) = Returns(g)
                 /\ DOMAIN g = {read[j].ref : j \in 1..m}
                 /\ \A j \in 1..m :
                      g[read[j].ref] = read[j].obj \/ (j + 1 \in 1..m /\ read[j + 1].peeled)
    BY <2>2, <2>4, RefsOfAllLines
  <2>6. ReadOf(c).value = g
    BY <2>2, <2>5 DEF Returns
  <2>7. /\ \A k \in f..(e - 1) : k - f + 1 \in 1..m /\ f + (k - f + 1) - 1 = k
        /\ \A i \in 1..m : f + i - 1 \in f..(e - 1) /\ (i = 1 <=> f + i - 1 = f)
    BY <1>2, <1>13, <1>14, <2>1
  <2>8. \A i \in 1..m : Line(c, f + i - 1) = read[i]
    <3> TAKE i \in 1..m
    <3>1. lines[i] = b[f + i - 1]
      BY <1>16, <2>1
    <3>2. (i = 1) = (f + i - 1 = f)
      BY <2>7
    <3>3. Line(c, f + i - 1) = LineRead(b[f + i - 1], f + i - 1 = f)
      BY <1>17
    <3> QED
      BY <2>1, <3>1, <3>2, <3>3
  <2>9. Listed(c) = f..(e - 1)
    <3>1. CASE m = 0
      <4>1. f..(e - 1) = {}
        BY <1>13, <2>1, <3>1
      <4> QED
        BY <1>15, <4>1
    <3>2. CASE m # 0
      <4>1. 1 \in 1..(e - f) /\ f + 1 - 1 = f
        BY <1>13, <2>1, <2>4, <3>2
      <4>2. b[f].is = "line"
        BY <1>16, <2>2, <4>1 DEF IsLine
      <4> QED
        BY <1>15, <4>2
    <3> QED
      BY <3>1, <3>2
  <2>10. DOMAIN g = {Line(c, k).ref : k \in f..(e - 1)}
    <3>1. \A j \in 1..m : \E k \in f..(e - 1) : Line(c, k) = read[j]
      BY <2>7, <2>8
    <3>2. \A k \in f..(e - 1) : \E j \in 1..m : Line(c, k) = read[j]
      <4> TAKE k \in f..(e - 1)
      <4>1. k - f + 1 \in 1..m /\ f + (k - f + 1) - 1 = k
        BY <2>7
      <4>2. Line(c, f + (k - f + 1) - 1) = read[k - f + 1]
        BY <2>8, <4>1
      <4> QED
        BY <4>1, <4>2
    <3> QED
      BY <2>5, <3>1, <3>2
  <2>11. ASSUME NEW k \in f..(e - 1)
         PROVE  \/ g[Line(c, k).ref] = Line(c, k).obj
                \/ \E j \in f..(e - 1) : j = k + 1 /\ Line(c, j).peeled
    <3>1. PICK i \in 1..m : i = k - f + 1 /\ f + i - 1 = k
      BY <2>7
    <3>2. Line(c, k) = read[i]
      BY <2>8, <3>1
    <3>3. CASE g[read[i].ref] = read[i].obj
      BY <3>2, <3>3
    <3>4. CASE i + 1 \in 1..m /\ read[i + 1].peeled
      <4>1. f + (i + 1) - 1 = k + 1
        BY <1>13, <3>1
      <4>2. k + 1 \in f..(e - 1)
        BY <2>7, <3>4, <4>1
      <4>3. Line(c, k + 1) = read[i + 1]
        <5>1. Line(c, f + (i + 1) - 1) = read[i + 1]
          BY <2>8, <3>4
        <5> QED
          BY <4>1, <5>1
      <4> QED
        BY <3>4, <4>2, <4>3
    <3> QED
      BY <2>5, <3>3, <3>4
  <2>12. \A k \in Listed(c) :
          g[Line(c, k).ref] = Line(c, k).obj \/ \E j \in Listed(c) : Replaces(c, j, k)
    BY <1>17, <2>9, <2>11
  <2>13. AllListed(c, ReadOf(c).value)
    BY <2>6, <2>9, <2>10, <2>12 DEF AllListed
  <2> QED
    BY <1>1, <1>11, <1>15, <2>13
<1> QED
  BY <1>18, <1>19

-----------------------------------------------------------------------------
(***************************************************************************)
(* The newest of the names listed.                                         *)
(***************************************************************************)

\* What a loop keeps are the elements that it is to keep.
LEMMA SelectedAreMembers ==
    ASSUME NEW S, NEW s \in Seq(S), NEW T
    PROVE  Selected(s, T) \in Seq(S) /\ Range(Selected(s, T)) = Range(s) \cap T
<1> DEFINE m == Len(s)
           Turn(v, e) == IF e \in T THEN Append(v, e) ELSE v
           Body(kept) == [k \in 0..m |-> IF k = 0 THEN <<>> ELSE Turn(kept[k - 1], s[k])]
           step == [p \in (1..m) \X Seq(S) |-> Turn(p[2], s[p[1]])]
<1>1. m \in Nat /\ DOMAIN s = 1..m /\ \A k \in 1..m : s[k] \in S
  BY LenProperties, ElementOfSeq
<1>2. PICK f : f \in Loops(Seq(S), <<>>, m, step)
  <2>1. \A v \in Seq(S), e \in S : Append(v, e) \in Seq(S)
    BY AppendProperties
  <2>2. step \in [(1..m) \X Seq(S) -> Seq(S)]
    BY <1>1, <2>1
  <2>3. <<>> \in Seq(S)
    BY EmptySeq
  <2> HIDE DEF step, m
  <2> QED
    BY <1>1, <2>2, <2>3, LoopHasResults
<1>3. f = Body(f)
  <2>1. ASSUME NEW n \in 1..m
        PROVE  f[n] = Turn(f[n - 1], s[n])
    <3> HIDE DEF Turn
    <3>1. n - 1 \in 0..m
      BY <1>1
    <3>2. f[n] = step[<<n, f[n - 1]>>] /\ f[n - 1] \in Seq(S)
      BY <1>2, <3>1 DEF Loops
    <3> QED
      BY <3>2
  <2> HIDE DEF Turn
  <2> QED
    BY <1>2, <2>1 DEF Loops
<1> DEFINE g == CHOOSE kept : kept = Body(kept)
<1>4. g = Body(g)
  BY <1>3
<1> DEFINE Kept(i) == {s[k] : k \in 1..i} \cap T
<1>5. g[m] \in Seq(S) /\ Range(g[m]) = Kept(m)
  <2> DEFINE U == {i \in Nat : i <= m => g[i] \in Seq(S) /\ Range(g[i]) = Kept(i)}
  <2> HIDE DEF g
  <2>1. 0 \in U
    <3>1. g[0] = <<>>
      BY <1>1, <1>4
    <3>2. <<>> \in Seq(S) /\ Range(<<>>) = {} /\ Kept(0) = {}
      BY EmptySeq DEF Range
    <3> QED
      BY <3>1, <3>2
  <2>2. ASSUME NEW i \in Nat, i \in U
        PROVE  i + 1 \in U
    <3> SUFFICES ASSUME i + 1 <= m
                 PROVE  g[i + 1] \in Seq(S) /\ Range(g[i + 1]) = Kept(i + 1)
      OBVIOUS
    <3>1. i + 1 \in 0..m /\ i + 1 \in 1..m /\ i <= m /\ i + 1 # 0 /\ (i + 1) - 1 = i
      BY <1>1
    <3>2. PICK v, e : v = g[i] /\ e = s[i + 1]
      OBVIOUS
    <3>3. v \in Seq(S) /\ Range(v) = Kept(i) /\ e \in S
      BY <1>1, <2>2, <3>1, <3>2
    <3>4. g[i + 1] = IF e \in T THEN Append(v, e) ELSE v
      BY <1>4, <3>1, <3>2
    <3>5. Kept(i + 1) = Kept(i) \cup ({e} \cap T)
      <4>1. 1..(i + 1) = 1..i \cup {i + 1}
        OBVIOUS
      <4> QED
        BY <3>2, <4>1
    <3>6. Append(v, e) \in Seq(S) /\ Range(Append(v, e)) = Range(v) \cup {e}
      <4>1. PICK n : n = Len(v)
        OBVIOUS
      <4>2. n \in Nat /\ DOMAIN v = 1..n /\ 1..(n + 1) = 1..n \cup {n + 1}
        BY <3>3, <4>1, LenProperties
      <4>3. /\ Append(v, e) \in Seq(S) /\ Len(Append(v, e)) = n + 1
            /\ Append(v, e)[n + 1] = e /\ \A k \in 1..n : Append(v, e)[k] = v[k]
        BY <3>3, <4>1, AppendProperties
      <4>4. DOMAIN Append(v, e) = 1..n \cup {n + 1}
        BY <4>2, <4>3, LenProperties
      <4> QED
        BY <4>2, <4>3, <4>4 DEF Range
    <3> HIDE DEF Kept
    <3> QED
      BY <3>3, <3>4, <3>5, <3>6
  <2>3. Nat \subseteq U
    <3> HIDE DEF U
    <3> QED
      BY <2>1, <2>2, Induction
  <2>4. m \in U
    <3> HIDE DEF U
    <3> QED
      BY <1>1, <2>3
  <2>5. m <= m
    BY <1>1
  <2> HIDE DEF Kept
  <2> QED
    BY <2>4, <2>5
<1>6. Selected(s, T) = g[m]
  BY DEF Selected
<1>7. Kept(m) = Range(s) \cap T
  BY <1>1 DEF Range
<1> HIDE DEF g
<1> QED
  BY <1>5, <1>6, <1>7

\* What is left of a name without the prefix.
Unprefixed(n, prefix) == SubSeq(n, Len(prefix) + 1, Len(n))

\* The names with the prefix are compared without it, all of them.
LEMMA FilteredAreListed ==
    ASSUME NEW names \in Seq(Bytes), NEW prefix \in Bytes
    PROVE  /\ Filtered(names, prefix) \in Seq(Bytes)
           /\ Range(Filtered(names, prefix)) =
                {Unprefixed(n, prefix) : n \in {m \in Range(names) : IsPrefix(prefix, m)}}
<1> DEFINE T == {m \in Range(names) : IsPrefix(prefix, m)}
<1>1. PICK kept : kept = Selected(names, T)
  OBVIOUS
<1>2. kept \in Seq(Bytes) /\ Range(kept) = T
  BY <1>1, SelectedAreMembers
<1>3. PICK n : n = Len(kept)
  OBVIOUS
<1>4. n \in Nat /\ DOMAIN kept = 1..n /\ \A k \in 1..n : kept[k] \in Bytes
  BY <1>2, <1>3, LenProperties, ElementOfSeq
<1>5. Filtered(names, prefix) = [k \in 1..n |-> Unprefixed(kept[k], prefix)]
  BY <1>1, <1>4 DEF Filtered, Unprefixed
<1>6. ASSUME NEW x \in Bytes
      PROVE  Unprefixed(x, prefix) \in Bytes
  <2>1. PICK p, q : p = Len(prefix) + 1 /\ q = Len(x)
    OBVIOUS
  <2>2. p \in Nat \ {0} /\ q \in Nat
    BY <2>1, LenProperties DEF Bytes
  <2>3. \A k \in 1..q : x[k] \in 0..255
    BY <2>1, ElementOfSeq DEF Bytes
  <2>4. \A k \in p..q : x[k] \in 0..255
    BY <2>2, <2>3
  <2>5. SubSeq(x, p, q) \in Seq(0..255)
    BY <2>2, <2>4, SubSeqProperties
  <2> QED
    BY <2>1, <2>5 DEF Unprefixed, Bytes
<1>7. \A k \in 1..n : Unprefixed(kept[k], prefix) \in Bytes
  BY <1>4, <1>6
<1>8. Filtered(names, prefix) \in Seq(Bytes)
  BY <1>4, <1>5, <1>7, IsASeq
<1>9. Range(Filtered(names, prefix)) = {Unprefixed(x, prefix) : x \in Range(kept)}
  BY <1>4, <1>5 DEF Range
<1> QED
  BY <1>2, <1>8, <1>9

\* Of what svn lists, the names of the entries that it can show are chosen from.
LEMMA EntriesAreNames ==
    ASSUME NEW names \in Seq(Bytes \ {<<>>}), Prefix \in Bytes
    PROVE  /\ DavTags(Responses(names), <<>>) \in Seq(Bytes)
           /\ Range(DavTags(Responses(names), <<>>)) = Range(names)
<1> DEFINE R == [name : Bytes, status : {200, 404}]
           head == <<[name |-> <<>>, status |-> 200], [name |-> Append(Prefix, 57), status |-> 404]>>
           shown == [k \in DOMAIN names |-> [name |-> names[k], status |-> 200]]
<1>1. PICK n, all : n = Len(names) /\ all = Responses(names)
  OBVIOUS
<1>2. n \in Nat /\ DOMAIN names = 1..n /\ \A k \in 1..n : names[k] \in Bytes /\ names[k] # <<>>
  BY <1>1, LenProperties, ElementOfSeq
<1>3. /\ head \in Seq(R) /\ Len(head) = 2
      /\ head[1].name = <<>> /\ head[2].status = 404
  <2>1. <<>> \in Bytes /\ Append(Prefix, 57) \in Bytes
    BY EmptySeq, AppendProperties DEF Bytes
  <2> QED
    BY <2>1
<1>4. /\ shown \in Seq(R) /\ Len(shown) = n
      /\ \A k \in 1..n : shown[k].name = names[k] /\ shown[k].status = 200
  <2>1. \A k \in 1..n : [name |-> names[k], status |-> 200] \in R
    BY <1>2
  <2>2. shown = [k \in 1..n |-> [name |-> names[k], status |-> 200]]
    BY <1>2
  <2>3. shown \in Seq(R)
    <3> HIDE DEF R, shown
    <3> QED
      BY <1>2, <2>1, <2>2, IsASeq
  <2>4. Len(shown) = n
    <3> HIDE DEF R, shown
    <3>1. PICK p : p = Len(shown)
      OBVIOUS
    <3>2. 1..p = 1..n /\ p \in Nat
      BY <2>2, <2>3, <3>1, LenProperties
    <3>3. ~(p < n) /\ ~(n < p)
      <4>1. p + 1 \notin 1..p /\ n + 1 \notin 1..n
        BY <1>2, <3>2
      <4>2. p < n => p + 1 \in 1..n
        BY <1>2, <3>2
      <4>3. n < p => n + 1 \in 1..p
        BY <1>2, <3>2
      <4> QED
        BY <3>2, <4>1, <4>2, <4>3
    <3> QED
      BY <1>2, <3>1, <3>2, <3>3
  <2> QED
    BY <2>2, <2>3, <2>4
<1>5. all = head \o shown
  BY <1>1 DEF Responses
<1> HIDE DEF R, head, shown
<1>6. /\ all \in Seq(R) /\ DOMAIN all = 1..(2 + n)
      /\ \A k \in 1..(2 + n) : all[k] = IF k <= 2 THEN head[k] ELSE shown[k - 2]
  <2>1. /\ head \o shown \in Seq(R)
        /\ Len(head \o shown) = Len(head) + Len(shown)
        /\ \A k \in 1..(Len(head) + Len(shown)) :
              (head \o shown)[k] = IF k <= Len(head) THEN head[k] ELSE shown[k - Len(head)]
    <3>1. head \in Seq(R) /\ shown \in Seq(R)
      BY <1>3, <1>4
    <3> QED
      BY <3>1, ConcatProperties
  <2>2. /\ all \in Seq(R) /\ Len(all) = 2 + n
        /\ \A k \in 1..(2 + n) : all[k] = IF k <= 2 THEN head[k] ELSE shown[k - 2]
    BY <1>3, <1>4, <1>5, <2>1
  <2> QED
    BY <2>2, LenProperties
<1> DEFINE T == {r \in Range(all) : r.status = 200 /\ r.name # <<>>}
<1>7. PICK found : found = Selected(all, T)
  OBVIOUS
<1>8. found \in Seq(R) /\ Range(found) = T
  BY <1>6, <1>7, SelectedAreMembers
<1>9. PICK m : m = Len(found)
  OBVIOUS
<1>10. m \in Nat /\ DOMAIN found = 1..m /\ \A k \in 1..m : found[k] \in R
  BY <1>8, <1>9, LenProperties, ElementOfSeq
<1>11. DavTags(all, <<>>) = [k \in 1..m |-> found[k].name]
  BY <1>7, <1>10 DEF DavTags
<1>12. DavTags(all, <<>>) \in Seq(Bytes)
  <2>1. \A k \in 1..m : found[k].name \in Bytes
    BY <1>10 DEF R
  <2> QED
    BY <1>10, <1>11, <2>1, IsASeq
<1>13. Range(DavTags(all, <<>>)) = {r.name : r \in T}
  <2> HIDE DEF T
  <2>1. Range(DavTags(all, <<>>)) = {found[k].name : k \in 1..m}
    BY <1>11 DEF Range
  <2>2. T = {found[k] : k \in 1..m}
    BY <1>8, <1>10 DEF Range
  <2> QED
    BY <2>1, <2>2
<1>14. {r.name : r \in T} = Range(names)
  <2>1. ASSUME NEW k \in 1..n
        PROVE  names[k] \in {r.name : r \in T}
    <3>1. 2 + k \in 1..(2 + n) /\ ~(2 + k <= 2) /\ (2 + k) - 2 = k
      BY <1>2
    <3>2. all[2 + k] = shown[k]
      <4>1. all[2 + k] = shown[(2 + k) - 2]
        BY <1>6, <3>1
      <4> QED
        BY <3>1, <4>1
    <3>3. shown[k] \in Range(all)
      BY <1>6, <3>1, <3>2 DEF Range
    <3> QED
      BY <1>2, <1>4, <3>3
  <2>2. ASSUME NEW r \in T
        PROVE  \E k \in 1..n : names[k] = r.name
    <3>1. PICK k \in 1..(2 + n) : r = all[k]
      BY <1>6 DEF Range
    <3>2. CASE k <= 2
      <4>1. k \in {1, 2}
        BY <1>2, <3>2
      <4>2. r = head[1] \/ r = head[2]
        BY <1>6, <3>1, <3>2, <4>1
      <4> QED
        BY <1>3, <4>2
    <3>3. CASE ~(k <= 2)
      <4>1. k - 2 \in 1..n /\ r = shown[k - 2]
        BY <1>2, <1>6, <3>1, <3>3
      <4> QED
        BY <1>4, <4>1
    <3> QED
      BY <3>2, <3>3
  <2> HIDE DEF T
  <2> QED
    BY <1>2, <2>1, <2>2 DEF Range
<1> QED
  BY <1>1, <1>12, <1>13, <1>14

\* No list is so long that each version comes before another one.
LEMMA SomeVersionIsLast ==
    ASSUME NEW v \in Seq(Bytes), v # <<>>
    PROVE  \E i \in DOMAIN v : \A j \in DOMAIN v : ~Precedes(v[i], v[j])
<1>1. PICK n : n = Len(v)
  OBVIOUS
<1>2. n \in Nat \ {0} /\ DOMAIN v = 1..n /\ \A k \in 1..n : v[k] \in Bytes
  BY <1>1, LenProperties, EmptySeq, ElementOfSeq
<1> DEFINE T == {k \in Nat : 0 < k /\ k <= n => \E i \in 1..k : \A j \in 1..k : ~Precedes(v[i], v[j])}
<1>3. 0 \in T
  OBVIOUS
<1>4. ASSUME NEW k \in Nat, k \in T
      PROVE  k + 1 \in T
  <2> SUFFICES ASSUME k + 1 <= n
               PROVE  \E i \in 1..(k + 1) : \A j \in 1..(k + 1) : ~Precedes(v[i], v[j])
    OBVIOUS
  <2>1. 1..(k + 1) = 1..k \cup {k + 1} /\ 1..(k + 1) \subseteq 1..n
    BY <1>2
  <2>2. \A i \in 1..(k + 1) : v[i] \in Bytes
    BY <1>2, <2>1
  <2>3. ~Precedes(v[k + 1], v[k + 1])
    BY <2>1, <2>2, PrecedesIsAnOrder
  <2>4. CASE k = 0
    <3>1. 1..(k + 1) = {k + 1}
      BY <2>4
    <3> QED
      BY <2>3, <3>1
  <2>5. CASE k # 0
    <3>1. PICK i \in 1..k : \A j \in 1..k : ~Precedes(v[i], v[j])
      BY <1>2, <1>4, <2>5
    <3>2. CASE Precedes(v[i], v[k + 1])
      <4>1. \A j \in 1..k : ~Precedes(v[k + 1], v[j])
        BY <2>1, <2>2, <3>1, <3>2, PrecedesIsAnOrder
      <4> QED
        BY <2>1, <2>3, <4>1
    <3>3. CASE ~Precedes(v[i], v[k + 1])
      BY <2>1, <3>1, <3>3
    <3> QED
      BY <3>2, <3>3
  <2> QED
    BY <2>4, <2>5
<1>5. Nat \subseteq T
  <2> HIDE DEF T
  <2> QED
    BY <1>3, <1>4, Induction
<1>6. n \in T
  BY <1>2, <1>5
<1> QED
  BY <1>2, <1>6

\* Of versions that the order tells apart the first after the sort is the newest.
LEMMA LatestIsNewest ==
    ASSUME NEW v \in Seq(Bytes), v # <<>>, \A s, o \in Range(v) : s # o => ~Alike(s, o)
    PROVE  /\ ~SortRaises(v)
           /\ LatestIndex(v) \in DOMAIN v
           /\ \A o \in Range(v) : ~Precedes(v[LatestIndex(v)], o)
<1>1. PICK n : n = Len(v)
  OBVIOUS
<1>2. n \in Nat \ {0} /\ DOMAIN v = 1..n /\ \A k \in 1..n : v[k] \in Bytes /\ v[k] \in Range(v)
  BY <1>1, LenProperties, EmptySeq, ElementOfSeq DEF Range
<1>3. ASSUME NEW s \in Range(v), NEW o \in Range(v)
      PROVE  Less(s, o) = IF Precedes(s, o) THEN "less" ELSE "not"
  <2>1. s \in Bytes /\ o \in Bytes
    BY <1>2 DEF Range
  <2>2. CASE s = o
    <3>1. Less(s, o) = "not"
      BY <2>2 DEF Less
    <3> QED
      BY <2>1, <2>2, <3>1, PrecedesIsAnOrder
  <2>3. CASE s # o
    <3>1. ~NumberAfter(s, o)
      BY <2>3 DEF Alike
    <3> QED
      BY <2>1, <3>1, LessIsDebian
  <2> QED
    BY <2>2, <2>3
<1>4. ~SortRaises(v)
  <2> SUFFICES ASSUME n = 2
               PROVE  Less(v[1], v[2]) # "raises"
    BY <1>1 DEF SortRaises
  <2>1. v[1] \in Range(v) /\ v[2] \in Range(v)
    BY <1>2
  <2> QED
    BY <1>3, <2>1
<1>5. PICK T : T = {i \in DOMAIN v : \A j \in DOMAIN v : Less(v[i], v[j]) # "less"}
  OBVIOUS
<1>6. \A i, j \in 1..n : Less(v[i], v[j]) # "less" <=> ~Precedes(v[i], v[j])
  BY <1>2, <1>3
<1>7. T = {i \in 1..n : \A j \in 1..n : ~Precedes(v[i], v[j])}
  BY <1>2, <1>5, <1>6
<1>8. T # {} /\ T \in SUBSET Nat
  BY <1>2, <1>7, SomeVersionIsLast
<1>9. LatestIndex(v) = Min(T)
  BY <1>5 DEF LatestIndex
<1>10. LatestIndex(v) \in T
  BY <1>8, <1>9, MinIsLeast
<1> QED
  BY <1>2, <1>4, <1>7, <1>10 DEF Range

\* An empty list has no members.
LEMMA EmptyHasNoMembers == Range(<<>>) = {}
<1>1. DOMAIN <<>> = {}
  OBVIOUS
<1> QED
  BY <1>1 DEF Range

\* The answer for a version of which these are listed.
NoneIsNewer(version, listed) ==
    listed # {} => version \in listed /\ \A o \in listed : ~Precedes(version, o)
Recognised(c, checker, version, listed) ==
    \/ c.raises /\ checker # "git tag" /\ version \notin listed
    \/ ~c.raises /\ c.value.equal = NoneIsNewer(version, listed)

\* What a checker chooses depends on the names listed alone, in whatever order.
LEMMA ChosenIsNewest ==
    ASSUME NEW checker \in {"git tag", "hg tag", "svn tag"}, NEW version, NEW names \in Seq(Bytes),
           NEW prefix \in Bytes, NEW listed,
           listed = {Unprefixed(n, prefix) : n \in {m \in Range(names) : IsPrefix(prefix, m)}},
           \A s, o \in listed : s # o => ~Alike(s, o)
    PROVE  Recognised(Chosen(checker, version, names, prefix), checker, version, listed)
<1>1. PICK v : v = Filtered(names, prefix)
  OBVIOUS
<1>2. v \in Seq(Bytes) /\ Range(v) = listed
  BY <1>1, FilteredAreListed
<1>3. PICK c : c = Chosen(checker, version, names, prefix)
  OBVIOUS
<1>4. CASE v = <<>>
  <2>1. c = Returns([equal |-> TRUE])
    BY <1>1, <1>3, <1>4 DEF Chosen
  <2>3. listed = {}
    BY <1>2, <1>4, EmptyHasNoMembers
  <2>4. NoneIsNewer(version, listed)
    BY <2>3 DEF NoneIsNewer
  <2>5. ~c.raises /\ c.value.equal = TRUE
    BY <2>1 DEF Returns
  <2>6. c.value.equal = NoneIsNewer(version, listed)
    BY <2>4, <2>5 DEF NoneIsNewer
  <2> QED
    BY <1>3, <2>5, <2>6 DEF Recognised
<1>5. CASE v # <<>>
  <2>1. PICK k : k = LatestIndex(v)
    OBVIOUS
  <2>2. ~SortRaises(v) /\ k \in DOMAIN v /\ \A o \in listed : ~Precedes(v[k], o)
    BY <1>2, <1>5, <2>1, LatestIsNewest
  <2>3. v[k] \in listed
    BY <1>2, <2>2 DEF Range
  <2>4. c = IF version \notin listed THEN Unlisted(checker) ELSE Returns([equal |-> v[k] = version])
    BY <1>1, <1>2, <1>3, <1>5, <2>1, <2>2 DEF Chosen
  <2>5. CASE version \notin listed
    <3>1. CASE checker = "git tag"
      <4>1. c = Returns([equal |-> FALSE])
        BY <2>4, <2>5, <3>1 DEF Unlisted
      <4>2. ~c.raises /\ c.value.equal = FALSE
        BY <4>1 DEF Returns
      <4>3. ~NoneIsNewer(version, listed)
        BY <2>3, <2>5 DEF NoneIsNewer
      <4>4. c.value.equal = NoneIsNewer(version, listed)
        BY <4>2, <4>3 DEF NoneIsNewer
      <4> QED
        BY <1>3, <4>2, <4>4 DEF Recognised
    <3>2. CASE checker # "git tag"
      <4>1. c = Raises
        BY <2>4, <2>5, <3>2 DEF Unlisted
      <4>2. c.raises
        BY <4>1 DEF Raises
      <4> QED
        BY <1>3, <2>5, <3>2, <4>2 DEF Recognised
    <3> QED
      BY <3>1, <3>2
  <2>6. CASE version \in listed
    <3>1. (v[k] = version) = NoneIsNewer(version, listed)
      <4>1. v[k] = version => NoneIsNewer(version, listed)
        BY <2>2, <2>6 DEF NoneIsNewer
      <4>2. NoneIsNewer(version, listed) => v[k] = version
        <5>1. ASSUME NoneIsNewer(version, listed), v[k] # version
              PROVE  FALSE
          <6>1. ~Precedes(version, v[k]) /\ ~Precedes(v[k], version)
            BY <2>2, <2>3, <2>6, <5>1 DEF NoneIsNewer
          <6> QED
            BY <2>3, <2>6, <5>1, <6>1 DEF Alike
        <5> QED
          BY <5>1
      <4> QED
        BY <4>1, <4>2 DEF NoneIsNewer
    <3>2. c = Returns([equal |-> v[k] = version])
      BY <2>4, <2>6
    <3>3. ~c.raises /\ c.value.equal = (v[k] = version)
      BY <3>2 DEF Returns
    <3> QED
      BY <1>3, <3>1, <3>3 DEF Recognised
  <2> QED
    BY <2>5, <2>6
<1> QED
  BY <1>4, <1>5

-----------------------------------------------------------------------------
(***************************************************************************)
(* The calls.                                                              *)
(***************************************************************************)
Calls == Comparisons \cup Readings \cup TagChoices

\* What the call of each function answers.
Answer(c) ==
    CASE c.fn = "compare" -> Less(c.s, c.other)
      [] c.fn = "refs" -> ReadOf(c)
      [] c.fn = "tag" -> ChoiceOf(c)

AnswerIsOfCall == call \in Calls /\ (result = NotYet \/ result = Result(Answer(call)))

\* The inductive invariant: an answer is the one of its call.
LEMMA AnswersAreOfCalls == Spec => []AnswerIsOfCall
<1>1. Init => AnswerIsOfCall
  BY DEF Init, AnswerIsOfCall, Calls
<1>2. AnswerIsOfCall /\ [Next]_versionVars => AnswerIsOfCall'
  <2> SUFFICES ASSUME AnswerIsOfCall, [Next]_versionVars
               PROVE  AnswerIsOfCall'
    OBVIOUS
  <2>1. CASE Compare
    <3>1. call' = call /\ result' = Result(Answer(call))
      BY <2>1 DEF Compare, Calling, Answer
    <3> QED
      BY <3>1 DEF AnswerIsOfCall
  <2>2. CASE ReadRefs
    <3>1. call' = call /\ result' = Result(Answer(call))
      BY <2>2 DEF ReadRefs, Calling, Answer
    <3> QED
      BY <3>1 DEF AnswerIsOfCall
  <2>3. CASE ChooseTag
    <3>1. call' = call /\ result' = Result(Answer(call))
      BY <2>3 DEF ChooseTag, Calling, Answer
    <3> QED
      BY <3>1 DEF AnswerIsOfCall
  <2>4. CASE UNCHANGED versionVars
    BY <2>4 DEF AnswerIsOfCall, versionVars
  <2> QED
    BY <2>1, <2>2, <2>3, <2>4 DEF Next
<1> QED
  BY <1>1, <1>2, PTL DEF Spec

\* An answered call has its own answer as its value.
LEMMA AnsweredCall ==
    ASSUME NEW fn, AnswerIsOfCall, Answered(fn)
    PROVE  call \in Calls /\ call.fn = fn /\ Value = Answer(call)
<1>1. NotYet.pending
  BY DEF NotYet
<1>2. result = Result(Answer(call))
  BY <1>1 DEF AnswerIsOfCall, Answered
<1>3. Value = Answer(call)
  BY <1>2 DEF Value, Result
<1> QED
  BY <1>3 DEF AnswerIsOfCall, Answered

\* Version.__lt__ compares any two versions as Debian does, byte by byte and number
\* by number, except where one goes on with a number when the other has ended.
THEOREM ComparesLikeDebian == Spec => []OrderIsDebian
<1>1. AnswerIsOfCall => OrderIsDebian
  <2> SUFFICES ASSUME AnswerIsOfCall, Answered("compare")
               PROVE  IF NumberAfter(call.s, call.other)
                      THEN Value = (IF Len(Compared(call.s, call.other))
                                         > Len(Compared(call.other, call.s))
                                    THEN "raises" ELSE "not")
                      ELSE Value = (IF Precedes(call.s, call.other) THEN "less" ELSE "not")
    BY DEF OrderIsDebian
  <2>1. call \in Calls /\ call.fn = "compare" /\ Value = Answer(call)
    BY AnsweredCall
  <2>2. call \in Comparisons
    BY <2>1 DEF Calls, Comparisons, Readings, TagChoices
  <2>3. call.s \in Bytes /\ call.other \in Bytes
    BY <2>2, VersionAssumption DEF Comparisons
  <2>4. Value = Less(call.s, call.other)
    BY <2>1 DEF Answer
  <2> QED
    BY <2>3, <2>4, LessIsDebian
<1> QED
  BY <1>1, AnswersAreOfCalls, PTL

\* Whatever a server lists, the refs of git and hg are all of it or none: a list that
\* was cut off is never taken for a shorter one, and each name has the object of the
\* line that counts, also where packets come in a place that the protocol does not
\* have them in.
THEOREM RefsAreRead == Spec => []RefsAreComplete
<1>1. AnswerIsOfCall => RefsAreComplete
  <2> SUFFICES ASSUME AnswerIsOfCall, Answered("refs"), ~Value.raises
               PROVE  /\ Smart(call) => Flushes(call.body) # {} /\ call.preface = (call.kind = "http")
                      /\ call.kind # "hg with newline" /\ (call.kind = "hg" => Listed(call) # {})
                      /\ AllListed(call, Value.value)
    BY DEF RefsAreComplete, AllListed
  <2>1. call \in Calls /\ call.fn = "refs" /\ Value = Answer(call)
    BY AnsweredCall
  <2>2. call \in Readings
    BY <2>1 DEF Calls, Comparisons, Readings, TagChoices
  <2>3. Value = ReadOf(call)
    BY <2>1 DEF Answer
  <2>4. CASE call.kind \in {"git", "http"}
    <3>1. call.preface \in BOOLEAN /\ call.body \in Seq(Packets)
      BY <2>2, <2>4, VersionAssumption DEF Readings
    <3>2. ~ReadOf(call).raises
      BY <2>3
    <3>3. /\ Flushes(call.body) # {} /\ call.preface = (call.kind = "http")
          /\ AllListed(call, ReadOf(call).value)
      BY <2>4, <3>1, <3>2, SmartRefsAreComplete
    <3>4. call.kind # "hg with newline" /\ call.kind # "hg"
      BY <2>4
    <3> QED
      BY <2>3, <3>3, <3>4
  <2>5. CASE call.kind \notin {"git", "http"}
    <3>1. call.kind \in {"dumb", "hg", "hg with newline"} /\ call.preface = FALSE
          /\ call.body \in Seq(FileLines)
      BY <2>2, <2>5, VersionAssumption DEF Readings, Unpeeled
    <3>2. ~Smart(call) /\ ~ReadOf(call).raises
      BY <2>3, <2>5 DEF Smart
    <3>3. CASE call.kind = "dumb"
      BY <2>3, <3>1, <3>2, <3>3, DumbRefsAreComplete
    <3>4. CASE call.kind = "hg"
      BY <2>3, <3>1, <3>2, <3>4, HgTagsAreComplete
    <3>5. call.kind # "hg with newline"
      <4> SUFFICES ASSUME call.kind = "hg with newline"
                   PROVE  FALSE
        OBVIOUS
      <4>1. Value = Raises
        BY <2>3, <3>2 DEF ReadOf, HgTags
      <4> QED
        BY <4>1 DEF Raises
    <3> QED
      BY <3>1, <3>3, <3>4, <3>5
  <2> QED
    BY <2>4, <2>5
<1> QED
  BY <1>1, AnswersAreOfCalls, PTL

\* A version passes for the newest tag exactly if it is one of the newest, whatever
\* names the server lists, in whatever order.
THEOREM NewestIsRecognised == Spec => []EqualIsNewest
<1>1. AnswerIsOfCall => EqualIsNewest
  <2> SUFFICES ASSUME AnswerIsOfCall, Answered("tag"),
                      NEW listed,
                      listed = {SubSeq(n, Len(Prefix) + 1, Len(n)) :
                                  n \in {m \in Range(call.names) : IsPrefix(Prefix, m)}},
                      \A s, o \in listed : s # o => ~Alike(s, o)
               PROVE  Recognised(Value, call.checker, call.version, listed)
    BY DEF EqualIsNewest, Recognised, NoneIsNewer
  <2>1. call \in Calls /\ call.fn = "tag" /\ Value = Answer(call)
    BY AnsweredCall
  <2>2. call \in TagChoices
    BY <2>1 DEF Calls, Comparisons, Readings, TagChoices
  <2>3. call.names \in Seq(Bytes \ {<<>>}) /\ Prefix \in Bytes
    BY <2>2, VersionAssumption DEF TagChoices
  <2>4. call.checker \in {"git tag", "hg tag", "svn tag"}
    BY <2>2 DEF TagChoices
  <2>5. PICK names : names = IF call.checker = "svn tag" THEN DavTags(Responses(call.names), <<>>)
                             ELSE call.names
    OBVIOUS
  <2>6. names \in Seq(Bytes) /\ Range(names) = Range(call.names)
    <3>1. call.names \in Seq(Bytes)
      BY <2>3, SeqMonotonic
    <3> QED
      BY <2>3, <2>5, <3>1, EntriesAreNames
  <2>7. Value = Chosen(call.checker, call.version, names, Prefix)
    BY <2>1, <2>5 DEF Answer, ChoiceOf
  <2>8. listed = {Unprefixed(n, Prefix) : n \in {m \in Range(names) : IsPrefix(Prefix, m)}}
    BY <2>6 DEF Unprefixed
  <2> QED
    BY <2>3, <2>4, <2>6, <2>7, <2>8, ChosenIsNewest
<1> QED
  BY <1>1, AnswersAreOfCalls, PTL
=============================================================================
