------------------------------- MODULE Versioning -------------------------------
(***************************************************************************)
(* The order of versions (versioning.py): a version is parsed into         *)
(* strings and numbers in turn, which are compared one by one.  Strings    *)
(* are sequences of byte values.                                           *)
(***************************************************************************)
EXTENDS Integers, SequencesExt

Newline == 10
Dot == 46
Tilde == 126
IsDigit(c) == c \in 48..57
IsAlpha(c) == c \in 65..90 \cup 97..122

\* EXT_RE: extensions such as .tar.gz, which start with a letter or a tilde.
IsExtensions(s) ==
    /\ s # <<>> => s[1] = Dot
    /\ \A k \in DOMAIN s :
        IF s[k] = Dot THEN k < Len(s) /\ (IsAlpha(s[k + 1]) \/ s[k + 1] = Tilde)
        ELSE IsAlpha(s[k]) \/ IsDigit(s[k]) \/ s[k] = Tilde

\* Where the extensions end: $ matches before a newline at the end, too.
End(s) == IF s # <<>> /\ s[Len(s)] = Newline THEN Len(s) - 1 ELSE Len(s)

\* The rest is as many bytes shorter, also when it is not the end that was matched.
Suffix(s) ==
    LET from == Min({k \in 1..(End(s) + 1) : IsExtensions(SubSeq(s, k, End(s)))})
    IN SubSeq(s, from, End(s))
CompString(s) == SubSeq(s, 1, Len(s) - Len(Suffix(s)))

Number(digits) ==
    LET n[k \in 0..Len(digits)] == IF k = 0 THEN 0 ELSE 10 * n[k - 1] + (digits[k] - 48)
    IN n[Len(digits)]

\* __parse_components: strings at odd places, numbers at even ones.  Each byte goes
\* to the component that is being read, or to the next if it is of the other kind;
\* what is left of a string at the end is one only if it is not empty.
Components(s) ==
    LET place[k \in 0..Len(s)] ==
            IF k = 0 THEN 1
            ELSE IF IsDigit(s[k]) = (place[k - 1] % 2 = 0) THEN place[k - 1] ELSE place[k - 1] + 1
        run(j) == LET ks == {k \in DOMAIN s : place[k] = j}
                  IN IF ks = {} THEN <<>> ELSE SubSeq(s, Min(ks), Max(ks))
    IN [j \in 1..(IF s = <<>> THEN 0 ELSE place[Len(s)]) |-> IF j % 2 = 0 THEN Number(run(j)) ELSE run(j)]

\* parse: the flags, in the order in which __lt__ sorts them.
Flags == <<"empty", "current", "parent", "hidden", "none">>
Flag(s) ==
    IF s = <<>> THEN "empty" ELSE IF s = <<Dot>> THEN "current"
    ELSE IF s = <<Dot, Dot>> THEN "parent" ELSE IF s[1] = Dot THEN "hidden" ELSE "none"
Rank(s) == CHOOSE r \in DOMAIN Flags : Flags[r] = Flag(s)
Parsed(s) == IF Flag(s) = "hidden" THEN Tail(s) ELSE s

\* What two versions are compared by: the suffixes if the rest is the same.
Compared(s, other) ==
    IF CompString(Parsed(s)) = CompString(Parsed(other)) THEN Components(Suffix(Parsed(s)))
    ELSE Components(CompString(Parsed(s)))

\* Mutant: a tilde is a byte like any other.
StringLessNoTilde(s, o) ==
    LET at(t, k) == IF k \in DOMAIN t THEN t[k] ELSE 48
        k == Min({j \in 1..(Len(s) + Len(o)) : at(s, j) # at(o, j)})
        c == at(s, k)
        d == at(o, k)
    IN \/ IsDigit(c)
       \/ ~IsDigit(d) /\ IF IsAlpha(c) = IsAlpha(d) THEN c < d ELSE IsAlpha(c)

\* VersionString.__lt__ of two strings that differ: at the first difference, the
\* tilde comes first, then the end, then letters, then the rest.
StringLess(s, o) ==
    LET at(t, k) == IF k \in DOMAIN t THEN t[k] ELSE 48
        k == Min({j \in 1..(Len(s) + Len(o)) : at(s, j) # at(o, j)})
        c == at(s, k)
        d == at(o, k)
    IN \/ c = Tilde
       \/ d # Tilde /\ IsDigit(c)
       \/ d # Tilde /\ ~IsDigit(d) /\ IF IsAlpha(c) = IsAlpha(d) THEN c < d ELSE IsAlpha(c)

\* Where components differ; beyond the end of one version there is an empty string,
\* which is no number.
Component(c, k) == IF k \in DOMAIN c THEN c[k] ELSE <<>>
Differs(a, b, k) ==
    IF k % 2 = 0 /\ ~(k \in DOMAIN a /\ k \in DOMAIN b) THEN TRUE
    ELSE Component(a, k) # Component(b, k)
Differences(a, b) == {k \in 1..Max({Len(a), Len(b)}) : Differs(a, b, k)}

\* Version.__lt__: "less", "not" (False or None), or "raises" when a number is
\* compared with the empty string.
Less(s, other) ==
    LET a == Compared(s, other)
        b == Compared(other, s)
        k == Min(Differences(a, b))
    IN IF s = other \/ Rank(s) > Rank(other) THEN "not"
       ELSE IF Rank(s) < Rank(other) THEN "less"
       ELSE IF Differences(a, b) = {} THEN "not"
       ELSE IF k % 2 = 1 THEN (IF StringLess(Component(a, k), Component(b, k)) THEN "less" ELSE "not")
       ELSE IF k \notin DOMAIN a THEN "not" ELSE IF k \notin DOMAIN b THEN "raises"
       ELSE IF a[k] < b[k] THEN "less" ELSE "not"

-----------------------------------------------------------------------------
(***************************************************************************)
(* The order of Debian and coreutils, which the module is to implement: an  *)
(* integer at every place of every component, nought beyond their ends, in *)
(* the order of dictionaries.                                              *)
(***************************************************************************)
Weight(c) == IF c = Tilde THEN -1 ELSE IF IsAlpha(c) THEN c ELSE c + 256

\* A number is the same at all places.
KeyAt(c, k, j) ==
    IF k \notin DOMAIN c THEN 0
    ELSE IF k % 2 = 0 THEN c[k]
    ELSE IF j \in DOMAIN c[k] THEN Weight(c[k][j]) ELSE 0
Places(a, b, k) ==
    IF k % 2 = 0 THEN {1} ELSE DOMAIN Component(a, k) \cup DOMAIN Component(b, k)

KeyLess(a, b) ==
    \E k \in DOMAIN a \cup DOMAIN b : \E j \in Places(a, b, k) :
        /\ KeyAt(a, k, j) < KeyAt(b, k, j)
        /\ \A i \in 1..k : \A h \in Places(a, b, i) :
            i < k \/ h < j => KeyAt(a, i, h) = KeyAt(b, i, h)

Precedes(s, other) ==
    \/ Rank(s) < Rank(other)
    \/ /\ Rank(s) = Rank(other) /\ Flag(s) \in {"hidden", "none"}
       /\ KeyLess(Compared(s, other), Compared(other, s))

\* One version is the other one with a number after it, as 1.2rc and 1.2rc1.
NumberAfter(s, other) ==
    LET a == Compared(s, other)
        b == Compared(other, s)
    IN /\ Rank(s) = Rank(other) /\ Differences(a, b) # {}
       /\ LET k == Min(Differences(a, b)) IN k % 2 = 0 /\ ~(k \in DOMAIN a /\ k \in DOMAIN b)
=============================================================================
