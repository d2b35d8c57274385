------------------------------ MODULE VersionCalls ------------------------------
(***************************************************************************)
(* What a checker decides from a list of names: each function is called    *)
(* once, for any inputs.  Two versions are compared, the refs of git and   *)
(* hg are read, the newest tag is chosen.                                  *)
(***************************************************************************)
EXTENDS TagChoice

CONSTANTS
    Strings,      \* versions that are compared
    Refs, Objects,
    SmartBodies,  \* what git's protocol sends, as packets
    LineBodies,   \* what is served in files, as lines without capabilities
    Versions,     \* versions that are looked up
    NameLists,    \* the names of a repository's tags, as listed
    Prefix        \* what a name that is a version begins with

Bytes == Seq(0..255)
FileLines == [ref : Refs, obj : Objects, peeled : BOOLEAN]
RefLines == [is : {"line"}, ref : Refs, obj : Objects, peeled : BOOLEAN, caps : BOOLEAN]
Packets == RefLines \cup [is : {"flush", "delim", "version", "no refs"}]

ASSUME VersionAssumption ==
    /\ Strings \subseteq Bytes
    /\ SmartBodies \subseteq Seq(Packets)
    /\ LineBodies \subseteq Seq(FileLines)
    /\ Versions \subseteq Bytes
    /\ NameLists \subseteq Seq(Bytes \ {<<>>})
    /\ Prefix \in Bytes

VARIABLES call, result

versionVars == <<call, result>>

NotYet == [pending |-> TRUE]
Result(v) == [pending |-> FALSE, value |-> v]

\* Peeled refs are git's.
Unpeeled(bodies) == {b \in bodies : \A k \in DOMAIN b : ~b[k].peeled}

Comparisons == [fn : {"compare"}, s : Strings, other : Strings]
Readings ==
    [fn : {"refs"}, kind : {"git", "http"}, preface : BOOLEAN, body : SmartBodies] \cup
    [fn : {"refs"}, kind : {"dumb"}, preface : {FALSE}, body : LineBodies] \cup
    [fn : {"refs"}, kind : {"hg", "hg with newline"}, preface : {FALSE}, body : Unpeeled(LineBodies)]
TagChoices ==
    [fn : {"tag"}, checker : {"git tag", "hg tag", "svn tag"}, version : Versions, names : NameLists]

Init == result = NotYet /\ call \in Comparisons \cup Readings \cup TagChoices

Calling(fn) == result = NotYet /\ call.fn = fn /\ UNCHANGED call

Compare == Calling("compare") /\ result' = Result(Less(call.s, call.other))

\* Over HTTP git answers with a service line before the refs.
Preface == <<[is |-> "service"], [is |-> "flush"]>>
Stream(c) == IF c.preface THEN Preface \o c.body ELSE c.body
Smart(c) == c.kind \in {"git", "http"}

ReadOf(c) ==
    CASE Smart(c) -> SmartRefs(Stream(c), c.kind = "http")
      [] c.kind = "dumb" -> DumbRefs(Stream(c))
      [] OTHER -> HgTags(Stream(c), c.kind = "hg with newline")

ReadRefs == Calling("refs") /\ result' = Result(ReadOf(call))

\* svn lists the directory too, and what it cannot show.
Responses(names) ==
    <<[name |-> <<>>, status |-> 200], [name |-> Append(Prefix, 57), status |-> 404]>>
        \o [k \in DOMAIN names |-> [name |-> names[k], status |-> 200]]

ChoiceOf(c) ==
    LET names == IF c.checker = "svn tag" THEN DavTags(Responses(c.names), <<>>) ELSE c.names
    IN Chosen(c.checker, c.version, names, Prefix)

ChooseTag == Calling("tag") /\ result' = Result(ChoiceOf(call))

Next == Compare \/ ReadRefs \/ ChooseTag

Spec == Init /\ [][Next]_versionVars

-----------------------------------------------------------------------------
Answered(fn) == ~result.pending /\ call.fn = fn
Value == result.value

\* Version.__lt__ orders like Debian and coreutils, whose examples the module
\* keeps; except where one version goes on with a number and the other ends: there
\* the longer one raises and the shorter one never comes first.
OrderIsDebian ==
    Answered("compare") =>
        IF NumberAfter(call.s, call.other)
        THEN Value = (IF Len(Compared(call.s, call.other)) > Len(Compared(call.other, call.s))
                      THEN "raises" ELSE "not")
        ELSE Value = (IF Precedes(call.s, call.other) THEN "less" ELSE "not")

\* What a server lists: in a file all lines; in git's protocol what comes after its
\* version, if it gives one, and before the end, unless it says that it has none.
Flushes(body) == {k \in DOMAIN body : body[k].is = "flush"}
Start(body) == IF body[1].is = "version" THEN 2 ELSE 1
Listed(c) ==
    IF ~Smart(c) THEN DOMAIN c.body
    ELSE {k \in DOMAIN c.body :
            /\ Start(c.body) <= k /\ \A e \in Flushes(c.body) : k < e
            /\ k = Start(c.body) => c.body[k].is # "no refs"}
Line(c, k) == IF Smart(c) THEN LineRead(c.body[k], k = Start(c.body)) ELSE c.body[k]

\* A line that comes before another one that says more.
Replaces(c, j, k) ==
    IF c.kind = "hg" THEN j > k /\ Line(c, j).ref = Line(c, k).ref
    ELSE j = k + 1 /\ Line(c, j).peeled

\* The refs of git are the complete list or none: each name stands for its object,
\* a tag for the object it was peeled to, and a list without its end raises (files
\* served without git's protocol have no end to miss).  A packet that the protocol
\* does not have in its place is taken for a ref of another name, and never makes a
\* ref be missing or stand for something else.  Of the tags of hg the last line of a
\* name counts; no line at all and a final newline raise.
RefsAreComplete ==
    Answered("refs") /\ ~Value.raises =>
        LET listed == Listed(call)
            refs == Value.value
        IN /\ Smart(call) => Flushes(call.body) # {} /\ call.preface = (call.kind = "http")
           /\ call.kind # "hg with newline" /\ (call.kind = "hg" => listed # {})
           /\ DOMAIN refs = {Line(call, k).ref : k \in listed}
           /\ \A k \in listed :
                refs[Line(call, k).ref] = Line(call, k).obj \/ \E j \in listed : Replaces(call, j, k)

\* Two versions of which the order says nothing, or the comparison raises: 1.2 and
\* 1.02, 1.2rc and 1.2rc1.
Alike(s, other) ==
    \/ NumberAfter(s, other) \/ NumberAfter(other, s)
    \/ ~Precedes(s, other) /\ ~Precedes(other, s)

\* Unless two listed versions are alike, a version passes for the newest if and only
\* if it is listed with the prefix and no listed one comes after it, or if nothing is
\* listed; in hg and svn a version that is not listed raises.
EqualIsNewest ==
    Answered("tag") =>
        LET listed == {SubSeq(n, Len(Prefix) + 1, Len(n)) : n \in {m \in Range(call.names) : IsPrefix(Prefix, m)}}
        IN \/ \E s, o \in listed : s # o /\ Alike(s, o)
           \/ Value.raises /\ call.checker # "git tag" /\ call.version \notin listed
           \/ /\ ~Value.raises
              /\ Value.value.equal =
                    (listed # {} => /\ call.version \in listed
                                    /\ \A o \in listed : ~Precedes(call.version, o))
=============================================================================
