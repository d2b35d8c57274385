------------------------------- MODULE MCFormats -------------------------------
(***************************************************************************)
(* Instances of VersionCalls: short strings, short lists.  With them the   *)
(* functions that are left to TLC, each called once with every input of a  *)
(* bounded set: the messages of svn and the settings of platforms.         *)
(***************************************************************************)
EXTENDS VersionCalls, SvnWire, PlatformSettings

UpTo(n, S) == UNION {[1..k -> S] : k \in 0..n}

\* 1.2rc, 1.2rc1, 1.2-rc1, 1.10, 1.02, 1.2.tar, 1.2.tar~, .zz, .zz.0, and 1.2.tar and
\* 1.2 with a newline.
Longer ==
    {<<49, 46, 50, 114, 99>>, <<49, 46, 50, 114, 99, 49>>, <<49, 46, 50, 45, 114, 99, 49>>,
     <<49, 46, 49, 48>>, <<49, 46, 48, 50>>, <<49, 46, 50, 46, 116, 97, 114>>,
     <<49, 46, 50, 46, 116, 97, 114, 126>>, <<46, 122, 122>>, <<46, 122, 122, 46, 48>>,
     <<49, 46, 50, 46, 116, 97, 114, 10>>, <<49, 46, 50, 10>>}
MCStrings == UpTo(3, {46, 48, 49, 97, 126}) \cup Longer

MCObjects == {1, 2}
MCLineBodies == UpTo(3, FileLines)

\* Among them, after a first line, any two packets.
FirstLines == {line \in RefLines : line.caps /\ ~line.peeled}
MCSmartBodies ==
    UpTo(3, Packets) \cup
    {<<line, p, q, [is |-> "flush"]>> : line \in FirstLines, p \in Packets, q \in Packets}

\* Versions such as 1.0, 1.2, 1.10, 1.2~a, 1.2rc, 1.2rc1 and 1.02, in names such as
\* v1.0, and a name of another kind.
MCPrefix == <<118>>
Sortable == {<<49, 46, 48>>, <<49, 46, 50>>, <<49, 46, 49, 48>>, <<49, 46, 50, 126, 97>>}
MCVersionSet == Sortable \cup {<<49, 46, 50, 114, 99>>, <<49, 46, 50, 114, 99, 49>>, <<49, 46, 48, 50>>}
Names(S) == {MCPrefix \o s : s \in S} \cup {<<49, 46, 57>>}
MCNameLists == UpTo(2, Names(MCVersionSet)) \cup [1..3 -> Names(Sortable)]

-----------------------------------------------------------------------------
Atoms == {Word(<<97, 45>>), Num(0), Num(7), Str(<<>>), Str(<<Close>>), Str(<<Space, Open>>), Tuple(<<>>)}
Tuples == {Tuple(items) : items \in UpTo(2, Atoms)}
MaxCut == 6   \* bound: bytes missing at the end of a message
Messages == Tuples \cup {Tuple(<<x, y>>) : x \in Atoms, y \in Tuples}

FormatInit ==
    /\ result = NotYet
    /\ \/ \E o \in Messages, last \in SPACES, cut \in 0..MaxCut, rest \in {<<>>, <<Open, Space>>} :
            call = [fn |-> "message", obj |-> o, last |-> last, cut |-> cut, rest |-> rest]
       \/ \E build \in Builds, white \in {{}, {"nds", "android-arm"}}, black \in {{}, {"nds"}} :
            call = [fn |-> "builders", build |-> build, white |-> white, black |-> black]

\* A server may end its message with a newline.  Another one may follow, unless the
\* connection ends in this one.
ReadMessage ==
    /\ Calling("message")
    /\ LET sent == Append(Front(BuildReply(call.obj)), call.last)
           got == SubSeq(sent, 1, Len(sent) - call.cut)
       IN result' = Result(ReadTuple(IF call.cut = 0 THEN got \o call.rest ELSE got, 1))

MakeBuilders ==
    /\ Calling("builders")
    /\ result' = Result(BuildersFor(call.build, call.white, call.black))

\* A call of VersionCalls, or one of these.
AnyInit == Init \/ FormatInit
AnyNext == Next \/ ReadMessage \/ MakeBuilders

AnySpec == AnyInit /\ [][AnyNext]_versionVars

-----------------------------------------------------------------------------
\* What build_reply writes read_tuple reads back, whatever it holds, and stops
\* where the next message begins; a connection that ends within a message never
\* passes for a shorter one, at most the last space is missed.
MessagesAreWhole ==
    Answered("message") =>
        /\ call.cut = 0 => Value = Got(call.obj, Len(BuildReply(call.obj)) + 1)
        /\ call.cut > 1 => Value = Bad

\* For any build, also of a class that only inherits: builders have different
\* names, workers with an image, files for their packages, and those that run
\* gradle the lock.
BuildersCanBeMade ==
    Answered("builders") =>
        /\ \A i, j \in DOMAIN Value : i # j => Value[i].name # Value[j].name
        /\ \A i \in DOMAIN Value :
            /\ Value[i].steps # "raises" /\ Value[i].image \in Images
            /\ Value[i].locked = (Value[i].image = "android")
=============================================================================
