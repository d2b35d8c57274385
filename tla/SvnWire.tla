--------------------------------- MODULE SvnWire ---------------------------------
(***************************************************************************)
(* The format of messages of the svn protocol (svn_protocol.py): what      *)
(* build_reply writes and read_tuple reads, byte by byte.                  *)
(***************************************************************************)
EXTENDS Versioning   \* byte classes

Open == 40
Close == 41
Colon == 58
Dash == 45
Space == 32
SPACES == {Space, Newline}

\* Values: words (bytes), numbers, strings (SVNString) and tuples.
Word(bytes) == [is |-> "word", word |-> bytes]
Num(n) == [is |-> "number", num |-> n]
Str(bytes) == [is |-> "string", str |-> bytes]
Tuple(items) == [is |-> "tuple", items |-> items]

\* Numbers of one digit.
Digit(n) == <<48 + n>>

RECURSIVE BuildReply(_)
BuildReply(obj) ==
    CASE obj.is = "word" -> obj.word \o <<Space>>
      [] obj.is = "number" -> Digit(obj.num) \o <<Space>>
      [] obj.is = "string" -> Digit(Len(obj.str)) \o <<Colon>> \o obj.str \o <<Space>>
      [] obj.is = "tuple" ->
            <<Open, Space>> \o FlattenSeq([k \in DOMAIN obj.items |-> BuildReply(obj.items[k])])
                \o <<Close, Space>>

\* What is read from a place in the stream on: a value and the place after it.
Bad == [is |-> "bad"]
EndOfStream == [is |-> "end"]
Got(token, next) == [is |-> "got", token |-> token, next |-> next]
Nothing == [is |-> "nothing"]

\* read_string: so many bytes and a space.
ReadString(s, i, length) ==
    IF i + length > Len(s) \/ s[i + length] \notin SPACES THEN Bad
    ELSE Got(Str(SubSeq(s, i, i + length - 1)), i + length + 1)

\* A parenthesis is followed by a space, or by the end of the stream: the empty
\* bytes that recv returns there are in SPACES too.
Paren(s, i) ==
    IF i < Len(s) /\ s[i + 1] \notin SPACES THEN Bad
    ELSE Got([is |-> IF s[i] = Open THEN "open" ELSE "close"], i + 2)

\* Mutant: the end of the stream closes what is open.
StreamEndsCloses == Got([is |-> "close"], 0)

\* read_tokens: recv returns nothing, and there is no further token.
StreamEnds == EndOfStream

\* read_tokens: the next token, buf being the word or number read so far.
RECURSIVE ReadToken(_, _, _)
ReadToken(s, i, buf) ==
    LET c == s[i]
        goOn(b) == ReadToken(s, i + 1, b)
    IN IF i > Len(s) THEN StreamEnds
       ELSE IF c \in SPACES THEN (IF buf = Nothing THEN goOn(buf) ELSE Got(buf, i + 1))
       ELSE IF c = Colon THEN (IF buf.is = "number" THEN ReadString(s, i + 1, buf.num) ELSE Bad)
       ELSE IF c \in {Open, Close} THEN (IF buf = Nothing THEN Paren(s, i) ELSE Bad)
       ELSE IF IsDigit(c) /\ buf = Nothing THEN goOn(Num(c - 48))
       ELSE IF IsDigit(c) /\ buf.is = "number" THEN goOn(Num(10 * buf.num + c - 48))
       ELSE IF IsAlpha(c) /\ buf = Nothing THEN goOn(Word(<<c>>))
       ELSE IF IsDigit(c) \/ IsAlpha(c) \/ c = Dash
            THEN (IF buf.is = "word" THEN goOn(Word(Append(buf.word, c))) ELSE Bad)
       ELSE goOn(buf)

\* read_tuple behind the opening parenthesis.
RECURSIVE ReadItems(_, _, _)
ReadItems(s, i, items) ==
    LET t == ReadToken(s, i, Nothing)
    IN IF t.is # "got" THEN Bad
       ELSE IF t.token.is = "close" THEN Got(Tuple(items), t.next)
       ELSE IF t.token.is = "open"
            THEN LET inner == ReadItems(s, t.next, <<>>)
                 IN IF inner.is # "got" THEN Bad ELSE ReadItems(s, inner.next, Append(items, inner.token))
       ELSE ReadItems(s, t.next, Append(items, t.token))

ReadTuple(s, i) ==
    LET t == ReadToken(s, i, Nothing)
    IN IF t.is # "got" THEN Bad
       ELSE IF t.token.is # "open" THEN Bad ELSE ReadItems(s, t.next, <<>>)
=============================================================================
