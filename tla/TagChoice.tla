-------------------------------- MODULE TagChoice --------------------------------
(***************************************************************************)
(* What the checkers make of the names a server lists: reading the refs of *)
(* git and hg and the entries of svn, and choosing the newest version      *)
(* (git_checkers.py, hg_checkers.py, svn_checkers.py, web_checkers.py,     *)
(* checkers.py).                                                           *)
(***************************************************************************)
EXTENDS Versioning

Raises == [raises |-> TRUE]
Returns(v) == [raises |-> FALSE, value |-> v]

(***************************************************************************)
(* Git.  A line lists a ref and an object; a peeled line gives the object  *)
(* that the tag of the line before stands for.                             *)
(***************************************************************************)

\* Mutant: the peeled object is added, not put in the tag's place.
AddLineKeepsTag(refs, line) ==
    IF refs.raises THEN refs
    ELSE IF ~line.peeled THEN Returns(Append(refs.value, [ref |-> line.ref, obj |-> line.obj]))
    ELSE IF refs.value # <<>> /\ Last(refs.value).ref = line.ref THEN refs
    ELSE Raises

AddLine(refs, line) ==
    IF refs.raises THEN refs
    ELSE IF ~line.peeled THEN Returns(Append(refs.value, [ref |-> line.ref, obj |-> line.obj]))
    ELSE IF refs.value # <<>> /\ Last(refs.value).ref = line.ref
         THEN Returns(Append(Front(refs.value), [ref |-> line.ref, obj |-> line.obj]))
    ELSE Raises

\* A dictionary, unless a ref is listed twice.
RefsOf(lines) ==
    LET refs[k \in 0..Len(lines)] == IF k = 0 THEN Returns(<<>>) ELSE AddLine(refs[k - 1], lines[k])
        read == refs[Len(lines)]
        twice == \E i, j \in DOMAIN read.value : i # j /\ read.value[i].ref = read.value[j].ref
    IN IF read.raises THEN Raises ELSE IF twice THEN Raises
       ELSE Returns([r \in {read.value[i].ref : i \in DOMAIN read.value} |->
                      read.value[CHOOSE i \in DOMAIN read.value : read.value[i].ref = r].obj])

\* Packets: "flush", "delim" (or another one without data), "service", "version",
\* "no refs", or a line.
IsLine(packet) == packet.is = "line"

\* Capabilities are split off the first line only.  In a later one they stay in the
\* name, and whatever else has data is taken for an object and a ref: a second
\* version packet for a ref 1, a late "no refs" for one with that name.
PlainLine(packet, first) == IsLine(packet) /\ (packet.caps => first)
NameRead(packet, first) ==
    IF PlainLine(packet, first) THEN packet.ref
    ELSE IF IsLine(packet) THEN <<packet.ref, packet.peeled>> ELSE <<packet.is>>
LineRead(packet, first) ==
    [ref |-> NameRead(packet, first), obj |-> IF IsLine(packet) THEN packet.obj ELSE packet.is,
     peeled |-> PlainLine(packet, first) /\ packet.peeled]

\* Where the list ends; 0 if the stream does before.
Flush(stream, from) ==
    LET ks == {k \in from..Len(stream) : stream[k].is = "flush"}
    IN IF ks = {} THEN 0 ELSE Min(ks)

\* parse_smart_refs: over HTTP a service line and a flush come first.  Of the rest
\* the first packet has data, the first line the capabilities, and "no refs" in its
\* place is all there is.
SmartRefs(stream, http) ==
    LET opens == ~http \/ (Len(stream) >= 2 /\ stream[1].is = "service" /\ stream[2].is = "flush")
        first == IF http THEN 3 ELSE 1
        from == IF first <= Len(stream) /\ stream[first].is = "version" THEN first + 1 ELSE first
        end == Flush(stream, from)
        lines == SubSeq(stream, from, end - 1)
        data == first <= Len(stream) /\ stream[first].is \notin {"flush", "delim"}
    IN IF ~opens \/ ~data \/ end = 0 \/ (http /\ end < Len(stream)) THEN Raises
       ELSE IF lines = <<>> \/ (Len(lines) = 1 /\ lines[1].is = "no refs") THEN Returns(<<>>)
       ELSE IF ~IsLine(lines[1]) \/ ~lines[1].caps THEN Raises
       ELSE IF \E k \in DOMAIN lines : lines[k].is = "delim" THEN Raises
       ELSE RefsOf([k \in DOMAIN lines |-> LineRead(lines[k], k = 1)])

\* parse_dumb_refs: lines without packets.
DumbRefs(lines) == RefsOf(lines)

(***************************************************************************)
(* Mercurial's .hgtags and the entries of an svn directory.                *)
(***************************************************************************)

\* tags: later lines override.  The empty piece after a final newline, or of an empty
\* file, does not split into an object and a name.
HgTags(lines, newline) ==
    IF newline \/ lines = <<>> THEN Raises
    ELSE Returns([r \in {lines[k].ref : k \in DOMAIN lines} |->
                   lines[Max({k \in DOMAIN lines : lines[k].ref = r})].obj])

\* What a loop over s keeps of it, in its order.
Selected(s, T) ==
    LET kept[k \in 0..Len(s)] ==
            IF k = 0 THEN <<>> ELSE IF s[k] \in T THEN Append(kept[k - 1], s[k]) ELSE kept[k - 1]
    IN kept[Len(s)]

\* parse_multistatus and dav_list_tags: what was found, without the directory.
DavTags(responses, base) ==
    LET found == Selected(responses, {r \in Range(responses) : r.status = 200 /\ r.name # base})
    IN [k \in DOMAIN found |-> found[k].name]

-----------------------------------------------------------------------------
(***************************************************************************)
(* The choice.                                                             *)
(***************************************************************************)

\* filter_versions: names with the prefix, without it.
Filtered(names, prefix) ==
    LET kept == Selected(names, {n \in Range(names) : IsPrefix(prefix, n)})
    IN [k \in DOMAIN kept |-> SubSeq(kept[k], Len(prefix) + 1, Len(kept[k]))]

\* Mutant: sorted without reverse.
LatestOldest(versions) ==
    Min({i \in DOMAIN versions : \A j \in DOMAIN versions : Less(versions[j], versions[i]) # "less"})

\* prepare_versions sorts in reverse, so that of equals the first stays first.  (1.2.tar and
\* 1.2.zip are in order, 1.02.tar is in none with either: where it comes between
\* them the result depends on how Python sorts, which is not modelled.)
LatestIndex(versions) ==
    Min({i \in DOMAIN versions : \A j \in DOMAIN versions : Less(versions[i], versions[j]) # "less"})

\* Of two versions the sort compares the first with the second.
SortRaises(versions) == Len(versions) = 2 /\ Less(versions[1], versions[2]) = "raises"

\* A version that is not listed: git only warns; hg, svn and a scrape that expects
\* all versions raise, because their warning is formatted with too few values.
Unlisted(checker) ==
    IF checker \in {"git tag", "scrape"} THEN Returns([equal |-> FALSE]) ELSE Raises

\* git_tag, hg_tag, svn_tag and scrape from the list of names on.
Chosen(checker, version, names, prefix) ==
    LET versions == Filtered(names, prefix)
    IN IF versions = <<>> THEN Returns([equal |-> TRUE])
       ELSE IF SortRaises(versions) THEN Raises
       ELSE IF version \notin Range(versions) THEN Unlisted(checker)
       ELSE Returns([equal |-> versions[LatestIndex(versions)] = version])
=============================================================================
