------------------------------- MODULE SvnSession -------------------------------
(***************************************************************************)
(* A session of the svn protocol (svn_protocol.py) as svn_checkers.py uses *)
(* it: connect, check the path, read the directory, close.  Messages are   *)
(* whole tuples, which SvnWire models; the server may fail, answer what    *)
(* the client does not expect, or go away at any time.                     *)
(***************************************************************************)
EXTENDS Sequences

VARIABLES
    want,     \* get_props or get_entries
    at,       \* what the client reads next
    command,  \* last command sent
    due,      \* what the server has still to send
    wire,     \* sent by the server and not read yet
    peer,     \* the server's end of the connection
    sock,     \* the client's socket
    svn       \* outcome of the session

svnVars == <<want, at, command, due, wire, peer, sock, svn>>

Kinds == {"greeting", "auth", "auth result", "repos", "command auth", "result"}
Commands == {"none", "check-path", "get-dir"}

\* What a message says: "success" for whatever the client accepts there, or the
\* kind of a path; "odd" for what it raises an error about.
Says == {"success", "failure", "odd", "dir", "file", "nothing"}
Due == [kind : Kinds, to : Commands]
Message == [kind : Kinds, to : Commands, says : Says]
To(c, k) == [kind |-> k, to |-> c]

SvnTypeOK ==
    /\ want \in {"props", "entries"}
    /\ at \in Kinds \cup {"connection"} /\ command \in Commands
    /\ due \in Seq(Due) /\ wire \in Seq(Message)
    /\ peer \in {"none", "open", "closed"} /\ sock \in {"none", "open", "closed"}
    /\ svn \in {"running", "answered", "failed", "refused"}
    /\ (peer = "none") = (sock = "none")

SvnInit ==
    /\ want \in {"props", "entries"}
    /\ at = "connection" /\ command = "none"
    /\ due = <<>> /\ wire = <<>>
    /\ peer = "none" /\ sock = "none" /\ svn = "running"

-----------------------------------------------------------------------------
(***************************************************************************)
(* The server.                                                             *)
(***************************************************************************)
Sayings(d) ==
    {"failure", "odd"} \cup
    IF d.kind = "result" /\ d.to = "check-path" THEN {"dir", "file", "nothing"} ELSE {"success"}

\* After a failure while connecting it closes; a command that fails is over.
ServerSends ==
    /\ peer = "open" /\ due # <<>>
    /\ \E says \in Sayings(Head(due)) :
        /\ wire' = Append(wire, [kind |-> Head(due).kind, to |-> Head(due).to, says |-> says])
        /\ due' = IF says = "failure" THEN <<>> ELSE Tail(due)
        /\ peer' = IF says = "failure" /\ Head(due).to = "none" THEN "closed" ELSE peer
    /\ UNCHANGED <<want, at, command, sock, svn>>

ServerCloses ==
    /\ peer = "open" /\ peer' = "closed" /\ due' = <<>>
    /\ UNCHANGED <<want, at, command, wire, sock, svn>>

-----------------------------------------------------------------------------
(***************************************************************************)
(* The client.                                                             *)
(***************************************************************************)

\* A piece of the server's stream is there, or its end.
Reads(k, says) ==
    /\ svn = "running" /\ at = k
    /\ IF wire # <<>> THEN says = Head(wire).says /\ wire' = Tail(wire)
       ELSE peer = "closed" /\ says = "end" /\ wire' = wire

\* Mutant: what the client sends stays in a buffer.
SendsHeld(c, kinds) == due' = due

\* What the client sends makes the server owe answers, unless it is gone.
Sends(c, kinds) ==
    due' = IF peer = "open" THEN [j \in DOMAIN kinds |-> To(c, kinds[j])] ELSE due

Connect ==
    /\ svn = "running" /\ at = "connection"
    /\ \/ /\ sock' = "open" /\ peer' = "open" /\ at' = "greeting"
          /\ due' = <<To("none", "greeting")>> /\ UNCHANGED svn
       \/ svn' = "failed" /\ UNCHANGED <<sock, peer, at, due>>
    /\ UNCHANGED <<want, command, wire>>

\* Mutant: a refused authentication raises without closing.
RefusedLeaves(says) ==
    /\ svn' = IF at = "auth result" /\ says = "failure" THEN "refused" ELSE "failed"
    /\ UNCHANGED <<at, due, sock>>

\* connect raises: __exit__ is not called.  Only after a refused authentication
\* does connect itself close.
ConnectFails(says) ==
    /\ IF at = "auth result" /\ says = "failure" THEN svn' = "refused" /\ sock' = "closed"
       ELSE svn' = "failed" /\ UNCHANGED sock
    /\ UNCHANGED <<at, due>>

\* The steps of connect up to the repository's description.
ReadGreeting ==
    \E says \in Says \cup {"end"} :
        /\ Reads("greeting", says)
        /\ IF says = "success" THEN at' = "auth" /\ Sends("none", <<"auth">>) /\ UNCHANGED <<sock, svn>>
           ELSE ConnectFails(says)
        /\ UNCHANGED <<want, command, peer>>

ReadAuth ==
    \E says \in Says \cup {"end"} :
        /\ Reads("auth", says)
        /\ IF says = "success"
           THEN at' = "auth result" /\ Sends("none", <<"auth result", "repos">>) /\ UNCHANGED <<sock, svn>>
           ELSE ConnectFails(says)
        /\ UNCHANGED <<want, command, peer>>

ReadAuthResult ==
    \E says \in Says \cup {"end"} :
        /\ Reads("auth result", says)
        /\ IF says = "success" THEN at' = "repos" /\ UNCHANGED <<due, sock, svn>>
           ELSE ConnectFails(says)
        /\ UNCHANGED <<want, command, peer>>

\* Mutant: the server's leave to run the command is not read.
SendCommandUnasked(c) ==
    at' = "result" /\ command' = c /\ Sends(c, <<"command auth", "result">>)

SendCommand(c) ==
    at' = "command auth" /\ command' = c /\ Sends(c, <<"command auth", "result">>)

\* Connected: get_props and get_entries begin with check-path.
ReadReposInfo ==
    \E says \in Says \cup {"end"} :
        /\ Reads("repos", says)
        /\ IF says = "success" THEN SendCommand("check-path") /\ UNCHANGED <<sock, svn>>
           ELSE ConnectFails(says) /\ UNCHANGED command
        /\ UNCHANGED <<want, peer>>

\* The end of the with statement.
Leave(how) == svn' = how /\ sock' = "closed" /\ UNCHANGED <<at, command, due>>

\* send_command: first the server may ask for authentication again, which the
\* client does not do.
ReadCommandAuth ==
    \E says \in Says \cup {"end"} :
        /\ Reads("command auth", says)
        /\ IF says = "success" THEN at' = "result" /\ UNCHANGED <<command, due, sock, svn>>
           ELSE Leave("failed")
        /\ UNCHANGED <<want, peer>>

\* A directory is read.  For a file get_file raises a NameError (it has no self);
\* without props or entries the checker raises.
ReadKind ==
    \E says \in Says \cup {"end"} :
        /\ command = "check-path" /\ Reads("result", says)
        /\ IF says = "dir" THEN SendCommand("get-dir") /\ UNCHANGED <<sock, svn>>
           ELSE Leave("failed")
        /\ UNCHANGED <<want, peer>>

ReadDir ==
    \E says \in Says \cup {"end"} :
        /\ command = "get-dir" /\ Reads("result", says)
        /\ Leave(IF says = "success" THEN "answered" ELSE "failed")
        /\ UNCHANGED <<want, peer>>

SvnClient ==
    \/ Connect \/ ReadGreeting \/ ReadAuth \/ ReadAuthResult \/ ReadReposInfo
    \/ ReadCommandAuth \/ ReadKind \/ ReadDir

SvnNext == SvnClient \/ ServerSends \/ ServerCloses

SvnSpec == SvnInit /\ [][SvnNext]_svnVars /\ WF_svnVars(SvnClient) /\ WF_svnVars(ServerSends)

-----------------------------------------------------------------------------
\* Client and server stay in step: what the client is about to read is what it
\* expects there, for the command it last sent, and after an answer nothing of
\* the session is left unread.
AnswersArePaired ==
    /\ svn = "running" /\ wire # <<>> => Head(wire).kind = at /\ Head(wire).to = command
    /\ svn = "answered" => wire = <<>> /\ due = <<>>

\* A session that ends has closed its socket, whether it was answered, failed in
\* a command or had its authentication refused.  Only if connect fails in another
\* way, before a command, the socket stays open.
SocketsAreClosed ==
    /\ svn \in {"answered", "refused"} => sock = "closed"
    /\ svn = "failed" /\ command # "none" => sock = "closed"

\* If the server goes on answering what it owes or goes away, the session ends.
SvnEnds == <>(svn # "running")
=============================================================================
