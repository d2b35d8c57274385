---------------------------- MODULE MCNetworkClients ----------------------------
(***************************************************************************)
(* The checkers that talk to a server in several steps, side by side: one  *)
(* of them is called, the other rests.  In a run of check-versions each    *)
(* call has its own thread and connection.                                 *)
(***************************************************************************)
EXTENDS DockerDigest, SvnSession

VARIABLE checker   \* which one is called

clientVars == <<checker, dockerVars, svnVars>>

Init == checker \in {"docker tag", "svn"} /\ DockerInit /\ SvnInit

Next ==
    /\ UNCHANGED checker
    /\ \/ checker = "docker tag" /\ DockerNext /\ UNCHANGED svnVars
       \/ checker = "svn" /\ SvnNext /\ UNCHANGED dockerVars

Spec ==
    /\ Init /\ [][Next]_clientVars
    /\ WF_clientVars(checker = "docker tag" /\ DockerNext /\ UNCHANGED <<checker, svnVars>>)
    /\ WF_clientVars(checker = "svn" /\ SvnClient /\ UNCHANGED <<checker, dockerVars>>)
    /\ WF_clientVars(checker = "svn" /\ ServerSends /\ UNCHANGED <<checker, dockerVars>>)

TypeOK == checker \in {"docker tag", "svn"} /\ DockerTypeOK /\ SvnTypeOK

\* DockerEnds and SvnEnds for the one that is called.
CallEnds == (checker = "docker tag" => DockerEnds) /\ (checker = "svn" => SvnEnds)
=============================================================================
