------------------------------ MODULE DockerDigest ------------------------------
(***************************************************************************)
(* "docker tag" (docker_checkers.py): the digests of the monitored         *)
(* reference and of the version in the file are fetched, each by a chain   *)
(* of calls of _fetch_digest: HEAD, a GET when the answer is a list of     *)
(* manifests, and after a 401 a token and the same again with it.  The     *)
(* registry and its token server may answer anything.                      *)
(***************************************************************************)
EXTENDS Integers, Sequences

VARIABLES
    frames,   \* calls of _fetch_digest under way, innermost last: full, token
    asks,     \* what the innermost call has asked and waits for
    tokens,   \* token requests for this digest
    manifests,\* manifest requests for this digest
    digests,  \* digests got so far
    docker    \* outcome of the checker

dockerVars == <<frames, asks, tokens, manifests, digests, docker>>

Frame == [full : BOOLEAN, token : BOOLEAN]
Top == frames[Len(frames)]
Call(full, token) == [full |-> full, token |-> token]

DockerTypeOK ==
    /\ frames \in Seq(Frame) /\ Len(frames) \in 1..4
    /\ asks \in {"manifest", "token"}
    /\ {tokens, manifests, digests} \subseteq Nat
    /\ docker \in {"running", "answered", "failed"}
    /\ (docker = "answered") = (digests = 2)

DockerInit ==
    /\ frames = <<Call(FALSE, FALSE)>> /\ asks = "manifest"
    /\ tokens = 0 /\ manifests = 1 /\ digests = 0
    /\ docker = "running"

Waiting(for) == docker = "running" /\ asks = for

\* A nested call with a request of its own.
Enter(outer, full, token) ==
    /\ frames' = Append(outer, Call(full, token))
    /\ asks' = "manifest" /\ manifests' = manifests + 1
    /\ UNCHANGED <<tokens, digests, docker>>

\* An exception that no call catches.
DockerFails == docker' = "failed" /\ UNCHANGED <<frames, asks, tokens, manifests, digests>>

\* Mutant: the reference is compared with itself.
DigestOnce ==
    /\ digests' = digests + 1 /\ docker' = "answered"
    /\ UNCHANGED <<frames, asks, manifests, tokens>>

\* The digest is returned through all calls; docker_tag goes on to the version
\* in the file, without the token.
Digest ==
    /\ digests' = digests + 1
    /\ IF digests = 0
       THEN /\ frames' = <<Call(FALSE, FALSE)>> /\ manifests' = 1 /\ tokens' = 0
            /\ UNCHANGED <<asks, docker>>
       ELSE /\ docker' = "answered"
            /\ UNCHANGED <<frames, asks, manifests, tokens>>

\* parse_manifest: one manifest, whose digest is in a header.
Manifest == Waiting("manifest") /\ Digest

\* A list: parse_fat_manifest looks for the platform in its content, which only
\* GET brings.
ManifestList ==
    /\ Waiting("manifest")
    /\ IF Top.full THEN Digest \/ DockerFails ELSE Enter(frames, TRUE, Top.token)

\* Another type of content, or no HTTP at all.
OddManifest == Waiting("manifest") /\ DockerFails

Authenticates ==
    /\ asks' = "token" /\ tokens' = tokens + 1
    /\ UNCHANGED <<manifests, digests, docker>>

\* An HTTPError reaches the call outer[Len(outer)]: authenticate is called after
\* a 401 without a token, and needs a bearer challenge in the answer.
Refused(outer, status) ==
    \/ /\ status = 401 /\ ~outer[Len(outer)].token
       /\ frames' = outer /\ Authenticates
    \/ DockerFails

ManifestRefused(status) == Waiting("manifest") /\ Refused(frames, status)

\* Mutant: the call after authentication goes on with GET.
TokenKeepsFull == Waiting("token") /\ Enter(frames, Top.full, TRUE)

\* The call is repeated with the token, and with HEAD again.
Token == Waiting("token") /\ Enter(frames, FALSE, TRUE)

OddToken == Waiting("token") /\ DockerFails

\* Mutant: the call that authenticates catches the error too.
TokenRetried(status) == Waiting("token") /\ Refused(frames, status)

\* An HTTPError of the token server leaves the call that authenticates; an outer
\* call, which fetched a list in its try, takes it for one of the registry.
TokenRefused(status) ==
    /\ Waiting("token")
    /\ IF Len(frames) = 1 THEN DockerFails
       ELSE Refused(SubSeq(frames, 1, Len(frames) - 1), status)

DockerNext ==
    \/ Manifest \/ ManifestList \/ OddManifest
    \/ Token \/ OddToken
    \/ \E status \in {401, 500} : ManifestRefused(status) \/ TokenRefused(status)

DockerSpec == DockerInit /\ [][DockerNext]_dockerVars /\ WF_dockerVars(DockerNext)

-----------------------------------------------------------------------------
\* "Avoid to use GET when we can to not trigger pull rate limits": every GET comes
\* from a HEAD, with the same token or none, that was answered with a list.
GetAfterHead ==
    \A k \in DOMAIN frames :
        frames[k].full =>
            k > 1 /\ ~frames[k - 1].full /\ frames[k - 1].token = frames[k].token

\* Whatever the registry answers, a digest takes at most four requests for the
\* manifest and two for a token, the second only if the first was refused.
RequestsAreBounded == manifests <= 4 /\ tokens <= 2

\* If every request is answered or refused, the checker ends.
DockerEnds == <>(docker # "running")
=============================================================================
