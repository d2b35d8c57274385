-------------------------- MODULE NetworkClientsProofs --------------------------
(***************************************************************************)
(* Proofs about the checkers that talk to a server, DockerDigest and       *)
(* SvnSession: whatever the server answers and wherever it goes away, the  *)
(* requests are bounded, the answers belong to what was asked and sockets  *)
(* are closed.                                                             *)
(***************************************************************************)
EXTENDS MCNetworkClients, SequenceTheorems, TLAPS

(***************************************************************************)
(* The chain of calls of _fetch_digest.                                    *)
(***************************************************************************)

\* How far a call is on the way to a digest: a token first, then the content.
Rank(f) == (IF f.token THEN 2 ELSE 0) + (IF f.full THEN 1 ELSE 0)

\* Every call inside another is further on the way, because it has got a list or
\* a token, and so the calls are no deeper than their ranks.
CallsGetFurther ==
    \A k \in 1..Len(frames) :
        /\ k <= Rank(frames[k]) + 1
        /\ frames[k].full => k > 1 /\ ~frames[k - 1].full /\ frames[k - 1].token = frames[k].token

\* Requests made so far, by what is asked now.
RequestsSoFar ==
    /\ asks = "manifest" => manifests <= Rank(Top) + 1 /\ tokens <= (IF Top.token THEN 2 ELSE 0)
    /\ asks = "token" => ~Top.token /\ manifests <= 2 /\ tokens <= 3 - Len(frames)

\* With them the calls of a digest are bounded and in order.
DockerInv == DockerTypeOK /\ digests <= 2 /\ CallsGetFurther /\ RequestsSoFar

\* What Append and SubSeq do to the calls.
LEMMA CallStack ==
    /\ \A s \in Seq(Frame), f \in Frame :
         /\ Append(s, f) \in Seq(Frame) /\ Len(Append(s, f)) = Len(s) + 1
         /\ \A k \in 1..Len(s) : Append(s, f)[k] = s[k]
         /\ Append(s, f)[Len(s) + 1] = f
    /\ \A s \in Seq(Frame) : Len(s) \in Nat /\ \A k \in 1..Len(s) : s[k] \in Frame
    /\ \A s \in Seq(Frame) : Len(s) > 1 =>
         LET t == SubSeq(s, 1, Len(s) - 1) IN
         /\ t \in Seq(Frame) /\ Len(t) = Len(s) - 1
         /\ \A k \in 1..Len(t) : t[k] = s[k]
    /\ \A full, token \in BOOLEAN : /\ Call(full, token) \in Frame
                                    /\ Call(full, token).full = full /\ Call(full, token).token = token
    /\ \A f \in Frame : f.full \in BOOLEAN /\ f.token \in BOOLEAN
<1>1. \A s \in Seq(Frame), f \in Frame :
         /\ Append(s, f) \in Seq(Frame) /\ Len(Append(s, f)) = Len(s) + 1
         /\ \A k \in 1..Len(s) : Append(s, f)[k] = s[k]
         /\ Append(s, f)[Len(s) + 1] = f
  BY AppendProperties
<1>2. \A s \in Seq(Frame) : Len(s) \in Nat /\ \A k \in 1..Len(s) : s[k] \in Frame
  BY LenProperties, ElementOfSeq
<1>3. ASSUME NEW s \in Seq(Frame), Len(s) > 1
      PROVE  LET t == SubSeq(s, 1, Len(s) - 1) IN
             /\ t \in Seq(Frame) /\ Len(t) = Len(s) - 1
             /\ \A k \in 1..Len(t) : t[k] = s[k]
  <2>1. Len(s) \in Nat /\ Len(s) - 1 <= Len(s) /\ 1 \in Int /\ Len(s) - 1 \in Int
    BY <1>2
  <2> QED
    BY <1>2, <1>3, <2>1, SubSeqProperties
<1>4. \A full, token \in BOOLEAN : /\ Call(full, token) \in Frame
                                    /\ Call(full, token).full = full /\ Call(full, token).token = token
  BY DEF Call, Frame
<1>5. \A f \in Frame : f.full \in BOOLEAN /\ f.token \in BOOLEAN
  BY DEF Frame
<1> QED
  BY <1>1, <1>2, <1>3, <1>4, <1>5

\* Ranks are below 4.
LEMMA Ranks ==
    /\ \A f \in Frame : Rank(f) \in 0..3
    /\ \A token \in BOOLEAN : \A f \in Frame : ~f.full /\ f.token = token =>
         Rank(Call(TRUE, token)) = Rank(f) + 1
    /\ Rank(Call(FALSE, TRUE)) = 2 /\ \A f \in Frame : ~f.token => Rank(f) <= 1
<1>1. \A f \in Frame : Rank(f) \in 0..3 /\ (~f.token => Rank(f) <= 1)
  BY DEF Rank, Frame
<1>2. \A token \in BOOLEAN : \A f \in Frame : ~f.full /\ f.token = token =>
         Rank(Call(TRUE, token)) = Rank(f) + 1
  BY DEF Rank, Frame, Call
<1>3. Rank(Call(FALSE, TRUE)) = 2
  BY DEF Rank, Call
<1> QED
  BY <1>1, <1>2, <1>3

\* What the innermost call is.
LEMMA TopCall ==
    ASSUME DockerInv
    PROVE  /\ Top \in Frame /\ Len(frames) \in 1..4 /\ Top = frames[Len(frames)]
           /\ Len(frames) <= Rank(Top) + 1 /\ Rank(Top) \in 0..3
           /\ manifests \in Nat /\ tokens \in Nat /\ digests \in 0..2
<1>1. frames \in Seq(Frame) /\ Len(frames) \in 1..4 /\ {tokens, manifests, digests} \subseteq Nat
  BY DEF DockerInv, DockerTypeOK
<1>2. Len(frames) \in 1..Len(frames)
  <2>1. \A n \in 1..4 : n \in 1..n
    OBVIOUS
  <2> QED
    BY <1>1, <2>1
<1>3. Top = frames[Len(frames)] /\ Top \in Frame
  BY <1>1, <1>2, CallStack DEF Top
<1>4. Len(frames) <= Rank(Top) + 1
  BY <1>2, <1>3 DEF DockerInv, CallsGetFurther
<1> QED
  BY <1>1, <1>3, <1>4, Ranks DEF DockerInv

\* A call inside the innermost one keeps the shape of the chain.
LEMMA EnterGetsFurther ==
    ASSUME DockerInv, NEW full \in BOOLEAN, NEW token \in BOOLEAN, Enter(frames, full, token),
           docker = "running",
           Rank(Call(full, token)) >= Len(frames),
           full => ~Top.full /\ Top.token = token,
           manifests <= Rank(Call(full, token)),
           tokens <= (IF token THEN 2 ELSE 0)
    PROVE  DockerInv'
<1> DEFINE f == Call(full, token)
<1>0. Len(frames) \in Nat /\ Len(frames) >= 1
  <2>1. Len(frames) \in 1..4
    BY TopCall
  <2> QED
    BY <2>1
<1>1. /\ frames' = Append(frames, f) /\ asks' = "manifest" /\ manifests' = manifests + 1
      /\ UNCHANGED <<tokens, digests, docker>>
  BY DEF Enter
<1>2. f \in Frame /\ f.full = full /\ f.token = token /\ frames \in Seq(Frame) /\ Rank(f) \in 0..3
  BY CallStack, Ranks DEF DockerInv, DockerTypeOK
<1>3. /\ frames' \in Seq(Frame) /\ Len(frames') = Len(frames) + 1
      /\ \A k \in 1..Len(frames) : frames'[k] = frames[k]
      /\ frames'[Len(frames')] = f
  BY <1>1, <1>2, CallStack
<1>4. Top' = f
  BY <1>3 DEF Top
<1>5. CallsGetFurther'
  <2> SUFFICES ASSUME NEW k \in 1..Len(frames')
               PROVE  /\ k <= Rank(frames'[k]) + 1
                      /\ frames'[k].full => k > 1 /\ ~frames'[k - 1].full /\ frames'[k - 1].token = frames'[k].token
    BY DEF CallsGetFurther, Rank
  <2>1. CASE k \in 1..Len(frames)
    <3>1. k > 1 => k - 1 \in 1..Len(frames)
      BY <1>0, <2>1
    <3> QED
      BY <1>3, <2>1, <3>1 DEF DockerInv, CallsGetFurther
  <2>2. CASE k = Len(frames')
    <3>1. k = Len(frames) + 1 /\ k > 1 /\ k - 1 \in 1..Len(frames) /\ k - 1 = Len(frames)
      BY <1>0, <1>3, <2>2
    <3>2. frames'[k] = f /\ frames'[k - 1] = Top
      BY <1>3, <2>2, <3>1, TopCall
    <3> QED
      BY <1>2, <3>1, <3>2, TopCall
  <2> QED
    BY <1>3, <2>1, <2>2, TopCall
<1>6. RequestsSoFar'
  <2>1. Rank(f)' = Rank(f)
    BY DEF Rank
  <2>2. manifests' <= Rank(Top)' + 1
    BY <1>1, <1>2, <1>4, TopCall DEF Rank
  <2> QED
    BY <1>1, <1>2, <1>4, <2>2 DEF RequestsSoFar
<1>7. DockerTypeOK' /\ digests' <= 2
  BY <1>1, <1>2, <1>3, TopCall DEF DockerInv, DockerTypeOK
<1> QED
  BY <1>5, <1>6, <1>7 DEF DockerInv

\* The chain of one call.
LEMMA OneCall ==
    ASSUME NEW f \in Frame
    PROVE  <<f>> \in Seq(Frame) /\ Len(<<f>>) = 1 /\ <<f>>[1] = f
OBVIOUS

\* One more digest: the next one begins anew, and after two the checker has its
\* answer.
LEMMA DigestKeeps == DockerInv /\ docker = "running" /\ asks = "manifest" /\ Digest => DockerInv'
<1> SUFFICES ASSUME DockerInv, docker = "running", asks = "manifest", Digest
             PROVE  DockerInv'
  OBVIOUS
<1>1. digests \in {0, 1}
  BY TopCall DEF DockerInv, DockerTypeOK
<1>2. CASE digests = 0
  <2> DEFINE f == Call(FALSE, FALSE)
  <2>1. frames' = <<f>>
    BY <1>2 DEF Digest
  <2>2. manifests' = 1 /\ tokens' = 0 /\ digests' = 1 /\ asks' = "manifest" /\ docker' = "running"
    BY <1>2 DEF Digest
  <2>3. f \in Frame /\ ~f.full /\ ~f.token
    BY CallStack
  <2>4. Rank(f) = 0
    BY <2>3 DEF Rank
  <2>5. frames' \in Seq(Frame) /\ Len(frames') = 1 /\ frames'[1] = f
    BY <2>1, <2>3, OneCall
  <2> HIDE DEF f
  <2>6. Top' = f
    BY <2>5 DEF Top
  <2>7. CallsGetFurther'
    <3>1. \A k \in 1..Len(frames') : k = 1
      BY <2>5
    <3> QED
      BY <2>3, <2>4, <2>5, <3>1 DEF CallsGetFurther, Rank
  <2>8. RequestsSoFar'
    BY <2>2, <2>3, <2>4, <2>6 DEF RequestsSoFar, Rank
  <2> QED
    BY <2>2, <2>5, <2>7, <2>8 DEF DockerInv, DockerTypeOK
<1>3. CASE digests = 1
  <2>1. digests' = 2 /\ docker' = "answered" /\ UNCHANGED <<frames, asks, manifests, tokens>>
    BY <1>3 DEF Digest
  <2> QED
    BY <2>1 DEF DockerInv, DockerTypeOK, CallsGetFurther, RequestsSoFar, Top, Rank
<1> QED
  BY <1>1, <1>2, <1>3

\* A failure leaves everything as it is.
LEMMA FailureKeeps == DockerInv /\ docker = "running" /\ DockerFails => DockerInv'
BY DEF DockerFails, DockerInv, DockerTypeOK, CallsGetFurther, RequestsSoFar, Top, Rank

\* Calls that are taken off leave at most four.
LEMMA Fewer == \A a \in 1..4 : \A b \in 1..a : b \in 1..4 /\ a \in Nat /\ b \in Nat
OBVIOUS

\* With more than one call there is one outside the innermost.
LEMMA MoreThanOne == \A n \in 1..4 : n # 1 => n > 1
OBVIOUS

\* The call that a 401 reaches asks for a token if it has none.
LEMMA AuthenticatesKeeps ==
    ASSUME DockerInv, docker = "running", Authenticates,
           frames' \in Seq(Frame), Len(frames') \in 1..Len(frames),
           \A k \in 1..Len(frames') : frames'[k] = frames[k],
           ~Top'.token, manifests <= 2, tokens <= 2 - Len(frames')
    PROVE  DockerInv'
<1>0. Len(frames) \in 1..4 /\ Len(frames') \in 1..4
  <2>1. Len(frames) \in 1..4
    BY TopCall
  <2> QED
    BY <2>1, Fewer
<1>1. asks' = "token" /\ tokens' = tokens + 1 /\ UNCHANGED <<manifests, digests, docker>>
  BY DEF Authenticates
<1>2. CallsGetFurther'
  <2> SUFFICES ASSUME NEW k \in 1..Len(frames')
               PROVE  /\ k <= Rank(frames'[k]) + 1
                      /\ frames'[k].full => k > 1 /\ ~frames'[k - 1].full /\ frames'[k - 1].token = frames'[k].token
    BY DEF CallsGetFurther, Rank
  <2>1. k \in 1..Len(frames) /\ (k > 1 => k - 1 \in 1..Len(frames'))
    BY <1>0
  <2> QED
    BY <2>1 DEF DockerInv, CallsGetFurther
<1>3. tokens' <= 3 - Len(frames')
  BY <1>0, <1>1, TopCall
<1>4. RequestsSoFar'
  BY <1>1, <1>3 DEF RequestsSoFar
<1> QED
  BY <1>0, <1>1, <1>2, <1>4 DEF DockerInv, DockerTypeOK

\* Every answer of the registry and of its token server, or a refusal, keeps the
\* chain as it should be.
LEMMA DockerInvNext == DockerInv /\ DockerNext => DockerInv'
<1> SUFFICES ASSUME DockerInv, DockerNext
             PROVE  DockerInv'
  OBVIOUS
<1>a. frames \in Seq(Frame) /\ Top \in Frame
  BY TopCall DEF DockerInv, DockerTypeOK
<1>b. Len(frames) \in 1..4 /\ Rank(Top) \in 0..3 /\ manifests \in Nat /\ tokens \in Nat
  BY TopCall
<1>c. Len(frames) <= Rank(Top) + 1
  BY TopCall
<1> DEFINE depth == Len(frames)
<1>0. /\ depth \in Nat /\ depth >= 1 /\ Rank(Top) \in 0..3 /\ depth <= Rank(Top) + 1
      /\ manifests \in Nat /\ tokens \in Nat
  BY <1>b, <1>c
<1>1. CASE Manifest
  BY <1>1, DigestKeeps DEF Manifest, Waiting
<1>2. CASE OddManifest \/ OddToken
  BY <1>2, FailureKeeps DEF OddManifest, OddToken, Waiting
<1>3. CASE ManifestList
  <2>1. CASE Top.full
    BY <1>3, <2>1, DigestKeeps, FailureKeeps DEF ManifestList, Waiting
  <2>2. CASE ~Top.full
    <3>1. Enter(frames, TRUE, Top.token) /\ docker = "running" /\ asks = "manifest"
      BY <1>3, <2>2 DEF ManifestList, Waiting
    <3>2. Top.token \in BOOLEAN /\ Rank(Call(TRUE, Top.token)) = Rank(Top) + 1
      BY <1>a, <2>2, CallStack, Ranks
    <3>3. manifests <= Rank(Top) + 1 /\ tokens <= (IF Top.token THEN 2 ELSE 0)
      BY <3>1 DEF DockerInv, RequestsSoFar
    <3>4. Rank(Call(TRUE, Top.token)) >= Len(frames) /\ manifests <= Rank(Call(TRUE, Top.token))
      BY <1>0, <3>2, <3>3
    <3> QED
      BY <2>2, <3>1, <3>2, <3>3, <3>4, EnterGetsFurther
  <2> QED
    BY <2>1, <2>2
<1>4. CASE Token
  <2>1. Enter(frames, FALSE, TRUE) /\ docker = "running" /\ asks = "token"
    BY <1>4 DEF Token, Waiting
  <2>2. ~Top.token /\ manifests <= 2 /\ tokens <= 3 - Len(frames)
    BY <2>1 DEF DockerInv, RequestsSoFar
  <2>3. Rank(Top) <= 1
    BY <1>a, <2>2, Ranks
  <2> DEFINE rank == Rank(Call(FALSE, TRUE))
  <2>6. rank = 2
    BY Ranks
  <2> HIDE DEF rank
  <2>4. rank >= depth
    <3> HIDE DEF depth
    <3> QED
      BY <1>0, <2>3, <2>6
  <2>5. manifests <= rank /\ tokens <= 2
    BY <1>0, <2>2, <2>6
  <2> QED
    BY <2>1, <2>4, <2>5, EnterGetsFurther DEF rank
<1>5. ASSUME NEW status \in {401, 500}, ManifestRefused(status)
      PROVE  DockerInv'
  <2>1. docker = "running" /\ asks = "manifest"
        /\ \/ ~frames[Len(frames)].token /\ frames' = frames /\ Authenticates
           \/ DockerFails
    BY <1>5 DEF ManifestRefused, Refused, Waiting
  <2>2. CASE ~frames[Len(frames)].token /\ frames' = frames /\ Authenticates
    <3>1. ~Top.token /\ Top' = Top
      BY <2>2 DEF Top
    <3>2. Rank(Top) <= 1 /\ manifests <= Rank(Top) + 1 /\ tokens = 0
      BY <1>a, <1>0, <2>1, <3>1, Ranks DEF DockerInv, RequestsSoFar
    <3>3. manifests <= 2 /\ tokens <= 2 - Len(frames) /\ Len(frames) \in 1..Len(frames)
      BY <1>0, <3>2
    <3> QED
      BY <1>a, <2>1, <2>2, <3>1, <3>3, AuthenticatesKeeps
  <2> QED
    BY <2>1, <2>2, FailureKeeps
<1>6. ASSUME NEW status \in {401, 500}, TokenRefused(status)
      PROVE  DockerInv'
  <2> DEFINE outer == SubSeq(frames, 1, Len(frames) - 1)
  <2>1. docker = "running" /\ asks = "token"
        /\ \/ Len(frames) # 1 /\ ~outer[Len(outer)].token /\ frames' = outer /\ Authenticates
           \/ DockerFails
    BY <1>6 DEF TokenRefused, Refused, Waiting
  <2>2. ASSUME Len(frames) # 1
        PROVE  /\ outer \in Seq(Frame) /\ Len(outer) = Len(frames) - 1
               /\ \A k \in 1..Len(outer) : outer[k] = frames[k]
    <3>1. Len(frames) > 1
      BY <1>b, <2>2, Fewer, MoreThanOne
    <3> QED
      BY <1>a, <3>1, CallStack
  <2> HIDE DEF outer
  <2>3. CASE Len(frames) # 1 /\ ~outer[Len(outer)].token /\ frames' = outer /\ Authenticates
    <3>1. ~Top'.token
      BY <2>3 DEF Top
    <3>2. manifests <= 2 /\ tokens <= 3 - Len(frames)
      BY <2>1 DEF DockerInv, RequestsSoFar
    <3>3. frames' \in Seq(Frame) /\ Len(frames') = Len(frames) - 1
          /\ \A k \in 1..Len(frames') : frames'[k] = frames[k]
      BY <2>2, <2>3
    <3>4. Len(frames') \in 1..Len(frames) /\ tokens <= 2 - Len(frames')
      BY <1>0, <2>3, <3>2, <3>3
    <3> QED
      BY <2>1, <2>3, <3>1, <3>2, <3>3, <3>4, AuthenticatesKeeps
  <2> QED
    BY <2>1, <2>3, FailureKeeps
<1> QED
  BY <1>1, <1>2, <1>3, <1>4, <1>5, <1>6 DEF DockerNext

\* At the start the first manifest is asked for.
LEMMA DockerInvInit == DockerInit => DockerInv
<1> SUFFICES ASSUME DockerInit
             PROVE  DockerInv
  OBVIOUS
<1> DEFINE f == Call(FALSE, FALSE)
<1>1. f \in Frame /\ ~f.full /\ ~f.token
  BY CallStack
<1>2. Rank(f) = 0
  BY <1>1 DEF Rank
<1>3. frames \in Seq(Frame) /\ Len(frames) = 1 /\ frames[1] = f
  BY <1>1, OneCall DEF DockerInit
<1> HIDE DEF f
<1>4. Top = f
  BY <1>3 DEF Top
<1>5. CallsGetFurther
  <2>1. \A k \in 1..Len(frames) : k = 1
    BY <1>3
  <2> QED
    BY <1>1, <1>2, <1>3, <2>1 DEF CallsGetFurther
<1>6. /\ tokens = 0 /\ manifests = 1 /\ digests = 0 /\ asks = "manifest" /\ docker = "running"
  BY DEF DockerInit
<1>7. RequestsSoFar
  BY <1>1, <1>2, <1>4, <1>6 DEF RequestsSoFar
<1> QED
  BY <1>3, <1>5, <1>6, <1>7 DEF DockerInv, DockerTypeOK

\* The svn checker does not touch the chain.
LEMMA DockerInvariant == Spec => []DockerInv
<1>1. Init => DockerInv
  BY DockerInvInit DEF Init
<1>2. DockerInv /\ [Next]_clientVars => DockerInv'
  <2>1. DockerInv /\ UNCHANGED dockerVars => DockerInv'
    BY DEF dockerVars, DockerInv, DockerTypeOK, CallsGetFurther, RequestsSoFar, Top, Rank
  <2> QED
    BY <2>1, DockerInvNext DEF Next, clientVars
<1> QED
  BY <1>1, <1>2, PTL DEF Spec

\* The registry's answers to whole manifests come only after a HEAD with the same
\* token, or none, that was answered with a list.
THEOREM GetsComeAfterHeads == Spec => []GetAfterHead
<1>1. DockerInv => GetAfterHead
  <2> SUFFICES ASSUME DockerInv, NEW k \in DOMAIN frames, frames[k].full
               PROVE  k > 1 /\ ~frames[k - 1].full /\ frames[k - 1].token = frames[k].token
    BY DEF GetAfterHead
  <2>1. DOMAIN frames = 1..Len(frames)
    BY LenProperties DEF DockerInv, DockerTypeOK
  <2> QED
    BY <2>1 DEF DockerInv, CallsGetFurther
<1> QED
  BY <1>1, DockerInvariant, PTL

\* Whatever the registry and its token server answer, a digest takes at most four
\* requests for a manifest and two for a token.
THEOREM DigestsTakeFewRequests == Spec => []RequestsAreBounded
<1>1. DockerInv => RequestsAreBounded
  <2> SUFFICES ASSUME DockerInv
               PROVE  manifests <= 4 /\ tokens <= 2
    BY DEF RequestsAreBounded
  <2>1. CASE asks = "manifest"
    BY <2>1, TopCall DEF DockerInv, RequestsSoFar
  <2>2. CASE asks = "token"
    <3> DEFINE depth == Len(frames)
    <3>1. manifests <= 2 /\ tokens <= 3 - depth
      BY <2>2 DEF DockerInv, RequestsSoFar
    <3>2. depth \in 1..4 /\ tokens \in Nat /\ manifests \in Nat
      BY TopCall
    <3> HIDE DEF depth
    <3> QED
      BY <3>1, <3>2
  <2> QED
    BY <2>1, <2>2 DEF DockerInv, DockerTypeOK
<1> QED
  BY <1>1, DockerInvariant, PTL

-----------------------------------------------------------------------------
(***************************************************************************)
(* The session of the svn protocol.                                        *)
(***************************************************************************)

\* How many answers the server still owes in all when the client is about to read
\* k, and which one comes at place j.
HowMany(k) ==
    IF k = "connection" THEN 0 ELSE IF k \in {"auth result", "command auth"} THEN 2 ELSE 1
Expected(k, j) ==
    IF j = 1 THEN k ELSE IF k = "auth result" THEN "repos" ELSE "result"

\* What is on the wire and due after it is the beginning of what the client
\* expects, for the command it last sent.
InStep ==
    /\ Len(wire) + Len(due) <= HowMany(at)
    /\ \A j \in 1..Len(wire) : wire[j].kind = Expected(at, j) /\ wire[j].to = command
    /\ \A j \in 1..Len(due) : due[j] = To(command, Expected(at, Len(wire) + j))

\* What the session has got to, and with it the socket and the command.
Progress ==
    /\ at = "connection" => sock = "none" /\ svn \notin {"answered", "refused"}
    /\ at # "connection" => sock # "none"
    /\ at \in {"connection", "greeting", "auth", "auth result", "repos"} => command = "none"
    /\ svn = "running" => InStep
    /\ svn = "answered" => wire = <<>> /\ due = <<>>
    /\ svn \in {"answered", "refused"} => sock = "closed"
    /\ svn = "failed" /\ command # "none" => sock = "closed"

\* Types, and client and server in step.
SvnInv == SvnTypeOK /\ Progress

\* Sequences of messages and of what is due.
LEMMA Streams ==
    /\ \A s \in Seq(Message) : /\ Len(s) \in Nat /\ (s # <<>> <=> Len(s) > 0)
                               /\ \A j \in 1..Len(s) : s[j] \in Message
    /\ \A s \in Seq(Message) : s # <<>> =>
         /\ Head(s) = s[1] /\ Head(s) \in Message /\ Tail(s) \in Seq(Message) /\ Len(Tail(s)) = Len(s) - 1
         /\ \A j \in 1..Len(Tail(s)) : Tail(s)[j] = s[j + 1]
    /\ \A s \in Seq(Message), m \in Message :
         /\ Append(s, m) \in Seq(Message) /\ Len(Append(s, m)) = Len(s) + 1
         /\ \A j \in 1..Len(s) : Append(s, m)[j] = s[j]
         /\ Append(s, m)[Len(s) + 1] = m
    /\ \A s \in Seq(Due) : /\ Len(s) \in Nat /\ (s # <<>> <=> Len(s) > 0)
                           /\ \A j \in 1..Len(s) : s[j] \in Due
    /\ \A s \in Seq(Due) : s # <<>> =>
         /\ Head(s) = s[1] /\ Head(s) \in Due /\ Tail(s) \in Seq(Due) /\ Len(Tail(s)) = Len(s) - 1
         /\ \A j \in 1..Len(Tail(s)) : Tail(s)[j] = s[j + 1]
    /\ <<>> \in Seq(Due) /\ <<>> \in Seq(Message)
<1>1. ASSUME NEW S
      PROVE  /\ \A s \in Seq(S) : /\ Len(s) \in Nat /\ (s # <<>> <=> Len(s) > 0)
                                 /\ \A j \in 1..Len(s) : s[j] \in S
             /\ \A s \in Seq(S) : s # <<>> =>
                 /\ Head(s) = s[1] /\ Head(s) \in S /\ Tail(s) \in Seq(S) /\ Len(Tail(s)) = Len(s) - 1
                 /\ \A j \in 1..Len(Tail(s)) : Tail(s)[j] = s[j + 1]
             /\ \A s \in Seq(S), m \in S :
                 /\ Append(s, m) \in Seq(S) /\ Len(Append(s, m)) = Len(s) + 1
                 /\ \A j \in 1..Len(s) : Append(s, m)[j] = s[j]
                 /\ Append(s, m)[Len(s) + 1] = m
             /\ <<>> \in Seq(S)
  <2>1. ASSUME NEW s \in Seq(S)
        PROVE  /\ Len(s) \in Nat /\ (s # <<>> <=> Len(s) > 0)
               /\ \A j \in 1..Len(s) : s[j] \in S
    BY <2>1, LenProperties, EmptySeq, ElementOfSeq
  <2>2. ASSUME NEW s \in Seq(S), s # <<>>
        PROVE  /\ Head(s) = s[1] /\ Head(s) \in S /\ Tail(s) \in Seq(S) /\ Len(Tail(s)) = Len(s) - 1
               /\ \A j \in 1..Len(Tail(s)) : Tail(s)[j] = s[j + 1]
    <3>1. Head(s) = s[1]
      BY <2>2
    <3> QED
      BY <2>2, <3>1, HeadTailProperties
  <2>3. ASSUME NEW s \in Seq(S), NEW m \in S
        PROVE  /\ Append(s, m) \in Seq(S) /\ Len(Append(s, m)) = Len(s) + 1
               /\ \A j \in 1..Len(s) : Append(s, m)[j] = s[j]
               /\ Append(s, m)[Len(s) + 1] = m
    BY <2>3, AppendProperties
  <2>4. <<>> \in Seq(S)
    OBVIOUS
  <2> QED
    BY <2>1, <2>2, <2>3, <2>4
<1> QED
  BY <1>1

\* What the types say of the streams.
LEMMA StreamTypes ==
    ASSUME SvnTypeOK
    PROVE  /\ wire \in Seq(Message) /\ due \in Seq(Due)
           /\ Len(wire) \in Nat /\ Len(due) \in Nat
           /\ HowMany(at) \in 0..2
BY Streams DEF SvnTypeOK, HowMany

\* A server that sends what is due stays in step, and one that closes too.
LEMMA ServerKeepsStep ==
    ASSUME SvnTypeOK, InStep, ServerSends
    PROVE  InStep'
<1>1. due # <<>> /\ UNCHANGED <<at, command>> /\ Len(due) > 0
  BY Streams, StreamTypes DEF ServerSends
<1>2. PICK says \in Sayings(Head(due)) :
        /\ wire' = Append(wire, [kind |-> Head(due).kind, to |-> Head(due).to, says |-> says])
        /\ due' = IF says = "failure" THEN <<>> ELSE Tail(due)
  BY DEF ServerSends
<1> DEFINE m == [kind |-> Head(due).kind, to |-> Head(due).to, says |-> says]
           here == Len(wire)
           left == Len(due)
<1>3. Head(due) = due[1] /\ Head(due) \in Due
  BY <1>1, Streams, StreamTypes
<1>4. m \in Message
  <2>1. says \in Says
    BY DEF Sayings, Says
  <2> QED
    BY <1>3, <2>1 DEF Due, Message
<1>5. due[1] = To(command, Expected(at, here + 1))
  <2>1. 1 \in 1..Len(due)
    BY <1>1, StreamTypes
  <2> QED
    BY <2>1 DEF InStep
<1>6. m.kind = Expected(at, here + 1) /\ m.to = command
  BY <1>3, <1>5 DEF To
<1>7. /\ wire' \in Seq(Message) /\ Len(wire') = here + 1
      /\ \A j \in 1..here : wire'[j] = wire[j]
      /\ wire'[here + 1] = m
  BY <1>2, <1>4, Streams, StreamTypes
<1>8. ASSUME NEW j \in 1..Len(wire')
      PROVE  wire'[j].kind = Expected(at, j) /\ wire'[j].to = command
  <2>1. here \in Nat
    BY StreamTypes
  <2>2. j \in 1..here \/ j = here + 1
    BY <1>7, <2>1
  <2> HIDE DEF m
  <2> QED
    BY <1>6, <1>7, <2>2 DEF InStep
<1>9. /\ Len(due') \in Nat /\ Len(due') <= left - 1
      /\ \A j \in 1..Len(due') : due'[j] = due[j + 1] /\ j + 1 \in 1..left
  <2>1. CASE says = "failure"
    BY <1>1, <1>2, <2>1, StreamTypes
  <2>2. CASE says # "failure"
    <3>1. due' = Tail(due)
      BY <1>2, <2>2
    <3>2. /\ Len(Tail(due)) = left - 1
          /\ \A j \in 1..Len(Tail(due)) : Tail(due)[j] = due[j + 1]
      BY <1>1, Streams, StreamTypes
    <3> QED
      BY <1>1, <3>1, <3>2, StreamTypes
  <2> QED
    BY <2>1, <2>2
<1>10. \A j \in 1..Len(due') : due'[j] = To(command, Expected(at, Len(wire') + j))
  <2> SUFFICES ASSUME NEW j \in 1..Len(due')
               PROVE  due'[j] = To(command, Expected(at, Len(wire') + j))
    OBVIOUS
  <2>1. due'[j] = To(command, Expected(at, here + (j + 1)))
    BY <1>9 DEF InStep
  <2>2. here + (j + 1) = Len(wire') + j
    BY <1>7, <1>9, StreamTypes
  <2> QED
    BY <2>1, <2>2
<1>11. Len(wire') + Len(due') <= HowMany(at)
  <2>1. here + left <= HowMany(at) /\ here \in Nat /\ left \in Nat /\ HowMany(at) \in Nat
    BY StreamTypes DEF InStep
  <2> QED
    BY <1>7, <1>9, <2>1
<1>12. HowMany(at)' = HowMany(at) /\ \A j : Expected(at, j)' = Expected(at, j)
  BY <1>1
<1> QED
  BY <1>1, <1>8, <1>10, <1>11, <1>12 DEF InStep, HowMany, Expected, To

\* What the client reads unless the stream has ended.
LEMMA ReadTakesHead ==
    ASSUME SvnTypeOK, NEW k, NEW says, Reads(k, says), says # "end"
    PROVE  /\ wire # <<>> /\ Len(wire) > 0 /\ wire' = Tail(wire) /\ wire' \in Seq(Message)
           /\ Len(wire') = Len(wire) - 1 /\ \A j \in 1..Len(wire') : wire'[j] = wire[j + 1]
           /\ svn = "running" /\ at = k
<1>1. wire # <<>> /\ wire' = Tail(wire) /\ svn = "running" /\ at = k
  BY DEF Reads
<1> QED
  BY <1>1, Streams, StreamTypes

\* Who reads the last answer that is owed leaves nothing behind.
LEMMA LastAnswer ==
    ASSUME SvnTypeOK, InStep, NEW k \in {"greeting", "auth", "repos", "result"}, NEW says,
           Reads(k, says), says # "end"
    PROVE  wire' = <<>> /\ due = <<>>
<1> DEFINE here == Len(wire)
           left == Len(due)
           after == Len(wire')
<1>1. HowMany(at) = 1
  BY ReadTakesHead DEF HowMany
<1>2. here + left <= 1 /\ here \in Nat /\ left \in Nat
  BY <1>1, StreamTypes DEF InStep
<1>3. here > 0 /\ after = here - 1
  BY ReadTakesHead
<1>4. after = 0 /\ left = 0
  BY <1>2, <1>3
<1> QED
  BY <1>4, ReadTakesHead, Streams, StreamTypes

\* After the first of two answers the client is in step for the second.
LEMMA NextAnswer ==
    ASSUME SvnTypeOK, InStep, NEW k, NEW says, Reads(k, says), says # "end", HowMany(k) = 2,
           command' = command, due' = due, at' = Expected(k, 2), HowMany(at') = 1
    PROVE  InStep'
<1>1. /\ Len(wire) > 0 /\ wire' \in Seq(Message)
      /\ Len(wire') = Len(wire) - 1 /\ \A j \in 1..Len(wire') : wire'[j] = wire[j + 1]
      /\ at = k
  BY ReadTakesHead
<1> DEFINE here == Len(wire)
           left == Len(due)
           after == Len(wire')
<1>2. HowMany(at) = 2 /\ HowMany(at') = 1
  BY <1>1
<1>3. Expected(at, 2) = Expected(at', 1)
  BY <1>1 DEF Expected
<1>4. here \in Nat /\ left \in Nat /\ here > 0 /\ here + left <= 2 /\ after = here - 1
  BY <1>1, <1>2, StreamTypes DEF InStep
<1>5. ASSUME NEW j \in 1..after
      PROVE  wire'[j].kind = Expected(at', j) /\ wire'[j].to = command
  <2>1. j = 1 /\ j + 1 \in 1..here
    BY <1>4
  <2>2. wire'[j] = wire[2] /\ 2 \in 1..here
    BY <1>1, <1>5, <2>1
  <2> QED
    BY <1>3, <2>1, <2>2 DEF InStep
<1>6. ASSUME NEW j \in 1..left
      PROVE  due[j] = To(command, Expected(at', after + j))
  <2>1. here = 1 /\ after = 0 /\ left = 1 /\ j = 1
    <3> HIDE DEF here, left, after
    <3> QED
      BY <1>4
  <2>2. due[j] = To(command, Expected(at, here + j))
    BY DEF InStep
  <2>3. here + j = 2 /\ after + j = 1
    BY <2>1
  <2> QED
    BY <1>3, <2>2, <2>3
<1>7. after + left <= 1
  BY <1>4
<1> QED
  BY <1>2, <1>5, <1>6, <1>7 DEF InStep, HowMany, Expected, To

\* A server that had nothing more to send owes what the client asks for, or
\* nothing when it is gone.
LEMMA SendStartsStep ==
    ASSUME wire' = <<>>, due = <<>>, NEW kinds, NEW c \in Commands, Sends(c, kinds), command' = c,
           DOMAIN kinds = 1..Len(kinds), Len(kinds) \in Nat, Len(kinds) = HowMany(at'),
           \A j \in 1..Len(kinds) : kinds[j] = Expected(at', j) /\ kinds[j] \in Kinds
    PROVE  InStep' /\ due' \in Seq(Due)
<1>1. Len(wire') = 0
  OBVIOUS
<1> DEFINE owed == [j \in 1..Len(kinds) |-> To(c, kinds[j])]
<1>2. due' = owed \/ due' = <<>>
  BY DEF Sends
<1>3. owed \in Seq(Due) /\ Len(owed) = Len(kinds)
  <2>1. \A j \in 1..Len(kinds) : To(c, kinds[j]) \in Due
    BY DEF To, Due
  <2> QED
    BY <2>1
<1>4. \A j \in 1..Len(owed) : owed[j] = To(c, Expected(at', j))
  BY <1>3
<1>5. CASE due' = <<>>
  <2>1. Len(due') = 0 /\ due' \in Seq(Due)
    BY <1>5
  <2>2. Len(wire') + Len(due') <= HowMany(at')
    BY <1>1, <2>1
  <2>3. 1..0 = {}
    OBVIOUS
  <2> QED
    BY <1>1, <2>1, <2>2, <2>3 DEF InStep, HowMany
<1>6. CASE due' = owed
  <2> HIDE DEF owed
  <2> DEFINE here == Len(wire')
             left == Len(due')
  <2>1. left = HowMany(at') /\ left \in Nat /\ here = 0
    BY <1>1, <1>3, <1>6
  <2> HIDE DEF here, left
  <2>2. here + left <= HowMany(at') /\ \A j \in 1..left : here + j = j
    BY <2>1
  <2>3. 1..here = {}
    BY <2>1
  <2>4. \A j \in 1..left : due'[j] = To(c, Expected(at', here + j))
    BY <1>4, <1>6, <2>2 DEF left
  <2> QED
    BY <1>3, <1>6, <2>2, <2>3, <2>4 DEF InStep, HowMany, Expected, To, here, left
<1> QED
  BY <1>2, <1>5, <1>6

\* The same for one answer asked for and for two.
LEMMA AsksForOne ==
    ASSUME wire' = <<>>, due = <<>>, NEW c \in Commands, command' = c,
           NEW k \in Kinds, HowMany(k) = 1, at' = k, Sends(c, <<k>>)
    PROVE  InStep' /\ due' \in Seq(Due)
<1> DEFINE kinds == <<k>>
<1>1. DOMAIN kinds = 1..1 /\ Len(kinds) = 1 /\ kinds[1] = k
  OBVIOUS
<1>2. Sends(c, kinds)
  OBVIOUS
<1> HIDE DEF kinds
<1>3. HowMany(at') = 1 /\ Expected(at', 1) = k
  BY DEF Expected
<1>4. \A j \in 1..Len(kinds) : kinds[j] = Expected(at', j) /\ kinds[j] \in Kinds
  BY <1>1, <1>3
<1> QED
  BY <1>1, <1>2, <1>3, <1>4, SendStartsStep

\* A command that two answers belong to, the first of them due next, leaves client and
\* server in step.
LEMMA AsksForTwo ==
    ASSUME wire' = <<>>, due = <<>>, NEW c \in Commands, command' = c,
           NEW k \in Kinds, NEW l \in Kinds, HowMany(k) = 2, l = Expected(k, 2),
           at' = k, Sends(c, <<k, l>>)
    PROVE  InStep' /\ due' \in Seq(Due)
<1> DEFINE kinds == <<k, l>>
<1>1. DOMAIN kinds = 1..2 /\ Len(kinds) = 2 /\ kinds[1] = k /\ kinds[2] = l
  OBVIOUS
<1>2. Sends(c, kinds)
  OBVIOUS
<1> HIDE DEF kinds
<1>3. HowMany(at') = 2 /\ Expected(at', 1) = k /\ Expected(at', 2) = l
  BY DEF Expected
<1>4. \A j \in 1..Len(kinds) : kinds[j] = Expected(at', j) /\ kinds[j] \in Kinds
  <2>1. kinds[1] = Expected(at', 1) /\ kinds[2] = Expected(at', 2)
    BY <1>1, <1>3
  <2>2. \A j \in 1..Len(kinds) : j = 1 \/ j = 2
    BY <1>1
  <2> QED
    BY <1>1, <2>1, <2>2
<1> QED
  BY <1>1, <1>2, <1>3, <1>4, SendStartsStep

\* Reading anything.
LEMMA ReadingKeepsTypes ==
    ASSUME SvnInv, NEW k \in Kinds, NEW says, Reads(k, says)
    PROVE  wire' \in Seq(Message) /\ svn = "running" /\ at = k /\ InStep /\ SvnTypeOK
           /\ sock # "none" /\ peer # "none" /\ due \in Seq(Due)
<1>1. svn = "running" /\ at = k
  BY DEF Reads
<1>2. wire' \in Seq(Message)
  BY Streams, StreamTypes DEF Reads, SvnInv
<1>3. k # "connection"
  BY DEF Kinds
<1> QED
  BY <1>1, <1>2, <1>3, StreamTypes DEF SvnInv, Progress, SvnTypeOK

\* A failure of connect leaves the socket open or closed, with no command sent; a
\* refused authentication closes it.
LEMMA ConnectFailsKeeps ==
    ASSUME SvnInv, NEW k \in {"greeting", "auth", "auth result", "repos"}, NEW says, Reads(k, says),
           ConnectFails(says), UNCHANGED <<want, command, peer>>
    PROVE  SvnInv'
<1>1. k \in Kinds /\ k # "connection"
  BY DEF Kinds
<1>2. /\ wire' \in Seq(Message) /\ svn = "running" /\ at = k /\ sock # "none" /\ peer # "none"
      /\ due \in Seq(Due)
  BY <1>1, ReadingKeepsTypes
<1>3. command = "none"
  BY <1>2 DEF SvnInv, Progress
<1>4. /\ UNCHANGED <<at, due>>
      /\ \/ svn' = "refused" /\ sock' = "closed"
         \/ svn' = "failed" /\ sock' = sock
  BY DEF ConnectFails
<1> QED
  BY <1>1, <1>2, <1>3, <1>4 DEF SvnInv, SvnTypeOK, Progress

\* Leaving closes the socket; what has been answered leaves nothing behind.
LEMMA LeaveKeeps ==
    ASSUME SvnInv, NEW k \in Kinds, NEW says, Reads(k, says),
           NEW how \in {"answered", "failed"}, Leave(how), UNCHANGED <<want, peer>>,
           how = "answered" => wire' = <<>> /\ due = <<>>,
           k \notin {"greeting", "auth", "auth result", "repos"}
    PROVE  SvnInv'
<1>1. /\ wire' \in Seq(Message) /\ svn = "running" /\ at = k /\ sock # "none" /\ peer # "none"
      /\ due \in Seq(Due)
  BY ReadingKeepsTypes
<1>2. svn' = how /\ sock' = "closed" /\ UNCHANGED <<at, command, due>>
  BY DEF Leave
<1> QED
  BY <1>1, <1>2 DEF SvnInv, SvnTypeOK, Progress, Kinds

\* What the client goes on to read after an answer that it accepts.
LEMMA GoesOnKeeps ==
    ASSUME SvnInv, NEW k \in Kinds, NEW says, Reads(k, says), at' \in Kinds, InStep',
           due' \in Seq(Due), command' \in Commands,
           at' \in {"auth", "auth result", "repos"} => command' = "none", at' # "greeting",
           UNCHANGED <<want, peer, sock, svn>>
    PROVE  SvnInv'
<1>1. /\ wire' \in Seq(Message) /\ svn = "running" /\ at = k /\ sock # "none" /\ peer # "none"
  BY ReadingKeepsTypes
<1>2. at' # "connection" /\ svn' = "running"
  BY <1>1 DEF Kinds
<1>3. SvnTypeOK'
  BY <1>1, <1>2 DEF SvnInv, SvnTypeOK
<1>4. Progress'
  BY <1>1, <1>2 DEF Progress
<1> QED
  BY <1>3, <1>4 DEF SvnInv

\* Every step of the client keeps the session in step with the server.
LEMMA SvnClientKeeps == SvnInv /\ SvnClient => SvnInv'
<1> SUFFICES ASSUME SvnInv, SvnClient
             PROVE  SvnInv'
  OBVIOUS
<1>k. /\ {"greeting", "auth", "auth result", "repos", "command auth", "result"} = Kinds
      /\ {"none", "check-path", "get-dir"} = Commands
      /\ "success" # "end" /\ "dir" # "end"
  BY DEF Kinds, Commands
<1>h. /\ HowMany("auth") = 1 /\ HowMany("auth result") = 2 /\ HowMany("command auth") = 2
      /\ HowMany("greeting") = 1 /\ HowMany("repos") = 1 /\ HowMany("result") = 1
      /\ Expected("auth result", 2) = "repos" /\ Expected("command auth", 2) = "result"
  BY DEF HowMany, Expected
<1>1. CASE Connect
  <2>1. /\ svn = "running" /\ at = "connection" /\ UNCHANGED <<want, command, wire>>
        /\ \/ /\ sock' = "open" /\ peer' = "open" /\ at' = "greeting"
              /\ due' = <<To("none", "greeting")>> /\ svn' = svn
           \/ svn' = "failed" /\ UNCHANGED <<sock, peer, at, due>>
    BY <1>1 DEF Connect
  <2>2. CASE svn' = "failed" /\ UNCHANGED <<sock, peer, at, due>>
    BY <2>1, <2>2 DEF SvnInv, SvnTypeOK, Progress
  <2>3. ASSUME sock' = "open", peer' = "open", at' = "greeting",
               due' = <<To("none", "greeting")>>, svn' = svn
        PROVE  SvnInv'
    <3> DEFINE d == To("none", "greeting")
    <3>1. command = "none" /\ InStep /\ SvnTypeOK
      BY <2>1 DEF SvnInv, Progress
    <3>2. wire = <<>> /\ due = <<>>
      <4> DEFINE here == Len(wire)
                 left == Len(due)
      <4>1. here + left <= 0 /\ here \in Nat /\ left \in Nat
        BY <2>1, <3>1, StreamTypes DEF InStep, HowMany
      <4>2. here = 0 /\ left = 0
        <5> HIDE DEF here, left
        <5> QED
          BY <4>1
      <4> QED
        BY <3>1, <4>2, Streams, StreamTypes
    <3>3. d \in Due
      BY <1>k DEF To, Due
    <3>4. due' = <<d>>
      BY <2>3
    <3> HIDE DEF d
    <3>5. due' \in Seq(Due) /\ Len(due') = 1 /\ due'[1] = d
      BY <3>3, <3>4
    <3>6. Len(wire') = 0 /\ 1..0 = {} /\ 1..1 = {1}
      BY <2>1, <3>2
    <3>7. HowMany(at') = 1 /\ Expected(at', 1) = "greeting" /\ command' = "none"
      BY <1>h, <2>1, <2>3, <3>1 DEF Expected
    <3>8. InStep'
      <4>1. Len(wire') + Len(due') <= HowMany(at')
        BY <3>5, <3>6, <3>7
      <4>2. \A j \in 1..Len(due') : due'[j] = To(command', Expected(at', Len(wire') + j))
        <5>1. \A j \in 1..Len(due') : j = 1 /\ Len(wire') + j = 1
          BY <3>5, <3>6
        <5> QED
          BY <3>5, <3>7, <5>1 DEF d
      <4> QED
        BY <3>6, <4>1, <4>2 DEF InStep, HowMany, Expected, To
    <3>9. SvnTypeOK'
      BY <1>k, <2>1, <2>3, <3>1, <3>5 DEF SvnTypeOK
    <3> QED
      BY <2>1, <2>3, <3>7, <3>8, <3>9 DEF SvnInv, Progress
  <2> QED
    BY <2>1, <2>2, <2>3
<1>2. ASSUME NEW k \in {"greeting", "auth", "auth result", "repos"}, NEW says,
             Reads(k, says), ConnectFails(says), UNCHANGED <<want, command, peer>>
      PROVE  SvnInv'
  BY <1>2, ConnectFailsKeeps
<1>3. CASE ReadGreeting
  <2>1. PICK says \in Says \cup {"end"} :
          /\ Reads("greeting", says) /\ UNCHANGED <<want, command, peer>>
          /\ IF says = "success" THEN at' = "auth" /\ Sends("none", <<"auth">>) /\ UNCHANGED <<sock, svn>>
             ELSE ConnectFails(says)
    BY <1>3 DEF ReadGreeting
  <2>2. CASE says = "success"
    <3>1. Reads("greeting", says) /\ says # "end"
      BY <1>k, <2>1, <2>2
    <3>2. command = "none" /\ InStep /\ SvnTypeOK
      BY <1>k, <3>1, ReadingKeepsTypes DEF SvnInv, Progress
    <3>3. wire' = <<>> /\ due = <<>>
      BY <3>1, <3>2, LastAnswer
    <3>4. command' = "none" /\ at' = "auth" /\ Sends("none", <<"auth">>) /\ UNCHANGED <<want, peer, sock, svn>>
      BY <2>1, <2>2, <3>2
    <3>5. InStep' /\ due' \in Seq(Due)
      BY <1>h, <1>k, <3>3, <3>4, AsksForOne
    <3> QED
      BY <1>k, <3>1, <3>4, <3>5, GoesOnKeeps
  <2>3. CASE says # "success"
    BY <1>2, <2>1, <2>3
  <2> QED
    BY <2>2, <2>3
<1>4. CASE ReadAuth
  <2>1. PICK says \in Says \cup {"end"} :
          /\ Reads("auth", says) /\ UNCHANGED <<want, command, peer>>
          /\ IF says = "success"
             THEN at' = "auth result" /\ Sends("none", <<"auth result", "repos">>) /\ UNCHANGED <<sock, svn>>
             ELSE ConnectFails(says)
    BY <1>4 DEF ReadAuth
  <2>2. CASE says = "success"
    <3>1. Reads("auth", says) /\ says # "end"
      BY <1>k, <2>1, <2>2
    <3>2. command = "none" /\ InStep /\ SvnTypeOK
      BY <1>k, <3>1, ReadingKeepsTypes DEF SvnInv, Progress
    <3>3. wire' = <<>> /\ due = <<>>
      BY <3>1, <3>2, LastAnswer
    <3>4. /\ command' = "none" /\ at' = "auth result" /\ Sends("none", <<"auth result", "repos">>)
          /\ UNCHANGED <<want, peer, sock, svn>>
      BY <2>1, <2>2, <3>2
    <3>5. InStep' /\ due' \in Seq(Due)
      BY <1>h, <1>k, <3>3, <3>4, AsksForTwo
    <3> QED
      BY <1>k, <3>1, <3>4, <3>5, GoesOnKeeps
  <2>3. CASE says # "success"
    BY <1>2, <2>1, <2>3
  <2> QED
    BY <2>2, <2>3
<1>5. CASE ReadAuthResult
  <2>1. PICK says \in Says \cup {"end"} :
          /\ Reads("auth result", says) /\ UNCHANGED <<want, command, peer>>
          /\ IF says = "success" THEN at' = "repos" /\ UNCHANGED <<due, sock, svn>>
             ELSE ConnectFails(says)
    BY <1>5 DEF ReadAuthResult
  <2>2. CASE says = "success"
    <3>1. Reads("auth result", says) /\ says # "end"
      BY <1>k, <2>1, <2>2
    <3>2. command = "none" /\ InStep /\ SvnTypeOK /\ due \in Seq(Due)
      BY <1>k, <3>1, ReadingKeepsTypes DEF SvnInv, Progress
    <3>3. command' = command /\ due' = due /\ at' = "repos" /\ UNCHANGED <<want, peer, sock, svn>>
      BY <2>1, <2>2
    <3>4. InStep'
      BY <1>h, <3>1, <3>2, <3>3, NextAnswer
    <3> QED
      BY <1>k, <3>1, <3>2, <3>3, <3>4, GoesOnKeeps
  <2>3. CASE says # "success"
    BY <1>2, <2>1, <2>3
  <2> QED
    BY <2>2, <2>3
<1>6. CASE ReadReposInfo
  <2>1. PICK says \in Says \cup {"end"} :
          /\ Reads("repos", says) /\ UNCHANGED <<want, peer>>
          /\ IF says = "success" THEN SendCommand("check-path") /\ UNCHANGED <<sock, svn>>
             ELSE ConnectFails(says) /\ UNCHANGED command
    BY <1>6 DEF ReadReposInfo
  <2>2. CASE says = "success"
    <3>1. Reads("repos", says) /\ says # "end"
      BY <1>k, <2>1, <2>2
    <3>2. InStep /\ SvnTypeOK
      BY <1>k, <3>1, ReadingKeepsTypes
    <3>3. wire' = <<>> /\ due = <<>>
      BY <3>1, <3>2, LastAnswer
    <3>4. /\ command' = "check-path" /\ at' = "command auth"
          /\ Sends("check-path", <<"command auth", "result">>)
          /\ UNCHANGED <<want, peer, sock, svn>>
      BY <2>1, <2>2 DEF SendCommand
    <3>5. InStep' /\ due' \in Seq(Due)
      BY <1>h, <1>k, <3>3, <3>4, AsksForTwo
    <3> QED
      BY <1>k, <3>1, <3>4, <3>5, GoesOnKeeps
  <2>3. CASE says # "success"
    BY <1>2, <2>1, <2>3
  <2> QED
    BY <2>2, <2>3
<1>7. CASE ReadCommandAuth
  <2>1. PICK says \in Says \cup {"end"} :
          /\ Reads("command auth", says) /\ UNCHANGED <<want, peer>>
          /\ IF says = "success" THEN at' = "result" /\ UNCHANGED <<command, due, sock, svn>>
             ELSE Leave("failed")
    BY <1>7 DEF ReadCommandAuth
  <2>2. CASE says = "success"
    <3>1. Reads("command auth", says) /\ says # "end"
      BY <1>k, <2>1, <2>2
    <3>2. InStep /\ SvnTypeOK /\ due \in Seq(Due) /\ command \in Commands
      BY <1>k, <3>1, ReadingKeepsTypes DEF SvnTypeOK
    <3>3. command' = command /\ due' = due /\ at' = "result" /\ UNCHANGED <<want, peer, sock, svn>>
      BY <2>1, <2>2
    <3>4. InStep'
      BY <1>h, <3>1, <3>2, <3>3, NextAnswer
    <3> QED
      BY <1>k, <3>1, <3>2, <3>3, <3>4, GoesOnKeeps
  <2>3. CASE says # "success"
    BY <1>k, <2>1, <2>3, LeaveKeeps
  <2> QED
    BY <2>2, <2>3
<1>8. CASE ReadKind
  <2>1. PICK says \in Says \cup {"end"} :
          /\ Reads("result", says) /\ UNCHANGED <<want, peer>>
          /\ IF says = "dir" THEN SendCommand("get-dir") /\ UNCHANGED <<sock, svn>>
             ELSE Leave("failed")
    BY <1>8 DEF ReadKind
  <2>2. CASE says = "dir"
    <3>1. Reads("result", says) /\ says # "end"
      BY <1>k, <2>1, <2>2
    <3>2. InStep /\ SvnTypeOK
      BY <1>k, <3>1, ReadingKeepsTypes
    <3>3. wire' = <<>> /\ due = <<>>
      BY <3>1, <3>2, LastAnswer
    <3>4. /\ command' = "get-dir" /\ at' = "command auth"
          /\ Sends("get-dir", <<"command auth", "result">>)
          /\ UNCHANGED <<want, peer, sock, svn>>
      BY <2>1, <2>2 DEF SendCommand
    <3>5. InStep' /\ due' \in Seq(Due)
      BY <1>h, <1>k, <3>3, <3>4, AsksForTwo
    <3> QED
      BY <1>k, <3>1, <3>4, <3>5, GoesOnKeeps
  <2>3. CASE says # "dir"
    BY <1>k, <2>1, <2>3, LeaveKeeps
  <2> QED
    BY <2>2, <2>3
<1>9. CASE ReadDir
  <2>1. PICK says \in Says \cup {"end"} :
          /\ Reads("result", says) /\ UNCHANGED <<want, peer>>
          /\ Leave(IF says = "success" THEN "answered" ELSE "failed")
    BY <1>9 DEF ReadDir
  <2>2. CASE says = "success"
    <3>1. Reads("result", says) /\ says # "end" /\ Leave("answered")
      BY <1>k, <2>1, <2>2
    <3>2. InStep /\ SvnTypeOK
      BY <1>k, <3>1, ReadingKeepsTypes
    <3>3. wire' = <<>> /\ due = <<>>
      BY <3>1, <3>2, LastAnswer
    <3> QED
      BY <1>k, <2>1, <3>1, <3>3, LeaveKeeps
  <2>3. CASE says # "success"
    <3>1. Leave("failed")
      BY <2>1, <2>3
    <3> QED
      BY <1>k, <2>1, <3>1, LeaveKeeps
  <2> QED
    BY <2>2, <2>3
<1> QED
  BY <1>1, <1>3, <1>4, <1>5, <1>6, <1>7, <1>8, <1>9 DEF SvnClient

\* A server that sends or goes away keeps the session in step too.
LEMMA SvnServerKeeps == SvnInv /\ (ServerSends \/ ServerCloses) => SvnInv'
<1>1. ASSUME SvnInv, ServerSends
      PROVE  SvnInv'
  <2>1. /\ due # <<>> /\ peer = "open" /\ peer' \in {"open", "closed"}
        /\ UNCHANGED <<want, at, command, sock, svn>>
    BY <1>1 DEF ServerSends
  <2>2. SvnTypeOK /\ due \in Seq(Due) /\ wire \in Seq(Message)
    BY <1>1, StreamTypes DEF SvnInv
  <2>3. due' \in Seq(Due) /\ wire' \in Seq(Message)
    <3>1. PICK says \in Sayings(Head(due)) :
            /\ wire' = Append(wire, [kind |-> Head(due).kind, to |-> Head(due).to, says |-> says])
            /\ due' = IF says = "failure" THEN <<>> ELSE Tail(due)
      BY <1>1 DEF ServerSends
    <3>2. Head(due) \in Due /\ Tail(due) \in Seq(Due)
      BY <2>1, <2>2, Streams
    <3>3. says \in Says
      BY DEF Sayings, Says
    <3>4. [kind |-> Head(due).kind, to |-> Head(due).to, says |-> says] \in Message
      BY <3>2, <3>3 DEF Due, Message
    <3> QED
      BY <2>2, <3>1, <3>2, <3>4, Streams
  <2>4. svn = "running" => InStep'
    BY <1>1, <2>2, ServerKeepsStep DEF SvnInv, Progress
  <2>5. svn # "answered"
    BY <1>1, <2>1 DEF SvnInv, Progress
  <2>6. SvnTypeOK'
    BY <2>1, <2>2, <2>3 DEF SvnTypeOK
  <2> QED
    BY <1>1, <2>1, <2>4, <2>5, <2>6 DEF SvnInv, Progress
<1>2. ASSUME SvnInv, ServerCloses
      PROVE  SvnInv'
  <2>1. /\ peer = "open" /\ peer' = "closed" /\ due' = <<>>
        /\ want' = want /\ at' = at /\ command' = command /\ wire' = wire /\ sock' = sock /\ svn' = svn
    BY <1>2 DEF ServerCloses
  <2>2. SvnTypeOK /\ due \in Seq(Due) /\ wire \in Seq(Message)
    BY <1>2, StreamTypes DEF SvnInv
  <2>3. svn = "running" => InStep'
    <3> SUFFICES ASSUME svn = "running" PROVE InStep'
      OBVIOUS
    <3> DEFINE here == Len(wire)
               left == Len(due)
               rest == Len(due')
    <3>1. InStep
      BY <1>2 DEF SvnInv, Progress
    <3>2. here + left <= HowMany(at) /\ here \in Nat /\ left \in Nat /\ rest = 0 /\ HowMany(at) \in 0..2
      BY <2>1, <2>2, <3>1, StreamTypes DEF InStep
    <3>3. here + rest <= HowMany(at) /\ 1..rest = {}
      <4> HIDE DEF here, left, rest
      <4> QED
        BY <3>2
    <3> QED
      BY <2>1, <3>1, <3>3 DEF InStep, HowMany, Expected, To
  <2>4. SvnTypeOK'
    BY <2>1, <2>2, Streams DEF SvnTypeOK
  <2> QED
    BY <1>2, <2>1, <2>3, <2>4 DEF SvnInv, Progress
<1> QED
  BY <1>1, <1>2

\* A session begins with nothing sent and nothing due.
LEMMA SvnInvInit == SvnInit => SvnInv
<1> SUFFICES ASSUME SvnInit PROVE SvnInv
  OBVIOUS
<1>1. /\ wire = <<>> /\ due = <<>> /\ at = "connection" /\ command = "none" /\ svn = "running"
      /\ sock = "none" /\ peer = "none" /\ want \in {"props", "entries"}
  BY DEF SvnInit
<1>2. Len(wire) = 0 /\ Len(due) = 0 /\ 1..0 = {} /\ 0 + 0 = 0
  BY <1>1
<1>3. HowMany(at) = 0
  BY <1>1 DEF HowMany
<1>4. InStep
  BY <1>2, <1>3 DEF InStep
<1>5. SvnTypeOK
  BY <1>1, Streams DEF SvnTypeOK, Commands
<1> QED
  BY <1>1, <1>4, <1>5 DEF SvnInv, Progress

\* The docker checker does not touch the session.
LEMMA SvnInvariant == Spec => []SvnInv
<1>1. Init => SvnInv
  BY SvnInvInit DEF Init
<1>2. SvnInv /\ [Next]_clientVars => SvnInv'
  <2>1. SvnInv /\ UNCHANGED svnVars => SvnInv'
    <3> SUFFICES ASSUME SvnInv, UNCHANGED svnVars PROVE SvnInv'
      OBVIOUS
    <3>1. /\ want' = want /\ at' = at /\ command' = command /\ due' = due /\ wire' = wire
          /\ peer' = peer /\ sock' = sock /\ svn' = svn
      BY DEF svnVars
    <3>2. InStep => InStep'
      BY <3>1 DEF InStep, HowMany, Expected, To
    <3>3. SvnTypeOK'
      BY <3>1 DEF SvnInv, SvnTypeOK
    <3> QED
      BY <3>1, <3>2, <3>3 DEF SvnInv, Progress
  <2> QED
    BY <2>1, SvnClientKeeps, SvnServerKeeps DEF Next, SvnNext, clientVars
<1> QED
  BY <1>1, <1>2, PTL DEF Spec

\* Client and server stay in step, for however long the server stays and whatever
\* it answers: what the client reads is what it expects, for the command it last
\* sent, and a session that has its answer leaves nothing unread.
THEOREM AnswersBelongToQuestions == Spec => []AnswersArePaired
<1>1. SvnInv => AnswersArePaired
  <2> SUFFICES ASSUME SvnInv
               PROVE  AnswersArePaired
    OBVIOUS
  <2>1. ASSUME svn = "running", wire # <<>>
        PROVE  Head(wire).kind = at /\ Head(wire).to = command
    <3> DEFINE here == Len(wire)
    <3>1. Head(wire) = wire[1] /\ here > 0 /\ here \in Nat
      BY <2>1, Streams, StreamTypes DEF SvnInv
    <3>2. 1 \in 1..here
      <4> HIDE DEF here
      <4> QED
        BY <3>1
    <3> QED
      BY <2>1, <3>1, <3>2 DEF SvnInv, Progress, InStep, Expected
  <2> QED
    BY <2>1 DEF AnswersArePaired, SvnInv, Progress
<1> QED
  BY <1>1, SvnInvariant, PTL

\* A session that ends has closed its socket, unless connect failed other than by
\* a refused authentication.
THEOREM SessionsCloseSockets == Spec => []SocketsAreClosed
<1>1. SvnInv => SocketsAreClosed
  BY DEF SocketsAreClosed, SvnInv, SvnTypeOK, Progress
<1> QED
  BY <1>1, SvnInvariant, PTL

\* Both clients keep their types; the calls of _fetch_digest are four deep at most.
THEOREM ClientsTypeCorrect == Spec => []TypeOK
<1> DEFINE Known == checker \in {"docker tag", "svn"}
<1>1. Init => Known
  BY DEF Init
<1>2. Known /\ [Next]_clientVars => Known'
  BY DEF Next, clientVars
<1>3. Known /\ DockerInv /\ SvnInv => TypeOK
  BY DEF TypeOK, DockerInv, SvnInv
<1> HIDE DEF Known
<1> QED
  BY <1>1, <1>2, <1>3, DockerInvariant, SvnInvariant, PTL DEF Spec
=============================================================================
