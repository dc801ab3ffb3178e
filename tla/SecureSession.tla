---------------------------- MODULE SecureSession ----------------------------
(***************************************************************************)
(* One agent thread and the server's ClientHandlers, over the connections  *)
(* it opens one after the other: authentication, secure session, greeting, *)
(* and then chunks and their answers (UDTConnectionPool::_createConnection *)
(* and NetworkManager::_sendChunkInternal against                          *)
(* ClientHandler::handleClient).                                           *)
(*                                                                         *)
(* A connection is a pair of FIFO streams.  Cryptography is perfect: a     *)
(* message sealed with a key and session opens only with the same ones, a  *)
(* signature verifies only against the configured identity.                *)
(***************************************************************************)
EXTENDS Naturals, Sequences, FiniteSets

CONSTANTS
  Conns,            \* connections, reused once both ends are done with one; the
                    \* number of one is its session's id, 0 is that of none
  NChunks,          \* chunks the agent has to send
  AgentConfigs,     \* records [mode, secure, key, trusted]: see Config
  ServerConfigs,
  MaxSeq,           \* the largest sequence number, 2^64 - 1 in the code
  Threshold,        \* failureThreshold of the handler's breaker
  MaxDisturbances   \* bound on cuts, damage, timeouts, keep-alives and refused chunks

Modes == {"none", "psk", "signed", "certificate"}
\* mode: security.identity_mode; secure: packets are encrypted; key: the
\* pre-shared key; trusted: the peer accepts this side's identity.
Config == [mode : Modes, secure : BOOLEAN, key : {"k1", "k2"}, trusted : BOOLEAN]

ASSUME SessionAssumption ==
  /\ IsFiniteSet(Conns) /\ Conns \subseteq Nat \ {0} /\ NChunks \in Nat \ {0}
  /\ AgentConfigs \subseteq Config /\ ServerConfigs \subseteq Config
  /\ MaxSeq \in Nat \ {0, 1} /\ Threshold \in Nat \ {0} /\ MaxDisturbances \in Nat

Chunks == 1..NChunks

VARIABLES
  acfg, scfg,   \* the two configurations
  agt,          \* agt[c]: the agent's end of connection c
  srv,          \* srv[c]: the handler at its server end
  toS, toA,     \* what is under way on each connection
  cut,          \* the network has lost the connection
  chunk,        \* the chunk being sent, NChunks + 1 when all are
  stored,       \* chunks the server took or had
  acked,        \* chunks the agent counts as delivered
  rejected,     \* an end refused a message of its own peer as a replay
  budget        \* what is left of MaxDisturbances

conf == <<acfg, scfg>>
wire == <<toS, toA, cut>>
work == <<chunk, stored, acked>>
vars == <<conf, agt, srv, wire, work, rejected, budget>>

NoSecret == <<"none", "none", 0>>
ClosedAgent  == [pc |-> "closed", key |-> NoSecret, session |-> 0,
                 next |-> 1, expected |-> 1]
EndedHandler == [pc |-> "ended", key |-> NoSecret, session |-> 0,
                 next |-> 1, expected |-> 1, failures |-> 0]

Init ==
  /\ acfg \in AgentConfigs /\ scfg \in ServerConfigs
  /\ agt = [c \in Conns |-> ClosedAgent]
  /\ srv = [c \in Conns |-> EndedHandler]
  /\ toS = [c \in Conns |-> <<>>] /\ toA = [c \in Conns |-> <<>>]
  /\ cut = [c \in Conns |-> FALSE]
  /\ chunk = 1 /\ stored = {} /\ acked = {}
  /\ rejected = FALSE
  /\ budget = MaxDisturbances

Disturbed == budget > 0 /\ budget' = budget - 1

-----------------------------------------------------------------------------
(* Streams and sealed messages.                                            *)

Plain(type) == [type |-> type, key |-> NoSecret, session |-> 0, seq |-> 0, arg |-> 0]
Sealed(type, end, arg) == [type |-> type, key |-> end.key, session |-> end.session,
                           seq |-> end.next, arg |-> arg]
IsSealed(m) == m.session # 0
\* Number 0 is never given out; an envelope opens only with the key it was sealed
\* with, and DecryptPacket compares the session.
ParseEnvelope(m) == IsSealed(m) /\ m.seq # 0
DecryptEnvelope(m, end) == m.key = end.key
Opens(m, end) == ParseEnvelope(m) /\ m.session = end.session /\ DecryptEnvelope(m, end)

\* Data written to a connection that the other end has left is lost.
Put(stream, c, ms, gone) == [stream EXCEPT ![c] = IF cut[c] \/ gone THEN @ ELSE @ \o ms]
Reply(c, ms)   == toA' = Put(toA, c, ms, agt[c].pc = "closed")
Request(c, ms) == toS' = Put(toS, c, ms, srv[c].pc = "ended")

AgentReads(c)  == toA[c] # <<>> /\ toA' = [toA EXCEPT ![c] = Tail(@)]
ServerReads(c) == toS[c] # <<>> /\ toS' = [toS EXCEPT ![c] = Tail(@)]

\* Closing an end discards what was still to be read there.
AgentCloses(c) ==
  /\ agt' = [agt EXCEPT ![c] = ClosedAgent]
  /\ toA' = [toA EXCEPT ![c] = <<>>]
HandlerEnds(c) ==
  /\ srv' = [srv EXCEPT ![c] = EndedHandler]
  /\ toS' = [toS EXCEPT ![c] = <<>>]

-----------------------------------------------------------------------------
(* The agent: _createConnection.                                           *)

Active == {c \in Conns : agt[c].pc # "closed"}
AgentWaits == {"challenge", "proof", "session", "greeting", "answer"}

\* connect: the greeting is read whenever one is required, as it is by default.
Connect(c) ==
  /\ Active = {} /\ chunk \in Chunks
  /\ srv[c].pc = "ended"
  /\ agt' = [agt EXCEPT ![c].pc = IF acfg.mode # "none" THEN "challenge"
                                  ELSE IF acfg.secure THEN "session" ELSE "greeting"]
  /\ srv' = [srv EXCEPT ![c].pc = "start"]
  /\ cut' = [cut EXCEPT ![c] = FALSE]
  /\ UNCHANGED <<conf, toS, toA, work, rejected, budget>>

\* After authentication comes the secure session, if there is to be one.
Authenticated(c, secret) ==
  agt' = [agt EXCEPT ![c].pc = IF acfg.secure THEN "session" ELSE "greeting",
                     ![c].key = secret]

\* The server's certificate is valid; its proof verifies against its public key or
\* its certificate.
ValidateCertificateBundle == scfg.trusted
VerifySignedOkMessage(m)      == m.type = "signedOk" /\ scfg.trusted
VerifyCertificateOkMessage(m) == m.type = "certificateOk" /\ ValidateCertificateBundle
ProvesServer(m) == IF acfg.mode = "signed" THEN VerifySignedOkMessage(m)
                                           ELSE VerifyCertificateOkMessage(m)

\* The challenge of each mode is the mode itself; it is fresh on each connection.
ParsesChallenge(m) == m.type = acfg.mode

\* A response proves the key, or the identity, and is bound to the challenge.
BuildResponseMessage(c) ==
  [Plain("response") EXCEPT !.key = <<"psk", acfg.key, c>>]
BuildSignedResponseMessage(c) ==
  [Plain("response") EXCEPT !.key = <<"signed", "dh", c>>]
BuildCertificateResponseMessage(c) ==
  [Plain("response") EXCEPT !.key = <<"certificate", "dh", c>>]

Response(c) == CASE acfg.mode = "psk"         -> BuildResponseMessage(c)
                 [] acfg.mode = "signed"      -> BuildSignedResponseMessage(c)
                 [] acfg.mode = "certificate" -> BuildCertificateResponseMessage(c)

\* The secrets both ends derive: from the shared key and the challenge, or from the
\* exchange of ephemeral keys.
DerivePskSessionSecret(key, c)    == <<"psk", key, c>>
DeriveSignedSessionSecret(c)      == <<"signed", "dh", c>>
DeriveCertificateSessionSecret(c) == <<"certificate", "dh", c>>

Secret(mode, key, c) ==
  CASE mode = "psk"         -> DerivePskSessionSecret(key, c)
    [] mode = "signed"      -> DeriveSignedSessionSecret(c)
    [] mode = "certificate" -> DeriveCertificateSessionSecret(c)

\* The challenge of the configured mode is answered; a certificate is validated
\* first.  With a pre-shared key the secret is derived at once, otherwise the
\* server has to prove itself.
AnswerChallenge(c) ==
  /\ agt[c].pc = "challenge" /\ AgentReads(c)
  /\ ParsesChallenge(Head(toA[c]))
  /\ acfg.mode = "certificate" => ValidateCertificateBundle
  /\ Request(c, <<Response(c)>>)
  /\ IF acfg.mode = "psk" THEN Authenticated(c, Secret("psk", acfg.key, c))
                          ELSE agt' = [agt EXCEPT ![c].pc = "proof"]
  /\ UNCHANGED <<conf, srv, cut, work, rejected, budget>>

\* The server proves itself, then the key is derived.
VerifyProof(c) ==
  /\ agt[c].pc = "proof" /\ AgentReads(c)
  /\ ProvesServer(Head(toA[c]))
  /\ Authenticated(c, Secret(acfg.mode, acfg.key, c))
  /\ UNCHANGED <<conf, srv, toS, cut, work, rejected, budget>>

\* Without authentication the pre-shared key itself protects the session.
PreShared(cfg) == <<"none", cfg.key, 0>>
SessionSecret(c) ==
  IF agt[c].key = NoSecret THEN PreShared(acfg) ELSE agt[c].key

\* Mutant of ParsesSession: the message is not authenticated.
AnySession(c, m) == m.type = "session"

\* TryParseSecureSessionMessage.
ParsesSession(c, m) == m.type = "session" /\ m.key = SessionSecret(c)

StartSession(c) ==
  /\ agt[c].pc = "session" /\ AgentReads(c)
  /\ ParsesSession(c, Head(toA[c]))
  /\ agt' = [agt EXCEPT ![c].pc = "greeting", ![c].key = SessionSecret(c),
                        ![c].session = c]
  /\ UNCHANGED <<conf, srv, toS, cut, work, rejected, budget>>

Greeted(c) ==
  /\ agt[c].pc = "greeting" /\ AgentReads(c)
  /\ Head(toA[c]).type = "READY"
  /\ agt' = [agt EXCEPT ![c].pc = "ready"]
  /\ UNCHANGED <<conf, srv, toS, cut, work, rejected, budget>>

\* Anything else closes the connection, AUTH_FAILED included.
Unexpected(c) ==
  /\ toA[c] # <<>>
  /\ LET m == Head(toA[c])
     IN \/ /\ agt[c].pc = "challenge"
           /\ \/ ~ParsesChallenge(m)
              \/ acfg.mode = "certificate" /\ ~ValidateCertificateBundle
        \/ agt[c].pc = "proof" /\ ~ProvesServer(m)
        \/ agt[c].pc = "session" /\ ~ParsesSession(c, m)
        \/ agt[c].pc = "greeting" /\ m.type # "READY"
  /\ AgentCloses(c)
  /\ UNCHANGED <<conf, srv, toS, cut, work, rejected, budget>>

-----------------------------------------------------------------------------
(* The agent: sending a chunk, and what happens to an idle connection.     *)

\* Mutant of Exhausted: the number after the last is taken.
NeverExhausted(end) == FALSE

\* takeNextSecureOutboundSequence throws when the numbers are used up.
Exhausted(end) == end.next = MaxSeq

SendChunk(c) ==
  /\ agt[c].pc = "ready" /\ chunk \in Chunks
  /\ \/ /\ acfg.secure /\ Exhausted(agt[c])
        /\ AgentCloses(c)
        /\ UNCHANGED toS
     \/ /\ acfg.secure /\ ~Exhausted(agt[c])
        /\ Request(c, <<Sealed("chunk", agt[c], chunk)>>)
        /\ agt' = [agt EXCEPT ![c].pc = "answer", ![c].next = @ + 1]
        /\ UNCHANGED toA
     \/ /\ ~acfg.secure
        /\ Request(c, <<[Plain("chunk") EXCEPT !.arg = chunk]>>)
        /\ agt' = [agt EXCEPT ![c].pc = "answer"]
        /\ UNCHANGED toA
  /\ UNCHANGED <<conf, srv, cut, work, rejected, budget>>

\* receiveControlMessage accepts an answer: it opens, and its number is the next.
InStep(m, end) == m.seq = end.expected /\ end.expected # MaxSeq
Accepts(m, end, secure) == ~secure \/ (Opens(m, end) /\ InStep(m, end))

\* SUCCESS: the chunk is delivered and the connection goes back to the pool.
AnswerSuccess(c) ==
  LET m == Head(toA[c])
  IN /\ agt[c].pc = "answer" /\ AgentReads(c)
     /\ Accepts(m, agt[c], acfg.secure) /\ m.type = "SUCCESS"
     /\ acked' = acked \cup {chunk} /\ chunk' = chunk + 1
     /\ agt' = [agt EXCEPT ![c].pc = "ready",
                           ![c].expected = IF acfg.secure THEN @ + 1 ELSE @]
     /\ UNCHANGED <<conf, srv, toS, cut, stored, rejected, budget>>

\* SUCCESS_FILE_COMPLETE and FILE_ALREADY_EXISTS are answered with CLOSE_NOW.
\* After the first the connection goes back to the pool all the same.
AnswerLast(c) ==
  LET m == Head(toA[c])
      bye == IF acfg.secure THEN Sealed("CLOSE_NOW", agt[c], 0) ELSE Plain("CLOSE_NOW")
  IN /\ agt[c].pc = "answer" /\ toA[c] # <<>>
     /\ Accepts(m, agt[c], acfg.secure)
     /\ m.type \in {"SUCCESS_FILE_COMPLETE", "FILE_ALREADY_EXISTS"}
     /\ acked' = acked \cup {chunk} /\ chunk' = chunk + 1
     /\ LET fails == acfg.secure /\ Exhausted(agt[c])
        IN /\ IF fails THEN UNCHANGED toS ELSE Request(c, <<bye>>)
           /\ IF fails \/ m.type = "FILE_ALREADY_EXISTS"
              THEN AgentCloses(c)
              ELSE /\ AgentReads(c)
                   /\ agt' = [agt EXCEPT
                                ![c].pc = "ready",
                                ![c].expected = IF acfg.secure THEN @ + 1 ELSE @,
                                ![c].next = IF acfg.secure THEN @ + 1 ELSE @]
     /\ UNCHANGED <<conf, srv, cut, stored, rejected, budget>>

\* Mutant of AnswerFailed: the connection is kept for the next chunk.
FailedKeepsConnection(c) ==
  LET m == Head(toA[c])
  IN /\ agt[c].pc = "answer" /\ AgentReads(c)
     /\ Accepts(m, agt[c], acfg.secure)
     /\ m.type \notin {"SUCCESS", "SUCCESS_FILE_COMPLETE", "FILE_ALREADY_EXISTS"}
     /\ agt' = [agt EXCEPT ![c].pc = "ready",
                           ![c].expected = IF acfg.secure THEN @ + 1 ELSE @]
     /\ UNCHANGED <<conf, srv, toS, cut, work, rejected, budget>>

\* Any other answer is a failure: the sender drops the connection and the chunk
\* is sent again.
AnswerFailed(c) ==
  LET m == Head(toA[c])
  IN /\ agt[c].pc = "answer" /\ toA[c] # <<>>
     /\ Accepts(m, agt[c], acfg.secure)
     /\ m.type \notin {"SUCCESS", "SUCCESS_FILE_COMPLETE", "FILE_ALREADY_EXISTS"}
     /\ AgentCloses(c)
     /\ UNCHANGED <<conf, srv, toS, cut, work, rejected, budget>>

\* An answer that does not open, or is out of step, ends the connection.
AnswerRejected(c) ==
  LET m == Head(toA[c])
  IN /\ agt[c].pc = "answer" /\ toA[c] # <<>>
     /\ ~Accepts(m, agt[c], acfg.secure)
     /\ rejected' = (rejected \/ Opens(m, agt[c]))
     /\ AgentCloses(c)
     /\ UNCHANGED <<conf, srv, toS, cut, work, budget>>

\* The keep-alive thread sends its payload, in the clear, on an idle connection.
KeepAlive(c) ==
  /\ agt[c].pc = "ready"
  /\ Disturbed
  /\ Request(c, <<Plain("keepalive")>>)
  /\ UNCHANGED <<conf, agt, srv, toA, cut, work, rejected>>

\* recv fails at the end of the stream; an idle connection found dead is discarded.
Gone(c) == cut[c] \/ srv[c].pc = "ended"
AgentGivesUp(c) ==
  /\ Gone(c)
  /\ agt[c].pc = "ready" \/ (agt[c].pc \in AgentWaits /\ toA[c] = <<>>)
  /\ AgentCloses(c)
  /\ UNCHANGED <<conf, srv, toS, cut, work, rejected, budget>>

\* The timeout of recv runs out, although the answer may be on its way.
AgentTimeout(c) ==
  /\ agt[c].pc \in AgentWaits
  /\ Disturbed
  /\ AgentCloses(c)
  /\ UNCHANGED <<conf, srv, toS, cut, work, rejected>>

AgentStep(c) ==
  \/ Connect(c) \/ AnswerChallenge(c) \/ VerifyProof(c) \/ StartSession(c)
  \/ Greeted(c) \/ Unexpected(c) \/ SendChunk(c) \/ AnswerSuccess(c)
  \/ AnswerLast(c) \/ AnswerFailed(c) \/ AnswerRejected(c)
  \/ AgentGivesUp(c)

-----------------------------------------------------------------------------
(* The server: handleClient.                                               *)

\* A fresh challenge, with the certificate or the ephemeral key of its mode.
BuildChallengeMessage(mode) == Plain(mode)

SendChallenge(c) ==
  /\ srv[c].pc = "start" /\ scfg.mode # "none"
  /\ Reply(c, <<BuildChallengeMessage(scfg.mode)>>)
  /\ srv' = [srv EXCEPT ![c].pc = "response"]
  /\ UNCHANGED <<conf, agt, toS, cut, work, rejected, budget>>

VerifyResponseMessage(c, m)            == m.key = <<"psk", scfg.key, c>>
VerifySignedResponseMessage(c, m)      == m.key = <<"signed", "dh", c>>
VerifyCertificateResponseMessage(c, m) == m.key = <<"certificate", "dh", c>>
isClientIdentityAllowed == acfg.trusted

Verifies(c, m) ==
  /\ m.type = "response" /\ isClientIdentityAllowed
  /\ CASE scfg.mode = "psk"         -> VerifyResponseMessage(c, m)
       [] scfg.mode = "signed"      -> VerifySignedResponseMessage(c, m)
       [] scfg.mode = "certificate" -> VerifyCertificateResponseMessage(c, m)

\* Mutant of RejectResponse: nothing is said and the handler waits on.
RejectSilently(c) ==
  /\ srv[c].pc = "response" /\ ServerReads(c)
  /\ ~Verifies(c, Head(toS[c]))
  /\ UNCHANGED <<conf, agt, srv, toA, cut, work, rejected, budget>>

RejectResponse(c) ==
  /\ srv[c].pc = "response" /\ toS[c] # <<>>
  /\ ~Verifies(c, Head(toS[c]))
  /\ Reply(c, <<Plain("AUTH_FAILED")>>)
  /\ HandlerEnds(c)
  /\ UNCHANGED <<conf, agt, cut, work, rejected, budget>>

\* The server's own proof; there is none with a pre-shared key.
BuildSignedOkMessage      == Plain("signedOk")
BuildCertificateOkMessage == Plain("certificateOk")
OkMessage == CASE scfg.mode = "psk"         -> <<>>
               [] scfg.mode = "signed"      -> <<BuildSignedOkMessage>>
               [] scfg.mode = "certificate" -> <<BuildCertificateOkMessage>>

AcceptResponse(c) ==
  /\ srv[c].pc = "response" /\ ServerReads(c)
  /\ Verifies(c, Head(toS[c]))
  /\ Reply(c, OkMessage)
  /\ srv' = [srv EXCEPT ![c].pc = "greet",
                        ![c].key = Secret(scfg.mode, scfg.key, c)]
  /\ UNCHANGED <<conf, agt, cut, work, rejected, budget>>

BuildSecureSessionMessage(key) == [Plain("session") EXCEPT !.key = key]

\* The secure session, authenticated with the key there is by now, and READY.
Greet(c) ==
  /\ srv[c].pc = "greet" \/ (srv[c].pc = "start" /\ scfg.mode = "none")
  /\ LET key == IF srv[c].key = NoSecret THEN PreShared(scfg) ELSE srv[c].key
         session == IF scfg.secure THEN <<BuildSecureSessionMessage(key)>> ELSE <<>>
     IN /\ Reply(c, session \o <<Plain("READY")>>)
        /\ srv' = [srv EXCEPT ![c].pc = "loop",
                              ![c].key = IF scfg.secure THEN key ELSE @,
                              ![c].session = IF scfg.secure THEN c ELSE 0]
  /\ UNCHANGED <<conf, agt, toS, cut, work, rejected, budget>>

\* Mutant of Answer: the outbound number is not advanced.
AnswerSameNumber(c, what, s) ==
  /\ Reply(c, IF scfg.secure THEN <<Sealed(what, s, 0)>> ELSE <<Plain(what)>>)
  /\ srv' = [srv EXCEPT ![c] = s]

\* sendControlMessage: without a number left nothing is sent, and only logged.
Answer(c, what, s) ==
  IF scfg.secure /\ Exhausted(s)
  THEN srv' = [srv EXCEPT ![c] = s] /\ UNCHANGED toA
  ELSE /\ Reply(c, IF scfg.secure THEN <<Sealed(what, s, 0)>> ELSE <<Plain(what)>>)
       /\ srv' = [srv EXCEPT ![c] = [s EXCEPT !.next = IF scfg.secure THEN @ + 1 ELSE @]]

\* A packet that is a chunk in the form this server expects.
IsChunk(m) == m.type = "chunk" /\ IsSealed(m) = scfg.secure
Taken(c) == [srv[c] EXCEPT !.expected = IF scfg.secure THEN @ + 1 ELSE @]

\* The chunk is taken, and perhaps it completed the file or was not needed: after
\* those answers the handler waits for CLOSE_NOW.
TakeChunk(c) ==
  LET m == Head(toS[c])
  IN /\ srv[c].pc = "loop" /\ ServerReads(c)
     /\ IsChunk(m) /\ Accepts(m, srv[c], scfg.secure)
     /\ stored' = stored \cup {m.arg}
     /\ \/ Answer(c, "SUCCESS", Taken(c))
        \/ Answer(c, "SUCCESS_FILE_COMPLETE", [Taken(c) EXCEPT !.pc = "closing"])
        \/ Answer(c, "FILE_ALREADY_EXISTS", [Taken(c) EXCEPT !.pc = "closing"])
     /\ UNCHANGED <<conf, agt, cut, chunk, acked, rejected, budget>>

\* FAILED is answered, and the connection kept until the handler's breaker opens;
\* when the answer cannot be sent the handler is done.
Refuse(c, s) ==
  LET failures == s.failures + 1
      broken == failures >= Threshold \/ (scfg.secure /\ Exhausted(s))
  IN Answer(c, "FAILED", [s EXCEPT !.failures = failures,
                                   !.pc = IF broken THEN "broken" ELSE "loop"])

\* A chunk that could not be processed, and a packet that is no chunk.
RefuseChunk(c) ==
  LET m == Head(toS[c])
  IN /\ srv[c].pc = "loop" /\ ServerReads(c)
     /\ IsChunk(m) /\ Accepts(m, srv[c], scfg.secure)
     /\ Disturbed
     /\ Refuse(c, Taken(c))
     /\ UNCHANGED <<conf, agt, cut, work, rejected>>
RefusePacket(c) ==
  LET m == Head(toS[c])
  IN /\ srv[c].pc = "loop" /\ ServerReads(c)
     /\ ~IsChunk(m) /\ (scfg.secure => ~IsSealed(m))
     /\ Refuse(c, srv[c])
     /\ UNCHANGED <<conf, agt, cut, work, rejected, budget>>

\* A sealed packet that does not open or is out of step ends the connection.
RejectPacket(c) ==
  LET m == Head(toS[c])
  IN /\ srv[c].pc = "loop" /\ toS[c] # <<>>
     /\ scfg.secure /\ IsSealed(m)
     /\ ~Accepts(m, srv[c], TRUE) \/ m.type # "chunk"
     /\ rejected' = (rejected \/ (Opens(m, srv[c]) /\ ~InStep(m, srv[c])))
     /\ HandlerEnds(c)
     /\ UNCHANGED <<conf, agt, toA, cut, work, budget>>

\* The handler is done: the last word has come, or its breaker is open.
FinishHandler(c) ==
  /\ srv[c].pc = "broken" \/ (srv[c].pc = "closing" /\ toS[c] # <<>>)
  /\ HandlerEnds(c)
  /\ rejected' = (rejected \/ (/\ srv[c].pc = "closing" /\ Opens(Head(toS[c]), srv[c])
                               /\ ~InStep(Head(toS[c]), srv[c])))
  /\ UNCHANGED <<conf, agt, toA, cut, work, budget>>

\* recv fails at the end of the stream, or because its timeout has run out.
HandlerWaits == {"response", "loop", "closing"}

\* Mutant of HandlerGivesUp: the handler waits for CLOSE_NOW whatever happens.
InsistOnClose(c) ==
  /\ srv[c].pc \in {"response", "loop"}
  /\ toS[c] = <<>> /\ (cut[c] \/ agt[c].pc = "closed")
  /\ HandlerEnds(c)
  /\ UNCHANGED <<conf, agt, toA, cut, work, rejected, budget>>

HandlerGivesUp(c) ==
  /\ srv[c].pc \in HandlerWaits
  /\ toS[c] = <<>> /\ (cut[c] \/ agt[c].pc = "closed")
  /\ HandlerEnds(c)
  /\ UNCHANGED <<conf, agt, toA, cut, work, rejected, budget>>
\* In the handshake a response that does not come is refused like a wrong one.
HandlerTimeout(c) ==
  /\ srv[c].pc \in HandlerWaits
  /\ Disturbed
  /\ IF srv[c].pc = "response" THEN Reply(c, <<Plain("AUTH_FAILED")>>) ELSE UNCHANGED toA
  /\ HandlerEnds(c)
  /\ UNCHANGED <<conf, agt, cut, work, rejected>>

HandlerStep(c) ==
  \/ SendChallenge(c) \/ RejectResponse(c) \/ AcceptResponse(c) \/ Greet(c)
  \/ TakeChunk(c) \/ RefusePacket(c) \/ RejectPacket(c)
  \/ FinishHandler(c) \/ HandlerGivesUp(c)

\* The network loses the connection and what was under way.
Cut(c) ==
  /\ agt[c].pc # "closed" \/ srv[c].pc # "ended"
  /\ ~cut[c] /\ Disturbed
  /\ cut' = [cut EXCEPT ![c] = TRUE]
  /\ toS' = [toS EXCEPT ![c] = <<>>] /\ toA' = [toA EXCEPT ![c] = <<>>]
  /\ UNCHANGED <<conf, agt, srv, work, rejected>>

\* A sealed message is damaged on its way and no longer opens.
Damaged(stream, c) ==
  \E i \in DOMAIN stream[c] : /\ IsSealed(stream[c][i])
                             /\ stream' = [stream EXCEPT ![c][i].key = NoSecret]
Damage(c) ==
  /\ Disturbed
  /\ \/ Damaged(toS, c) /\ UNCHANGED toA
     \/ Damaged(toA, c) /\ UNCHANGED toS
  /\ UNCHANGED <<conf, agt, srv, cut, work, rejected>>

Next == \E c \in Conns : \/ AgentStep(c) \/ HandlerStep(c) \/ KeepAlive(c) \/ Cut(c)
                         \/ Damage(c)
                         \/ AgentTimeout(c) \/ HandlerTimeout(c) \/ RefuseChunk(c)

Spec == Init /\ [][Next]_vars

\* Both ends go on as far as what they wait for has come; nothing is assumed of
\* timeouts, keep-alives and the network.
Fairness == \A c \in Conns : WF_vars(AgentStep(c)) /\ WF_vars(HandlerStep(c))

FairSpec == Spec /\ Fairness

-----------------------------------------------------------------------------
(* Properties.                                                             *)

\* Every variable stays in its type.
TypeOK ==
  /\ acfg \in AgentConfigs /\ scfg \in ServerConfigs
  /\ \A c \in Conns :
       /\ agt[c].pc \in AgentWaits \cup {"closed", "ready"}
       /\ srv[c].pc \in {"ended", "start", "response", "greet", "loop", "closing", "broken"}
       /\ {agt[c].next, agt[c].expected, srv[c].next, srv[c].expected} \subseteq 1..MaxSeq
       /\ srv[c].failures \in 0..Threshold
       /\ agt[c].pc = "closed" => toA[c] = <<>>
       /\ srv[c].pc = "ended" => toS[c] = <<>>
  /\ Cardinality(Active) <= 1
  /\ chunk \in 1..(NChunks + 1) /\ stored \subseteq Chunks /\ acked \subseteq Chunks
  /\ rejected \in BOOLEAN /\ budget \in 0..MaxDisturbances

\* A connection the agent puts to use is one the server has accepted: whatever
\* the two configurations, both ends then encrypt or neither, with the same key
\* and session (_createConnection, handleClient).
ReadyMeansAgreed ==
  \A c \in Conns : agt[c].pc \in {"ready", "answer"} /\ srv[c].pc # "ended" =>
    /\ srv[c].pc \in {"loop", "closing", "broken"}
    /\ scfg.secure = acfg.secure /\ scfg.mode = acfg.mode
    /\ acfg.secure => srv[c].key = agt[c].key /\ srv[c].session = agt[c].session

\* A chunk the agent counts as delivered is one the server took: no answer is
\* ever taken for the answer to another chunk, whatever keep-alives, refusals,
\* timeouts and reconnections came between (_sendChunkInternal).
AckedIsStored == acked \subseteq stored

\* Sequence numbers never part two honest ends: no message of the peer is
\* refused as a replay, also at the end of the number space
\* (acceptSecureInboundSequence, handleClient).
NeverOutOfStep == ~rejected

\* No two configurations, and no failure of authentication, leave an agent waiting
\* in the handshake: it gets a usable connection or closes it, without any
\* timeout.
HandshakeEnds ==
  \A c \in Conns :
    agt[c].pc \in {"challenge", "proof", "session", "greeting"}
      ~> agt[c].pc \in {"ready", "closed"}

Compatible ==
  /\ acfg.mode = scfg.mode /\ acfg.secure = scfg.secure
  /\ acfg.trusted /\ scfg.trusted /\ acfg.key = scfg.key

\* With matching configurations every chunk is delivered in the end, also after
\* cut connections, damaged messages, keep-alives, refusals and exhausted
\* sequence numbers.
AllDelivered == Compatible => <>(acked = Chunks)

=============================================================================
