------------------------- MODULE SecureSessionProofs -------------------------
(***************************************************************************)
(* The session between agent and server, for any set of connections, any   *)
(* pair of configurations and any number of chunks, disturbances and       *)
(* sequence numbers: a connection in use is one both ends agree on, every  *)
(* answer belongs to the chunk it is taken for, and numbers never part two *)
(* honest ends.                                                            *)
(***************************************************************************)
EXTENDS SecureSession, FiniteSetTheorems, TLAPS

-----------------------------------------------------------------------------
(* The inductive invariant: types.                                         *)

Greeting == {"challenge", "proof", "session", "greeting"}
InUse    == {"ready", "answer"}
Serving  == {"loop", "closing", "broken"}

Challenges == {"psk", "signed", "certificate"}
Lasts      == {"SUCCESS_FILE_COMPLETE", "FILE_ALREADY_EXISTS"}
Successes  == {"SUCCESS"} \cup Lasts

MessageTypes ==
  Challenges \cup Successes \cup
  {"response", "signedOk", "certificateOk", "AUTH_FAILED", "session", "READY",
   "chunk", "keepalive", "CLOSE_NOW", "FAILED"}

Ids     == Conns \cup {0}
Secrets == Modes \X {"none", "k1", "k2", "dh"} \X Ids

AgentEnd   == [pc : AgentWaits \cup {"closed", "ready"}, key : Secrets, session : Ids,
               next : 1..MaxSeq, expected : 1..MaxSeq]
HandlerEnd == [pc : {"ended", "start", "response", "greet"} \cup Serving,
               key : Secrets, session : Ids,
               next : 1..MaxSeq, expected : 1..MaxSeq, failures : 0..Threshold]
Message    == [type : MessageTypes, key : Secrets, session : Ids, seq : 0..MaxSeq,
               arg : 0..NChunks]

EndTypes ==
  /\ acfg \in AgentConfigs /\ scfg \in ServerConfigs
  /\ agt \in [Conns -> AgentEnd] /\ srv \in [Conns -> HandlerEnd]
WireTypes ==
  /\ toS \in [Conns -> Seq(Message)] /\ toA \in [Conns -> Seq(Message)]
  /\ cut \in [Conns -> BOOLEAN]
WorkTypes ==
  /\ chunk \in 1..(NChunks + 1) /\ stored \subseteq Chunks /\ acked \subseteq Chunks
  /\ budget \in 0..MaxDisturbances

-----------------------------------------------------------------------------
(* The inductive invariant: one connection.                                *)

\* The key the server's end has once the client is authenticated.
ServerSecret(c) ==
  IF scfg.mode = "none" THEN PreShared(scfg) ELSE Secret(scfg.mode, scfg.key, c)

\* How far the two ends are, and which streams are then empty.
ControlInv(c) ==
  /\ cut[c] => toS[c] = <<>> /\ toA[c] = <<>>
  /\ agt[c].pc = "closed" => toA[c] = <<>>
  /\ srv[c].pc = "start" => toA[c] = <<>>
  /\ srv[c].pc \in {"ended", "start", "greet"} => toS[c] = <<>>
  /\ srv[c].pc = "response" => Len(toS[c]) <= 1
  /\ srv[c].pc \in {"response", "greet"} => scfg.mode # "none"
  /\ agt[c].pc \in Greeting => /\ srv[c].pc \notin {"closing", "broken"}
                               /\ srv[c].pc # "response" => toS[c] = <<>>
  /\ agt[c].pc = "challenge" =>
       /\ toS[c] = <<>>
       /\ scfg.mode # "none" => srv[c].pc \in {"start", "response", "ended"}
  /\ agt[c].pc \in InUse => srv[c].pc \in Serving \cup {"ended"}

\* Counters start at 1 and stay there until the connection is used.
NumbersInv(c) ==
  /\ agt[c].pc \in Greeting \cup {"closed"} => agt[c].next = 1 /\ agt[c].expected = 1
  /\ agt[c].pc \in Greeting \/ srv[c].pc \notin Serving =>
       srv[c].next = 1 /\ srv[c].expected = 1 /\ srv[c].failures = 0
  /\ srv[c].pc = "loop" => srv[c].failures < Threshold

\* Which secret each end has, and what the agent knows of the server's configuration.
KeysInv(c) ==
  /\ srv[c].pc \in {"start", "response", "ended"} => srv[c].key = NoSecret
  /\ srv[c].pc = "greet" => srv[c].key = ServerSecret(c)
  /\ srv[c].pc \in Serving /\ scfg.secure =>
       srv[c].key = ServerSecret(c) /\ srv[c].session = c
  /\ agt[c].session = IF agt[c].pc \in {"greeting", "ready", "answer"} /\ acfg.secure
                      THEN c ELSE 0
  /\ agt[c].session # 0 => /\ scfg.secure /\ agt[c].key = ServerSecret(c)
                          /\ srv[c].pc \in Serving \cup {"ended"}
  /\ agt[c].pc \in {"challenge", "proof"} => acfg.mode # "none"
  /\ agt[c].pc = "session" => acfg.secure
  /\ agt[c].pc \in {"proof", "session", "greeting"} /\ acfg.mode # "none" =>
       scfg.mode = acfg.mode
  /\ agt[c].pc \in InUse => scfg.mode = acfg.mode /\ scfg.secure = acfg.secure

\* What the agent has still to read of the handshake: READY is last, a secure session
\* right before it, and a challenge of the server's mode before both.
GreetingInv(c) ==
  agt[c].pc \in Greeting =>
    /\ \A i \in 1..Len(toA[c]) :
         /\ ~IsSealed(toA[c][i])
         /\ toA[c][i].type \in Challenges => toA[c][i].type = scfg.mode
         /\ toA[c][i].type = "READY" =>
              /\ i = Len(toA[c]) /\ srv[c].pc \in {"loop", "ended"}
              /\ scfg.secure /\ agt[c].session = 0 =>
                   i > 1 /\ toA[c][i - 1].type = "session"
         /\ toA[c][i].type = "session" =>
              /\ i = Len(toA[c]) - 1 /\ srv[c].pc \in {"loop", "ended"}
              /\ scfg.secure /\ agt[c].session = 0 /\ toA[c][i].key = ServerSecret(c)
    /\ acfg.mode = "none" /\ scfg.mode # "none" =>
         /\ toA[c] = <<>> => srv[c].pc = "start" \/ cut[c]
         /\ toA[c] # <<>> => toA[c][1].type = scfg.mode

\* What a serving handler has still to read: a chunk comes last and carries the next
\* number, CLOSE_NOW comes first and only to a handler that waits for it.
RequestsInv(c) ==
  srv[c].pc \in Serving =>
    /\ \A i \in 1..Len(toS[c]) :
         /\ toS[c][i].type \in {"keepalive", "chunk", "CLOSE_NOW"}
         /\ IsSealed(toS[c][i]) <=> acfg.secure /\ toS[c][i].type # "keepalive"
         /\ toS[c][i].seq < MaxSeq
         /\ toS[c][i].type = "chunk" =>
              /\ i = Len(toS[c]) /\ toS[c][i].arg \in Chunks
              /\ agt[c].pc \in {"answer", "closed"}
              /\ agt[c].pc = "answer" => toS[c][i].arg = chunk
              /\ acfg.secure /\ srv[c].pc = "loop" => toS[c][i].seq = srv[c].expected
         /\ toS[c][i].type = "CLOSE_NOW" =>
              /\ i = 1 /\ srv[c].pc = "closing"
              /\ acfg.secure => toS[c][i].seq = srv[c].expected
    /\ srv[c].pc = "closing" /\ toS[c] # <<>> => toS[c][1].type = "CLOSE_NOW"

\* What an agent that uses the connection has still to read: answers in sequence, and
\* of those that deliver only one, the last, to the chunk it waits for.
AnswersInv(c) ==
  agt[c].pc \in InUse =>
    \A i \in 1..Len(toA[c]) :
      /\ acfg.secure => toA[c][i].seq = agt[c].expected + i - 1 /\ toA[c][i].seq < MaxSeq
      /\ toA[c][i].type \in Successes =>
           /\ i = Len(toA[c]) /\ agt[c].pc = "answer"
           /\ toS[c] = <<>> /\ chunk \in stored
      /\ toA[c][i].type = "SUCCESS" => srv[c].pc \in {"loop", "ended"}
      /\ toA[c][i].type \in Lasts => srv[c].pc \in {"closing", "ended"}

ChunkUnderWay(c) == \E i \in 1..Len(toS[c]) : toS[c][i].type = "chunk"

\* The counters of the two ends, as long as nothing is lost between them.
StepInv(c) ==
  agt[c].pc \in InUse /\ ~cut[c] =>
    /\ acfg.secure /\ srv[c].pc = "loop" =>
         agt[c].next = IF ChunkUnderWay(c) THEN srv[c].expected + 1 ELSE srv[c].expected
    /\ srv[c].pc = "closing" /\ toS[c] = <<>> =>
         agt[c].pc = "answer" /\ (acfg.secure => agt[c].next = srv[c].expected)
    /\ acfg.secure /\ srv[c].pc \in Serving =>
         srv[c].next = agt[c].expected + Len(toA[c])

ConnInv(c) ==
  /\ ControlInv(c) /\ NumbersInv(c) /\ KeysInv(c)
  /\ GreetingInv(c) /\ RequestsInv(c) /\ AnswersInv(c) /\ StepInv(c)

\* One connection at a time, and what is counted as delivered.
WorkInv ==
  /\ \A c, d \in Conns : agt[c].pc # "closed" /\ agt[d].pc # "closed" => c = d
  /\ \A c \in Conns : agt[c].pc = "answer" => chunk \in Chunks
  /\ acked \subseteq stored
  /\ rejected = FALSE

SessionInv ==
  EndTypes /\ WireTypes /\ WorkTypes /\ WorkInv /\ \A c \in Conns : ConnInv(c)

-----------------------------------------------------------------------------
(* Streams.                                                                *)

\* t is s without its first message, or with m at its end.
IsTail(t, s) ==
  /\ Len(s) >= 1 /\ Len(t) = Len(s) - 1
  /\ \A i \in 1..Len(t) : t[i] = s[i + 1]
IsAppend(t, s, m) ==
  /\ Len(t) = Len(s) + 1
  /\ \A i \in 1..Len(s) : t[i] = s[i]
  /\ t[Len(s) + 1] = m

LEMMA Streams ==
  ASSUME NEW s \in Seq(Message)
  PROVE  /\ Len(s) \in Nat /\ ((s = <<>>) <=> (Len(s) = 0))
         /\ \A i \in 1..Len(s) : s[i] \in Message
         /\ s # <<>> => /\ Head(s) = s[1] /\ s[1] \in Message
                        /\ Tail(s) \in Seq(Message) /\ IsTail(Tail(s), s)
         /\ \A m \in Message : s \o <<m>> \in Seq(Message) /\ IsAppend(s \o <<m>>, s, m)
<1>1. Len(s) \in Nat /\ ((s = <<>>) <=> (Len(s) = 0))
  OBVIOUS
<1>2. \A i \in 1..Len(s) : s[i] \in Message
  OBVIOUS
<1>3. s # <<>> => /\ Head(s) = s[1] /\ s[1] \in Message
                  /\ Tail(s) \in Seq(Message) /\ IsTail(Tail(s), s)
  BY <1>1, <1>2 DEF IsTail
<1>4. ASSUME NEW m \in Message
      PROVE  s \o <<m>> \in Seq(Message) /\ IsAppend(s \o <<m>>, s, m)
  BY <1>4, <1>1 DEF IsAppend
<1> QED
  BY <1>1, <1>2, <1>3, <1>4

\* Reading the first message of a stream.
LEMMA ReadStream ==
  ASSUME NEW f \in [Conns -> Seq(Message)], NEW c \in Conns,
         f[c] # <<>>, NEW g, g = [f EXCEPT ![c] = Tail(@)]
  PROVE  /\ g \in [Conns -> Seq(Message)] /\ IsTail(g[c], f[c])
         /\ Head(f[c]) = f[c][1] /\ f[c][1] \in Message
         /\ \A d \in Conns \ {c} : g[d] = f[d]
<1>1. /\ Tail(f[c]) \in Seq(Message) /\ IsTail(Tail(f[c]), f[c])
      /\ Head(f[c]) = f[c][1] /\ f[c][1] \in Message
  BY Streams
<1> QED
  BY <1>1

\* Writing to a stream, which may be lost.
LEMMA ReplyStream ==
  ASSUME WireTypes, NEW c \in Conns, NEW m \in Message, Reply(c, <<m>>)
  PROVE  /\ toA' \in [Conns -> Seq(Message)]
         /\ cut[c] \/ agt[c].pc = "closed" => toA'[c] = toA[c]
         /\ ~cut[c] /\ agt[c].pc # "closed" => IsAppend(toA'[c], toA[c], m)
         /\ \A d \in Conns \ {c} : toA'[d] = toA[d]
<1>1. /\ toA \in [Conns -> Seq(Message)] /\ toA[c] \o <<m>> \in Seq(Message)
      /\ IsAppend(toA[c] \o <<m>>, toA[c], m)
  BY Streams DEF WireTypes
<1>2. toA' = [toA EXCEPT ![c] = IF cut[c] \/ agt[c].pc = "closed" THEN @ ELSE @ \o <<m>>]
  BY DEF Reply, Put
<1> QED
  BY <1>1, <1>2

LEMMA RequestStream ==
  ASSUME WireTypes, NEW c \in Conns, NEW m \in Message, Request(c, <<m>>)
  PROVE  /\ toS' \in [Conns -> Seq(Message)]
         /\ cut[c] \/ srv[c].pc = "ended" => toS'[c] = toS[c]
         /\ ~cut[c] /\ srv[c].pc # "ended" => IsAppend(toS'[c], toS[c], m)
         /\ \A d \in Conns \ {c} : toS'[d] = toS[d]
<1>1. /\ toS \in [Conns -> Seq(Message)] /\ toS[c] \o <<m>> \in Seq(Message)
      /\ IsAppend(toS[c] \o <<m>>, toS[c], m)
  BY Streams DEF WireTypes
<1>2. toS' = [toS EXCEPT ![c] = IF cut[c] \/ srv[c].pc = "ended" THEN @ ELSE @ \o <<m>>]
  BY DEF Request, Put
<1> QED
  BY <1>1, <1>2

LEMMA EmptyStream ==
  ASSUME NEW f \in [Conns -> Seq(Message)], NEW c \in Conns,
         NEW g, g = [f EXCEPT ![c] = <<>>]
  PROVE  /\ g \in [Conns -> Seq(Message)] /\ g[c] = <<>> /\ Len(g[c]) = 0
         /\ \A d \in Conns \ {c} : g[d] = f[d]
OBVIOUS

-----------------------------------------------------------------------------
(* Messages and secrets.                                                   *)

LEMMA Configured ==
  ASSUME EndTypes
  PROVE  /\ acfg.mode \in Modes /\ scfg.mode \in Modes
         /\ acfg.secure \in BOOLEAN /\ scfg.secure \in BOOLEAN
         /\ acfg.key \in {"k1", "k2"} /\ scfg.key \in {"k1", "k2"}
BY SessionAssumption DEF EndTypes, Config

LEMMA SecretsTyped ==
  ASSUME EndTypes, NEW c \in Conns
  PROVE  /\ NoSecret \in Secrets /\ PreShared(acfg) \in Secrets /\ PreShared(scfg) \in Secrets
         /\ \A m \in Challenges, k \in {"k1", "k2"} :
              Secret(m, k, c) \in Secrets /\ Secret(m, k, c) # NoSecret
         /\ PreShared(scfg) # NoSecret /\ PreShared(acfg) # NoSecret
         /\ ServerSecret(c) \in Secrets /\ ServerSecret(c) # NoSecret
<1>1. /\ NoSecret \in Secrets /\ PreShared(acfg) \in Secrets /\ PreShared(scfg) \in Secrets
      /\ PreShared(scfg) # NoSecret /\ PreShared(acfg) # NoSecret
  BY Configured DEF NoSecret, PreShared, Secrets, Modes, Ids
<1>2. ASSUME NEW m \in Challenges, NEW k \in {"k1", "k2"}
      PROVE  Secret(m, k, c) \in Secrets /\ Secret(m, k, c) # NoSecret
  <2>1. CASE m = "psk"
    BY <2>1 DEF Secret, DerivePskSessionSecret, NoSecret, Secrets, Modes, Ids
  <2>2. CASE m = "signed"
    BY <2>2 DEF Secret, DeriveSignedSessionSecret, NoSecret, Secrets, Modes, Ids
  <2>3. CASE m = "certificate"
    BY <2>3 DEF Secret, DeriveCertificateSessionSecret, NoSecret, Secrets, Modes, Ids
  <2> QED
    BY <2>1, <2>2, <2>3 DEF Challenges
<1>3. ServerSecret(c) \in Secrets /\ ServerSecret(c) # NoSecret
  BY <1>1, <1>2, Configured DEF ServerSecret, Challenges, Modes
<1> QED
  BY <1>1, <1>2, <1>3

LEMMA PlainMessage ==
  ASSUME EndTypes, NEW t \in MessageTypes
  PROVE  /\ Plain(t) \in Message /\ Plain(t).type = t /\ ~IsSealed(Plain(t))
         /\ Plain(t).seq = 0 /\ Plain(t).key = NoSecret
<1>1. NoSecret \in Secrets /\ 0 \in 0..NChunks /\ 0 \in 0..MaxSeq /\ 0 \in Ids
  BY SessionAssumption DEF NoSecret, Secrets, Modes, Ids
<1> QED
  BY <1>1 DEF Plain, Message, IsSealed

LEMMA KeyMessage ==
  ASSUME EndTypes, NEW t \in MessageTypes, NEW k \in Secrets
  PROVE  LET m == [Plain(t) EXCEPT !.key = k]
         IN m \in Message /\ m.type = t /\ m.key = k /\ ~IsSealed(m)
<1>1. 0 \in 0..NChunks /\ 0 \in 0..MaxSeq /\ 0 \in Ids
  BY SessionAssumption DEF Ids
<1> QED
  BY <1>1 DEF Plain, Message, IsSealed

LEMMA ArgMessage ==
  ASSUME EndTypes, NEW t \in MessageTypes, NEW n \in 0..NChunks
  PROVE  LET m == [Plain(t) EXCEPT !.arg = n]
         IN m \in Message /\ m.type = t /\ m.arg = n /\ m.seq = 0 /\ ~IsSealed(m)
<1>1. NoSecret \in Secrets /\ 0 \in 0..MaxSeq /\ 0 \in Ids
  BY SessionAssumption DEF NoSecret, Secrets, Modes, Ids
<1> QED
  BY <1>1 DEF Plain, Message, IsSealed

LEMMA SealedTyped ==
  ASSUME NEW t \in MessageTypes, NEW e \in AgentEnd \cup HandlerEnd, NEW n \in 0..NChunks
  PROVE  /\ Sealed(t, e, n) \in Message
         /\ Sealed(t, e, n).type = t /\ Sealed(t, e, n).seq = e.next
         /\ Sealed(t, e, n).arg = n /\ Sealed(t, e, n).session = e.session
<1>1. e.key \in Secrets /\ e.session \in Ids /\ e.next \in 0..MaxSeq
  BY SessionAssumption DEF AgentEnd, HandlerEnd
<1> QED
  BY <1>1 DEF Sealed, Message

-----------------------------------------------------------------------------
(* What a step on connection c leaves alone.                               *)

\* Nothing but connection c changes, and what the server has stored only grows.
Only(c) ==
  /\ UNCHANGED conf /\ stored \subseteq stored'
  /\ \A d \in Conns \ {c} :
       /\ agt'[d] = agt[d] /\ srv'[d] = srv[d]
       /\ toS'[d] = toS[d] /\ toA'[d] = toA[d] /\ cut'[d] = cut[d]

LEMMA OthersKept ==
  ASSUME SessionInv, NEW c \in Conns, Only(c),
         chunk' = chunk \/ agt[c].pc # "closed"
  PROVE  \A d \in Conns \ {c} : ConnInv(d)'
<1> SUFFICES ASSUME NEW d \in Conns \ {c} PROVE ConnInv(d)'
  OBVIOUS
<1>1. /\ agt'[d] = agt[d] /\ srv'[d] = srv[d] /\ toS'[d] = toS[d] /\ toA'[d] = toA[d]
      /\ cut'[d] = cut[d] /\ acfg' = acfg /\ scfg' = scfg /\ stored \subseteq stored'
      /\ agt[d].pc # "closed" => chunk' = chunk
      /\ ServerSecret(d)' = ServerSecret(d) /\ ConnInv(d)
  <2>1. agt[d].pc # "closed" => chunk' = chunk
    BY DEF SessionInv, WorkInv
  <2> QED
    BY <2>1 DEF Only, conf, ServerSecret, SessionInv, PreShared, Secret,
                DerivePskSessionSecret, DeriveSignedSessionSecret,
                DeriveCertificateSessionSecret
<1>2. ControlInv(d)' /\ NumbersInv(d)'
  BY <1>1 DEF ConnInv, ControlInv, NumbersInv
<1>3. KeysInv(d)'
  BY <1>1 DEF ConnInv, KeysInv
<1>4. GreetingInv(d)'
  BY <1>1 DEF ConnInv, GreetingInv, IsSealed
<1>5. RequestsInv(d)'
  BY <1>1 DEF ConnInv, RequestsInv, IsSealed
<1>6. AnswersInv(d)'
  BY <1>1 DEF ConnInv, AnswersInv, InUse
<1>7. StepInv(d)'
  BY <1>1 DEF ConnInv, StepInv, ChunkUnderWay
<1> QED
  BY <1>2, <1>3, <1>4, <1>5, <1>6, <1>7 DEF ConnInv

\* A step on one connection keeps the invariant if it keeps that of the connection.
LEMMA StepOn ==
  ASSUME SessionInv, NEW c \in Conns, Only(c),
         EndTypes', WireTypes', WorkTypes', ConnInv(c)',
         chunk' = chunk \/ agt[c].pc # "closed",
         agt[c].pc # "closed" \/ agt'[c].pc = "closed" \/ Active = {},
         agt'[c].pc = "answer" => chunk' \in Chunks,
         acked' \subseteq stored', rejected' = FALSE
  PROVE  SessionInv'
<1>1. \A d \in Conns : ConnInv(d)'
  BY OthersKept
<1>2. \A d \in Conns \ {c} : agt'[d] = agt[d]
  BY DEF Only
<1>3. \A e, d \in Conns : agt'[e].pc # "closed" /\ agt'[d].pc # "closed" => e = d
  BY <1>2 DEF SessionInv, WorkInv, Active
<1>4. \A d \in Conns : agt'[d].pc = "answer" => chunk' \in Chunks
  BY <1>2 DEF SessionInv, WorkInv
<1> QED
  BY <1>1, <1>3, <1>4 DEF SessionInv, WorkInv

LEMMA Here ==
  ASSUME SessionInv, NEW c \in Conns
  PROVE  /\ EndTypes /\ WireTypes /\ WorkTypes /\ ConnInv(c)
         /\ agt[c] \in AgentEnd /\ srv[c] \in HandlerEnd /\ c \in Nat \ {0}
         /\ toS \in [Conns -> Seq(Message)] /\ toA \in [Conns -> Seq(Message)]
         /\ toS[c] \in Seq(Message) /\ toA[c] \in Seq(Message) /\ cut[c] \in BOOLEAN
         /\ Len(toS[c]) \in Nat /\ ((toS[c] = <<>>) <=> (Len(toS[c]) = 0))
         /\ Len(toA[c]) \in Nat /\ ((toA[c] = <<>>) <=> (Len(toA[c]) = 0))
<1>1. /\ EndTypes /\ WireTypes /\ WorkTypes /\ ConnInv(c)
      /\ agt[c] \in AgentEnd /\ srv[c] \in HandlerEnd /\ c \in Nat \ {0}
      /\ toS \in [Conns -> Seq(Message)] /\ toA \in [Conns -> Seq(Message)]
      /\ toS[c] \in Seq(Message) /\ toA[c] \in Seq(Message) /\ cut[c] \in BOOLEAN
  BY SessionAssumption DEF SessionInv, EndTypes, WireTypes
<1> QED
  BY <1>1, Streams

LEMMA HereAfter ==
  ASSUME WireTypes', NEW c \in Conns
  PROVE  /\ Len(toS'[c]) \in Nat /\ ((toS'[c] = <<>>) <=> (Len(toS'[c]) = 0))
         /\ Len(toA'[c]) \in Nat /\ ((toA'[c] = <<>>) <=> (Len(toA'[c]) = 0))
<1>1. toS'[c] \in Seq(Message) /\ toA'[c] \in Seq(Message)
  BY DEF WireTypes
<1> QED
  BY <1>1, Streams

LEMMA SecretKept ==
  ASSUME UNCHANGED conf, NEW c
  PROVE  ServerSecret(c)' = ServerSecret(c) /\ acfg' = acfg /\ scfg' = scfg
BY DEF conf, ServerSecret, PreShared, Secret, DerivePskSessionSecret,
       DeriveSignedSessionSecret, DeriveCertificateSessionSecret

LEMMA BudgetKept ==
  ASSUME WorkTypes, Disturbed \/ budget' = budget
  PROVE  budget' \in 0..MaxDisturbances
BY SessionAssumption DEF WorkTypes, Disturbed

-----------------------------------------------------------------------------
(* Ends that close.                                                        *)

\* The agent closes its end; what the server has still to read stays.
LEMMA AgentClosesInv ==
  ASSUME SessionInv, NEW c \in Conns, AgentCloses(c), UNCHANGED <<conf, srv, toS, cut>>
  PROVE  /\ EndTypes' /\ WireTypes' /\ ConnInv(c)' /\ agt'[c].pc = "closed"
         /\ \A d \in Conns \ {c} : agt'[d] = agt[d] /\ toA'[d] = toA[d]
<1>1. ClosedAgent \in AgentEnd
  BY SessionAssumption DEF ClosedAgent, AgentEnd, NoSecret, Secrets, Modes, Ids
<1>2. /\ agt'[c] = ClosedAgent /\ agt' \in [Conns -> AgentEnd]
      /\ \A d \in Conns \ {c} : agt'[d] = agt[d]
  BY <1>1, Here DEF AgentCloses, EndTypes
<1>3. /\ toA' \in [Conns -> Seq(Message)] /\ toA'[c] = <<>> /\ Len(toA'[c]) = 0
      /\ \A d \in Conns \ {c} : toA'[d] = toA[d]
  BY Here, EmptyStream DEF AgentCloses
<1>4. EndTypes' /\ WireTypes'
  BY <1>2, <1>3, Here DEF EndTypes, WireTypes, conf
<1>5. /\ agt'[c].pc = "closed" /\ agt'[c].session = 0 /\ agt'[c].next = 1
      /\ agt'[c].expected = 1 /\ agt'[c].key = NoSecret
  BY <1>2 DEF ClosedAgent
<1>6. ControlInv(c)' /\ NumbersInv(c)'
  BY <1>3, <1>5, Here, SecretKept DEF ConnInv, ControlInv, NumbersInv, Greeting, InUse
<1>7. KeysInv(c)'
  BY <1>5, Here, SecretKept DEF ConnInv, KeysInv, InUse
<1>8. GreetingInv(c)' /\ AnswersInv(c)' /\ StepInv(c)'
  BY <1>5 DEF GreetingInv, AnswersInv, StepInv, Greeting, InUse
<1>9. RequestsInv(c)'
  <2>1. /\ srv'[c] = srv[c] /\ toS'[c] = toS[c] /\ acfg' = acfg
        /\ agt'[c].pc = "closed" /\ RequestsInv(c)
    BY <1>5, Here, SecretKept DEF ConnInv
  <2> QED
    BY <2>1 DEF RequestsInv, IsSealed
<1> QED
  BY <1>2, <1>3, <1>4, <1>5, <1>6, <1>7, <1>8, <1>9 DEF ConnInv

\* Before READY a message is added to what the agent has to read in the handshake.
LEMMA GreetingAppend ==
  ASSUME SessionInv, WireTypes', NEW c \in Conns, NEW m,
         agt[c].pc \in Greeting, agt'[c] = agt[c], acfg' = acfg, scfg' = scfg,
         srv[c].pc \in {"start", "response", "greet"},
         IsAppend(toA'[c], toA[c], m), ~IsSealed(m), m.type \notin {"READY", "session"},
         m.type \in Challenges => m.type = scfg.mode,
         acfg.mode = "none" /\ scfg.mode # "none" => toA[c] # <<>> \/ m.type = scfg.mode
  PROVE  GreetingInv(c)'
<1>1. Len(toA'[c]) = Len(toA[c]) + 1 /\ Len(toA[c]) \in Nat
  BY Here DEF IsAppend
<1>2. /\ \A i \in 1..Len(toA[c]) : toA'[c][i] = toA[c][i]
      /\ toA'[c][Len(toA[c]) + 1] = m
  BY DEF IsAppend
<1>3. GreetingInv(c)
  BY Here DEF ConnInv
<1>4. \A i \in 1..Len(toA[c]) : toA[c][i].type \notin {"READY", "session"}
  BY <1>3 DEF GreetingInv
<1>5. \A i \in 1..Len(toA'[c]) : i \in 1..Len(toA[c]) \/ i = Len(toA[c]) + 1
  BY <1>1
<1>6. \A i \in 1..Len(toA'[c]) :
        /\ ~IsSealed(toA'[c][i]) /\ toA'[c][i].type \notin {"READY", "session"}
        /\ toA'[c][i].type \in Challenges => toA'[c][i].type = scfg.mode
  BY <1>2, <1>3, <1>4, <1>5 DEF GreetingInv, IsSealed
<1>7. toA'[c] # <<>>
  BY <1>1, HereAfter
<1>8. acfg.mode = "none" /\ scfg.mode # "none" => toA'[c][1].type = scfg.mode
  <2>1. CASE toA[c] # <<>>
    <3>1. 1 \in 1..Len(toA[c])
      BY <2>1, Here
    <3> QED
      BY <2>1, <3>1, <1>2, <1>3 DEF GreetingInv
  <2>2. CASE toA[c] = <<>>
    <3>1. toA'[c][1] = m
      BY <2>2, <1>2, Here
    <3> QED
      BY <2>2, <3>1
  <2> QED
    BY <2>1, <2>2
<1> QED
  BY <1>6, <1>7, <1>8 DEF GreetingInv, IsSealed

\* The handler ends; a refusal may be its last word to an agent in the handshake.
LEMMA HandlerEndsInv ==
  ASSUME SessionInv, NEW c \in Conns, HandlerEnds(c), UNCHANGED <<conf, agt, cut>>,
         UNCHANGED <<stored, chunk>>, srv[c].pc # "start",
         \/ toA' = toA
         \/ srv[c].pc = "response" /\ Reply(c, <<Plain("AUTH_FAILED")>>)
  PROVE  /\ EndTypes' /\ WireTypes' /\ ConnInv(c)'
         /\ \A d \in Conns \ {c} : /\ srv'[d] = srv[d] /\ toS'[d] = toS[d]
                                   /\ toA'[d] = toA[d]
<1>1. EndedHandler \in HandlerEnd
  BY SessionAssumption DEF EndedHandler, HandlerEnd, NoSecret, Secrets, Modes, Ids
<1>2. /\ srv'[c] = EndedHandler /\ srv' \in [Conns -> HandlerEnd]
      /\ \A d \in Conns \ {c} : srv'[d] = srv[d]
  BY <1>1, Here DEF HandlerEnds, EndTypes
<1>3. /\ toS' \in [Conns -> Seq(Message)] /\ toS'[c] = <<>> /\ Len(toS'[c]) = 0
      /\ \A d \in Conns \ {c} : toS'[d] = toS[d]
  BY Here, EmptyStream DEF HandlerEnds
<1>4. /\ toA' \in [Conns -> Seq(Message)]
      /\ \A d \in Conns \ {c} : toA'[d] = toA[d]
      /\ \/ toA'[c] = toA[c]
         \/ /\ IsAppend(toA'[c], toA[c], Plain("AUTH_FAILED"))
            /\ ~cut[c] /\ agt[c].pc # "closed" /\ srv[c].pc = "response"
  <2>1. CASE toA' = toA
    BY <2>1, Here
  <2>2. CASE srv[c].pc = "response" /\ Reply(c, <<Plain("AUTH_FAILED")>>)
    <3>1. Plain("AUTH_FAILED") \in Message
      BY Here, PlainMessage DEF MessageTypes
    <3> QED
      BY <2>2, <3>1, Here, ReplyStream
  <2> QED
    BY <2>1, <2>2
<1>5. EndTypes' /\ WireTypes'
  BY <1>2, <1>3, <1>4, Here DEF EndTypes, WireTypes, conf
<1>6. /\ srv'[c].pc = "ended" /\ srv'[c].next = 1 /\ srv'[c].expected = 1
      /\ srv'[c].failures = 0 /\ srv'[c].key = NoSecret
  BY <1>2 DEF EndedHandler
<1>7. /\ agt'[c] = agt[c] /\ cut'[c] = cut[c] /\ acfg' = acfg /\ scfg' = scfg
      /\ ServerSecret(c)' = ServerSecret(c)
  BY SecretKept
<1>8. ControlInv(c)'
  BY <1>3, <1>4, <1>6, <1>7, Here DEF ConnInv, ControlInv, Greeting, InUse, Serving
<1>9. NumbersInv(c)' /\ KeysInv(c)'
  BY <1>6, <1>7, Here DEF ConnInv, NumbersInv, KeysInv, Serving
<1>10. GreetingInv(c)'
  <2> SUFFICES ASSUME agt[c].pc \in Greeting PROVE GreetingInv(c)'
    BY <1>7 DEF GreetingInv
  <2>1. CASE toA'[c] = toA[c]
    BY <2>1, <1>6, <1>7, Here DEF ConnInv, GreetingInv, IsSealed
  <2>2. CASE /\ IsAppend(toA'[c], toA[c], Plain("AUTH_FAILED"))
             /\ ~cut[c] /\ srv[c].pc = "response"
    <3>1. /\ Plain("AUTH_FAILED").type = "AUTH_FAILED" /\ ~IsSealed(Plain("AUTH_FAILED"))
      BY DEF Plain, IsSealed
    <3>2. acfg.mode = "none" /\ scfg.mode # "none" => toA[c] # <<>>
      BY <2>2, Here DEF ConnInv, GreetingInv
    <3> QED
      BY <1>5, <1>7, <2>2, <3>1, <3>2, GreetingAppend DEF Challenges
  <2> QED
    BY <1>4, <2>1, <2>2
<1>11. RequestsInv(c)' /\ StepInv(c)'
  BY <1>6 DEF RequestsInv, StepInv, Serving
<1>12. AnswersInv(c)'
  <2>1. agt[c].pc \in InUse => toA'[c] = toA[c]
    BY <1>4, Here DEF ConnInv, ControlInv, Serving
  <2> QED
    BY <2>1, <1>3, <1>6, <1>7, Here DEF ConnInv, AnswersInv
<1> QED
  BY <1>2, <1>3, <1>4, <1>5, <1>8, <1>9, <1>10, <1>11, <1>12 DEF ConnInv

\* The actions in which the agent does no more than close its end.
LEMMA AgentDropsInv ==
  ASSUME SessionInv, NEW c \in Conns, AgentCloses(c), UNCHANGED <<conf, srv, toS, cut, work>>,
         rejected' = FALSE, Disturbed \/ budget' = budget
  PROVE  SessionInv'
<1>1. /\ EndTypes' /\ WireTypes' /\ ConnInv(c)' /\ agt'[c].pc = "closed"
      /\ \A d \in Conns \ {c} : agt'[d] = agt[d] /\ toA'[d] = toA[d]
  BY AgentClosesInv
<1>2. Only(c) /\ WorkTypes' /\ acked' \subseteq stored' /\ chunk' = chunk
  BY <1>1, Here, BudgetKept DEF Only, work, WorkTypes, SessionInv, WorkInv
<1> QED
  BY <1>1, <1>2, StepOn

\* The actions in which the handler does no more than end.
LEMMA HandlerDropsInv ==
  ASSUME SessionInv, NEW c \in Conns, HandlerEnds(c), UNCHANGED <<conf, agt, cut, work>>,
         srv[c].pc # "start",
         \/ toA' = toA
         \/ srv[c].pc = "response" /\ Reply(c, <<Plain("AUTH_FAILED")>>),
         rejected' = FALSE, Disturbed \/ budget' = budget
  PROVE  SessionInv'
<1>1. UNCHANGED <<stored, chunk, acked>>
  BY DEF work
<1>2. /\ EndTypes' /\ WireTypes' /\ ConnInv(c)'
      /\ \A d \in Conns \ {c} : srv'[d] = srv[d] /\ toS'[d] = toS[d] /\ toA'[d] = toA[d]
  BY <1>1, HandlerEndsInv
<1>3. /\ Only(c) /\ WorkTypes' /\ acked' \subseteq stored' /\ chunk' = chunk
      /\ agt'[c].pc = "answer" => chunk' \in Chunks
  BY <1>1, <1>2, Here, BudgetKept DEF Only, WorkTypes, SessionInv, WorkInv
<1> QED
  BY <1>2, <1>3, StepOn

\* A sealed message with the number an end expects next is in step.
LEMMA NextInStep ==
  ASSUME NEW m, NEW e, m.seq = e.expected, m.seq < MaxSeq
  PROVE  InStep(m, e)
BY SessionAssumption DEF InStep

\* The actions of an agent that refuses what it reads, or stops waiting.
LEMMA UnexpectedInv ==
  ASSUME SessionInv, NEW c \in Conns,
         Unexpected(c) \/ AnswerFailed(c) \/ AgentGivesUp(c) \/ AgentTimeout(c)
  PROVE  SessionInv'
<1>1. AgentCloses(c) /\ UNCHANGED <<conf, srv, toS, cut, work, rejected>>
  BY DEF Unexpected, AnswerFailed, AgentGivesUp, AgentTimeout
<1>2. Disturbed \/ budget' = budget
  BY DEF Unexpected, AnswerFailed, AgentGivesUp, AgentTimeout
<1>3. rejected' = FALSE
  BY <1>1 DEF SessionInv, WorkInv
<1> QED
  BY <1>1, <1>2, <1>3, AgentDropsInv

\* An answer that is refused is one that does not open: its number is right.
LEMMA AnswerRejectedInv ==
  ASSUME SessionInv, NEW c \in Conns, AnswerRejected(c)
  PROVE  SessionInv'
<1>1. /\ AgentCloses(c) /\ UNCHANGED <<conf, srv, toS, cut, work, budget>>
      /\ agt[c].pc = "answer" /\ toA[c] # <<>>
      /\ acfg.secure /\ ~(Opens(Head(toA[c]), agt[c]) /\ InStep(Head(toA[c]), agt[c]))
      /\ rejected' = (rejected \/ Opens(Head(toA[c]), agt[c]))
  BY DEF AnswerRejected, Accepts
<1>2. Head(toA[c]) = toA[c][1] /\ 1 \in 1..Len(toA[c])
  BY <1>1, Here, Streams
<1>3. agt[c].expected \in Nat
  BY Here, SessionAssumption DEF AgentEnd
<1>4. toA[c][1].seq = agt[c].expected /\ toA[c][1].seq < MaxSeq
  <2>1. AnswersInv(c)
    BY Here DEF ConnInv
  <2>2. toA[c][1].seq = agt[c].expected + 1 - 1 /\ toA[c][1].seq < MaxSeq
    BY <1>1, <1>2, <2>1 DEF AnswersInv, InUse
  <2> QED
    BY <1>3, <2>2
<1>5. InStep(Head(toA[c]), agt[c])
  BY <1>2, <1>4, NextInStep
<1>6. rejected' = FALSE
  BY <1>1, <1>5 DEF SessionInv, WorkInv
<1> QED
  BY <1>1, <1>6, AgentDropsInv

\* The handler refuses the response, does not get one, or stops waiting for a packet.
LEMMA HandlerLeavesInv ==
  ASSUME SessionInv, NEW c \in Conns,
         RejectResponse(c) \/ HandlerGivesUp(c) \/ HandlerTimeout(c)
  PROVE  SessionInv'
<1>1. /\ HandlerEnds(c) /\ UNCHANGED <<conf, agt, cut, work, rejected>>
      /\ srv[c].pc # "start" /\ (Disturbed \/ budget' = budget)
  BY DEF RejectResponse, HandlerGivesUp, HandlerTimeout, HandlerWaits
<1>2. \/ toA' = toA
      \/ srv[c].pc = "response" /\ Reply(c, <<Plain("AUTH_FAILED")>>)
  BY DEF RejectResponse, HandlerGivesUp, HandlerTimeout
<1>3. rejected' = FALSE
  BY <1>1 DEF SessionInv, WorkInv
<1> QED
  BY <1>1, <1>2, <1>3, HandlerDropsInv

\* A sealed packet that ends the connection has the right number, too.
LEMMA RejectPacketInv ==
  ASSUME SessionInv, NEW c \in Conns, RejectPacket(c)
  PROVE  SessionInv'
<1>1. /\ HandlerEnds(c) /\ UNCHANGED <<conf, agt, toA, cut, work, budget>>
      /\ srv[c].pc = "loop" /\ toS[c] # <<>> /\ IsSealed(Head(toS[c]))
      /\ rejected' = (rejected \/ (/\ Opens(Head(toS[c]), srv[c])
                                   /\ ~InStep(Head(toS[c]), srv[c])))
  BY DEF RejectPacket
<1>2. Head(toS[c]) = toS[c][1] /\ 1 \in 1..Len(toS[c])
  BY <1>1, Here, Streams
<1>3. /\ acfg.secure /\ toS[c][1].type = "chunk"
      /\ toS[c][1].seq = srv[c].expected /\ toS[c][1].seq < MaxSeq
  <2>1. RequestsInv(c) /\ IsSealed(toS[c][1])
    BY <1>1, <1>2, Here DEF ConnInv
  <2>2. acfg.secure /\ toS[c][1].type = "chunk"
    BY <1>1, <1>2, <2>1 DEF RequestsInv, Serving
  <2> QED
    BY <1>1, <1>2, <2>1, <2>2 DEF RequestsInv, Serving
<1>4. InStep(Head(toS[c]), srv[c])
  BY <1>2, <1>3, NextInStep
<1>5. rejected' = FALSE
  BY <1>1, <1>4 DEF SessionInv, WorkInv
<1> QED
  BY <1>1, <1>5, HandlerDropsInv

\* So has the message that a handler waiting for CLOSE_NOW reads.
LEMMA FinishHandlerInv ==
  ASSUME SessionInv, NEW c \in Conns, FinishHandler(c)
  PROVE  SessionInv'
<1>1. /\ HandlerEnds(c) /\ UNCHANGED <<conf, agt, toA, cut, work, budget>>
      /\ srv[c].pc = "broken" \/ (srv[c].pc = "closing" /\ toS[c] # <<>>)
      /\ rejected' = (rejected \/ (/\ srv[c].pc = "closing"
                                   /\ Opens(Head(toS[c]), srv[c])
                                   /\ ~InStep(Head(toS[c]), srv[c])))
  BY DEF FinishHandler
<1>2. ASSUME srv[c].pc = "closing", Opens(Head(toS[c]), srv[c])
      PROVE  InStep(Head(toS[c]), srv[c])
  <2>1. Head(toS[c]) = toS[c][1] /\ 1 \in 1..Len(toS[c]) /\ toS[c] # <<>>
    BY <1>1, <1>2, Here, Streams
  <2>2. IsSealed(toS[c][1])
    BY <1>2, <2>1 DEF Opens, ParseEnvelope
  <2>3. toS[c][1].seq = srv[c].expected /\ toS[c][1].seq < MaxSeq
    BY <1>2, <2>1, <2>2, Here DEF ConnInv, RequestsInv, Serving
  <2> QED
    BY <2>1, <2>3, NextInStep
<1>3. rejected' = FALSE
  BY <1>1, <1>2 DEF SessionInv, WorkInv
<1> QED
  BY <1>1, <1>3, HandlerDropsInv

-----------------------------------------------------------------------------
(* The network.                                                            *)

LEMMA CutInv ==
  ASSUME SessionInv, NEW c \in Conns, Cut(c)
  PROVE  SessionInv'
<1>1. /\ UNCHANGED <<acfg, scfg, agt, srv, chunk, stored, acked, rejected>> /\ Disturbed
      /\ cut' = [cut EXCEPT ![c] = TRUE]
      /\ toS' = [toS EXCEPT ![c] = <<>>] /\ toA' = [toA EXCEPT ![c] = <<>>]
  BY DEF Cut, conf, work
<1>2. /\ toS' \in [Conns -> Seq(Message)] /\ toS'[c] = <<>> /\ Len(toS'[c]) = 0
      /\ toA' \in [Conns -> Seq(Message)] /\ toA'[c] = <<>> /\ Len(toA'[c]) = 0
      /\ \A d \in Conns \ {c} : toS'[d] = toS[d] /\ toA'[d] = toA[d]
  BY <1>1, Here, EmptyStream
<1>3. /\ cut' \in [Conns -> BOOLEAN] /\ cut'[c] = TRUE
      /\ \A d \in Conns \ {c} : cut'[d] = cut[d]
  BY <1>1, Here DEF WireTypes
<1>4. EndTypes' /\ WireTypes' /\ WorkTypes'
  BY <1>1, <1>2, <1>3, Here, BudgetKept DEF EndTypes, WireTypes, WorkTypes
<1>5. Only(c)
  BY <1>1, <1>2, <1>3 DEF Only, conf
<1>6. ServerSecret(c)' = ServerSecret(c)
  BY <1>5, SecretKept DEF Only
<1>7. ControlInv(c)' /\ NumbersInv(c)' /\ KeysInv(c)'
  BY <1>1, <1>2, <1>3, <1>6, Here DEF ConnInv, ControlInv, NumbersInv, KeysInv
<1>8. GreetingInv(c)' /\ RequestsInv(c)' /\ AnswersInv(c)' /\ StepInv(c)'
  BY <1>2, <1>3 DEF GreetingInv, RequestsInv, AnswersInv, StepInv
<1> QED
  BY <1>1, <1>4, <1>5, <1>7, <1>8, StepOn DEF ConnInv, SessionInv, WorkInv

\* A damaged stream differs in keys only, and only in those of sealed messages.
SameButKeys(t, s) ==
  /\ Len(t) = Len(s)
  /\ \A i \in 1..Len(s) : /\ t[i].type = s[i].type /\ t[i].session = s[i].session
                          /\ t[i].seq = s[i].seq /\ t[i].arg = s[i].arg
                          /\ ~IsSealed(s[i]) => t[i] = s[i]

LEMMA DamagedStream ==
  ASSUME NEW f \in [Conns -> Seq(Message)], NEW c \in Conns, NEW g,
         NEW k \in DOMAIN f[c], IsSealed(f[c][k]),
         g = [f EXCEPT ![c][k].key = NoSecret]
  PROVE  /\ g \in [Conns -> Seq(Message)] /\ SameButKeys(g[c], f[c])
         /\ \A d \in Conns \ {c} : g[d] = f[d]
<1> DEFINE s == f[c]
           r == [s[k] EXCEPT !.key = NoSecret]
           t == [s EXCEPT ![k] = r]
<1>1. s \in Seq(Message) /\ k \in 1..Len(s) /\ s[k] \in Message
  OBVIOUS
<1>2. NoSecret \in Secrets
  BY DEF NoSecret, Secrets, Modes, Ids
<1>3. /\ r \in Message /\ r.type = s[k].type /\ r.session = s[k].session
      /\ r.seq = s[k].seq /\ r.arg = s[k].arg
  BY <1>1, <1>2 DEF Message
<1>4. /\ g = [f EXCEPT ![c] = t]
  OBVIOUS
<1> HIDE DEF r
<1>5. /\ t \in Seq(Message) /\ Len(t) = Len(s) /\ t[k] = r
      /\ \A i \in 1..Len(s) : i # k => t[i] = s[i]
  BY <1>1, <1>3
<1> HIDE DEF t
<1>6. g \in [Conns -> Seq(Message)] /\ g[c] = t /\ \A d \in Conns \ {c} : g[d] = f[d]
  BY <1>4, <1>5
<1>7. SameButKeys(t, s)
  BY <1>1, <1>3, <1>5 DEF SameButKeys
<1> QED
  BY <1>6, <1>7

LEMMA DamageInv ==
  ASSUME SessionInv, NEW c \in Conns, Damage(c)
  PROVE  SessionInv'
<1>1. /\ UNCHANGED <<acfg, scfg, agt, srv, cut, chunk, stored, acked, rejected>> /\ Disturbed
  BY DEF Damage, conf, work
<1>2. /\ toS' \in [Conns -> Seq(Message)] /\ toA' \in [Conns -> Seq(Message)]
      /\ \A d \in Conns \ {c} : toS'[d] = toS[d] /\ toA'[d] = toA[d]
      /\ SameButKeys(toS'[c], toS[c]) /\ SameButKeys(toA'[c], toA[c])
  <2>1. SameButKeys(toS[c], toS[c]) /\ SameButKeys(toA[c], toA[c])
    BY DEF SameButKeys
  <2>2. CASE Damaged(toS, c) /\ toA' = toA
    BY <2>1, <2>2, Here, DamagedStream DEF Damaged
  <2>3. CASE Damaged(toA, c) /\ toS' = toS
    BY <2>1, <2>3, Here, DamagedStream DEF Damaged
  <2> QED
    BY <2>2, <2>3 DEF Damage
<1>3. EndTypes' /\ WireTypes' /\ WorkTypes' /\ Only(c)
  BY <1>1, <1>2, Here, BudgetKept DEF EndTypes, WireTypes, WorkTypes, Only, conf
<1>4. /\ ServerSecret(c)' = ServerSecret(c)
      /\ Len(toS'[c]) = Len(toS[c]) /\ Len(toA'[c]) = Len(toA[c])
      /\ ((toS'[c] = <<>>) <=> (toS[c] = <<>>)) /\ ((toA'[c] = <<>>) <=> (toA[c] = <<>>))
  BY <1>2, <1>3, Here, HereAfter, SecretKept DEF Only, SameButKeys
<1>5. ControlInv(c)' /\ NumbersInv(c)' /\ KeysInv(c)'
  BY <1>1, <1>4, Here DEF ConnInv, ControlInv, NumbersInv, KeysInv
<1>6. GreetingInv(c)'
  <2> SUFFICES ASSUME agt[c].pc \in Greeting PROVE GreetingInv(c)'
    BY <1>1 DEF GreetingInv
  <2>1. \A i \in 1..Len(toA[c]) : toA'[c][i] = toA[c][i]
    BY <1>2, Here DEF ConnInv, GreetingInv, SameButKeys
  <2>4. toA[c] # <<>> => 1 \in 1..Len(toA[c])
    BY Here
  <2>2. toA[c] # <<>> => toA'[c][1] = toA[c][1]
    BY <2>1, <2>4
  <2>3. \A i \in 1..Len(toA[c]) : i > 1 => toA'[c][i - 1] = toA[c][i - 1]
    BY <2>1, Here
  <2> QED
    BY <1>1, <1>4, <2>1, <2>2, <2>3, Here DEF ConnInv, GreetingInv, IsSealed
<1>7. RequestsInv(c)' /\ StepInv(c)'
  <2>1. /\ \A i \in 1..Len(toS[c]) :
             /\ toS'[c][i].type = toS[c][i].type /\ toS'[c][i].arg = toS[c][i].arg
             /\ toS'[c][i].seq = toS[c][i].seq
             /\ toS'[c][i].session = toS[c][i].session
        /\ toS[c] # <<>> => toS'[c][1].type = toS[c][1].type
    BY <1>2, Here DEF SameButKeys
  <2>2. RequestsInv(c) /\ StepInv(c)
    BY Here DEF ConnInv
  <2>3. RequestsInv(c)'
    BY <1>1, <1>4, <2>1, <2>2 DEF RequestsInv, IsSealed
  <2>4. StepInv(c)'
    BY <1>1, <1>4, <2>1, <2>2 DEF StepInv, ChunkUnderWay
  <2> QED
    BY <2>3, <2>4
<1>8. AnswersInv(c)'
  <2>1. \A i \in 1..Len(toA[c]) :
             toA'[c][i].type = toA[c][i].type /\ toA'[c][i].seq = toA[c][i].seq
    BY <1>2 DEF SameButKeys
  <2>2. AnswersInv(c)
    BY Here DEF ConnInv
  <2> QED
    BY <1>1, <1>4, <2>1, <2>2 DEF AnswersInv
<1> QED
  BY <1>1, <1>3, <1>5, <1>6, <1>7, <1>8, StepOn DEF ConnInv, SessionInv, WorkInv

-----------------------------------------------------------------------------
(* The handshake: the agent.                                               *)

LEMMA ConnectInv ==
  ASSUME SessionInv, NEW c \in Conns, Connect(c)
  PROVE  SessionInv'
<1> DEFINE first == IF acfg.mode # "none" THEN "challenge"
                    ELSE IF acfg.secure THEN "session" ELSE "greeting"
<1>1. /\ UNCHANGED <<acfg, scfg, toS, toA, chunk, stored, acked, rejected, budget>>
      /\ Active = {} /\ srv[c].pc = "ended" /\ agt[c].pc = "closed"
      /\ agt' = [agt EXCEPT ![c].pc = first] /\ srv' = [srv EXCEPT ![c].pc = "start"]
      /\ cut' = [cut EXCEPT ![c] = FALSE]
  BY DEF Connect, conf, work, Active
<1>2. /\ agt' \in [Conns -> AgentEnd] /\ agt'[c].pc = first
      /\ agt'[c].key = agt[c].key /\ agt'[c].session = agt[c].session
      /\ agt'[c].next = agt[c].next /\ agt'[c].expected = agt[c].expected
      /\ \A d \in Conns \ {c} : agt'[d] = agt[d]
  <2>1. first \in AgentWaits
    BY DEF AgentWaits
  <2> HIDE DEF first
  <2>2. agt \in [Conns -> AgentEnd]
    BY Here DEF EndTypes
  <2> QED
    BY <1>1, <2>1, <2>2 DEF AgentEnd
<1>3. /\ srv' \in [Conns -> HandlerEnd] /\ srv'[c].pc = "start"
      /\ srv'[c].key = srv[c].key /\ srv'[c].session = srv[c].session
      /\ srv'[c].next = srv[c].next /\ srv'[c].expected = srv[c].expected
      /\ srv'[c].failures = srv[c].failures
      /\ \A d \in Conns \ {c} : srv'[d] = srv[d]
  BY <1>1, Here DEF EndTypes, HandlerEnd
<1>4. /\ cut' \in [Conns -> BOOLEAN] /\ ~cut'[c]
      /\ \A d \in Conns \ {c} : cut'[d] = cut[d]
  BY <1>1, Here DEF WireTypes
<1>5. EndTypes' /\ WireTypes' /\ WorkTypes' /\ Only(c)
  BY <1>1, <1>2, <1>3, <1>4, Here DEF EndTypes, WireTypes, WorkTypes, Only, conf
<1>6. /\ toS'[c] = <<>> /\ toA'[c] = <<>> /\ Len(toA'[c]) = 0
      /\ ServerSecret(c)' = ServerSecret(c)
      /\ agt[c].session = 0 /\ srv[c].key = NoSecret
      /\ agt[c].next = 1 /\ agt[c].expected = 1 /\ srv[c].next = 1 /\ srv[c].expected = 1
      /\ srv[c].failures = 0
  BY <1>1, <1>5, Here, SecretKept
     DEF ConnInv, ControlInv, KeysInv, NumbersInv, Only, Serving, Greeting
<1>7. ControlInv(c)' /\ NumbersInv(c)'
  BY <1>2, <1>3, <1>4, <1>6 DEF ControlInv, NumbersInv, Serving, InUse, Greeting
<1>8. KeysInv(c)'
  BY <1>1, <1>2, <1>3, <1>6, Here, Configured DEF KeysInv, Serving, InUse
<1>9. GreetingInv(c)'
  BY <1>3, <1>6 DEF GreetingInv
<1>10. RequestsInv(c)' /\ AnswersInv(c)' /\ StepInv(c)'
  BY <1>2, <1>3, <1>6 DEF RequestsInv, AnswersInv, StepInv, Serving, InUse
<1>11. agt'[c].pc # "answer" /\ acked' \subseteq stored' /\ rejected' = FALSE
  BY <1>1, <1>2 DEF SessionInv, WorkInv
<1>12. ConnInv(c)' /\ chunk' = chunk
  BY <1>1, <1>7, <1>8, <1>9, <1>10 DEF ConnInv
<1> HIDE DEF first
<1> QED
  BY <1>1, <1>5, <1>11, <1>12, StepOn

\* The agent reads one message of the handshake, which is none of those that the
\* invariant places, and is then at another point of it.
LEMMA HandshakeRead ==
  ASSUME SessionInv, NEW c \in Conns, agt[c].pc \in Greeting,
         agt'[c].pc \in Greeting, IsTail(toA'[c], toA[c]),
         srv'[c] = srv[c], cut'[c] = cut[c], acfg' = acfg, scfg' = scfg,
         ServerSecret(c)' = ServerSecret(c),
         \/ agt'[c].session = agt[c].session /\ toA[c][1].type # "session"
         \/ agt'[c].session # 0 /\ toA[c][1].type = "session",
         acfg.mode # "none" \/ scfg.mode = "none"
  PROVE  GreetingInv(c)'
<1>1. /\ Len(toA[c]) \in Nat /\ Len(toA[c]) >= 1 /\ Len(toA'[c]) = Len(toA[c]) - 1
      /\ \A i \in 1..Len(toA'[c]) : toA'[c][i] = toA[c][i + 1]
  BY Here DEF IsTail
<1>2. \A i \in 1..Len(toA'[c]) : i + 1 \in 1..Len(toA[c]) /\ i + 1 > 1
  BY <1>1
<1>3. \A i \in 1..Len(toA[c]) :
         /\ ~IsSealed(toA[c][i])
         /\ toA[c][i].type \in Challenges => toA[c][i].type = scfg.mode
         /\ toA[c][i].type = "READY" =>
              /\ i = Len(toA[c]) /\ srv[c].pc \in {"loop", "ended"}
              /\ scfg.secure /\ agt[c].session = 0 =>
                   i > 1 /\ toA[c][i - 1].type = "session"
         /\ toA[c][i].type = "session" =>
              /\ i = Len(toA[c]) - 1 /\ srv[c].pc \in {"loop", "ended"}
              /\ scfg.secure /\ agt[c].session = 0 /\ toA[c][i].key = ServerSecret(c)
  BY Here DEF ConnInv, GreetingInv
<1>4. ASSUME NEW i \in 1..Len(toA'[c])
      PROVE  /\ ~IsSealed(toA'[c][i])
             /\ toA'[c][i].type \in Challenges => toA'[c][i].type = scfg.mode
  BY <1>1, <1>2, <1>3
<1>5. ASSUME NEW i \in 1..Len(toA'[c]), toA'[c][i].type = "READY"
      PROVE  /\ i = Len(toA'[c]) /\ srv[c].pc \in {"loop", "ended"}
             /\ scfg.secure /\ agt'[c].session = 0 =>
                  i > 1 /\ toA'[c][i - 1].type = "session"
  <2>1. toA[c][i + 1].type = "READY" /\ i + 1 \in 1..Len(toA[c])
    BY <1>1, <1>2, <1>5
  <2>2. i + 1 = Len(toA[c]) /\ srv[c].pc \in {"loop", "ended"}
    BY <1>3, <2>1
  <2>3. ASSUME scfg.secure, agt'[c].session = 0
        PROVE  i > 1 /\ toA'[c][i - 1].type = "session"
    <3>1. toA[c][(i + 1) - 1].type = "session"
      BY <1>3, <2>1, <2>3
    <3>2. toA[c][i].type = "session" /\ toA[c][1].type # "session"
      BY <2>3, <3>1
    <3>3. i > 1
      BY <1>5, <3>2
    <3>4. i - 1 \in 1..Len(toA'[c]) /\ (i - 1) + 1 = i
      BY <1>1, <3>3
    <3> QED
      BY <1>1, <3>2, <3>3, <3>4
  <2> QED
    BY <1>1, <2>2, <2>3
<1>6. ASSUME NEW i \in 1..Len(toA'[c]), toA'[c][i].type = "session"
      PROVE  /\ i = Len(toA'[c]) - 1 /\ srv[c].pc \in {"loop", "ended"}
             /\ scfg.secure /\ agt'[c].session = 0 /\ toA'[c][i].key = ServerSecret(c)
  <2>1. toA[c][i + 1].type = "session" /\ i + 1 \in 1..Len(toA[c])
    BY <1>1, <1>2, <1>6
  <2>2. /\ i + 1 = Len(toA[c]) - 1 /\ srv[c].pc \in {"loop", "ended"}
        /\ scfg.secure /\ agt[c].session = 0 /\ toA[c][i + 1].key = ServerSecret(c)
    BY <1>3, <2>1
  <2>3. toA[c][1].type # "session"
    <3>1. 1 \in 1..Len(toA[c])
      BY <1>1
    <3>2. toA[c][1].type = "session" => 1 = Len(toA[c]) - 1
      BY <1>3, <3>1
    <3> QED
      BY <1>1, <1>6, <2>2, <3>2
  <2> QED
    BY <1>1, <2>2, <2>3
<1> QED
  BY <1>4, <1>5, <1>6 DEF GreetingInv, IsSealed

\* The agent's end after it has gone on in the handshake: its counters are as before,
\* and so is the work.
LEMMA HandshakeStep ==
  ASSUME SessionInv, NEW c \in Conns, agt[c].pc \in Greeting,
         NEW p \in Greeting, NEW k \in Secrets, NEW n \in Ids,
         agt' = [agt EXCEPT ![c].pc = p, ![c].key = k, ![c].session = n],
         AgentReads(c), UNCHANGED <<conf, srv, cut, work, rejected, budget>>,
         toS' \in [Conns -> Seq(Message)], \A d \in Conns \ {c} : toS'[d] = toS[d],
         ControlInv(c)', KeysInv(c)', GreetingInv(c)',
         toS'[c] = toS[c] \/ srv[c].pc = "response"
  PROVE  SessionInv'
<1>1. UNCHANGED <<acfg, scfg, srv, cut, chunk, stored, acked, rejected, budget>>
  BY DEF conf, work
<1>2. /\ agt' \in [Conns -> AgentEnd] /\ agt'[c].pc = p
      /\ agt'[c].next = agt[c].next /\ agt'[c].expected = agt[c].expected
      /\ \A d \in Conns \ {c} : agt'[d] = agt[d]
  BY Here DEF EndTypes, AgentEnd, Greeting, AgentWaits
<1>3. toA' \in [Conns -> Seq(Message)] /\ \A d \in Conns \ {c} : toA'[d] = toA[d]
  BY Here, ReadStream DEF AgentReads
<1>4. EndTypes' /\ WireTypes' /\ WorkTypes' /\ Only(c)
  BY <1>1, <1>2, <1>3, Here DEF EndTypes, WireTypes, WorkTypes, Only, conf
<1>5. NumbersInv(c)'
  BY <1>1, <1>2, Here DEF ConnInv, NumbersInv
<1>6. RequestsInv(c)'
  <2>1. srv[c].pc \in Serving => toS'[c] = <<>>
    BY Here DEF ConnInv, ControlInv, Serving
  <2>2. srv[c].pc \in Serving => Len(toS'[c]) = 0
    BY <2>1, <1>4, HereAfter
  <2> QED
    BY <1>1, <2>1, <2>2 DEF RequestsInv
<1>7. AnswersInv(c)' /\ StepInv(c)' /\ agt'[c].pc # "answer"
  BY <1>2 DEF AnswersInv, StepInv, Greeting, InUse
<1>8. agt[c].pc # "closed" /\ acked' \subseteq stored' /\ rejected' = FALSE
  BY <1>1 DEF Greeting, SessionInv, WorkInv
<1>9. ConnInv(c)' /\ chunk' = chunk
  BY <1>1, <1>5, <1>6, <1>7 DEF ConnInv
<1> QED
  BY <1>4, <1>7, <1>8, <1>9, StepOn

\* What the agent reads and where it stands before: shared by the steps below.
LEMMA AgentReading ==
  ASSUME SessionInv, NEW c \in Conns, AgentReads(c)
  PROVE  /\ Head(toA[c]) = toA[c][1] /\ 1 \in 1..Len(toA[c]) /\ toA[c] # <<>>
         /\ toA[c][1] \in Message /\ IsTail(toA'[c], toA[c]) /\ ~cut[c]
         /\ toA' \in [Conns -> Seq(Message)]
         /\ \A d \in Conns \ {c} : toA'[d] = toA[d]
         /\ Len(toA[c]) = 1 => toA'[c] = <<>>
<1>1. /\ toA' \in [Conns -> Seq(Message)] /\ IsTail(toA'[c], toA[c])
      /\ Head(toA[c]) = toA[c][1] /\ toA[c][1] \in Message /\ toA[c] # <<>>
      /\ \A d \in Conns \ {c} : toA'[d] = toA[d]
  BY Here, ReadStream DEF AgentReads
<1>2. 1 \in 1..Len(toA[c]) /\ ~cut[c]
  BY <1>1, Here DEF ConnInv, ControlInv
<1>3. Len(toA[c]) = 1 => toA'[c] = <<>>
  <2>1. toA'[c] \in Seq(Message) /\ Len(toA'[c]) = Len(toA[c]) - 1
    BY <1>1 DEF IsTail
  <2> QED
    BY <2>1, Streams
<1> QED
  BY <1>1, <1>2, <1>3

LEMMA ResponseTyped ==
  ASSUME EndTypes, NEW c \in Conns, acfg.mode # "none"
  PROVE  Response(c) \in Message /\ Response(c).type = "response"
<1>1. /\ <<"psk", acfg.key, c>> \in Secrets /\ <<"signed", "dh", c>> \in Secrets
      /\ <<"certificate", "dh", c>> \in Secrets
  BY Configured DEF Secrets, Modes, Ids
<1>2. "response" \in MessageTypes
  BY DEF MessageTypes
<1>3. \A k \in Secrets : /\ [Plain("response") EXCEPT !.key = k] \in Message
                         /\ [Plain("response") EXCEPT !.key = k].type = "response"
  BY <1>2, KeyMessage
<1>4. acfg.mode \in Challenges
  BY Configured DEF Modes, Challenges
<1> QED
  BY <1>1, <1>3, <1>4 DEF Challenges, Response, BuildResponseMessage,
     BuildSignedResponseMessage, BuildCertificateResponseMessage

LEMMA AnswerChallengeInv ==
  ASSUME SessionInv, NEW c \in Conns, AnswerChallenge(c)
  PROVE  SessionInv'
<1>1. /\ agt[c].pc = "challenge" /\ AgentReads(c) /\ Head(toA[c]).type = acfg.mode
      /\ Request(c, <<Response(c)>>)
      /\ UNCHANGED <<conf, srv, cut, work, rejected, budget>>
  BY DEF AnswerChallenge, ParsesChallenge
<1>2. acfg.mode \in Challenges /\ agt[c].pc \in Greeting /\ agt[c].session = 0
  BY <1>1, Here, Configured DEF ConnInv, KeysInv, Challenges, Modes, Greeting
<1>3. scfg.mode = acfg.mode
  <2>1. toA[c][1].type = acfg.mode /\ 1 \in 1..Len(toA[c])
    BY <1>1, AgentReading
  <2>2. GreetingInv(c)
    BY Here DEF ConnInv
  <2> QED
    BY <1>2, <2>1, <2>2 DEF GreetingInv
<1>4. srv[c].pc \in {"response", "ended"} /\ toS[c] = <<>> /\ ~cut[c]
  BY <1>1, <1>2, <1>3, AgentReading, Here DEF ConnInv, ControlInv, Challenges
<1>5. PICK p \in {"proof", "session", "greeting"}, k \in Secrets :
        /\ agt' = [agt EXCEPT ![c].pc = p, ![c].key = k, ![c].session = 0]
        /\ (p = "session") => acfg.secure
        /\ (p = "greeting") => ~acfg.secure
  <2>1. /\ agt[c].key \in Secrets /\ agt[c] \in AgentEnd
        /\ agt \in [Conns -> AgentEnd]
    BY Here DEF AgentEnd, EndTypes
  <2>2. CASE acfg.mode = "psk"
    <3>1. Secret("psk", acfg.key, c) \in Secrets
      BY Here, SecretsTyped, Configured DEF Challenges
    <3> DEFINE p == IF acfg.secure THEN "session" ELSE "greeting"
    <3>2. agt' = [agt EXCEPT ![c].pc = p, ![c].key = Secret("psk", acfg.key, c)]
      BY <2>2 DEF AnswerChallenge, Authenticated
    <3>3. /\ p \in {"proof", "session", "greeting"}
          /\ (p = "session") => acfg.secure
          /\ (p = "greeting") => ~acfg.secure
      OBVIOUS
    <3> HIDE DEF p
    <3>4. agt' = [agt EXCEPT ![c].pc = p, ![c].key = Secret("psk", acfg.key, c),
                             ![c].session = 0]
      BY <1>2, <2>1, <3>2 DEF AgentEnd
    <3> QED
      BY <3>1, <3>3, <3>4
  <2>3. CASE acfg.mode # "psk"
    <3>1. agt' = [agt EXCEPT ![c].pc = "proof"]
      BY <2>3 DEF AnswerChallenge
    <3>2. agt' = [agt EXCEPT ![c].pc = "proof", ![c].key = agt[c].key, ![c].session = 0]
      BY <1>2, <2>1, <3>1 DEF AgentEnd
    <3> QED
      BY <2>1, <3>2
  <2> QED
    BY <2>2, <2>3
<1>6. /\ agt'[c].pc = p /\ agt'[c].session = 0 /\ p \in Greeting
  BY <1>5, Here DEF EndTypes, AgentEnd, Greeting
<1>7. /\ toS' \in [Conns -> Seq(Message)] /\ \A d \in Conns \ {c} : toS'[d] = toS[d]
      /\ srv[c].pc = "ended" => toS'[c] = <<>>
      /\ srv[c].pc # "ended" => Len(toS'[c]) = 1
  <2>1. Response(c) \in Message
    BY <1>2, Here, ResponseTyped DEF Challenges
  <2>2. /\ toS' \in [Conns -> Seq(Message)] /\ \A d \in Conns \ {c} : toS'[d] = toS[d]
        /\ srv[c].pc = "ended" => toS'[c] = toS[c]
        /\ srv[c].pc # "ended" => IsAppend(toS'[c], toS[c], Response(c))
    BY <1>1, <1>4, <2>1, Here, RequestStream
  <2>3. Len(toS[c]) = 0
    BY <1>4, Here
  <2> QED
    BY <1>4, <2>2, <2>3 DEF IsAppend
<1>8. acfg' = acfg /\ scfg' = scfg /\ ServerSecret(c)' = ServerSecret(c)
  BY <1>1, SecretKept
<1>9. ControlInv(c)'
  <2>1. srv'[c] = srv[c] /\ ~cut'[c]
    BY <1>1, <1>4
  <2>2. /\ srv'[c].pc \in {"response", "ended"}
        /\ srv'[c].pc # "response" => toS'[c] = <<>>
        /\ srv'[c].pc = "response" => Len(toS'[c]) <= 1
    <3>1. \A n : n = 1 => n <= 1
      OBVIOUS
    <3> QED
      BY <1>4, <1>7, <2>1, <3>1
  <2>3. agt'[c].pc \in {"proof", "session", "greeting"} /\ scfg'.mode # "none"
    BY <1>2, <1>3, <1>5, <1>6, <1>8 DEF Challenges
  <2> QED
    BY <2>1, <2>2, <2>3 DEF ControlInv, Greeting, InUse
<1>10. KeysInv(c)'
  BY <1>1, <1>2, <1>3, <1>4, <1>5, <1>6, <1>8, Here DEF ConnInv, KeysInv, Serving, InUse
<1>11. GreetingInv(c)'
  <2>1. toA[c][1].type # "session" /\ acfg.mode # "none" /\ IsTail(toA'[c], toA[c])
    BY <1>1, <1>2, AgentReading DEF Challenges
  <2>2. srv'[c] = srv[c] /\ cut'[c] = cut[c] /\ agt'[c].session = agt[c].session
        /\ agt'[c].pc \in Greeting
    BY <1>1, <1>2, <1>6
  <2> QED
    BY <1>2, <1>8, <2>1, <2>2, HandshakeRead
<1>12. 0 \in Ids
  BY DEF Ids
<1> QED
  BY <1>1, <1>2, <1>4, <1>5, <1>6, <1>7, <1>9, <1>10, <1>11, <1>12, HandshakeStep

LEMMA VerifyProofInv ==
  ASSUME SessionInv, NEW c \in Conns, VerifyProof(c)
  PROVE  SessionInv'
<1> DEFINE p == IF acfg.secure THEN "session" ELSE "greeting"
           k == Secret(acfg.mode, acfg.key, c)
<1>1. /\ agt[c].pc = "proof" /\ AgentReads(c) /\ ProvesServer(Head(toA[c]))
      /\ agt' = [agt EXCEPT ![c].pc = p, ![c].key = k]
      /\ UNCHANGED <<conf, srv, toS, cut, work, rejected, budget>>
  BY DEF VerifyProof, Authenticated
<1>2. /\ acfg.mode \in Challenges /\ agt[c].pc \in Greeting /\ agt[c].session = 0
      /\ scfg.mode = acfg.mode
  BY <1>1, Here, Configured DEF ConnInv, KeysInv, Challenges, Modes, Greeting
<1>3. /\ p \in {"session", "greeting"} /\ (p = "session" => acfg.secure)
      /\ (p = "greeting" => ~acfg.secure) /\ k \in Secrets
  BY <1>2, Here, SecretsTyped, Configured
<1> HIDE DEF p, k
<1>4. agt' = [agt EXCEPT ![c].pc = p, ![c].key = k, ![c].session = 0]
  <2>1. agt[c] \in AgentEnd /\ agt \in [Conns -> AgentEnd]
    BY Here DEF EndTypes
  <2> QED
    BY <1>1, <1>2, <2>1 DEF AgentEnd
<1>5. agt'[c].pc = p /\ agt'[c].session = 0 /\ p \in Greeting
  BY <1>3, <1>4, Here DEF EndTypes, AgentEnd, Greeting
<1>6. /\ acfg' = acfg /\ scfg' = scfg /\ ServerSecret(c)' = ServerSecret(c)
      /\ srv'[c] = srv[c] /\ toS'[c] = toS[c] /\ cut'[c] = cut[c] /\ ~cut[c]
  BY <1>1, SecretKept, AgentReading
<1>7. ControlInv(c)'
  <2>1. srv[c].pc # "start"
    BY <1>1, AgentReading, Here DEF ConnInv, ControlInv
  <2> QED
    BY <1>1, <1>2, <1>3, <1>5, <1>6, <2>1, Here DEF ConnInv, ControlInv, Greeting, InUse
<1>8. KeysInv(c)'
  BY <1>2, <1>3, <1>5, <1>6, Here DEF ConnInv, KeysInv, InUse
<1>9. GreetingInv(c)'
  <2>1. toA[c][1].type # "session" /\ IsTail(toA'[c], toA[c])
    BY <1>1, AgentReading DEF ProvesServer, VerifySignedOkMessage, VerifyCertificateOkMessage
  <2> QED
    BY <1>2, <1>5, <1>6, <2>1, HandshakeRead DEF Challenges
<1>10. 0 \in Ids /\ toS' \in [Conns -> Seq(Message)]
       /\ \A d \in Conns \ {c} : toS'[d] = toS[d]
  BY <1>1, Here DEF Ids
<1>11. UNCHANGED <<conf, srv, cut, work, rejected, budget>> /\ toS'[c] = toS[c]
  BY <1>1
<1>12. p \in Greeting /\ k \in Secrets /\ 0 \in Ids
  BY <1>3, <1>5, <1>10
<1>13. AgentReads(c)
  BY <1>1
<1> QED
  BY <1>2, <1>4, <1>7, <1>8, <1>9, <1>10, <1>11, <1>12, <1>13, HandshakeStep

\* The session message the agent accepts holds the key of the server's end.
LEMMA StartSessionInv ==
  ASSUME SessionInv, NEW c \in Conns, StartSession(c)
  PROVE  SessionInv'
<1> DEFINE k == SessionSecret(c)
<1>1. /\ agt[c].pc = "session" /\ AgentReads(c)
      /\ Head(toA[c]).type = "session" /\ Head(toA[c]).key = k
      /\ agt' = [agt EXCEPT ![c].pc = "greeting", ![c].key = k, ![c].session = c]
      /\ UNCHANGED <<conf, srv, toS, cut, work, rejected, budget>>
  BY DEF StartSession, ParsesSession
<1> HIDE DEF k
<1>2. /\ toA[c][1].type = "session" /\ toA[c][1].key = k /\ 1 \in 1..Len(toA[c])
      /\ toA[c] # <<>> /\ ~cut[c] /\ agt[c].pc \in Greeting
  BY <1>1, AgentReading DEF Greeting
<1>3. /\ GreetingInv(c) /\ KeysInv(c) /\ ControlInv(c) /\ c \in Nat \ {0}
  BY Here DEF ConnInv
<1>4. /\ scfg.secure /\ k = ServerSecret(c) /\ agt[c].session = 0
      /\ srv[c].pc \in {"loop", "ended"}
  BY <1>2, <1>3 DEF GreetingInv
<1>5. acfg.mode # "none" \/ scfg.mode = "none"
  BY <1>2, <1>3, Here, Configured DEF GreetingInv, Modes
<1>6. scfg.mode = acfg.mode /\ acfg.secure
  BY <1>1, <1>3, <1>5 DEF KeysInv
<1>7. k \in Secrets /\ c \in Ids /\ "greeting" \in Greeting
  BY <1>4, Here, SecretsTyped DEF Ids, Greeting
<1>8. agt'[c].pc = "greeting" /\ agt'[c].session = c /\ agt'[c].key = k
  BY <1>1, Here DEF EndTypes, AgentEnd
<1>9. /\ acfg' = acfg /\ scfg' = scfg /\ ServerSecret(c)' = ServerSecret(c)
      /\ srv'[c] = srv[c] /\ toS'[c] = toS[c] /\ cut'[c] = cut[c]
  BY <1>1, SecretKept
<1>10. ControlInv(c)'
  BY <1>2, <1>3, <1>4, <1>8, <1>9 DEF ControlInv, Greeting, InUse
<1>11. KeysInv(c)'
  BY <1>3, <1>4, <1>6, <1>8, <1>9 DEF KeysInv, InUse, Serving
<1>12. GreetingInv(c)'
  <2>1. IsTail(toA'[c], toA[c]) /\ agt'[c].session # 0
    BY <1>1, <1>3, <1>8, AgentReading
  <2> QED
    BY <1>2, <1>5, <1>7, <1>8, <1>9, <2>1, HandshakeRead
<1>13. toS' \in [Conns -> Seq(Message)] /\ \A d \in Conns \ {c} : toS'[d] = toS[d]
  BY <1>1, Here
<1> QED
  BY <1>1, <1>2, <1>7, <1>9, <1>10, <1>11, <1>12, <1>13, HandshakeStep

\* READY ends the handshake with nothing left to read: both ends agree.
LEMMA GreetedInv ==
  ASSUME SessionInv, NEW c \in Conns, Greeted(c)
  PROVE  SessionInv'
<1>1. /\ agt[c].pc = "greeting" /\ AgentReads(c) /\ Head(toA[c]).type = "READY"
      /\ agt' = [agt EXCEPT ![c].pc = "ready"]
      /\ UNCHANGED <<acfg, scfg, srv, toS, cut, chunk, stored, acked, rejected, budget>>
  BY DEF Greeted, conf, work
<1>2. /\ toA[c][1].type = "READY" /\ 1 \in 1..Len(toA[c]) /\ toA[c] # <<>> /\ ~cut[c]
      /\ agt[c].pc \in Greeting /\ toA' \in [Conns -> Seq(Message)]
      /\ \A d \in Conns \ {c} : toA'[d] = toA[d]
  BY <1>1, AgentReading DEF Greeting
<1>3. /\ GreetingInv(c) /\ KeysInv(c) /\ ControlInv(c) /\ NumbersInv(c)
      /\ c \in Nat \ {0}
  BY Here DEF ConnInv
<1>4. 1 = Len(toA[c]) /\ srv[c].pc \in {"loop", "ended"}
  BY <1>2, <1>3 DEF GreetingInv
<1>5. scfg.secure /\ agt[c].session = 0 => 1 > 1
  BY <1>2, <1>3 DEF GreetingInv
<1>6. scfg.secure = acfg.secure
  BY <1>1, <1>3, <1>5, Here, Configured DEF KeysInv
<1>7. scfg.mode = acfg.mode
  <2>1. acfg.mode # "none" \/ scfg.mode = "none"
    BY <1>2, <1>3, Here, Configured DEF GreetingInv, Modes
  <2> QED
    BY <1>1, <1>3, <2>1 DEF KeysInv
<1>8. toA'[c] = <<>> /\ Len(toA'[c]) = 0 /\ toS[c] = <<>> /\ Len(toS[c]) = 0
  BY <1>1, <1>2, <1>3, <1>4, AgentReading, Here DEF ControlInv
<1>9. /\ agt' \in [Conns -> AgentEnd] /\ agt'[c].pc = "ready"
      /\ agt'[c].key = agt[c].key /\ agt'[c].session = agt[c].session
      /\ agt'[c].next = agt[c].next /\ agt'[c].expected = agt[c].expected
      /\ \A d \in Conns \ {c} : agt'[d] = agt[d]
  BY <1>1, Here DEF EndTypes, AgentEnd
<1>10. EndTypes' /\ WireTypes' /\ WorkTypes' /\ Only(c)
  BY <1>1, <1>2, <1>9, Here DEF EndTypes, WireTypes, WorkTypes, Only, conf
<1>11. ServerSecret(c)' = ServerSecret(c)
  BY <1>10, SecretKept DEF Only
<1>12. ControlInv(c)' /\ NumbersInv(c)'
  BY <1>1, <1>2, <1>3, <1>4, <1>8, <1>9
     DEF ControlInv, NumbersInv, Greeting, InUse, Serving
<1>13. KeysInv(c)'
  BY <1>1, <1>3, <1>4, <1>6, <1>7, <1>9, <1>11 DEF KeysInv, InUse, Serving
<1>14. GreetingInv(c)' /\ RequestsInv(c)' /\ AnswersInv(c)'
  BY <1>1, <1>8, <1>9 DEF GreetingInv, RequestsInv, AnswersInv, Greeting
<1>15. StepInv(c)'
  <2>1. ~ChunkUnderWay(c)'
    BY <1>1, <1>8 DEF ChunkUnderWay
  <2>2. agt[c].next = 1 /\ agt[c].expected = 1 /\ srv[c].next = 1 /\ srv[c].expected = 1
    BY <1>2, <1>3 DEF NumbersInv
  <2> QED
    BY <1>1, <1>4, <1>8, <1>9, <2>1, <2>2 DEF StepInv
<1>16. /\ agt'[c].pc # "answer" /\ agt[c].pc # "closed"
       /\ acked' \subseteq stored' /\ rejected' = FALSE /\ chunk' = chunk
  BY <1>1, <1>9 DEF SessionInv, WorkInv
<1>17. ConnInv(c)'
  BY <1>12, <1>13, <1>14, <1>15 DEF ConnInv
<1> QED
  BY <1>10, <1>16, <1>17, StepOn

-----------------------------------------------------------------------------
(* The handshake: the server.                                              *)

\* The handler goes on in the handshake, with an agent that is in it or has left.
LEMMA ServerHandshakeStep ==
  ASSUME SessionInv, NEW c \in Conns, srv[c].pc \in {"start", "response", "greet"},
         srv' \in [Conns -> HandlerEnd], \A d \in Conns \ {c} : srv'[d] = srv[d],
         srv'[c].pc \in {"response", "greet", "loop"}, srv'[c].next = srv[c].next,
         srv'[c].expected = srv[c].expected, srv'[c].failures = srv[c].failures,
         UNCHANGED <<conf, agt, cut, work, rejected, budget>>,
         toS' \in [Conns -> Seq(Message)], toA' \in [Conns -> Seq(Message)],
         \A d \in Conns \ {c} : toS'[d] = toS[d] /\ toA'[d] = toA[d],
         toS'[c] = <<>>,
         srv'[c].pc \in {"response", "greet"} => scfg.mode # "none",
         srv'[c].pc = "response" \/ scfg.mode = "none" \/ agt[c].pc # "challenge",
         srv'[c].pc = "response" => srv'[c].key = NoSecret,
         srv'[c].pc = "greet" => srv'[c].key = ServerSecret(c),
         srv'[c].pc = "loop" /\ scfg.secure =>
           srv'[c].key = ServerSecret(c) /\ srv'[c].session = c,
         agt[c].pc = "closed" \/ cut[c] => toA'[c] = toA[c],
         agt[c].pc # "closed" => GreetingInv(c)'
  PROVE  SessionInv'
<1>1. UNCHANGED <<acfg, scfg, agt, cut, chunk, stored, acked, rejected, budget>>
  BY DEF conf, work
<1>3. EndTypes' /\ WireTypes' /\ WorkTypes' /\ Only(c)
  BY <1>1, Here DEF EndTypes, WireTypes, WorkTypes, Only, conf
<1>4. /\ agt[c].pc \in Greeting \cup {"closed"} /\ ConnInv(c) /\ agt[c].session = 0
      /\ agt'[c] = agt[c] /\ cut'[c] = cut[c] /\ ServerSecret(c)' = ServerSecret(c)
      /\ Len(toS'[c]) = 0
  <2>1. agt[c].pc \in AgentWaits \cup {"closed", "ready"}
    BY Here DEF AgentEnd
  <2>2. ConnInv(c) /\ Len(toS'[c]) = 0
    BY Here, HereAfter, <1>3
  <2>3. agt[c].pc \notin InUse /\ agt[c].session = 0
    BY <2>2, Here DEF ConnInv, ControlInv, KeysInv, Serving
  <2> QED
    BY <1>1, <2>1, <2>2, <2>3, SecretKept DEF AgentWaits, Greeting, InUse
<1>5. ControlInv(c)'
  BY <1>1, <1>4 DEF ConnInv, ControlInv, Greeting, InUse
<1>6. NumbersInv(c)'
  <2>1. srv[c].next = 1 /\ srv[c].expected = 1 /\ srv[c].failures = 0 /\ 0 < Threshold
    BY <1>4, SessionAssumption DEF ConnInv, NumbersInv, Serving
  <2> QED
    BY <1>4, <2>1 DEF ConnInv, NumbersInv
<1>7. KeysInv(c)'
  BY <1>1, <1>4 DEF ConnInv, KeysInv, Greeting, InUse, Serving
<1>8. GreetingInv(c)'
  BY <1>4 DEF GreetingInv, Greeting
<1>9. RequestsInv(c)' /\ AnswersInv(c)' /\ StepInv(c)'
  BY <1>4 DEF RequestsInv, AnswersInv, StepInv, Greeting, InUse
<1>10. /\ ConnInv(c)' /\ agt'[c].pc # "answer" /\ chunk' = chunk
       /\ acked' \subseteq stored' /\ rejected' = FALSE
       /\ agt[c].pc # "closed" \/ agt'[c].pc = "closed"
  BY <1>1, <1>4, <1>5, <1>6, <1>7, <1>8, <1>9
     DEF ConnInv, Greeting, SessionInv, WorkInv
<1> QED
  BY <1>3, <1>10, StepOn

LEMMA SendChallengeInv ==
  ASSUME SessionInv, NEW c \in Conns, SendChallenge(c)
  PROVE  SessionInv'
<1> DEFINE m == Plain(scfg.mode)
<1>1. /\ srv[c].pc = "start" /\ scfg.mode # "none" /\ Reply(c, <<m>>)
      /\ srv' = [srv EXCEPT ![c].pc = "response"]
      /\ UNCHANGED <<conf, agt, toS, cut, work, rejected, budget>>
  BY DEF SendChallenge, BuildChallengeMessage
<1>2. /\ m \in Message /\ m.type = scfg.mode /\ ~IsSealed(m) /\ scfg.mode \in Challenges
  BY <1>1, Here, PlainMessage, Configured DEF MessageTypes, Challenges, Modes
<1> HIDE DEF m
<1>3. /\ toA' \in [Conns -> Seq(Message)]
      /\ cut[c] \/ agt[c].pc = "closed" => toA'[c] = toA[c]
      /\ ~cut[c] /\ agt[c].pc # "closed" => IsAppend(toA'[c], toA[c], m)
      /\ \A d \in Conns \ {c} : toA'[d] = toA[d]
  BY <1>1, <1>2, Here, ReplyStream
<1>4. /\ srv[c].key = NoSecret /\ NoSecret \in Secrets /\ srv[c].session \in Ids
      /\ toS[c] = <<>> /\ toA[c] = <<>>
  BY <1>1, Here, SecretsTyped DEF ConnInv, KeysInv, ControlInv, HandlerEnd
<1>5. /\ srv' \in [Conns -> HandlerEnd] /\ \A d \in Conns \ {c} : srv'[d] = srv[d]
      /\ srv'[c].pc = "response" /\ srv'[c].next = srv[c].next /\ srv'[c].key = NoSecret
      /\ srv'[c].expected = srv[c].expected /\ srv'[c].failures = srv[c].failures
  <2>1. srv \in [Conns -> HandlerEnd] /\ srv[c] \in HandlerEnd
    BY Here DEF EndTypes
  <2> QED
    BY <1>1, <1>4, <2>1 DEF HandlerEnd
<1>6. agt[c].pc # "closed" => GreetingInv(c)'
  <2> SUFFICES ASSUME agt[c].pc # "closed" PROVE GreetingInv(c)'
    OBVIOUS
  <2>1. acfg' = acfg /\ scfg' = scfg /\ agt'[c] = agt[c] /\ cut'[c] = cut[c]
    BY <1>1 DEF conf
  <2>2. CASE cut[c]
    <3>1. toA'[c] = <<>> /\ Len(toA'[c]) = 0
      BY <2>2, <1>3, <1>4
    <3> QED
      BY <2>1, <2>2, <3>1 DEF GreetingInv
  <2>3. CASE ~cut[c]
    <3>1. agt[c].pc \in Greeting
      BY <1>1, Here DEF ConnInv, ControlInv, AgentEnd, AgentWaits, Greeting, InUse, Serving
    <3>2. WireTypes'
      BY <1>1, <1>3, Here DEF WireTypes
    <3>3. m.type \notin {"READY", "session"}
      BY <1>2 DEF Challenges
    <3> QED
      BY <1>1, <1>2, <1>3, <2>1, <2>3, <3>1, <3>2, <3>3, GreetingAppend
  <2> QED
    BY <2>2, <2>3
<1>7. /\ UNCHANGED <<conf, agt, cut, work, rejected, budget>> /\ toS'[c] = <<>>
      /\ toS' \in [Conns -> Seq(Message)]
      /\ \A d \in Conns \ {c} : toS'[d] = toS[d] /\ toA'[d] = toA[d]
  BY <1>1, <1>3, <1>4, Here
<1> QED
  BY <1>1, <1>3, <1>4, <1>5, <1>6, <1>7, ServerHandshakeStep

LEMMA OkMessages ==
  ASSUME EndTypes, scfg.mode # "none"
  PROVE  \/ OkMessage = <<>>
         \/ \E m \in Message : /\ OkMessage = <<m>> /\ ~IsSealed(m)
                               /\ m.type \notin Challenges \cup {"READY", "session"}
<1>1. /\ Plain("signedOk") \in Message /\ Plain("signedOk").type = "signedOk"
      /\ ~IsSealed(Plain("signedOk"))
  BY PlainMessage DEF MessageTypes
<1>2. /\ Plain("certificateOk") \in Message
      /\ Plain("certificateOk").type = "certificateOk"
      /\ ~IsSealed(Plain("certificateOk"))
  BY PlainMessage DEF MessageTypes
<1>3. scfg.mode \in {"psk", "signed", "certificate"}
  BY Configured DEF Modes
<1>4. CASE scfg.mode = "psk"
  BY <1>4 DEF OkMessage
<1>5. CASE scfg.mode = "signed"
  <2>1. OkMessage = <<Plain("signedOk")>>
    BY <1>5 DEF OkMessage, BuildSignedOkMessage
  <2> QED
    BY <1>1, <2>1 DEF Challenges
<1>6. CASE scfg.mode = "certificate"
  <2>1. OkMessage = <<Plain("certificateOk")>>
    BY <1>6 DEF OkMessage, BuildCertificateOkMessage
  <2> QED
    BY <1>2, <2>1 DEF Challenges
<1> QED
  BY <1>3, <1>4, <1>5, <1>6

LEMMA AcceptResponseInv ==
  ASSUME SessionInv, NEW c \in Conns, AcceptResponse(c)
  PROVE  SessionInv'
<1> DEFINE k == Secret(scfg.mode, scfg.key, c)
<1>1. /\ srv[c].pc = "response" /\ ServerReads(c) /\ Reply(c, OkMessage)
      /\ srv' = [srv EXCEPT ![c].pc = "greet", ![c].key = k]
      /\ UNCHANGED <<conf, agt, cut, work, rejected, budget>>
  BY DEF AcceptResponse
<1>2. /\ scfg.mode # "none" /\ toS[c] # <<>> /\ Len(toS[c]) <= 1 /\ ~cut[c]
      /\ agt[c].pc # "challenge"
  BY <1>1, Here DEF ConnInv, ControlInv, ServerReads
<1>3. k = ServerSecret(c) /\ k \in Secrets /\ srv[c].session \in Ids
  <2>1. k = ServerSecret(c)
    BY <1>2 DEF ServerSecret
  <2> HIDE DEF k
  <2> QED
    BY <2>1, Here, SecretsTyped DEF HandlerEnd
<1> HIDE DEF k
<1>4. /\ toS' \in [Conns -> Seq(Message)] /\ toS'[c] = <<>>
      /\ \A d \in Conns \ {c} : toS'[d] = toS[d]
  <2>1. /\ toS' \in [Conns -> Seq(Message)] /\ IsTail(toS'[c], toS[c])
        /\ \A d \in Conns \ {c} : toS'[d] = toS[d]
    BY <1>1, Here, ReadStream DEF ServerReads
  <2>2. toS'[c] \in Seq(Message) /\ Len(toS'[c]) = 0
    <3>1. Len(toS'[c]) = Len(toS[c]) - 1 /\ Len(toS[c]) \in Nat /\ Len(toS[c]) >= 1
      BY <2>1, Here DEF IsTail
    <3>2. Len(toS[c]) <= 1 /\ toS'[c] \in Seq(Message)
      BY <1>2, <2>1
    <3>3. \A n \in Nat : n >= 1 /\ n <= 1 => n - 1 = 0
      OBVIOUS
    <3> QED
      BY <3>1, <3>2, <3>3
  <2> QED
    BY <2>1, <2>2, Streams
<1>5. \/ toA' = toA
      \/ \E m \in Message : /\ Reply(c, <<m>>) /\ ~IsSealed(m)
                            /\ m.type \notin Challenges \cup {"READY", "session"}
  <2>1. CASE OkMessage = <<>>
    <3>1. toA[c] \o <<>> = toA[c] /\ toA \in [Conns -> Seq(Message)]
      BY Here
    <3>2. toA' = [toA EXCEPT ![c] = IF cut[c] \/ agt[c].pc = "closed" THEN @
                                    ELSE @ \o <<>>]
      BY <1>1, <2>1 DEF Reply, Put
    <3> QED
      BY <3>1, <3>2
  <2>2. CASE OkMessage # <<>>
    BY <1>1, <1>2, <2>2, Here, OkMessages
  <2> QED
    BY <2>1, <2>2
<1>6. /\ toA' \in [Conns -> Seq(Message)]
      /\ cut[c] \/ agt[c].pc = "closed" => toA'[c] = toA[c]
      /\ \A d \in Conns \ {c} : toA'[d] = toA[d]
  BY <1>5, Here, ReplyStream
<1>7. /\ srv' \in [Conns -> HandlerEnd] /\ \A d \in Conns \ {c} : srv'[d] = srv[d]
      /\ srv'[c].pc = "greet" /\ srv'[c].next = srv[c].next /\ srv'[c].key = k
      /\ srv'[c].expected = srv[c].expected /\ srv'[c].failures = srv[c].failures
  <2>1. srv \in [Conns -> HandlerEnd] /\ srv[c] \in HandlerEnd
    BY Here DEF EndTypes
  <2> QED
    BY <1>1, <1>3, <2>1 DEF HandlerEnd
<1>8. agt[c].pc # "closed" => GreetingInv(c)'
  <2> SUFFICES ASSUME agt[c].pc # "closed" PROVE GreetingInv(c)'
    OBVIOUS
  <2>1. /\ acfg' = acfg /\ scfg' = scfg /\ agt'[c] = agt[c] /\ cut'[c] = cut[c]
        /\ ServerSecret(c)' = ServerSecret(c)
    BY <1>1, SecretKept
  <2>2. agt[c].pc \in Greeting /\ GreetingInv(c)
    BY <1>1, Here DEF ConnInv, ControlInv, AgentEnd, AgentWaits, Greeting, InUse, Serving
  <2>3. CASE toA' = toA
    <3>1. /\ \A i \in 1..Len(toA[c]) : toA[c][i].type \notin {"READY", "session"}
          /\ acfg.mode = "none" /\ scfg.mode # "none" => toA[c] # <<>>
      BY <1>1, <1>2, <2>2 DEF GreetingInv
    <3> QED
      BY <2>1, <2>2, <2>3, <3>1 DEF GreetingInv, IsSealed
  <2>4. CASE \E m \in Message : /\ Reply(c, <<m>>) /\ ~IsSealed(m)
                                /\ m.type \notin Challenges \cup {"READY", "session"}
    <3>1. PICK m \in Message : /\ Reply(c, <<m>>) /\ ~IsSealed(m)
                               /\ m.type \notin Challenges \cup {"READY", "session"}
      BY <2>4
    <3>2. IsAppend(toA'[c], toA[c], m) /\ WireTypes'
      BY <1>1, <1>2, <1>4, <1>6, <3>1, Here, ReplyStream DEF WireTypes
    <3>3. acfg.mode = "none" /\ scfg.mode # "none" => toA[c] # <<>>
      BY <1>1, <1>2, <2>2 DEF GreetingInv
    <3> QED
      BY <1>1, <2>1, <2>2, <3>1, <3>2, <3>3, GreetingAppend
  <2> QED
    BY <1>5, <2>3, <2>4
<1> QED
  BY <1>1, <1>2, <1>3, <1>4, <1>6, <1>7, <1>8, ServerHandshakeStep

\* What Greet sends: the secure session, if there is one, and READY.
LEMMA GreetMessages ==
  ASSUME SessionInv, NEW c \in Conns, NEW k \in Secrets, NEW ms,
         ms = (IF scfg.secure THEN <<BuildSecureSessionMessage(k)>> ELSE <<>>)
              \o <<Plain("READY")>>,
         Reply(c, ms)
  PROVE  /\ toA' \in [Conns -> Seq(Message)]
         /\ \A d \in Conns \ {c} : toA'[d] = toA[d]
         /\ cut[c] \/ agt[c].pc = "closed" => toA'[c] = toA[c]
         /\ ~cut[c] /\ agt[c].pc # "closed" =>
              LET n == Len(toA[c]) IN
              /\ \A i \in 1..n : toA'[c][i] = toA[c][i]
              /\ ~scfg.secure => /\ Len(toA'[c]) = n + 1
                                 /\ toA'[c][n + 1] = Plain("READY")
              /\ scfg.secure => /\ Len(toA'[c]) = n + 2
                                /\ toA'[c][n + 1] = BuildSecureSessionMessage(k)
                                /\ toA'[c][n + 2] = Plain("READY")
<1> DEFINE r == Plain("READY")
           b == BuildSecureSessionMessage(k)
<1>1. r \in Message
  BY Here, PlainMessage DEF MessageTypes
<1>2. b \in Message
  <2>1. "session" \in MessageTypes
    BY DEF MessageTypes
  <2> QED
    BY <2>1, Here, KeyMessage DEF BuildSecureSessionMessage
<1> HIDE DEF r, b
<1>3. CASE ~scfg.secure
  <2>1. ms = <<r>>
    BY <1>3 DEF r
  <2> QED
    BY <1>1, <1>3, <2>1, Here, ReplyStream DEF IsAppend, r
<1>4. CASE scfg.secure
  <2>1. ms \in Seq(Message) /\ Len(ms) = 2 /\ ms[1] = b /\ ms[2] = r
    <3>1. ms = <<b>> \o <<r>>
      BY <1>4 DEF r, b
    <3> QED
      BY <1>1, <1>2, <3>1
  <2> DEFINE s == toA[c]
             t == toA[c] \o ms
  <2>2. s \in Seq(Message) /\ toA \in [Conns -> Seq(Message)]
    BY Here
  <2>3. /\ t \in Seq(Message) /\ Len(t) = Len(s) + 2 /\ \A i \in 1..Len(s) : t[i] = s[i]
        /\ t[Len(s) + 1] = b /\ t[Len(s) + 2] = r
    BY <2>1, <2>2
  <2>4. toA' = [toA EXCEPT ![c] = IF cut[c] \/ agt[c].pc = "closed" THEN toA[c] ELSE t]
    BY DEF Reply, Put
  <2> HIDE DEF t
  <2>5. toA' \in [Conns -> Seq(Message)] /\ \A d \in Conns \ {c} : toA'[d] = toA[d]
    BY <2>2, <2>3, <2>4
  <2>6. /\ cut[c] \/ agt[c].pc = "closed" => toA'[c] = toA[c]
        /\ ~cut[c] /\ agt[c].pc # "closed" => toA'[c] = t
    BY <2>2, <2>4
  <2> QED
    BY <1>4, <2>3, <2>5, <2>6 DEF r, b
<1> QED
  BY <1>3, <1>4, Here, Configured

LEMMA GreetInv ==
  ASSUME SessionInv, NEW c \in Conns, Greet(c)
  PROVE  SessionInv'
<1> DEFINE k == IF srv[c].key = NoSecret THEN PreShared(scfg) ELSE srv[c].key
           ms == (IF scfg.secure THEN <<BuildSecureSessionMessage(k)>> ELSE <<>>)
                 \o <<Plain("READY")>>
<1>1. /\ srv[c].pc = "greet" \/ (srv[c].pc = "start" /\ scfg.mode = "none")
      /\ Reply(c, ms)
      /\ srv' = [srv EXCEPT ![c].pc = "loop",
                            ![c].key = IF scfg.secure THEN k ELSE @,
                            ![c].session = IF scfg.secure THEN c ELSE 0]
      /\ UNCHANGED <<conf, agt, toS, cut, work, rejected, budget>>
  BY DEF Greet
<1>2. k = ServerSecret(c)
  <2>1. KeysInv(c) /\ ControlInv(c) /\ ServerSecret(c) # NoSecret
    BY Here, SecretsTyped DEF ConnInv
  <2>2. CASE srv[c].pc = "greet"
    BY <2>1, <2>2 DEF KeysInv
  <2>3. CASE srv[c].pc = "start" /\ scfg.mode = "none"
    BY <2>1, <2>3 DEF KeysInv, ServerSecret
  <2> QED
    BY <1>1, <2>2, <2>3
<1>3. k \in Secrets
  BY <1>2, Here, SecretsTyped
<1> HIDE DEF k
<1>4. /\ toA' \in [Conns -> Seq(Message)] /\ \A d \in Conns \ {c} : toA'[d] = toA[d]
      /\ cut[c] \/ agt[c].pc = "closed" => toA'[c] = toA[c]
      /\ ~cut[c] /\ agt[c].pc # "closed" =>
           LET n == Len(toA[c]) IN
           /\ \A i \in 1..n : toA'[c][i] = toA[c][i]
           /\ ~scfg.secure => /\ Len(toA'[c]) = n + 1
                              /\ toA'[c][n + 1] = Plain("READY")
           /\ scfg.secure => /\ Len(toA'[c]) = n + 2
                             /\ toA'[c][n + 1] = BuildSecureSessionMessage(k)
                             /\ toA'[c][n + 2] = Plain("READY")
  BY <1>1, <1>3, GreetMessages
<1> HIDE DEF ms
<1>5. /\ srv' \in [Conns -> HandlerEnd] /\ \A d \in Conns \ {c} : srv'[d] = srv[d]
      /\ srv'[c].pc = "loop" /\ srv'[c].next = srv[c].next
      /\ srv'[c].expected = srv[c].expected /\ srv'[c].failures = srv[c].failures
      /\ scfg.secure => srv'[c].key = k /\ srv'[c].session = c
  <2>1. srv \in [Conns -> HandlerEnd] /\ srv[c] \in HandlerEnd
    BY Here DEF EndTypes
  <2> QED
    BY <1>1, <1>3, <2>1 DEF HandlerEnd, Ids, Serving
<1>6. /\ acfg' = acfg /\ scfg' = scfg /\ agt'[c] = agt[c] /\ cut'[c] = cut[c]
      /\ ServerSecret(c)' = ServerSecret(c)
  BY <1>1, SecretKept
<1>7. agt[c].pc # "closed" => GreetingInv(c)'
  <2> SUFFICES ASSUME agt[c].pc # "closed" PROVE GreetingInv(c)'
    OBVIOUS
  <2>1. agt[c].pc \in Greeting /\ GreetingInv(c) /\ agt[c].session = 0 /\ ControlInv(c)
    BY <1>1, Here DEF ConnInv, ControlInv, KeysInv, AgentEnd, AgentWaits, Greeting, InUse,
                      Serving
  <2>2. CASE cut[c]
    <3>1. toA'[c] = <<>> /\ Len(toA'[c]) = 0
      BY <2>1, <2>2, <1>4, Here DEF ControlInv
    <3> QED
      BY <2>2, <3>1, <1>6 DEF GreetingInv
  <2>3. CASE ~cut[c]
    <3> DEFINE n == Len(toA[c])
    <3>1. /\ n \in Nat /\ \A i \in 1..n : toA'[c][i] = toA[c][i]
          /\ ~scfg.secure => /\ Len(toA'[c]) = n + 1
                             /\ toA'[c][n + 1] = Plain("READY")
          /\ scfg.secure => /\ Len(toA'[c]) = n + 2
                            /\ toA'[c][n + 1] = BuildSecureSessionMessage(k)
                            /\ toA'[c][n + 2] = Plain("READY")
      BY <1>4, <2>3, Here
    <3>2. \A i \in 1..n : /\ toA[c][i].type \notin {"READY", "session"}
                          /\ ~IsSealed(toA[c][i])
                          /\ toA[c][i].type \in Challenges => toA[c][i].type = scfg.mode
      BY <1>1, <2>1 DEF GreetingInv
    <3>3. /\ Plain("READY").type = "READY" /\ ~IsSealed(Plain("READY"))
          /\ BuildSecureSessionMessage(k).type = "session"
          /\ BuildSecureSessionMessage(k).key = k
          /\ ~IsSealed(BuildSecureSessionMessage(k))
      BY DEF Plain, BuildSecureSessionMessage, IsSealed
    <3>4. acfg.mode = "none" /\ scfg.mode # "none" =>
            toA'[c] # <<>> /\ toA'[c][1].type = scfg.mode
      <4> SUFFICES ASSUME acfg.mode = "none", scfg.mode # "none"
                   PROVE  toA'[c] # <<>> /\ toA'[c][1].type = scfg.mode
        OBVIOUS
      <4>1. toA[c] # <<>> /\ toA[c][1].type = scfg.mode
        BY <1>1, <2>1, <2>3 DEF GreetingInv
      <4>2. 1 \in 1..n
        BY <4>1, Here
      <4>3. Len(toA'[c]) # 0
        BY <3>1, Here, Configured
      <4> QED
        BY <4>1, <4>2, <4>3, <3>1
    <3>5. CASE ~scfg.secure
      <4>1. \A i \in 1..Len(toA'[c]) : i \in 1..n \/ (i = n + 1 /\ i = Len(toA'[c]))
        BY <3>1, <3>5
      <4>2. \A i \in 1..Len(toA'[c]) :
              /\ ~IsSealed(toA'[c][i]) /\ toA'[c][i].type # "session"
              /\ toA'[c][i].type \in Challenges => toA'[c][i].type = scfg.mode
              /\ toA'[c][i].type = "READY" => i = Len(toA'[c])
        BY <3>1, <3>2, <3>3, <3>5, <4>1 DEF Challenges
      <4> QED
        BY <1>5, <1>6, <3>4, <3>5, <4>2 DEF GreetingInv, IsSealed
    <3>6. CASE scfg.secure
      <4>1. \A i \in 1..Len(toA'[c]) :
              \/ i \in 1..n
              \/ i = n + 1 /\ i = Len(toA'[c]) - 1
              \/ i = n + 2 /\ i = Len(toA'[c]) /\ i > 1 /\ i - 1 = n + 1
        BY <3>1, <3>6
      <4>2. \A i \in 1..Len(toA'[c]) :
              /\ ~IsSealed(toA'[c][i])
              /\ toA'[c][i].type \in Challenges => toA'[c][i].type = scfg.mode
        BY <3>1, <3>2, <3>3, <3>6, <4>1 DEF Challenges
      <4>3. \A i \in 1..Len(toA'[c]) :
              /\ toA'[c][i].type = "READY" =>
                   i = Len(toA'[c]) /\ i > 1 /\ toA'[c][i - 1].type = "session"
              /\ toA'[c][i].type = "session" =>
                   i = Len(toA'[c]) - 1 /\ toA'[c][i].key = k
        BY <3>1, <3>2, <3>3, <3>6, <4>1
      <4> QED
        BY <1>2, <1>5, <1>6, <2>1, <3>4, <3>6, <4>2, <4>3 DEF GreetingInv, IsSealed
    <3> QED
      BY <3>5, <3>6, Here, Configured
  <2> QED
    BY <2>2, <2>3, Here
<1>8. /\ toS'[c] = <<>> /\ toS' \in [Conns -> Seq(Message)]
      /\ \A d \in Conns \ {c} : toS'[d] = toS[d]
      /\ scfg.mode = "none" \/ agt[c].pc # "challenge"
  BY <1>1, Here DEF ConnInv, ControlInv
<1>9. UNCHANGED <<conf, agt, cut, work, rejected, budget>>
      /\ srv[c].pc \in {"start", "response", "greet"}
  BY <1>1
<1> QED
  BY <1>2, <1>4, <1>5, <1>7, <1>8, <1>9, ServerHandshakeStep

-----------------------------------------------------------------------------
(* Sending on a connection in use.                                         *)

\* An idle agent writes a chunk, and then waits, or a keep-alive.
LEMMA RequestedInv ==
  ASSUME SessionInv, NEW c \in Conns, agt[c].pc = "ready",
         NEW m \in Message, Request(c, <<m>>), m.type \in {"keepalive", "chunk"},
         IsSealed(m) <=> acfg.secure /\ m.type # "keepalive", m.seq < MaxSeq,
         agt' \in [Conns -> AgentEnd], \A d \in Conns \ {c} : agt'[d] = agt[d],
         agt'[c].pc = IF m.type = "chunk" THEN "answer" ELSE "ready",
         agt'[c].key = agt[c].key, agt'[c].session = agt[c].session,
         agt'[c].expected = agt[c].expected,
         agt'[c].next = IF acfg.secure /\ m.type = "chunk" THEN agt[c].next + 1
                                                           ELSE agt[c].next,
         m.type = "chunk" => m.arg = chunk /\ chunk \in Chunks,
         m.type = "chunk" /\ acfg.secure => m.seq = agt[c].next,
         UNCHANGED <<conf, srv, toA, cut, work, rejected>>,
         Disturbed \/ budget' = budget
  PROVE  SessionInv'
<1>1. UNCHANGED <<acfg, scfg, srv, toA, cut, chunk, stored, acked, rejected>>
  BY DEF conf, work
<1>2. /\ toS' \in [Conns -> Seq(Message)] /\ \A d \in Conns \ {c} : toS'[d] = toS[d]
      /\ cut[c] \/ srv[c].pc = "ended" => toS'[c] = toS[c]
      /\ ~cut[c] /\ srv[c].pc # "ended" => IsAppend(toS'[c], toS[c], m)
  BY Here, RequestStream
<1>3. EndTypes' /\ WireTypes' /\ WorkTypes' /\ Only(c)
  BY <1>1, <1>2, Here, BudgetKept DEF EndTypes, WireTypes, WorkTypes, Only, conf
<1>4. /\ ControlInv(c) /\ NumbersInv(c) /\ KeysInv(c) /\ RequestsInv(c)
      /\ AnswersInv(c) /\ StepInv(c) /\ agt[c].pc \in InUse /\ agt'[c].pc \in InUse
      /\ agt'[c].pc \notin Greeting \cup {"closed"}
      /\ srv[c].pc \in Serving \cup {"ended"}
      /\ ServerSecret(c)' = ServerSecret(c)
  <2>1. ServerSecret(c)' = ServerSecret(c)
    BY SecretKept
  <2> QED
    BY <2>1, Here DEF ConnInv, InUse, Greeting, ControlInv
<1>5. ControlInv(c)'
  BY <1>1, <1>2, <1>4 DEF ControlInv, Greeting, InUse, Serving
<1>6. NumbersInv(c)' /\ GreetingInv(c)'
  BY <1>1, <1>4 DEF NumbersInv, GreetingInv
<1>7. KeysInv(c)'
  BY <1>1, <1>4 DEF KeysInv, InUse
<1>8. CASE cut[c] \/ srv[c].pc = "ended"
  <2>1. toS'[c] = <<>> /\ Len(toS'[c]) = 0
    BY <1>2, <1>4, <1>8, Here DEF ControlInv
  <2>2. RequestsInv(c)'
    BY <2>1 DEF RequestsInv
  <2>3. AnswersInv(c)'
    BY <1>1, <1>4 DEF AnswersInv
  <2>4. StepInv(c)'
    BY <1>1, <1>8 DEF StepInv, Serving
  <2> QED
    BY <2>2, <2>3, <2>4, <1>1, <1>3, <1>4, <1>5, <1>6, <1>7, StepOn
       DEF ConnInv, SessionInv, WorkInv
<1>9. CASE ~cut[c] /\ srv[c].pc # "ended"
  <2> DEFINE n == Len(toS[c])
  <2>1. /\ n \in Nat /\ Len(toS'[c]) = n + 1 /\ toS'[c] # <<>>
        /\ \A i \in 1..n : toS'[c][i] = toS[c][i]
        /\ toS'[c][n + 1] = m /\ srv[c].pc \in Serving
    BY <1>2, <1>3, <1>4, <1>9, Here, HereAfter DEF IsAppend
  <2>2. \A i \in 1..Len(toS'[c]) : i \in 1..n \/ (i = n + 1 /\ i = Len(toS'[c]))
    BY <2>1
  <2>3. /\ \A i \in 1..n : toS[c][i].type \in {"keepalive", "CLOSE_NOW"}
        /\ ~ChunkUnderWay(c)
    BY <1>4, <2>1 DEF RequestsInv, ChunkUnderWay
  <2>4. srv[c].pc = "loop" /\ acfg.secure => agt[c].next = srv[c].expected
    BY <1>4, <1>9, <2>3 DEF StepInv
  <2>5. srv[c].pc = "closing" => n > 0 /\ toS'[c][1].type = "CLOSE_NOW"
    <3>1. srv[c].pc = "closing" => toS[c] # <<>> /\ toS[c][1].type = "CLOSE_NOW"
      BY <1>4, <1>9 DEF StepInv, RequestsInv, Serving
    <3>2. toS[c] # <<>> => n > 0 /\ 1 \in 1..n
      BY <2>1, Here
    <3> QED
      BY <2>1, <3>1, <3>2
  <2>6. RequestsInv(c)'
    <3>1. ASSUME NEW i \in 1..n
          PROVE  /\ toS'[c][i].type \in {"keepalive", "CLOSE_NOW"}
                 /\ IsSealed(toS'[c][i]) <=> acfg.secure /\ toS'[c][i].type # "keepalive"
                 /\ toS'[c][i].seq < MaxSeq
                 /\ toS'[c][i].type = "CLOSE_NOW" =>
                      /\ i = 1 /\ srv[c].pc = "closing"
                      /\ acfg.secure => toS'[c][i].seq = srv[c].expected
      BY <1>4, <2>1, <2>3 DEF RequestsInv, IsSealed
    <3>2. \A i \in 1..Len(toS'[c]) :
            /\ toS'[c][i].type \in {"keepalive", "chunk", "CLOSE_NOW"}
            /\ IsSealed(toS'[c][i]) <=> acfg.secure /\ toS'[c][i].type # "keepalive"
            /\ toS'[c][i].seq < MaxSeq
            /\ toS'[c][i].type = "CLOSE_NOW" =>
                 /\ i = 1 /\ srv[c].pc = "closing"
                 /\ acfg.secure => toS'[c][i].seq = srv[c].expected
      BY <2>1, <2>2, <3>1
    <3>3. \A i \in 1..Len(toS'[c]) : toS'[c][i].type = "chunk" =>
            /\ i = Len(toS'[c]) /\ toS'[c][i] = m
      BY <2>1, <2>2, <3>1
    <3> QED
      BY <1>1, <2>4, <2>5, <3>2, <3>3 DEF RequestsInv, IsSealed
  <2>7. AnswersInv(c)'
    BY <1>1, <1>4 DEF AnswersInv
  <2>8. StepInv(c)'
    <3>1. ChunkUnderWay(c)' <=> m.type = "chunk"
      <4>1. n + 1 \in 1..Len(toS'[c])
        BY <2>1
      <4>2. m.type = "chunk" => ChunkUnderWay(c)'
        BY <2>1, <4>1 DEF ChunkUnderWay
      <4>3. ChunkUnderWay(c)' => m.type = "chunk"
        BY <2>1, <2>2, <2>3 DEF ChunkUnderWay
      <4> QED
        BY <4>2, <4>3
    <3>2. acfg.secure /\ srv[c].pc = "loop" =>
            agt'[c].next = IF ChunkUnderWay(c)' THEN srv[c].expected + 1
                                                ELSE srv[c].expected
      BY <2>4, <3>1
    <3>3. acfg.secure /\ srv[c].pc \in Serving =>
            srv[c].next = agt'[c].expected + Len(toA[c])
      BY <1>4, <1>9 DEF StepInv
    <3> QED
      BY <1>1, <2>1, <3>2, <3>3 DEF StepInv
  <2> QED
    BY <2>6, <2>7, <2>8, <1>1, <1>3, <1>4, <1>5, <1>6, <1>7, StepOn
       DEF ConnInv, SessionInv, WorkInv
<1> QED
  BY <1>8, <1>9, Here

LEMMA KeepAliveInv ==
  ASSUME SessionInv, NEW c \in Conns, KeepAlive(c)
  PROVE  SessionInv'
<1> DEFINE m == Plain("keepalive")
<1>1. /\ agt[c].pc = "ready" /\ Disturbed /\ Request(c, <<m>>)
      /\ UNCHANGED <<conf, agt, srv, toA, cut, work, rejected>>
  BY DEF KeepAlive
<1>2. m \in Message /\ m.type = "keepalive" /\ ~IsSealed(m) /\ m.seq = 0 /\ 0 < MaxSeq
  <2>1. 0 < MaxSeq
    BY SessionAssumption
  <2> QED
    BY <2>1, Here, PlainMessage DEF MessageTypes
<1> HIDE DEF m
<1>3. agt' \in [Conns -> AgentEnd]
  BY <1>1, Here DEF EndTypes
<1> QED
  BY <1>1, <1>2, <1>3, RequestedInv

LEMMA SendChunkInv ==
  ASSUME SessionInv, NEW c \in Conns, SendChunk(c)
  PROVE  SessionInv'
<1>1. /\ agt[c].pc = "ready" /\ chunk \in Chunks
      /\ UNCHANGED <<conf, srv, cut, work, rejected, budget>>
  BY DEF SendChunk
<1>2. /\ agt[c] \in AgentEnd /\ agt \in [Conns -> AgentEnd] /\ chunk \in 0..NChunks
      /\ agt[c].next \in 1..MaxSeq /\ MaxSeq \in Nat \ {0, 1}
  BY <1>1, Here, SessionAssumption DEF EndTypes, AgentEnd, Chunks
<1>3. CASE acfg.secure /\ Exhausted(agt[c]) /\ AgentCloses(c) /\ toS' = toS
  <2>1. rejected' = FALSE
    BY <1>1 DEF SessionInv, WorkInv
  <2> QED
    BY <1>1, <1>3, <2>1, AgentDropsInv
<1>4. CASE /\ acfg.secure /\ ~Exhausted(agt[c])
           /\ Request(c, <<Sealed("chunk", agt[c], chunk)>>)
           /\ agt' = [agt EXCEPT ![c].pc = "answer", ![c].next = @ + 1]
           /\ UNCHANGED toA
  <2> DEFINE m == Sealed("chunk", agt[c], chunk)
  <2>1. /\ m \in Message /\ m.type = "chunk" /\ m.seq = agt[c].next /\ m.arg = chunk
        /\ m.session = agt[c].session
    <3>1. agt[c] \in AgentEnd \cup HandlerEnd /\ "chunk" \in MessageTypes
      BY <1>2 DEF MessageTypes
    <3> QED
      BY <1>2, <3>1, SealedTyped
  <2>2. agt[c].session # 0
    BY <1>1, <1>4, Here DEF ConnInv, KeysInv
  <2>3. agt[c].next < MaxSeq /\ agt[c].next + 1 \in 1..MaxSeq
    BY <1>2, <1>4 DEF Exhausted
  <2>4. /\ agt' \in [Conns -> AgentEnd] /\ \A d \in Conns \ {c} : agt'[d] = agt[d]
        /\ agt'[c].pc = "answer" /\ agt'[c].key = agt[c].key
        /\ agt'[c].session = agt[c].session /\ agt'[c].expected = agt[c].expected
        /\ agt'[c].next = agt[c].next + 1
    BY <1>2, <1>4, <2>3 DEF AgentEnd, AgentWaits
  <2>5. IsSealed(m) /\ Request(c, <<m>>)
    BY <1>4, <2>1, <2>2 DEF IsSealed
  <2> HIDE DEF m
  <2> QED
    BY <1>1, <1>4, <2>1, <2>3, <2>4, <2>5, RequestedInv
<1>5. CASE /\ ~acfg.secure
           /\ Request(c, <<[Plain("chunk") EXCEPT !.arg = chunk]>>)
           /\ agt' = [agt EXCEPT ![c].pc = "answer"]
           /\ UNCHANGED toA
  <2> DEFINE m == [Plain("chunk") EXCEPT !.arg = chunk]
  <2>1. m \in Message /\ m.type = "chunk" /\ m.seq = 0 /\ m.arg = chunk /\ ~IsSealed(m)
    <3>1. "chunk" \in MessageTypes
      BY DEF MessageTypes
    <3> QED
      BY <1>2, <3>1, Here, ArgMessage
  <2>2. 0 < MaxSeq
    BY <1>2
  <2>3. /\ agt' \in [Conns -> AgentEnd] /\ \A d \in Conns \ {c} : agt'[d] = agt[d]
        /\ agt'[c].pc = "answer" /\ agt'[c].key = agt[c].key
        /\ agt'[c].session = agt[c].session /\ agt'[c].expected = agt[c].expected
        /\ agt'[c].next = agt[c].next
    BY <1>2, <1>5 DEF AgentEnd, AgentWaits
  <2>4. Request(c, <<m>>)
    BY <1>5
  <2> HIDE DEF m
  <2> QED
    BY <1>1, <1>5, <2>1, <2>2, <2>3, <2>4, RequestedInv
<1> QED
  BY <1>3, <1>4, <1>5 DEF SendChunk

-----------------------------------------------------------------------------
(* Reading an answer.                                                      *)

\* An answer that delivers is the only one under way, and to the chunk waited for.
LEMMA Delivering ==
  ASSUME SessionInv, NEW c \in Conns, agt[c].pc = "answer", toA[c] # <<>>,
         Accepts(Head(toA[c]), agt[c], acfg.secure), Head(toA[c]).type \in Successes
  PROVE  /\ Len(toA[c]) = 1 /\ toS[c] = <<>> /\ Len(toS[c]) = 0 /\ ~cut[c]
         /\ chunk \in stored /\ chunk \in Chunks
         /\ chunk' = chunk + 1 => chunk' \in 1..(NChunks + 1)
         /\ Head(toA[c]).type = "SUCCESS" => srv[c].pc \in {"loop", "ended"}
         /\ Head(toA[c]).type \in Lasts => srv[c].pc \in {"closing", "ended"}
         /\ acfg.secure => agt[c].expected + 1 \in 1..MaxSeq
         /\ acfg.secure /\ srv[c].pc \in Serving => srv[c].next = agt[c].expected + 1
<1>1. /\ Head(toA[c]) = toA[c][1] /\ 1 \in 1..Len(toA[c]) /\ Len(toA[c]) \in Nat
      /\ AnswersInv(c) /\ ControlInv(c) /\ StepInv(c) /\ agt[c].pc \in InUse
  BY Here, Streams DEF ConnInv, InUse
<1>2. ~cut[c]
  BY <1>1, Here DEF ControlInv
<1>3. /\ 1 = Len(toA[c]) /\ toS[c] = <<>> /\ chunk \in stored
      /\ toA[c][1].type = "SUCCESS" => srv[c].pc \in {"loop", "ended"}
      /\ toA[c][1].type \in Lasts => srv[c].pc \in {"closing", "ended"}
  BY <1>1 DEF AnswersInv
<1>4. chunk \in Chunks
  BY <1>3, Here DEF WorkTypes
<1>5. chunk' = chunk + 1 => chunk' \in 1..(NChunks + 1)
  BY <1>4, SessionAssumption DEF Chunks
<1>6. acfg.secure => agt[c].expected + 1 \in 1..MaxSeq
  <2>1. agt[c].expected \in 1..MaxSeq
    BY Here DEF AgentEnd
  <2>2. acfg.secure => agt[c].expected # MaxSeq
    BY DEF Accepts, InStep
  <2> QED
    BY <2>1, <2>2, SessionAssumption
<1>7. acfg.secure /\ srv[c].pc \in Serving => srv[c].next = agt[c].expected + 1
  BY <1>1, <1>2, <1>3 DEF StepInv
<1> QED
  BY <1>1, <1>2, <1>3, <1>4, <1>5, <1>6, <1>7, Here

\* The chunk is delivered and the connection stays in use, with nothing left to read.
LEMMA DeliveredInv ==
  ASSUME SessionInv, NEW c \in Conns, agt[c].pc = "answer", AgentReads(c),
         Accepts(Head(toA[c]), agt[c], acfg.secure), Head(toA[c]).type \in Successes,
         acked' = acked \cup {chunk}, chunk' = chunk + 1,
         agt' \in [Conns -> AgentEnd], \A d \in Conns \ {c} : agt'[d] = agt[d],
         agt'[c].pc = "ready", agt'[c].key = agt[c].key,
         agt'[c].session = agt[c].session,
         agt'[c].expected = IF acfg.secure THEN agt[c].expected + 1 ELSE agt[c].expected,
         UNCHANGED <<conf, srv, cut, stored, rejected, budget>>,
         toS' \in [Conns -> Seq(Message)], \A d \in Conns \ {c} : toS'[d] = toS[d],
         srv[c].pc \notin Serving => toS'[c] = <<>>,
         RequestsInv(c)', srv[c].pc = "closing" => toS'[c] # <<>>,
         srv[c].pc = "loop" => toS'[c] = <<>> /\ agt'[c].next = agt[c].next
  PROVE  SessionInv'
<1>1. UNCHANGED <<acfg, scfg, srv, cut, stored, rejected, budget>>
  BY DEF conf
<1>2. /\ Len(toA[c]) = 1 /\ toS[c] = <<>> /\ Len(toS[c]) = 0 /\ ~cut[c]
      /\ chunk \in stored /\ chunk \in Chunks /\ chunk' \in 1..(NChunks + 1)
      /\ srv[c].pc \in {"loop", "closing", "ended"}
      /\ acfg.secure /\ srv[c].pc \in Serving => srv[c].next = agt[c].expected + 1
  BY Delivering DEF AgentReads, Successes
<1>3. /\ toA' \in [Conns -> Seq(Message)] /\ toA'[c] = <<>>
      /\ \A d \in Conns \ {c} : toA'[d] = toA[d]
  BY <1>2, AgentReading
<1>4. EndTypes' /\ WireTypes' /\ WorkTypes' /\ Only(c)
  BY <1>1, <1>2, <1>3, Here DEF EndTypes, WireTypes, WorkTypes, Only, conf
<1>5. /\ ControlInv(c) /\ NumbersInv(c) /\ KeysInv(c) /\ StepInv(c)
      /\ ServerSecret(c)' = ServerSecret(c) /\ Len(toA'[c]) = 0
      /\ Len(toS'[c]) \in Nat /\ ((toS'[c] = <<>>) <=> (Len(toS'[c]) = 0))
  <2>1. ServerSecret(c)' = ServerSecret(c)
    BY SecretKept
  <2> QED
    BY <1>3, <1>4, <2>1, Here, HereAfter DEF ConnInv
<1>6. ControlInv(c)' /\ NumbersInv(c)'
  BY <1>1, <1>2, <1>3, <1>5 DEF ControlInv, NumbersInv, Greeting, InUse, Serving
<1>7. KeysInv(c)'
  BY <1>1, <1>5 DEF KeysInv, InUse
<1>8. GreetingInv(c)' /\ AnswersInv(c)'
  BY <1>5 DEF GreetingInv, AnswersInv, Greeting
<1>9. StepInv(c)'
  <2>1. ASSUME srv[c].pc = "loop", acfg.secure
        PROVE  agt'[c].next = srv[c].expected /\ ~ChunkUnderWay(c)'
    <3>1. ~ChunkUnderWay(c) /\ ~ChunkUnderWay(c)'
      BY <1>2, <1>5, <2>1 DEF ChunkUnderWay
    <3> QED
      BY <1>2, <1>5, <2>1, <3>1 DEF StepInv, InUse
  <2>2. acfg.secure /\ srv[c].pc \in Serving => srv[c].next = agt'[c].expected + 0
    <3>1. agt'[c].expected \in Nat
      BY SessionAssumption DEF AgentEnd
    <3> QED
      BY <1>2, <3>1
  <2> QED
    BY <1>1, <1>5, <2>1, <2>2 DEF StepInv
<1>10. /\ ConnInv(c)' /\ acked' \subseteq stored' /\ rejected' = FALSE
       /\ agt'[c].pc # "answer" /\ agt[c].pc # "closed"
  BY <1>1, <1>2, <1>6, <1>7, <1>8, <1>9 DEF ConnInv, SessionInv, WorkInv
<1> QED
  BY <1>4, <1>10, StepOn

LEMMA AnswerSuccessInv ==
  ASSUME SessionInv, NEW c \in Conns, AnswerSuccess(c)
  PROVE  SessionInv'
<1>1. /\ agt[c].pc = "answer" /\ AgentReads(c) /\ toA[c] # <<>>
      /\ Accepts(Head(toA[c]), agt[c], acfg.secure) /\ Head(toA[c]).type = "SUCCESS"
      /\ acked' = acked \cup {chunk} /\ chunk' = chunk + 1
      /\ agt' = [agt EXCEPT ![c].pc = "ready",
                            ![c].expected = IF acfg.secure THEN @ + 1 ELSE @]
      /\ UNCHANGED <<conf, srv, toS, cut, stored, rejected, budget>>
  BY DEF AnswerSuccess, AgentReads
<1>2. Head(toA[c]).type \in Successes
  BY <1>1 DEF Successes
<1>3. /\ toS[c] = <<>> /\ Len(toS[c]) = 0 /\ srv[c].pc \in {"loop", "ended"}
      /\ acfg.secure => agt[c].expected + 1 \in 1..MaxSeq
  BY <1>1, <1>2, Delivering
<1>4. /\ agt' \in [Conns -> AgentEnd] /\ \A d \in Conns \ {c} : agt'[d] = agt[d]
      /\ agt'[c].pc = "ready" /\ agt'[c].key = agt[c].key
      /\ agt'[c].session = agt[c].session /\ agt'[c].next = agt[c].next
      /\ agt'[c].expected = IF acfg.secure THEN agt[c].expected + 1 ELSE agt[c].expected
  <2>1. agt \in [Conns -> AgentEnd] /\ agt[c] \in AgentEnd
    BY Here DEF EndTypes
  <2> DEFINE e == IF acfg.secure THEN agt[c].expected + 1 ELSE agt[c].expected
  <2>2. e \in 1..MaxSeq
    BY <1>3, <2>1 DEF AgentEnd
  <2>3. agt' = [agt EXCEPT ![c] = [agt[c] EXCEPT !.pc = "ready", !.expected = e]]
    BY <1>1, <2>1
  <2> HIDE DEF e
  <2>4. /\ agt' \in [Conns -> AgentEnd] /\ \A d \in Conns \ {c} : agt'[d] = agt[d]
        /\ agt'[c].pc = "ready" /\ agt'[c].key = agt[c].key
        /\ agt'[c].session = agt[c].session /\ agt'[c].next = agt[c].next
        /\ agt'[c].expected = e
    BY <2>1, <2>2, <2>3 DEF AgentEnd
  <2> QED
    BY <2>4 DEF e
<1>5. /\ toS' \in [Conns -> Seq(Message)] /\ toS'[c] = <<>> /\ Len(toS'[c]) = 0
      /\ \A d \in Conns \ {c} : toS'[d] = toS[d]
  BY <1>1, <1>3, Here
<1>6. RequestsInv(c)'
  BY <1>5 DEF RequestsInv
<1> QED
  BY <1>1, <1>2, <1>3, <1>4, <1>5, <1>6, DeliveredInv

\* CLOSE_NOW reaches the handler that waits for it, and carries the number it expects.
LEMMA LastWord ==
  ASSUME SessionInv, NEW c \in Conns, agt[c].pc = "answer", toA[c] # <<>>,
         Accepts(Head(toA[c]), agt[c], acfg.secure), Head(toA[c]).type \in Lasts,
         ~(acfg.secure /\ Exhausted(agt[c])),
         Request(c, <<IF acfg.secure THEN Sealed("CLOSE_NOW", agt[c], 0)
                                     ELSE Plain("CLOSE_NOW")>>),
         UNCHANGED <<acfg, srv>>
  PROVE  /\ toS' \in [Conns -> Seq(Message)] /\ \A d \in Conns \ {c} : toS'[d] = toS[d]
         /\ srv[c].pc \in {"closing", "ended"} /\ RequestsInv(c)'
         /\ srv[c].pc = "ended" => toS'[c] = <<>>
         /\ srv[c].pc = "closing" => toS'[c] # <<>>
<1> DEFINE bye == IF acfg.secure THEN Sealed("CLOSE_NOW", agt[c], 0)
                                 ELSE Plain("CLOSE_NOW")
<1>1. /\ toS[c] = <<>> /\ Len(toS[c]) = 0 /\ ~cut[c] /\ srv[c].pc \in {"closing", "ended"}
  <2>1. Head(toA[c]).type \in Successes
    BY DEF Successes
  <2> QED
    BY <2>1, Delivering
<1>2. /\ agt[c].next \in 1..MaxSeq /\ MaxSeq \in Nat \ {0, 1} /\ c # 0
      /\ acfg.secure => agt[c].session = c
      /\ srv[c].pc = "closing" /\ acfg.secure => agt[c].next = srv[c].expected
  BY <1>1, Here, SessionAssumption DEF AgentEnd, ConnInv, KeysInv, StepInv, InUse
<1>3. /\ bye \in Message /\ bye.type = "CLOSE_NOW" /\ (IsSealed(bye) <=> acfg.secure)
      /\ bye.seq < MaxSeq /\ (acfg.secure => bye.seq = agt[c].next)
  <2>1. "CLOSE_NOW" \in MessageTypes /\ 0 \in 0..NChunks /\ EndTypes
        /\ agt[c] \in AgentEnd \cup HandlerEnd
    BY SessionAssumption, Here DEF MessageTypes
  <2>2. CASE acfg.secure
    <3>1. bye = Sealed("CLOSE_NOW", agt[c], 0)
      BY <2>2
    <3> HIDE DEF bye
    <3>2. /\ bye \in Message /\ bye.type = "CLOSE_NOW" /\ bye.seq = agt[c].next
          /\ bye.session = agt[c].session
      BY <2>1, <3>1, SealedTyped
    <3>3. agt[c].next < MaxSeq
      BY <1>2, <2>2 DEF Exhausted
    <3> QED
      BY <1>2, <2>2, <3>2, <3>3 DEF IsSealed
  <2>3. CASE ~acfg.secure
    <3>1. bye = Plain("CLOSE_NOW")
      BY <2>3
    <3> HIDE DEF bye
    <3>2. bye \in Message /\ bye.type = "CLOSE_NOW" /\ ~IsSealed(bye) /\ bye.seq = 0
      BY <2>1, <3>1, PlainMessage
    <3> QED
      BY <1>2, <2>3, <3>2
  <2> QED
    BY <2>2, <2>3
<1> HIDE DEF bye
<1>4. /\ toS' \in [Conns -> Seq(Message)] /\ \A d \in Conns \ {c} : toS'[d] = toS[d]
      /\ srv[c].pc = "ended" => toS'[c] = toS[c]
      /\ srv[c].pc # "ended" => IsAppend(toS'[c], toS[c], bye)
  <2>1. Request(c, <<bye>>)
    BY DEF bye
  <2> QED
    BY <1>1, <1>3, <2>1, Here, RequestStream
<1>5. srv[c].pc # "ended" => /\ Len(toS'[c]) = 1 /\ toS'[c][1] = bye /\ toS'[c] # <<>>
                             /\ \A i \in 1..Len(toS'[c]) : i = 1
  <2>1. srv[c].pc # "ended" => Len(toS'[c]) = 1 /\ toS'[c][1] = bye
    BY <1>1, <1>4 DEF IsAppend
  <2>2. (toS'[c] = <<>>) <=> (Len(toS'[c]) = 0)
    <3>1. toS'[c] \in Seq(Message)
      BY <1>4
    <3> QED
      BY <3>1, Streams
  <2>3. Len(toS'[c]) = 1 => toS'[c] # <<>>
    BY <2>2
  <2>4. Len(toS'[c]) = 1 => \A i \in 1..Len(toS'[c]) : i = 1
    OBVIOUS
  <2> QED
    BY <2>1, <2>3, <2>4
<1>6. RequestsInv(c)'
  <2>1. CASE srv[c].pc = "ended"
    BY <2>1 DEF RequestsInv, Serving
  <2>2. CASE srv[c].pc = "closing"
    <3>1. \A i \in 1..Len(toS'[c]) : i = 1 /\ toS'[c][i] = bye
      BY <1>5, <2>2
    <3>2. toS'[c][1] = bye /\ srv'[c] = srv[c] /\ acfg' = acfg
      BY <1>5, <2>2
    <3> QED
      BY <1>2, <1>3, <2>2, <3>1, <3>2 DEF RequestsInv, IsSealed
  <2> QED
    BY <1>1, <2>1, <2>2
<1> QED
  BY <1>1, <1>4, <1>5, <1>6

\* The chunk is delivered and the agent closes the connection.
LEMMA DeliveredClosesInv ==
  ASSUME SessionInv, NEW c \in Conns, agt[c].pc = "answer", toA[c] # <<>>,
         Accepts(Head(toA[c]), agt[c], acfg.secure), Head(toA[c]).type \in Lasts,
         acked' = acked \cup {chunk}, chunk' = chunk + 1, AgentCloses(c),
         UNCHANGED <<conf, srv, cut, stored, rejected, budget>>,
         toS' \in [Conns -> Seq(Message)], \A d \in Conns \ {c} : toS'[d] = toS[d],
         srv[c].pc = "ended" => toS'[c] = <<>>, RequestsInv(c)'
  PROVE  SessionInv'
<1>1. UNCHANGED <<acfg, scfg, srv, cut, stored, rejected, budget>>
  BY DEF conf
<1>2. /\ ~cut[c] /\ chunk \in stored /\ chunk \in Chunks /\ chunk' \in 1..(NChunks + 1)
      /\ srv[c].pc \in {"closing", "ended"}
  <2>1. Head(toA[c]).type \in Successes
    BY DEF Successes
  <2> QED
    BY <2>1, Delivering
<1>3. ClosedAgent \in AgentEnd
  BY SessionAssumption DEF ClosedAgent, AgentEnd, NoSecret, Secrets, Modes, Ids
<1>4. /\ agt'[c] = ClosedAgent /\ agt' \in [Conns -> AgentEnd]
      /\ \A d \in Conns \ {c} : agt'[d] = agt[d]
  BY <1>3, Here DEF AgentCloses, EndTypes
<1>5. /\ toA' \in [Conns -> Seq(Message)] /\ toA'[c] = <<>>
      /\ \A d \in Conns \ {c} : toA'[d] = toA[d]
  BY Here, EmptyStream DEF AgentCloses
<1>6. EndTypes' /\ WireTypes' /\ WorkTypes' /\ Only(c)
  BY <1>1, <1>2, <1>4, <1>5, Here DEF EndTypes, WireTypes, WorkTypes, Only, conf
<1>7. /\ agt'[c].pc = "closed" /\ agt'[c].session = 0 /\ agt'[c].next = 1
      /\ agt'[c].expected = 1 /\ agt'[c].key = NoSecret
      /\ ServerSecret(c)' = ServerSecret(c)
  <2>1. ServerSecret(c)' = ServerSecret(c)
    BY SecretKept
  <2> QED
    BY <1>4, <2>1 DEF ClosedAgent
<1>8. ControlInv(c)' /\ NumbersInv(c)'
  BY <1>1, <1>2, <1>5, <1>7, Here DEF ConnInv, ControlInv, NumbersInv, Greeting, InUse
<1>9. KeysInv(c)'
  BY <1>1, <1>7, Here DEF ConnInv, KeysInv, InUse
<1>10. GreetingInv(c)' /\ AnswersInv(c)' /\ StepInv(c)'
  BY <1>7 DEF GreetingInv, AnswersInv, StepInv, Greeting, InUse
<1>11. /\ ConnInv(c)' /\ acked' \subseteq stored' /\ rejected' = FALSE
       /\ agt'[c].pc = "closed" /\ agt[c].pc # "closed"
  BY <1>1, <1>2, <1>7, <1>8, <1>9, <1>10 DEF ConnInv, SessionInv, WorkInv
<1> QED
  BY <1>6, <1>11, StepOn

LEMMA AnswerLastInv ==
  ASSUME SessionInv, NEW c \in Conns, AnswerLast(c)
  PROVE  SessionInv'
<1> DEFINE bye == IF acfg.secure THEN Sealed("CLOSE_NOW", agt[c], 0)
                                 ELSE Plain("CLOSE_NOW")
           fails == acfg.secure /\ Exhausted(agt[c])
<1>1. /\ agt[c].pc = "answer" /\ toA[c] # <<>>
      /\ Accepts(Head(toA[c]), agt[c], acfg.secure) /\ Head(toA[c]).type \in Lasts
      /\ acked' = acked \cup {chunk} /\ chunk' = chunk + 1
      /\ UNCHANGED <<conf, srv, cut, stored, rejected, budget>>
  BY DEF AnswerLast, Lasts
<1>2. /\ IF fails THEN UNCHANGED toS ELSE Request(c, <<bye>>)
      /\ IF fails \/ Head(toA[c]).type = "FILE_ALREADY_EXISTS"
         THEN AgentCloses(c)
         ELSE /\ AgentReads(c)
              /\ agt' = [agt EXCEPT ![c].pc = "ready",
                                    ![c].expected = IF acfg.secure THEN @ + 1 ELSE @,
                                    ![c].next = IF acfg.secure THEN @ + 1 ELSE @]
  BY DEF AnswerLast
<1>3. acfg' = acfg /\ srv' = srv
  BY <1>1 DEF conf
<1>4. CASE fails
  <2>1. toS' = toS /\ AgentCloses(c) /\ UNCHANGED <<conf, srv, toS, cut>>
    BY <1>1, <1>2, <1>4
  <2>2. ConnInv(c)'
    BY <2>1, AgentClosesInv
  <2>3. RequestsInv(c)' /\ ControlInv(c) /\ toS \in [Conns -> Seq(Message)]
    BY <2>2, Here DEF ConnInv
  <2>4. srv[c].pc = "ended" => toS'[c] = <<>>
    BY <2>1, <2>3 DEF ControlInv
  <2> QED
    BY <1>1, <2>1, <2>3, <2>4, DeliveredClosesInv
<1>5. CASE ~fails
  <2>1. /\ toS' \in [Conns -> Seq(Message)] /\ \A d \in Conns \ {c} : toS'[d] = toS[d]
        /\ srv[c].pc \in {"closing", "ended"} /\ RequestsInv(c)'
        /\ srv[c].pc = "ended" => toS'[c] = <<>>
        /\ srv[c].pc = "closing" => toS'[c] # <<>>
    BY <1>1, <1>2, <1>3, <1>5, LastWord
  <2>2. CASE Head(toA[c]).type = "FILE_ALREADY_EXISTS"
    BY <1>1, <1>2, <2>1, <2>2, DeliveredClosesInv
  <2>3. CASE Head(toA[c]).type # "FILE_ALREADY_EXISTS"
    <3>1. AgentReads(c) /\ Head(toA[c]).type \in Successes
      BY <1>1, <1>2, <1>5, <2>3 DEF Successes
    <3> DEFINE e == IF acfg.secure THEN agt[c].expected + 1 ELSE agt[c].expected
               n == IF acfg.secure THEN agt[c].next + 1 ELSE agt[c].next
    <3>2. agt \in [Conns -> AgentEnd] /\ agt[c] \in AgentEnd
      BY Here DEF EndTypes
    <3>3. e \in 1..MaxSeq
      BY <1>1, <3>1, <3>2, Delivering DEF AgentEnd
    <3>4. n \in 1..MaxSeq
      BY <1>5, <3>2, SessionAssumption DEF AgentEnd, Exhausted
    <3>5. agt' = [agt EXCEPT ![c] = [agt[c] EXCEPT !.pc = "ready", !.expected = e,
                                                   !.next = n]]
      BY <1>2, <1>5, <2>3, <3>2
    <3> HIDE DEF e, n
    <3>6. /\ agt' \in [Conns -> AgentEnd] /\ \A d \in Conns \ {c} : agt'[d] = agt[d]
          /\ agt'[c].pc = "ready" /\ agt'[c].key = agt[c].key
          /\ agt'[c].session = agt[c].session /\ agt'[c].expected = e
      BY <3>2, <3>3, <3>4, <3>5 DEF AgentEnd
    <3>7. agt'[c].expected = IF acfg.secure THEN agt[c].expected + 1 ELSE agt[c].expected
      BY <3>6 DEF e
    <3>8. srv[c].pc # "loop" /\ (srv[c].pc \notin Serving => toS'[c] = <<>>)
      BY <2>1 DEF Serving
    <3> HIDE DEF bye, fails
    <3> QED
      BY <1>1, <2>1, <3>1, <3>6, <3>7, <3>8, DeliveredInv
  <2> QED
    BY <2>2, <2>3
<1> QED
  BY <1>4, <1>5

-----------------------------------------------------------------------------
(* Serving a packet.                                                       *)

\* t is s with one more message, of that type and, on a secure connection, number.
IsAnswered(t, s, what, seq) ==
  /\ Len(t) = Len(s) + 1 /\ \A i \in 1..Len(s) : t[i] = s[i]
  /\ t[Len(s) + 1].type = what
  /\ scfg.secure => t[Len(s) + 1].seq = seq

\* What sendControlMessage writes, and where it leaves the handler.
LEMMA AnswerFacts ==
  ASSUME SessionInv, NEW c \in Conns, NEW what \in MessageTypes, NEW s \in HandlerEnd,
         Answer(c, what, s)
  PROVE  /\ srv' \in [Conns -> HandlerEnd] /\ \A d \in Conns \ {c} : srv'[d] = srv[d]
         /\ srv'[c].pc = s.pc /\ srv'[c].key = s.key /\ srv'[c].session = s.session
         /\ srv'[c].expected = s.expected /\ srv'[c].failures = s.failures
         /\ toA' \in [Conns -> Seq(Message)] /\ \A d \in Conns \ {c} : toA'[d] = toA[d]
         /\ cut[c] \/ agt[c].pc = "closed" => toA'[c] = toA[c]
         /\ \/ scfg.secure /\ toA'[c] = toA[c] /\ srv'[c].next = s.next
            \/ /\ scfg.secure => s.next < MaxSeq /\ srv'[c].next = s.next + 1
               /\ ~cut[c] /\ agt[c].pc # "closed" =>
                    IsAnswered(toA'[c], toA[c], what, s.next)
<1>1. srv \in [Conns -> HandlerEnd] /\ s.next \in 1..MaxSeq /\ MaxSeq \in Nat
  BY Here, SessionAssumption DEF EndTypes, HandlerEnd
<1>2. CASE scfg.secure /\ Exhausted(s)
  <2>1. srv' = [srv EXCEPT ![c] = s] /\ toA' = toA
    BY <1>2 DEF Answer
  <2> QED
    BY <1>1, <1>2, <2>1, Here
<1>3. CASE ~(scfg.secure /\ Exhausted(s))
  <2> DEFINE m == IF scfg.secure THEN Sealed(what, s, 0) ELSE Plain(what)
             n == IF scfg.secure THEN s.next + 1 ELSE s.next
  <2>1. m \in Message /\ m.type = what /\ (scfg.secure => m.seq = s.next)
    <3>1. s \in AgentEnd \cup HandlerEnd /\ 0 \in 0..NChunks /\ EndTypes
      BY SessionAssumption, Here
    <3>2. CASE scfg.secure
      <4>1. m = Sealed(what, s, 0)
        BY <3>2
      <4> HIDE DEF m
      <4> QED
        BY <3>1, <3>2, <4>1, SealedTyped
    <3>3. CASE ~scfg.secure
      <4>1. m = Plain(what)
        BY <3>3
      <4> HIDE DEF m
      <4> QED
        BY <3>1, <3>3, <4>1, PlainMessage
    <3> QED
      BY <3>2, <3>3
  <2>2. Reply(c, <<m>>)
    BY <1>3 DEF Answer
  <2> HIDE DEF m
  <2>3. /\ toA' \in [Conns -> Seq(Message)] /\ \A d \in Conns \ {c} : toA'[d] = toA[d]
        /\ cut[c] \/ agt[c].pc = "closed" => toA'[c] = toA[c]
        /\ ~cut[c] /\ agt[c].pc # "closed" => IsAppend(toA'[c], toA[c], m)
    BY <2>1, <2>2, Here, ReplyStream
  <2>4. ~cut[c] /\ agt[c].pc # "closed" => IsAnswered(toA'[c], toA[c], what, s.next)
    BY <2>1, <2>3 DEF IsAppend, IsAnswered
  <2>5. srv' = [srv EXCEPT ![c] = [s EXCEPT !.next = n]]
    BY <1>3 DEF Answer
  <2>6. n \in 1..MaxSeq /\ (scfg.secure => s.next < MaxSeq /\ n = s.next + 1)
    BY <1>1, <1>3 DEF Exhausted
  <2> HIDE DEF n
  <2>7. /\ srv' \in [Conns -> HandlerEnd] /\ \A d \in Conns \ {c} : srv'[d] = srv[d]
        /\ srv'[c].pc = s.pc /\ srv'[c].key = s.key /\ srv'[c].session = s.session
        /\ srv'[c].expected = s.expected /\ srv'[c].failures = s.failures
        /\ srv'[c].next = n
    BY <1>1, <2>5, <2>6 DEF HandlerEnd
  <2> QED
    BY <2>3, <2>4, <2>6, <2>7
<1> QED
  BY <1>2, <1>3

\* What a handler in its loop reads, and who has sent it.
LEMMA ServerReading ==
  ASSUME SessionInv, NEW c \in Conns, srv[c].pc = "loop", ServerReads(c)
  PROVE  /\ Head(toS[c]) = toS[c][1] /\ 1 \in 1..Len(toS[c]) /\ toS[c] # <<>>
         /\ toS' \in [Conns -> Seq(Message)] /\ IsTail(toS'[c], toS[c])
         /\ \A d \in Conns \ {c} : toS'[d] = toS[d]
         /\ ~cut[c] /\ agt[c].pc \in InUse \cup {"closed"}
         /\ toS[c][1].type \in {"keepalive", "chunk"}
         /\ IsSealed(toS[c][1]) <=> acfg.secure /\ toS[c][1].type # "keepalive"
         /\ toS[c][1].type = "chunk" =>
              /\ Len(toS[c]) = 1 /\ toS'[c] = <<>> /\ toS[c][1].arg \in Chunks
              /\ agt[c].pc \in {"answer", "closed"}
              /\ agt[c].pc = "answer" => toS[c][1].arg = chunk
<1>1. /\ toS' \in [Conns -> Seq(Message)] /\ IsTail(toS'[c], toS[c])
      /\ Head(toS[c]) = toS[c][1] /\ toS[c] # <<>>
      /\ \A d \in Conns \ {c} : toS'[d] = toS[d]
  BY Here, ReadStream DEF ServerReads
<1>2. 1 \in 1..Len(toS[c]) /\ ControlInv(c) /\ RequestsInv(c)
  BY <1>1, Here DEF ConnInv
<1>3. ~cut[c] /\ agt[c].pc \in InUse \cup {"closed"}
  <2>1. agt[c].pc \in AgentWaits \cup {"closed", "ready"}
    BY Here DEF AgentEnd
  <2> QED
    BY <1>1, <1>2, <2>1 DEF ControlInv, AgentWaits, Greeting, InUse
<1>4. /\ toS[c][1].type \in {"keepalive", "chunk"}
      /\ IsSealed(toS[c][1]) <=> acfg.secure /\ toS[c][1].type # "keepalive"
      /\ toS[c][1].type = "chunk" =>
           /\ 1 = Len(toS[c]) /\ toS[c][1].arg \in Chunks
           /\ agt[c].pc \in {"answer", "closed"}
           /\ agt[c].pc = "answer" => toS[c][1].arg = chunk
  BY <1>2 DEF RequestsInv, Serving
<1>5. Len(toS[c]) = 1 => toS'[c] = <<>>
  <2>1. toS'[c] \in Seq(Message) /\ Len(toS'[c]) = Len(toS[c]) - 1
    BY <1>1 DEF IsTail
  <2> QED
    BY <2>1, Streams
<1> QED
  BY <1>1, <1>2, <1>3, <1>4, <1>5

\* The handler answers the packet it has read: a chunk that it took or refused, with
\* the next number, or a packet that is no chunk, refused with the same one.
LEMMA ServedInv ==
  ASSUME SessionInv, NEW c \in Conns, srv[c].pc = "loop", ServerReads(c),
         NEW what \in Successes \cup {"FAILED"}, NEW s \in HandlerEnd, Answer(c, what, s),
         s.key = srv[c].key, s.session = srv[c].session, s.next = srv[c].next,
         s.pc \in Serving, s.pc = "loop" => s.failures < Threshold,
         toS[c][1].type = "chunk" /\ agt[c].pc # "closed" =>
           s.expected = IF scfg.secure THEN srv[c].expected + 1 ELSE srv[c].expected,
         toS[c][1].type # "chunk" => s.expected = srv[c].expected,
         what \in Successes => toS[c][1].type = "chunk" /\ toS[c][1].arg \in stored',
         what = "SUCCESS" => s.pc = "loop",
         s.pc = "closing" <=> what \in Lasts,
         stored \subseteq stored', stored' \subseteq Chunks,
         UNCHANGED <<conf, agt, cut, chunk, acked, rejected>>,
         Disturbed \/ budget' = budget
  PROVE  SessionInv'
<1>1. UNCHANGED <<acfg, scfg, agt, cut, chunk, acked, rejected>>
  BY DEF conf
<1>2. /\ toS' \in [Conns -> Seq(Message)] /\ IsTail(toS'[c], toS[c])
      /\ \A d \in Conns \ {c} : toS'[d] = toS[d]
      /\ ~cut[c] /\ agt[c].pc \in InUse \cup {"closed"}
      /\ toS[c] # <<>> /\ 1 \in 1..Len(toS[c])
      /\ toS[c][1].type = "chunk" =>
           /\ toS'[c] = <<>> /\ agt[c].pc \in {"answer", "closed"}
           /\ agt[c].pc = "answer" => toS[c][1].arg = chunk
  BY ServerReading
<1>3. /\ srv' \in [Conns -> HandlerEnd] /\ \A d \in Conns \ {c} : srv'[d] = srv[d]
      /\ srv'[c].pc = s.pc /\ srv'[c].key = s.key /\ srv'[c].session = s.session
      /\ srv'[c].expected = s.expected /\ srv'[c].failures = s.failures
      /\ toA' \in [Conns -> Seq(Message)] /\ \A d \in Conns \ {c} : toA'[d] = toA[d]
      /\ cut[c] \/ agt[c].pc = "closed" => toA'[c] = toA[c]
      /\ \/ scfg.secure /\ toA'[c] = toA[c] /\ srv'[c].next = s.next
         \/ /\ scfg.secure => s.next < MaxSeq /\ srv'[c].next = s.next + 1
            /\ ~cut[c] /\ agt[c].pc # "closed" =>
                 IsAnswered(toA'[c], toA[c], what, s.next)
  <2>1. what \in MessageTypes
    BY DEF MessageTypes, Successes
  <2> QED
    BY <2>1, AnswerFacts
<1>4. EndTypes' /\ WireTypes' /\ WorkTypes' /\ Only(c)
  BY <1>1, <1>2, <1>3, Here, BudgetKept DEF EndTypes, WireTypes, WorkTypes, Only, conf
<1>5. /\ ControlInv(c) /\ NumbersInv(c) /\ KeysInv(c) /\ RequestsInv(c)
      /\ AnswersInv(c) /\ StepInv(c) /\ ServerSecret(c)' = ServerSecret(c)
      /\ srv[c].pc \in Serving /\ srv'[c].pc \in Serving /\ agt[c].pc \notin Greeting
  <2>1. ServerSecret(c)' = ServerSecret(c)
    BY SecretKept
  <2> QED
    BY <1>2, <1>3, <2>1, Here DEF ConnInv, Serving, InUse, Greeting
<1>6. /\ Len(toS[c]) \in Nat /\ Len(toS'[c]) \in Nat /\ Len(toA[c]) \in Nat
      /\ ((toS'[c] = <<>>) <=> (Len(toS'[c]) = 0))
      /\ Len(toS'[c]) = Len(toS[c]) - 1
      /\ \A i \in 1..Len(toS'[c]) : toS'[c][i] = toS[c][i + 1]
  BY <1>2, <1>4, Here, HereAfter DEF IsTail
<1>7. ControlInv(c)'
  BY <1>1, <1>2, <1>3, <1>5 DEF ControlInv, Serving
<1>8. NumbersInv(c)' /\ GreetingInv(c)'
  BY <1>1, <1>3, <1>5 DEF NumbersInv, GreetingInv
<1>9. KeysInv(c)'
  BY <1>1, <1>3, <1>5 DEF KeysInv, Serving
<1>10. toS'[c] # <<>> => toS[c][1].type # "chunk" /\ srv'[c].expected = srv[c].expected
  BY <1>2, <1>3
<1>11. RequestsInv(c)'
  <2>1. ASSUME NEW i \in 1..Len(toS'[c])
        PROVE  /\ toS'[c][i].type \in {"keepalive", "chunk"}
               /\ IsSealed(toS'[c][i]) <=> acfg.secure /\ toS'[c][i].type # "keepalive"
               /\ toS'[c][i].seq < MaxSeq
               /\ toS'[c][i].type = "chunk" =>
                    /\ i = Len(toS'[c]) /\ toS'[c][i].arg \in Chunks
                    /\ agt[c].pc \in {"answer", "closed"}
                    /\ agt[c].pc = "answer" => toS'[c][i].arg = chunk
                    /\ acfg.secure => toS'[c][i].seq = srv'[c].expected
    <3>1. i + 1 \in 1..Len(toS[c]) /\ i + 1 # 1 /\ (i + 1 = Len(toS[c]) => i = Len(toS'[c]))
      BY <1>6
    <3>2. toS'[c][i] = toS[c][i + 1] /\ srv'[c].expected = srv[c].expected
      BY <1>6, <1>10
    <3>3. /\ toS[c][i + 1].type \in {"keepalive", "chunk"}
          /\ IsSealed(toS[c][i + 1]) <=> acfg.secure /\ toS[c][i + 1].type # "keepalive"
          /\ toS[c][i + 1].seq < MaxSeq
          /\ toS[c][i + 1].type = "chunk" =>
               /\ i + 1 = Len(toS[c]) /\ toS[c][i + 1].arg \in Chunks
               /\ agt[c].pc \in {"answer", "closed"}
               /\ agt[c].pc = "answer" => toS[c][i + 1].arg = chunk
               /\ acfg.secure => toS[c][i + 1].seq = srv[c].expected
      BY <1>5, <3>1 DEF RequestsInv
    <3> QED
      BY <3>1, <3>2, <3>3
  <2>2. srv'[c].pc = "closing" => toS'[c] = <<>>
    BY <1>2, <1>3 DEF Successes
  <2> QED
    BY <1>1, <2>1, <2>2 DEF RequestsInv, IsSealed
<1>12. agt[c].pc \in InUse /\ scfg.secure => srv[c].next = agt[c].expected + Len(toA[c])
  BY <1>2, <1>5 DEF StepInv, KeysInv
<1>13. agt[c].pc \in InUse => scfg.secure = acfg.secure
  BY <1>5 DEF KeysInv
<1>14. AnswersInv(c)'
  <2> SUFFICES ASSUME agt[c].pc \in InUse
               PROVE  AnswersInv(c)'
    BY <1>1 DEF AnswersInv
  <2>1. ASSUME NEW i \in 1..Len(toA[c])
        PROVE  /\ acfg.secure => /\ toA[c][i].seq = agt[c].expected + i - 1
                                 /\ toA[c][i].seq < MaxSeq
               /\ toA[c][i].type \notin Successes
    BY <1>2, <1>5 DEF AnswersInv
  <2>2. CASE toA'[c] = toA[c]
    BY <1>1, <2>1, <2>2 DEF AnswersInv, Successes
  <2>3. CASE /\ scfg.secure => s.next < MaxSeq
             /\ IsAnswered(toA'[c], toA[c], what, s.next)
    <3> DEFINE n == Len(toA[c])
    <3>1. /\ n \in Nat /\ Len(toA'[c]) = n + 1 /\ \A i \in 1..n : toA'[c][i] = toA[c][i]
          /\ toA'[c][n + 1].type = what
          /\ scfg.secure => toA'[c][n + 1].seq = s.next
      BY <1>6, <2>3 DEF IsAnswered
    <3>2. \A i \in 1..Len(toA'[c]) : i \in 1..n \/ (i = n + 1 /\ i = Len(toA'[c]))
      BY <3>1
    <3>3. acfg.secure => /\ toA'[c][n + 1].seq = agt[c].expected + (n + 1) - 1
                         /\ toA'[c][n + 1].seq < MaxSeq
      <4>1. agt[c].expected \in Nat
        BY Here, SessionAssumption DEF AgentEnd
      <4>2. acfg.secure => /\ toA'[c][n + 1].seq = agt[c].expected + n
                           /\ toA'[c][n + 1].seq < MaxSeq
        BY <1>12, <1>13, <2>3, <3>1
      <4>3. agt[c].expected + n = agt[c].expected + (n + 1) - 1
        BY <3>1, <4>1
      <4> QED
        BY <4>2, <4>3
    <3>4. what \in Successes =>
            agt[c].pc = "answer" /\ toS'[c] = <<>> /\ chunk \in stored'
      BY <1>2 DEF InUse
    <3>5. /\ what = "SUCCESS" => srv'[c].pc = "loop"
          /\ what \in Lasts => srv'[c].pc = "closing"
      BY <1>3
    <3>6. \A i \in 1..Len(toA'[c]) :
            /\ acfg.secure => /\ toA'[c][i].seq = agt[c].expected + i - 1
                              /\ toA'[c][i].seq < MaxSeq
            /\ toA'[c][i].type \in Successes => /\ i = Len(toA'[c])
                                                /\ toA'[c][i].type = what
      BY <2>1, <3>1, <3>2, <3>3
    <3> QED
      BY <1>1, <3>4, <3>5, <3>6 DEF AnswersInv, Successes
  <2> QED
    BY <1>2, <1>3, <2>2, <2>3 DEF InUse
<1>15. StepInv(c)'
  <2> SUFFICES ASSUME agt[c].pc \in InUse
               PROVE  StepInv(c)'
    BY <1>1 DEF StepInv
  <2>1. scfg.secure => srv'[c].next = agt[c].expected + Len(toA'[c])
    <3>1. agt[c].expected \in Nat
      BY Here, SessionAssumption DEF AgentEnd
    <3>2. CASE scfg.secure /\ toA'[c] = toA[c] /\ srv'[c].next = s.next
      BY <1>12, <3>2
    <3>3. CASE /\ scfg.secure => srv'[c].next = s.next + 1
               /\ Len(toA'[c]) = Len(toA[c]) + 1
      <4>1. scfg.secure => srv'[c].next = (agt[c].expected + Len(toA[c])) + 1
        BY <1>12, <3>3
      <4>2. (agt[c].expected + Len(toA[c])) + 1 = agt[c].expected + (Len(toA[c]) + 1)
        BY <1>6, <3>1
      <4> QED
        BY <3>3, <4>1, <4>2
    <3>4. agt[c].pc # "closed"
      BY DEF InUse
    <3>5. \/ scfg.secure /\ toA'[c] = toA[c] /\ srv'[c].next = s.next
          \/ /\ scfg.secure => srv'[c].next = s.next + 1
             /\ Len(toA'[c]) = Len(toA[c]) + 1
      BY <1>2, <1>3, <3>4 DEF IsAnswered
    <3> QED
      BY <3>2, <3>3, <3>5
  <2>2. CASE toS[c][1].type = "chunk"
    <3>1. ChunkUnderWay(c) /\ ~ChunkUnderWay(c)'
      <4>1. 1 \in 1..Len(toS[c])
        BY <1>2
      <4>2. ChunkUnderWay(c)
        BY <2>2, <4>1, Zenon DEF ChunkUnderWay
      <4>3. Len(toS'[c]) = 0
        BY <1>2, <1>6, <2>2
      <4>4. ~ChunkUnderWay(c)'
        BY <4>3 DEF ChunkUnderWay
      <4> QED
        BY <4>2, <4>4
    <3>2. acfg.secure => agt[c].next = srv[c].expected + 1
      BY <1>2, <1>5, <3>1 DEF StepInv
    <3>3. acfg.secure => agt[c].next = srv'[c].expected
      BY <1>3, <1>13, <2>2, <3>2 DEF InUse
    <3>4. agt[c].pc = "answer"
      BY <1>2, <2>2 DEF InUse
    <3> QED
      BY <1>1, <1>13, <2>1, <3>1, <3>3, <3>4 DEF StepInv
  <2>3. CASE toS[c][1].type # "chunk"
    <3>1. ChunkUnderWay(c) <=> ChunkUnderWay(c)'
      <4>1. ASSUME ChunkUnderWay(c) PROVE ChunkUnderWay(c)'
        <5>1. PICK i \in 1..Len(toS[c]) : toS[c][i].type = "chunk"
          BY <4>1 DEF ChunkUnderWay
        <5>2. i # 1
          BY <2>3, <5>1
        <5>3. i - 1 \in 1..Len(toS'[c]) /\ (i - 1) + 1 = i
          BY <1>6, <5>2
        <5>4. toS'[c][i - 1].type = "chunk"
          BY <1>6, <5>1, <5>3
        <5> QED
          BY <5>3, <5>4 DEF ChunkUnderWay
      <4>2. ASSUME ChunkUnderWay(c)' PROVE ChunkUnderWay(c)
        <5>1. PICK i \in 1..Len(toS'[c]) : toS'[c][i].type = "chunk"
          BY <4>2 DEF ChunkUnderWay
        <5>2. i + 1 \in 1..Len(toS[c]) /\ toS[c][i + 1].type = "chunk"
          BY <1>6, <5>1
        <5> QED
          BY <5>2 DEF ChunkUnderWay
      <4> QED
        BY <4>1, <4>2
    <3>2. acfg.secure => agt[c].next = IF ChunkUnderWay(c)' THEN srv'[c].expected + 1
                                                            ELSE srv'[c].expected
      BY <1>2, <1>3, <1>5, <2>3, <3>1 DEF StepInv
    <3>3. srv'[c].pc # "closing"
      BY <1>3, <2>3 DEF Successes
    <3> QED
      BY <1>1, <1>13, <2>1, <3>2, <3>3 DEF StepInv
  <2> QED
    BY <2>2, <2>3
<1>16. /\ ConnInv(c)' /\ acked' \subseteq stored' /\ rejected' = FALSE /\ chunk' = chunk
       /\ agt'[c].pc = "answer" => chunk' \in Chunks
       /\ agt[c].pc # "closed" \/ agt'[c].pc = "closed"
  BY <1>1, <1>7, <1>8, <1>9, <1>11, <1>14, <1>15 DEF ConnInv, SessionInv, WorkInv
<1> QED
  BY <1>4, <1>16, StepOn

LEMMA TakenTyped ==
  ASSUME SessionInv, NEW c \in Conns, NEW m, Accepts(m, srv[c], scfg.secure)
  PROVE  /\ Taken(c) \in HandlerEnd /\ Taken(c).pc = srv[c].pc
         /\ Taken(c).key = srv[c].key /\ Taken(c).session = srv[c].session
         /\ Taken(c).next = srv[c].next /\ Taken(c).failures = srv[c].failures
         /\ Taken(c).expected = IF scfg.secure THEN srv[c].expected + 1
                                               ELSE srv[c].expected
<1> DEFINE e == IF scfg.secure THEN srv[c].expected + 1 ELSE srv[c].expected
<1>1. srv[c] \in HandlerEnd
  BY Here
<1>2. e \in 1..MaxSeq
  BY <1>1, SessionAssumption DEF HandlerEnd, Accepts, InStep
<1>3. Taken(c) = [srv[c] EXCEPT !.expected = e]
  BY DEF Taken
<1> HIDE DEF e
<1>4. /\ Taken(c) \in HandlerEnd /\ Taken(c).pc = srv[c].pc
      /\ Taken(c).key = srv[c].key /\ Taken(c).session = srv[c].session
      /\ Taken(c).next = srv[c].next /\ Taken(c).failures = srv[c].failures
      /\ Taken(c).expected = e
  BY <1>1, <1>2, <1>3 DEF HandlerEnd
<1> QED
  BY <1>4 DEF e

LEMMA TakeChunkInv ==
  ASSUME SessionInv, NEW c \in Conns, TakeChunk(c)
  PROVE  SessionInv'
<1>1. /\ srv[c].pc = "loop" /\ ServerReads(c)
      /\ IsChunk(Head(toS[c])) /\ Accepts(Head(toS[c]), srv[c], scfg.secure)
      /\ stored' = stored \cup {Head(toS[c]).arg}
      /\ UNCHANGED <<conf, agt, cut, chunk, acked, rejected, budget>>
  BY DEF TakeChunk
<1>2. /\ Head(toS[c]) = toS[c][1] /\ toS[c][1].type = "chunk"
      /\ toS[c][1].arg \in Chunks
  BY <1>1, ServerReading DEF IsChunk
<1>3. /\ stored \subseteq stored' /\ stored' \subseteq Chunks /\ toS[c][1].arg \in stored'
  BY <1>1, <1>2, Here DEF WorkTypes
<1> DEFINE t == Taken(c)
           u == [Taken(c) EXCEPT !.pc = "closing"]
<1>4. /\ t \in HandlerEnd /\ t.pc = "loop" /\ t.key = srv[c].key
      /\ t.session = srv[c].session /\ t.next = srv[c].next /\ t.failures < Threshold
      /\ t.expected = IF scfg.secure THEN srv[c].expected + 1 ELSE srv[c].expected
  <2>1. srv[c].failures < Threshold
    BY <1>1, Here DEF ConnInv, NumbersInv
  <2> QED
    BY <1>1, <2>1, TakenTyped
<1> HIDE DEF t
<1>5. u = [t EXCEPT !.pc = "closing"]
  BY DEF t
<1> HIDE DEF u
<1>6. /\ u \in HandlerEnd /\ u.pc = "closing" /\ u.key = srv[c].key
      /\ u.session = srv[c].session /\ u.next = srv[c].next
      /\ u.expected = IF scfg.secure THEN srv[c].expected + 1 ELSE srv[c].expected
  BY <1>4, <1>5 DEF HandlerEnd, Serving
<1>7. \/ Answer(c, "SUCCESS", t)
      \/ Answer(c, "SUCCESS_FILE_COMPLETE", u)
      \/ Answer(c, "FILE_ALREADY_EXISTS", u)
  BY DEF TakeChunk, t, u
<1>8. CASE Answer(c, "SUCCESS", t)
  <2>1. /\ "SUCCESS" \in Successes /\ "SUCCESS" \notin Lasts
        /\ t.pc \in Serving /\ t.pc # "closing"
    BY <1>4 DEF Successes, Lasts, Serving
  <2> QED
    BY <1>1, <1>2, <1>3, <1>4, <1>8, <2>1, ServedInv
<1>9. ASSUME NEW what \in Lasts, Answer(c, what, u)
      PROVE  SessionInv'
  <2>1. what \in Successes /\ what # "SUCCESS" /\ u.pc \in Serving /\ u.pc # "loop"
    BY <1>6 DEF Successes, Lasts, Serving
  <2> QED
    BY <1>1, <1>2, <1>3, <1>6, <1>9, <2>1, ServedInv
<1> QED
  BY <1>7, <1>8, <1>9 DEF Lasts

\* A refusal: of a chunk, or of a packet that is none.
LEMMA RefusedInv ==
  ASSUME SessionInv, NEW c \in Conns, srv[c].pc = "loop", ServerReads(c),
         NEW s \in HandlerEnd, Refuse(c, s), s.key = srv[c].key,
         s.session = srv[c].session, s.next = srv[c].next,
         s.failures = srv[c].failures,
         toS[c][1].type = "chunk" /\ agt[c].pc # "closed" =>
           s.expected = IF scfg.secure THEN srv[c].expected + 1 ELSE srv[c].expected,
         toS[c][1].type # "chunk" => s.expected = srv[c].expected,
         UNCHANGED <<conf, agt, cut, work, rejected>>,
         Disturbed \/ budget' = budget
  PROVE  SessionInv'
<1> DEFINE f == s.failures + 1
           p == IF f >= Threshold \/ (scfg.secure /\ Exhausted(s)) THEN "broken" ELSE "loop"
           r == [s EXCEPT !.failures = f, !.pc = p]
<1>1. Answer(c, "FAILED", r)
  BY DEF Refuse
<1>2. f \in 0..Threshold /\ p \in {"broken", "loop"} /\ (p = "loop" => f < Threshold)
  <2>1. s.failures < Threshold /\ s.failures \in 0..Threshold /\ Threshold \in Nat
    BY Here, SessionAssumption DEF ConnInv, NumbersInv, HandlerEnd
  <2> QED
    BY <2>1
<1> HIDE DEF f, p
<1>3. /\ r \in HandlerEnd /\ r.pc = p /\ r.failures = f /\ r.key = s.key
      /\ r.session = s.session /\ r.next = s.next /\ r.expected = s.expected
  BY <1>2 DEF HandlerEnd, Serving
<1> HIDE DEF r
<1>4. /\ "FAILED" \in Successes \cup {"FAILED"} /\ "FAILED" \notin Successes
      /\ "FAILED" \notin Lasts /\ "FAILED" # "SUCCESS"
      /\ r.pc \in Serving /\ r.pc # "closing" /\ (r.pc = "loop" => r.failures < Threshold)
  BY <1>2, <1>3 DEF Successes, Lasts, Serving
<1>5. /\ UNCHANGED <<conf, agt, cut, chunk, acked, rejected>>
      /\ stored \subseteq stored' /\ stored' \subseteq Chunks
  BY Here DEF work, WorkTypes
<1>6. /\ r.key = srv[c].key /\ r.session = srv[c].session /\ r.next = srv[c].next
      /\ toS[c][1].type = "chunk" /\ agt[c].pc # "closed" =>
           r.expected = IF scfg.secure THEN srv[c].expected + 1 ELSE srv[c].expected
      /\ toS[c][1].type # "chunk" => r.expected = srv[c].expected
  BY <1>3
<1> QED
  BY <1>1, <1>3, <1>4, <1>5, <1>6, ServedInv

LEMMA RefuseChunkInv ==
  ASSUME SessionInv, NEW c \in Conns, RefuseChunk(c)
  PROVE  SessionInv'
<1>1. /\ srv[c].pc = "loop" /\ ServerReads(c)
      /\ IsChunk(Head(toS[c])) /\ Accepts(Head(toS[c]), srv[c], scfg.secure)
      /\ Disturbed /\ Refuse(c, Taken(c))
      /\ UNCHANGED <<conf, agt, cut, work, rejected>>
  BY DEF RefuseChunk
<1>2. toS[c][1].type = "chunk"
  BY <1>1, ServerReading DEF IsChunk
<1> DEFINE t == Taken(c)
<1>3. /\ t \in HandlerEnd /\ t.key = srv[c].key
      /\ t.session = srv[c].session /\ t.next = srv[c].next
      /\ t.failures = srv[c].failures
      /\ t.expected = IF scfg.secure THEN srv[c].expected + 1 ELSE srv[c].expected
  BY <1>1, TakenTyped
<1>4. Refuse(c, t)
  BY <1>1
<1> HIDE DEF t
<1> QED
  BY <1>1, <1>2, <1>3, <1>4, RefusedInv

\* Both ends of a connection in use encrypt or neither does, so that what is refused
\* there for its form is a keep-alive.
LEMMA RefusePacketInv ==
  ASSUME SessionInv, NEW c \in Conns, RefusePacket(c)
  PROVE  SessionInv'
<1>1. /\ srv[c].pc = "loop" /\ ServerReads(c) /\ ~IsChunk(Head(toS[c]))
      /\ Refuse(c, srv[c]) /\ UNCHANGED <<conf, agt, cut, work, rejected, budget>>
  BY DEF RefusePacket
<1>2. /\ Head(toS[c]) = toS[c][1] /\ agt[c].pc \in InUse \cup {"closed"}
      /\ IsSealed(toS[c][1]) <=> acfg.secure /\ toS[c][1].type # "keepalive"
  BY <1>1, ServerReading
<1>3. toS[c][1].type = "chunk" => agt[c].pc = "closed"
  <2>1. ASSUME toS[c][1].type = "chunk", agt[c].pc # "closed" PROVE FALSE
    <3>1. scfg.secure = acfg.secure /\ scfg.secure \in BOOLEAN
      BY <1>2, <2>1, Here, Configured DEF ConnInv, KeysInv
    <3>2. IsSealed(toS[c][1]) <=> scfg.secure
      BY <1>2, <2>1, <3>1
    <3>3. IsSealed(toS[c][1]) \in BOOLEAN
      BY DEF IsSealed
    <3> QED
      BY <1>1, <1>2, <2>1, <3>1, <3>2, <3>3 DEF IsChunk
  <2> QED
    BY <2>1
<1>4. srv[c] \in HandlerEnd
  BY Here
<1> QED
  BY <1>1, <1>3, <1>4, RefusedInv

-----------------------------------------------------------------------------
(* The invariant is inductive.                                             *)

LEMMA SessionInit == Init => SessionInv
<1> SUFFICES ASSUME Init PROVE SessionInv
  OBVIOUS
<1>1. ClosedAgent \in AgentEnd /\ EndedHandler \in HandlerEnd
  BY SessionAssumption
     DEF ClosedAgent, EndedHandler, AgentEnd, HandlerEnd, NoSecret, Secrets, Modes, Ids
<1>2. EndTypes /\ WireTypes /\ WorkTypes
  BY <1>1, SessionAssumption DEF Init, EndTypes, WireTypes, WorkTypes, Chunks
<1>3. ASSUME NEW c \in Conns
      PROVE  /\ toS[c] = <<>> /\ toA[c] = <<>> /\ agt[c] = ClosedAgent
             /\ srv[c] = EndedHandler
  BY DEF Init
<1>4. WorkInv
  BY <1>3 DEF Init, WorkInv, ClosedAgent
<1>5. ASSUME NEW c \in Conns
      PROVE  ConnInv(c)
  <2>1. /\ toS[c] = <<>> /\ toA[c] = <<>> /\ agt[c].pc = "closed" /\ srv[c].pc = "ended"
        /\ agt[c].session = 0 /\ agt[c].next = 1 /\ agt[c].expected = 1
        /\ srv[c].next = 1 /\ srv[c].expected = 1 /\ srv[c].failures = 0
        /\ srv[c].key = NoSecret
    BY <1>3 DEF ClosedAgent, EndedHandler
  <2>2. ControlInv(c) /\ NumbersInv(c)
    BY <2>1 DEF ControlInv, NumbersInv, Greeting, InUse
  <2>3. KeysInv(c)
    BY <2>1 DEF KeysInv, Serving, InUse
  <2>4. GreetingInv(c) /\ RequestsInv(c) /\ AnswersInv(c) /\ StepInv(c)
    BY <2>1 DEF GreetingInv, RequestsInv, AnswersInv, StepInv, Greeting, Serving, InUse
  <2> QED
    BY <2>2, <2>3, <2>4 DEF ConnInv
<1> QED
  BY <1>2, <1>4, <1>5 DEF SessionInv

\* A step that changes nothing.
LEMMA SessionStutters ==
  ASSUME SessionInv, UNCHANGED vars
  PROVE  SessionInv'
<1>1. /\ acfg' = acfg /\ scfg' = scfg /\ agt' = agt /\ srv' = srv /\ toS' = toS
      /\ toA' = toA /\ cut' = cut /\ chunk' = chunk /\ stored' = stored
      /\ acked' = acked /\ rejected' = rejected /\ budget' = budget
  BY DEF vars, conf, wire, work
<1>2. EndTypes' /\ WireTypes' /\ WorkTypes' /\ WorkInv'
  BY <1>1 DEF SessionInv, EndTypes, WireTypes, WorkTypes, WorkInv
<1>3. ASSUME NEW c \in Conns
      PROVE  ConnInv(c)'
  <2>1. ServerSecret(c)' = ServerSecret(c) /\ ConnInv(c)
    BY <1>1, SecretKept DEF conf, SessionInv
  <2>2. ControlInv(c)' /\ NumbersInv(c)' /\ KeysInv(c)'
    BY <1>1, <2>1 DEF ConnInv, ControlInv, NumbersInv, KeysInv
  <2>3. GreetingInv(c)' /\ RequestsInv(c)'
    BY <1>1, <2>1 DEF ConnInv, GreetingInv, RequestsInv, IsSealed
  <2>4. AnswersInv(c)' /\ StepInv(c)'
    BY <1>1, <2>1 DEF ConnInv, AnswersInv, StepInv, ChunkUnderWay
  <2> QED
    BY <2>2, <2>3, <2>4 DEF ConnInv
<1> QED
  BY <1>2, <1>3 DEF SessionInv

LEMMA SessionNext == SessionInv /\ [Next]_vars => SessionInv'
<1> SUFFICES ASSUME SessionInv, [Next]_vars PROVE SessionInv'
  OBVIOUS
<1>1. CASE UNCHANGED vars
  BY <1>1, SessionStutters
<1>2. ASSUME NEW c \in Conns, AgentStep(c)
      PROVE  SessionInv'
  <2>1. CASE \/ Connect(c) \/ AnswerChallenge(c) \/ VerifyProof(c) \/ StartSession(c)
             \/ Greeted(c)
    BY <2>1, ConnectInv, AnswerChallengeInv, VerifyProofInv, StartSessionInv, GreetedInv
  <2>2. CASE SendChunk(c) \/ AnswerSuccess(c) \/ AnswerLast(c) \/ AnswerRejected(c)
    BY <2>2, SendChunkInv, AnswerSuccessInv, AnswerLastInv, AnswerRejectedInv
  <2>3. CASE Unexpected(c) \/ AnswerFailed(c) \/ AgentGivesUp(c)
    BY <2>3, UnexpectedInv
  <2> QED
    BY <1>2, <2>1, <2>2, <2>3 DEF AgentStep
<1>3. ASSUME NEW c \in Conns, HandlerStep(c)
      PROVE  SessionInv'
  <2>1. CASE SendChallenge(c) \/ AcceptResponse(c) \/ Greet(c)
    BY <2>1, SendChallengeInv, AcceptResponseInv, GreetInv
  <2>2. CASE TakeChunk(c) \/ RefusePacket(c)
    BY <2>2, TakeChunkInv, RefusePacketInv
  <2>3. CASE RejectPacket(c) \/ FinishHandler(c)
    BY <2>3, RejectPacketInv, FinishHandlerInv
  <2>4. CASE RejectResponse(c) \/ HandlerGivesUp(c)
    BY <2>4, HandlerLeavesInv
  <2> QED
    BY <1>3, <2>1, <2>2, <2>3, <2>4 DEF HandlerStep
<1>4. ASSUME NEW c \in Conns,
             \/ KeepAlive(c) \/ Cut(c) \/ Damage(c) \/ AgentTimeout(c)
             \/ HandlerTimeout(c) \/ RefuseChunk(c)
      PROVE  SessionInv'
  BY <1>4, KeepAliveInv, CutInv, DamageInv, UnexpectedInv, HandlerLeavesInv, RefuseChunkInv
<1> QED
  BY <1>1, <1>2, <1>3, <1>4 DEF Next

LEMMA SessionInductive == Spec => []SessionInv
<1>1. Init => SessionInv
  BY SessionInit
<1>2. SessionInv /\ [Next]_vars => SessionInv'
  BY SessionNext
<1> QED
  BY <1>1, <1>2, PTL DEF Spec

-----------------------------------------------------------------------------
(* The theorems.                                                           *)

\* At most one connection is open at the agent: the uniqueness that the invariant
\* states, as the count of TypeOK.
LEMMA OneActive ==
  ASSUME SessionInv
  PROVE  Cardinality(Active) <= 1
<1>1. \A c, d \in Active : c = d
  BY DEF Active, SessionInv, WorkInv
<1>2. CASE Active = {}
  <2>1. Cardinality({}) = 0
    BY FS_EmptySet
  <2> QED
    BY <1>2, <2>1
<1>3. CASE Active # {}
  <2>1. PICK c \in Active : TRUE
    BY <1>3
  <2>2. Active = {c}
    BY <1>1, <2>1
  <2>3. Cardinality({c}) = 1
    BY FS_Singleton
  <2> QED
    BY <2>2, <2>3
<1> QED
  BY <1>2, <1>3

\* Every variable of the session keeps its type: sequence numbers and the failures of
\* the handler's breaker stay within their limits, an end that is left has nothing to
\* read, and the agent has at most one connection open (_createConnection,
\* takeNextSecureOutboundSequence, handleClient).
THEOREM SessionTypeCorrect == Spec => []TypeOK
<1>1. ASSUME SessionInv
      PROVE  TypeOK
  <2>1. ASSUME NEW c \in Conns
        PROVE  /\ agt[c].pc \in AgentWaits \cup {"closed", "ready"}
               /\ srv[c].pc \in {"ended", "start", "response", "greet", "loop", "closing",
                                 "broken"}
               /\ {agt[c].next, agt[c].expected, srv[c].next, srv[c].expected}
                    \subseteq 1..MaxSeq
               /\ srv[c].failures \in 0..Threshold
               /\ agt[c].pc = "closed" => toA[c] = <<>>
               /\ srv[c].pc = "ended" => toS[c] = <<>>
    <3>1. agt[c] \in AgentEnd /\ srv[c] \in HandlerEnd /\ ControlInv(c)
      BY <1>1, Here DEF ConnInv
    <3>2. agt[c].pc = "closed" => toA[c] = <<>>
      BY <3>1 DEF ControlInv
    <3>3. srv[c].pc = "ended" => toS[c] = <<>>
      BY <3>1 DEF ControlInv
    <3> QED
      BY <3>1, <3>2, <3>3 DEF AgentEnd, HandlerEnd, Serving
  <2>2. Cardinality(Active) <= 1
    BY <1>1, OneActive
  <2>3. /\ acfg \in AgentConfigs /\ scfg \in ServerConfigs
        /\ chunk \in 1..(NChunks + 1) /\ stored \subseteq Chunks /\ acked \subseteq Chunks
        /\ budget \in 0..MaxDisturbances
    BY <1>1 DEF SessionInv, EndTypes, WorkTypes
  <2>4. rejected \in BOOLEAN
    BY <1>1 DEF SessionInv, WorkInv
  <2> QED
    BY <2>1, <2>2, <2>3, <2>4 DEF TypeOK
<1> QED
  BY <1>1, SessionInductive, PTL

\* Whatever the two configurations, a connection the agent uses is one the server has
\* accepted: both ends are in the same mode, encrypt or do not, and if they do have the
\* same key and session (_createConnection, handleClient).
THEOREM ConnectionsAgree == Spec => []ReadyMeansAgreed
<1>1. ASSUME SessionInv
      PROVE  ReadyMeansAgreed
  <2> SUFFICES ASSUME NEW c \in Conns, agt[c].pc \in {"ready", "answer"},
                      srv[c].pc # "ended"
               PROVE  /\ srv[c].pc \in {"loop", "closing", "broken"}
                      /\ scfg.secure = acfg.secure /\ scfg.mode = acfg.mode
                      /\ acfg.secure => /\ srv[c].key = agt[c].key
                                        /\ srv[c].session = agt[c].session
    BY DEF ReadyMeansAgreed
  <2>1. ControlInv(c) /\ KeysInv(c) /\ c # 0
    BY <1>1, Here DEF ConnInv
  <2>2. srv[c].pc \in {"loop", "closing", "broken"}
    BY <2>1 DEF ControlInv, InUse, Serving
  <2>3. scfg.secure = acfg.secure /\ scfg.mode = acfg.mode
    BY <2>1 DEF KeysInv, InUse
  <2>4. ASSUME acfg.secure
        PROVE  srv[c].key = agt[c].key /\ srv[c].session = agt[c].session
    BY <2>1, <2>2, <2>3, <2>4 DEF KeysInv, Serving
  <2> QED
    BY <2>2, <2>3, <2>4
<1> QED
  BY <1>1, SessionInductive, PTL

\* A chunk the agent counts as delivered is one the server took: for any number of
\* chunks, keep-alives, refusals, timeouts, losses and reconnections no answer is taken
\* for that to another chunk (_sendChunkInternal).
THEOREM AcknowledgedIsStored == Spec => []AckedIsStored
<1>1. SessionInv => AckedIsStored
  BY DEF SessionInv, WorkInv, AckedIsStored
<1> QED
  BY <1>1, SessionInductive, PTL

\* No end ever refuses a message of its own peer as a replay, up to the last sequence
\* number and whatever is damaged or lost on the way (acceptSecureInboundSequence).
THEOREM NumbersStayInStep == Spec => []NeverOutOfStep
<1>1. SessionInv => NeverOutOfStep
  BY DEF SessionInv, WorkInv, NeverOutOfStep
<1> QED
  BY <1>1, SessionInductive, PTL

=============================================================================
