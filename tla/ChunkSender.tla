----------------------------- MODULE ChunkSender -----------------------------
(***************************************************************************)
(* The agent's threads sending chunks to one target (NetworkManager.cpp):  *)
(* sendChunkToTarget for new files, sendPendingChunkToTarget for the       *)
(* backlog, with their retries, over the target's circuit breaker and its  *)
(* connection pool.  Of the pool (see ConnectionPool) only the number of   *)
(* idle connections is kept, and which of them still work.                 *)
(***************************************************************************)
EXTENDS CircuitBreaker, FiniteSets

CONSTANTS
  FileSenders,     \* threads in sendChunkToTarget
  PendingSenders,  \* threads in sendPendingChunkToTarget
  MaxRetries,      \* maxRetries
  PoolSize         \* max_size_ of the target's pool

Senders == FileSenders \cup PendingSenders

ASSUME SenderAssumption ==
  /\ IsFiniteSet(Senders) /\ FileSenders \cap PendingSenders = {}
  /\ MaxRetries \in Nat \ {0} /\ PoolSize \in Nat \ {0}

VARIABLES
  up,        \* the server is reachable and accepts what it is sent
  running,   \* is_running
  fresh,     \* idle connections that work
  stale,     \* idle connections that do not
  pc,        \* where each sender is
  tries,     \* currentRetry / attemptsForTarget
  holds      \* it has a connection wrapper: "none", "fresh" or "stale"

idle   == <<fresh, stale>>
sender == <<pc, tries, holds>>
vars   == <<breaker, up, running, idle, sender>>

PCs == {"idle", "acquire", "create", "connect", "unconnected", "send", "stored",
        "complete", "exists", "lost", "delay", "exhausted"}

\* Connections counted by the pool and not idle.
InUse == {s \in Senders : holds[s] # "none" \/ pc[s] \in {"create", "connect"}}

Init ==
  /\ BreakerInit
  /\ up \in BOOLEAN /\ running = TRUE
  /\ fresh = 0 /\ stale = 0
  /\ pc = [s \in Senders |-> "idle"]
  /\ tries = [s \in Senders |-> 0]
  /\ holds = [s \in Senders |-> "none"]

-----------------------------------------------------------------------------

Goto(s, l) == pc' = [pc EXCEPT ![s] = l]

\* Timeouts are counted in seconds: none runs out while a sender has its outcome
\* in hand and is about to act on it.
AtOnce == {"create", "unconnected", "stored", "complete", "exists", "lost",
           "exhausted"}
TimePasses == \A s \in Senders : pc[s] \notin AtOnce

\* A chunk to send: the breaker is asked once for all of its attempts.
Ask(s) ==
  /\ pc[s] = "idle" /\ running
  /\ shouldAttempt
  /\ Goto(s, IF Admits THEN "acquire" ELSE "idle")
  /\ tries' = [tries EXCEPT ![s] = 0]
  /\ UNCHANGED <<up, running, idle, holds>>

\* The agent is stopping: seen at the top of the retry loop and during the delay.
Stopped(s) ==
  /\ pc[s] \in {"acquire", "delay"} /\ ~running
  /\ Goto(s, "idle")
  /\ holds' = [holds EXCEPT ![s] = "none"]
  /\ UNCHANGED <<breaker, up, running, idle, tries>>

\* acquire hands out an idle connection that looks connected ...
AcquireIdle(s) ==
  /\ pc[s] = "acquire" /\ running
  /\ \/ /\ fresh > 0
        /\ fresh' = fresh - 1
        /\ holds' = [holds EXCEPT ![s] = "fresh"]
        /\ UNCHANGED stale
     \/ /\ stale > 0
        /\ stale' = stale - 1
        /\ holds' = [holds EXCEPT ![s] = "stale"]
        /\ UNCHANGED fresh
  /\ Goto(s, "send")
  /\ UNCHANGED <<breaker, up, running, tries>>

\* ... or, once it has dropped those it finds dead, creates one, or gives up
\* when the pool is exhausted until its deadline.
AcquireNew(s) ==
  /\ pc[s] = "acquire" /\ running /\ fresh = 0
  /\ stale' = 0
  /\ \/ /\ Cardinality(InUse) < PoolSize
        /\ Goto(s, "create")
     \/ /\ Cardinality(InUse) >= PoolSize /\ TimePasses
        /\ Goto(s, "unconnected")
  /\ UNCHANGED <<breaker, up, running, fresh, tries, holds>>

\* _createConnection asks the breaker again.
CreateConnection(s) ==
  /\ pc[s] = "create"
  /\ shouldAttempt
  /\ Goto(s, IF Admits THEN "connect" ELSE "unconnected")
  /\ UNCHANGED <<up, running, idle, tries, holds>>

\* Connecting, handshake and greeting; the outcome is reported.
Connect(s) ==
  /\ pc[s] = "connect"
  /\ \/ /\ up
        /\ reportSuccess
        /\ holds' = [holds EXCEPT ![s] = "fresh"]
        /\ Goto(s, "send")
     \/ /\ ~up
        /\ reportFailure
        /\ Goto(s, "unconnected")
        /\ UNCHANGED holds
  /\ UNCHANGED <<up, running, idle, tries>>

\* Mutant of Retry: one attempt too many.
RetryOnceMore(s) ==
  /\ tries' = [tries EXCEPT ![s] = @ + 1]
  /\ Goto(s, IF tries[s] + 1 <= MaxRetries THEN "delay"
             ELSE IF s \in FileSenders THEN "exhausted" ELSE "idle")

\* No attempt is left, or one more after a delay.
Retry(s) ==
  /\ tries' = [tries EXCEPT ![s] = @ + 1]
  /\ Goto(s, IF tries[s] + 1 < MaxRetries THEN "delay"
             ELSE IF s \in FileSenders THEN "exhausted" ELSE "idle")

\* Mutant of Unconnected: the attempt is not counted.
UnconnectedUncounted(s) ==
  /\ pc[s] = "unconnected"
  /\ IF s \in PendingSenders THEN reportFailure ELSE UNCHANGED breaker
  /\ Goto(s, "delay")
  /\ UNCHANGED <<up, running, idle, tries, holds>>

\* No connection: the backlog sender reports it, as a failure of its own.
Unconnected(s) ==
  /\ pc[s] = "unconnected"
  /\ IF s \in PendingSenders THEN reportFailure ELSE UNCHANGED breaker
  /\ Retry(s)
  /\ UNCHANGED <<up, running, idle, holds>>

\* _sendChunkInternal: the chunk is sent and the answer received, or not.
SendChunk(s) ==
  /\ pc[s] = "send"
  /\ \/ /\ up /\ holds[s] = "fresh"
        /\ \E answer \in {"stored", "complete", "exists"} : Goto(s, answer)
     \/ /\ ~up \/ holds[s] = "stale"
        /\ Goto(s, "lost")
  /\ UNCHANGED <<breaker, up, running, idle, tries, holds>>

\* Success is reported.  The wrapper returns the connection to the pool, also
\* the one on which CLOSE_NOW has just been sent; after FILE_ALREADY_EXISTS it
\* is invalidated.
Succeeded(s) ==
  /\ pc[s] \in {"stored", "complete", "exists"}
  /\ reportSuccess
  /\ \/ /\ pc[s] = "stored" /\ holds[s] = "fresh"
        /\ fresh' = fresh + 1 /\ UNCHANGED stale
     \/ /\ pc[s] = "complete" \/ (pc[s] = "stored" /\ holds[s] = "stale")
        /\ stale' = stale + 1 /\ UNCHANGED fresh
     \/ /\ pc[s] = "exists"
        /\ UNCHANGED idle
  /\ holds' = [holds EXCEPT ![s] = "none"]
  /\ Goto(s, "idle")
  /\ UNCHANGED <<up, running, tries>>

\* Mutant of Lost: the connection is not invalidated and goes back to the pool.
LostGoesBack(s) ==
  /\ pc[s] = "lost"
  /\ IF s \in PendingSenders THEN reportFailure ELSE UNCHANGED breaker
  /\ Retry(s)
  /\ holds' = [holds EXCEPT ![s] = "none"]
  /\ stale' = stale + 1
  /\ UNCHANGED <<up, running, fresh>>

\* The connection is invalidated; its wrapper lives until the delay is over.
Lost(s) ==
  /\ pc[s] = "lost"
  /\ IF s \in PendingSenders THEN reportFailure ELSE UNCHANGED breaker
  /\ Retry(s)
  /\ holds' = [holds EXCEPT ![s] = IF tries[s] + 1 < MaxRetries THEN "stale"
                                                                ELSE "none"]
  /\ UNCHANGED <<up, running, idle>>

\* The delay is over; the flag is looked at again at the top of the loop.
Delay(s) ==
  /\ pc[s] = "delay"
  /\ Goto(s, "acquire")
  /\ holds' = [holds EXCEPT ![s] = "none"]
  /\ UNCHANGED <<breaker, up, running, idle, tries>>

\* sendChunkToTarget reports once, when its attempts are exhausted.
Exhausted(s) ==
  /\ pc[s] = "exhausted"
  /\ reportFailure
  /\ Goto(s, "idle")
  /\ UNCHANGED <<up, running, idle, tries, holds>>

-----------------------------------------------------------------------------
(* The environment.                                                        *)

\* The server goes away, with every connection, or comes back.
ServerDown ==
  /\ up
  /\ up' = FALSE
  /\ fresh' = 0 /\ stale' = stale + fresh
  /\ holds' = [s \in Senders |-> IF holds[s] = "fresh" THEN "stale" ELSE holds[s]]
  /\ UNCHANGED <<breaker, running, pc, tries>>

ServerUp ==
  /\ ~up
  /\ up' = TRUE
  /\ UNCHANGED <<breaker, running, idle, sender>>

Stop ==
  /\ running
  /\ running' = FALSE
  /\ UNCHANGED <<breaker, up, idle, sender>>

\* resetTimeout passes.
Timeout == Elapse /\ TimePasses /\ UNCHANGED <<up, running, idle, sender>>

SenderStep(s) ==
  \/ Ask(s) \/ Stopped(s) \/ AcquireIdle(s) \/ AcquireNew(s)
  \/ CreateConnection(s) \/ Connect(s) \/ Unconnected(s) \/ SendChunk(s)
  \/ Succeeded(s) \/ Lost(s) \/ Delay(s) \/ Exhausted(s)

Next == \/ \E s \in Senders : SenderStep(s)
        \/ ServerDown \/ ServerUp \/ Stop \/ Timeout

Spec == Init /\ [][Next]_vars

\* acquire comes to an answer: at the latest its deadline ends the wait, however
\* often the pool is empty when the thread looks (ConnectionPool's AcquireReturns).
Acquire(s) == AcquireIdle(s) \/ AcquireNew(s)

\* Threads run and there is always another chunk to try (the backlog is
\* revisited periodically); time passes.
Fairness == /\ \A s \in Senders : WF_vars(SenderStep(s)) /\ SF_vars(Acquire(s))
            /\ WF_vars(Timeout)

FairSpec == Spec /\ Fairness

-----------------------------------------------------------------------------
(* Properties.                                                             *)

\* Every variable stays in its type.
TypeOK ==
  /\ BreakerType
  /\ up \in BOOLEAN /\ running \in BOOLEAN
  /\ fresh \in 0..PoolSize /\ stale \in 0..PoolSize
  /\ pc \in [Senders -> PCs]
  /\ tries \in [Senders -> 0..MaxRetries]
  /\ holds \in [Senders -> {"none", "fresh", "stale"}]

\* A circuit that opened is tried again, although senders already past the
\* breaker keep reporting failures, which restart the timeout.
OpenHeals == state = "OPEN" ~> state # "OPEN" \/ ~running

\* When the server is back for good, chunks get through again, whatever stale
\* connections the pool has and wherever the breaker stood.
SendingResumes ==
  <>[](up /\ running) => []<>(\E s \in Senders : pc[s] \in
                                                  {"stored", "complete", "exists"})

\* Every send comes to its end, so that a worker is not held by one chunk for ever
\* and a stop is not kept waiting: also while the server is away, the circuit open,
\* or the pool taken up by senders that keep a dead connection through their delay.
SendsReturn == \A s \in Senders : []<>(pc[s] = "idle")

=============================================================================
