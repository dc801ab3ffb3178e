--------------------------- MODULE ConnectionPool ---------------------------
(***************************************************************************)
(* The agent's pool of UDT connections (UDTConnectionPool.cpp): sender     *)
(* threads acquire and release connections, a keep-alive thread probes the *)
(* idle ones, and shutdown may come at any time.                           *)
(*                                                                         *)
(* A section under pool_mutex_ is one step.  shutting_down_ and            *)
(* keepAliveInFlight_ are atomics read and written outside it, so those    *)
(* accesses are steps of their own.  Idle connections form a set: their    *)
(* order in the queue decides nothing but which one is handed out.         *)
(***************************************************************************)
EXTENDS Naturals, FiniteSets

CONSTANTS
  Users,      \* sender threads
  Conns,      \* names for connection objects
  MaxSize,    \* max_size_
  CanThrow    \* TRUE: a keep-alive pass may end by an exception

ASSUME PoolAssumption ==
  /\ IsFiniteSet(Conns) /\ IsFiniteSet(Users)
  /\ MaxSize \in Nat \ {0}
  /\ CanThrow \in BOOLEAN
  /\ Users \cap {"free", "pool", "snapshot", "survivor", "lost"} = {}

VARIABLES
  size,       \* current_size_
  owner,      \* who has each connection: "free" is nobody, "pool" the queue,
              \* "snapshot"/"survivor" the keep-alive pass before and after its
              \* probe, "lost" is an object destroyed without being uncounted
  link,       \* the state of its socket
  inFlight,   \* keepAliveInFlight_
  down,       \* shutting_down_
  pc,         \* where each user is
  conn,       \* the connection it holds, or is creating
  expired,    \* the deadline of its acquire has passed
  kpc,        \* where the keep-alive thread is
  spc         \* where shutdown is

pool   == <<size, owner, link>>
user   == <<pc, conn, expired>>
vars   == <<pool, inFlight, down, user, kpc, spc>>

Owners  == {"free", "pool", "snapshot", "survivor", "lost"} \cup Users
Links   == {"open", "broken", "closed"}
UserPCs == {"idle", "enter", "asleep", "slice", "create", "connect", "failed",
            "using", "push", "dead", "fallback"}
KeepPCs == {"sleep", "count", "probe", "uncount", "drop", "done"}
ShutPCs == {"up", "join", "drain", "done"}

Having(o)  == {c \in Conns : owner[c] = o}
Connected(c) == link[c] = "open"

Init ==
  /\ size = 0
  /\ owner = [c \in Conns |-> "free"]
  /\ link = [c \in Conns |-> "closed"]
  /\ inFlight = 0
  /\ down = FALSE
  /\ pc = [a \in Users |-> "idle"]
  /\ conn \in [Users -> Conns]
  /\ expired = [a \in Users |-> FALSE]
  /\ kpc = "sleep"
  /\ spc = "up"

-----------------------------------------------------------------------------

\* A decrement of current_size_ by n, never below zero.
Less(n) == IF size >= n THEN size - n ELSE 0

Goto(a, l) == [pc EXCEPT ![a] = l]

\* The users that a notification can reach.
Waiters(p) == {a \in Users : p[a] \in {"asleep", "slice"}}

\* pool_cv_.notify_one, after the program counters p: any one waiter wakes up,
\* and the keep-alive thread, which waits on the same variable for shutdown
\* only, may be the one.
NotifyOne(p) ==
  \/ /\ Waiters(p) = {} \/ kpc = "sleep"
     /\ pc' = p
  \/ \E b \in Waiters(p) : pc' = [p EXCEPT ![b] = "enter"]

\* notify_all; without the mutex it may miss a thread about to block.
NotifyAll(missed) ==
  pc' = [a \in Users |-> IF a \in Waiters(pc) \ missed THEN "enter" ELSE pc[a]]

-----------------------------------------------------------------------------
(* acquire, by user a.                                                     *)

Acquire(a) ==
  /\ pc[a] = "idle" /\ ~down
  /\ pc' = Goto(a, "enter")
  /\ expired' = [expired EXCEPT ![a] = FALSE]
  /\ UNCHANGED <<pool, inFlight, down, conn, kpc, spc>>

\* The deadline passes.
Expire(a) ==
  /\ pc[a] \in {"enter", "asleep", "slice"} /\ ~expired[a]
  /\ expired' = [expired EXCEPT ![a] = TRUE]
  /\ UNCHANGED <<pool, inFlight, down, pc, conn, kpc, spc>>

\* Mutant of Ready: an off-by-one in the capacity test.
ReadyWhenFull == down \/ Having("pool") # {} \/ size <= MaxSize

\* What acquire waits for.
Ready == down \/ Having("pool") # {} \/ size < MaxSize

\* The top of the loop: wait, give up, or stop for shutdown.
Wait(a) ==
  /\ pc[a] = "enter"
  /\ \/ ~Ready /\ pc' = Goto(a, IF expired[a] THEN "idle" ELSE "asleep")
     \/ down /\ pc' = Goto(a, "idle")
  /\ UNCHANGED <<pool, inFlight, down, conn, expired, kpc, spc>>

\* Mutant of WakeUp: the wait has no deadline.
WakeUpNotified(a) ==
  /\ pc[a] = "slice"
  /\ pc' = Goto(a, "enter")
  /\ UNCHANGED <<pool, inFlight, down, conn, expired, kpc, spc>>

\* wait_for gives up waiting and tests the predicate once more.
WakeUp(a) ==
  /\ \/ pc[a] = "asleep" /\ expired[a]
     \/ pc[a] = "slice"
  /\ pc' = Goto(a, "enter")
  /\ UNCHANGED <<pool, inFlight, down, conn, expired, kpc, spc>>

\* An idle connection that is up is handed out; the ones found dead before it
\* are closed and uncounted.
TakeIdle(a) ==
  /\ pc[a] = "enter" /\ ~down
  /\ \E dead \in SUBSET Having("pool"), c \in Having("pool") :
       /\ \A d \in dead : ~Connected(d)
       /\ Connected(c)
       /\ owner' = [d \in Conns |-> IF d \in dead THEN "free"
                                    ELSE IF d = c THEN a ELSE owner[d]]
       /\ link' = [d \in Conns |-> IF d \in dead THEN "closed" ELSE link[d]]
       /\ size' = Less(Cardinality(dead))
       /\ conn' = [conn EXCEPT ![a] = c]
  /\ pc' = Goto(a, "using")
  /\ UNCHANGED <<inFlight, down, expired, kpc, spc>>

\* No idle connection is up: all are discarded.  While a keep-alive pass holds
\* connections the call waits a little; otherwise it counts a new one, and the
\* last case is the code's "Should not happen if wait logic is correct".  When
\* shutting_down_ is set between its two tests the call discards and stops.
TakeNew(a) ==
  /\ pc[a] = "enter" /\ Ready
  /\ \A c \in Having("pool") : ~Connected(c)
  /\ LET left == Less(Cardinality(Having("pool")))
         kept == [c \in Conns |-> IF owner[c] = "pool" THEN "free" ELSE owner[c]]
     IN \/ /\ down \/ inFlight > 0
           /\ size' = left /\ owner' = kept
           /\ pc' = Goto(a, IF down \/ expired[a] THEN "idle" ELSE "slice")
           /\ UNCHANGED conn
        \/ /\ ~down /\ inFlight = 0
           /\ IF left < MaxSize
              THEN /\ size' = left + 1
                   /\ \E c \in Conns : /\ kept[c] = "free"
                                       /\ owner' = [kept EXCEPT ![c] = a]
                                       /\ conn' = [conn EXCEPT ![a] = c]
                   /\ pc' = Goto(a, "create")
              ELSE /\ size' = left /\ owner' = kept
                   /\ pc' = Goto(a, "fallback")
                   /\ UNCHANGED conn
  /\ link' = [c \in Conns |-> IF owner[c] = "pool" THEN "closed" ELSE link[c]]
  /\ UNCHANGED <<inFlight, down, expired, kpc, spc>>

\* _createConnection: denied by shutdown or by the circuit breaker, or tried.
CreateConnection(a) ==
  /\ pc[a] = "create"
  /\ pc' = Goto(a, "failed") \/ (~down /\ pc' = Goto(a, "connect"))
  /\ UNCHANGED <<pool, inFlight, down, conn, expired, kpc, spc>>

\* The connection and its handshake succeed, or fail.
Connect(a) ==
  /\ pc[a] = "connect"
  /\ \/ /\ link' = [link EXCEPT ![conn[a]] = "open"]
        /\ pc' = Goto(a, "using")
     \/ /\ pc' = Goto(a, "failed")
        /\ UNCHANGED link
  /\ UNCHANGED <<size, owner, inFlight, down, conn, expired, kpc, spc>>

\* Mutant of CreateFailed: the count taken for the attempt is kept.
FailedStaysCounted(a) ==
  /\ pc[a] = "failed"
  /\ owner' = [owner EXCEPT ![conn[a]] = "free"]
  /\ pc' = Goto(a, "idle")
  /\ UNCHANGED <<size, link, inFlight, down, conn, expired, kpc, spc>>

\* Back under the mutex the connection is uncounted.  Nobody is notified.
CreateFailed(a) ==
  /\ pc[a] = "failed"
  /\ size' = Less(1)
  /\ owner' = [owner EXCEPT ![conn[a]] = "free"]
  /\ pc' = Goto(a, "idle")
  /\ UNCHANGED <<link, inFlight, down, conn, expired, kpc, spc>>

-----------------------------------------------------------------------------
(* The wrapper gives the connection back.                                  *)

\* ~PooledUDTConnection, after a use that may have invalidated the connection;
\* a connection that is down, or a pool that is shutting down, means
\* handleDeadConnection.
Release(a) ==
  /\ pc[a] = "using"
  /\ \/ /\ Connected(conn[a]) /\ ~down
        /\ pc' = Goto(a, "push")
        /\ UNCHANGED link
     \/ /\ link' = [link EXCEPT ![conn[a]] = "closed"]
        /\ pc' = Goto(a, "dead")
  /\ UNCHANGED <<size, owner, inFlight, down, conn, expired, kpc, spc>>

\* The locked part of release(), which does not look at shutting_down_ again.
PushBack(a) ==
  /\ pc[a] = "push"
  /\ IF size <= MaxSize
     THEN /\ owner' = [owner EXCEPT ![conn[a]] = "pool"]
          /\ UNCHANGED <<size, link>>
     ELSE /\ owner' = [owner EXCEPT ![conn[a]] = "free"]
          /\ link' = [link EXCEPT ![conn[a]] = "closed"]
          /\ size' = Less(1)
  /\ NotifyOne(Goto(a, "idle"))
  /\ UNCHANGED <<inFlight, down, conn, expired, kpc, spc>>

\* Mutant of HandleDead: the caller had uncounted the connection already.
UncountTwice(a) ==
  /\ pc[a] = "dead"
  /\ size' = Less(2)
  /\ owner' = [owner EXCEPT ![conn[a]] = "free"]
  /\ NotifyOne(Goto(a, "idle"))
  /\ UNCHANGED <<link, inFlight, down, conn, expired, kpc, spc>>

\* The locked part of handleDeadConnection.
HandleDead(a) ==
  /\ pc[a] = "dead"
  /\ size' = Less(1)
  /\ owner' = [owner EXCEPT ![conn[a]] = "free"]
  /\ NotifyOne(Goto(a, "idle"))
  /\ UNCHANGED <<link, inFlight, down, conn, expired, kpc, spc>>

\* The peer closes a connection, or the network drops it.
Break(c) ==
  /\ link[c] = "open"
  /\ link' = [link EXCEPT ![c] = "broken"]
  /\ UNCHANGED <<size, owner, inFlight, down, user, kpc, spc>>

-----------------------------------------------------------------------------
(* The keep-alive thread.                                                  *)

\* Mutant of KeepAlivePass: the loop does not end, only its passes do nothing
\* after shutdown.
LoopForever ==
  /\ kpc = "sleep" /\ ~down /\ Having("pool") # {}
  /\ owner' = [c \in Conns |-> IF owner[c] = "pool" THEN "snapshot"
                                                    ELSE owner[c]]
  /\ kpc' = "count"
  /\ UNCHANGED <<size, link, inFlight, down, user, spc>>

\* keepAliveLoop wakes up: the end of the loop, or a pass over the connections
\* idle now.
KeepAlivePass ==
  /\ kpc = "sleep"
  /\ \/ down /\ kpc' = "done" /\ UNCHANGED owner
     \/ /\ ~down /\ Having("pool") # {}
        /\ owner' = [c \in Conns |-> IF owner[c] = "pool" THEN "snapshot"
                                                          ELSE owner[c]]
        /\ kpc' = "count"
  /\ UNCHANGED <<size, link, inFlight, down, user, spc>>

CountInFlight ==
  /\ kpc = "count"
  /\ inFlight' = inFlight + Cardinality(Having("snapshot"))
  /\ kpc' = "probe"
  /\ UNCHANGED <<pool, down, user, spc>>

\* One connection is probed: it survives, or handleDeadConnection closes it.
Probe(c) ==
  /\ kpc = "probe" /\ owner[c] = "snapshot"
  /\ \/ /\ Connected(c)
        /\ owner' = [owner EXCEPT ![c] = "survivor"]
        /\ UNCHANGED <<size, link, pc>>
     \/ /\ owner' = [owner EXCEPT ![c] = "free"]
        /\ link' = [link EXCEPT ![c] = "closed"]
        /\ size' = Less(1)
        /\ NotifyOne(pc)
  /\ kpc' = "uncount"
  /\ UNCHANGED <<inFlight, down, conn, expired, spc>>

Uncount ==
  /\ kpc = "uncount"
  /\ inFlight' = inFlight - 1
  /\ kpc' = "probe"
  /\ UNCHANGED <<pool, down, user, spc>>

\* Mutant of PassThrows: the whole pass is taken off keepAliveInFlight_.
ThrowUncountsAll ==
  /\ CanThrow /\ kpc = "probe" /\ Having("snapshot") # {}
  /\ LET dropped == Having("snapshot") \cup Having("survivor")
     IN /\ inFlight' = inFlight - Cardinality(dropped)
        /\ owner' = [c \in Conns |-> IF c \in dropped THEN "lost" ELSE owner[c]]
        /\ link' = [c \in Conns |-> IF c \in dropped THEN "closed" ELSE link[c]]
  /\ kpc' = "sleep"
  /\ UNCHANGED <<size, down, user, spc>>

\* An exception: the entries not processed yet are taken off
\* keepAliveInFlight_, and every connection of the pass is destroyed.
PassThrows ==
  /\ CanThrow /\ kpc = "probe" /\ Having("snapshot") # {}
  /\ inFlight' = inFlight - Cardinality(Having("snapshot"))
  /\ LET dropped == Having("snapshot") \cup Having("survivor")
     IN /\ owner' = [c \in Conns |-> IF c \in dropped THEN "lost" ELSE owner[c]]
        /\ link' = [c \in Conns |-> IF c \in dropped THEN "closed" ELSE link[c]]
  /\ kpc' = "sleep"
  /\ UNCHANGED <<size, down, user, spc>>

\* The survivors go back to the queue, or are dropped when shutdown has begun.
ReturnSurvivors ==
  /\ kpc = "probe" /\ Having("snapshot") = {}
  /\ \/ /\ ~down
        /\ owner' = [c \in Conns |-> IF owner[c] = "survivor" THEN "pool"
                                                              ELSE owner[c]]
        /\ NotifyAll({})
        /\ kpc' = "sleep"
     \/ /\ down
        /\ kpc' = "drop"
        /\ UNCHANGED <<owner, pc>>
  /\ UNCHANGED <<size, link, inFlight, down, conn, expired, spc>>

DropSurvivor(c) ==
  /\ kpc = "drop" /\ owner[c] = "survivor"
  /\ owner' = [owner EXCEPT ![c] = "free"]
  /\ link' = [link EXCEPT ![c] = "closed"]
  /\ size' = Less(1)
  /\ NotifyOne(pc)
  /\ UNCHANGED <<inFlight, down, conn, expired, kpc, spc>>

DropDone ==
  /\ kpc = "drop" /\ Having("survivor") = {}
  /\ kpc' = "sleep"
  /\ UNCHANGED <<pool, inFlight, down, user, spc>>

-----------------------------------------------------------------------------
(* shutdown.                                                               *)

Shutdown ==
  /\ spc = "up"
  /\ down' = TRUE
  /\ \E missed \in SUBSET Waiters(pc) : NotifyAll(missed)
  /\ spc' = "join"
  /\ UNCHANGED <<pool, inFlight, conn, expired, kpc>>

Join ==
  /\ spc = "join" /\ kpc = "done"
  /\ spc' = "drain"
  /\ UNCHANGED <<pool, inFlight, down, user, kpc>>

Drain ==
  /\ spc = "drain"
  /\ owner' = [c \in Conns |-> IF owner[c] = "pool" THEN "free" ELSE owner[c]]
  /\ link' = [c \in Conns |-> IF owner[c] = "pool" THEN "closed" ELSE link[c]]
  /\ size' = 0
  /\ spc' = "done"
  /\ UNCHANGED <<inFlight, down, user, kpc>>

-----------------------------------------------------------------------------

\* What a user does on its own once it has called acquire or let go.
UserStep(a) ==
  \/ Wait(a) \/ WakeUp(a) \/ TakeIdle(a) \/ TakeNew(a) \/ CreateConnection(a)
  \/ Connect(a) \/ CreateFailed(a) \/ PushBack(a) \/ HandleDead(a)

KeepAliveStep ==
  \/ KeepAlivePass \/ CountInFlight \/ Uncount \/ PassThrows \/ ReturnSurvivors
  \/ DropDone
  \/ \E c \in Conns : Probe(c) \/ DropSurvivor(c)

Next ==
  \/ \E a \in Users : Acquire(a) \/ Expire(a) \/ UserStep(a) \/ Release(a)
  \/ \E c \in Conns : Break(c)
  \/ KeepAliveStep
  \/ Shutdown \/ Join \/ Drain

Spec == Init /\ [][Next]_vars

\* Threads run, connection attempts and probes end by their socket timeouts,
\* deadlines pass; users need not call acquire, nor release what they hold.
Fairness ==
  /\ \A a \in Users : WF_vars(UserStep(a)) /\ WF_vars(Expire(a))
  /\ WF_vars(KeepAliveStep)
  /\ WF_vars(Join) /\ WF_vars(Drain)

FairSpec == Spec /\ Fairness

-----------------------------------------------------------------------------
(* Properties.                                                             *)

\* Every variable stays in its type; the unsigned counters in particular never
\* wrap below zero.
TypeOK ==
  /\ size \in Nat
  /\ owner \in [Conns -> Owners]
  /\ link \in [Conns -> Links]
  /\ inFlight \in Nat
  /\ down \in BOOLEAN
  /\ pc \in [Users -> UserPCs]
  /\ conn \in [Users -> Conns]
  /\ expired \in [Users -> BOOLEAN]
  /\ kpc \in KeepPCs
  /\ spc \in ShutPCs

Counted == {c \in Conns : owner[c] # "free"}

\* current_size_ is exactly the number of connections in the queue, in use,
\* being created or in the hands of the keep-alive pass (plus those an exception
\* lost), until shutdown resets it: no path counts one twice or forgets one.
SizeExact == spc # "done" => size = Cardinality(Counted)

\* There are never more connections than max_size_, shutdown included.
PoolBound == Cardinality(Counted) <= MaxSize

\* acquire never gets to its "Should not happen" branch.
FallbackUnreachable == \A a \in Users : pc[a] # "fallback"

\* Every acquire returns: with a connection, or empty-handed.
AcquireReturns ==
  \A a \in Users : pc[a] = "enter" ~> pc[a] \in {"idle", "using"}

\* shutdown gets past the join of the keep-alive thread.
ShutdownCompletes == down ~> spc = "done"

=============================================================================
