----------------------- MODULE ConnectionPoolProofs -----------------------
(***************************************************************************)
(* The accounting of ConnectionPool is exact for any number of users and   *)
(* connections, with keep-alive, exceptions and shutdown in any order.     *)
(***************************************************************************)
EXTENDS ConnectionPool, FiniteSetTheorems, TLAPS

Holding == {"create", "connect", "failed", "using", "push", "dead"}

\* A user between taking a connection and giving it back owns it, and owns no
\* other: this is why each decrement of current_size_ has one connection.
OwnInv ==
  \A a \in Users :
    /\ pc[a] \in Holding => owner[conn[a]] = a
    /\ \A c \in Conns : owner[c] = a => pc[a] \in Holding /\ conn[a] = c

\* keepAliveInFlight_ is what the pass has still to probe or to take off.
FlightInv ==
  inFlight = CASE kpc = "probe"   -> Cardinality(Having("snapshot"))
               [] kpc = "uncount" -> Cardinality(Having("snapshot")) + 1
               [] OTHER           -> 0

DownInv == down = (spc # "up")

PoolInv ==
  TypeOK /\ OwnInv /\ FlightInv /\ DownInv
  /\ SizeExact /\ PoolBound /\ FallbackUnreachable

-----------------------------------------------------------------------------
(* Counting.                                                               *)

LEMMA Finite ==
  /\ IsFiniteSet(Counted) /\ Cardinality(Counted) \in Nat
  /\ \A o : IsFiniteSet(Having(o)) /\ Cardinality(Having(o)) \in Nat
<1>1. ASSUME NEW S \in SUBSET Conns
      PROVE  IsFiniteSet(S) /\ Cardinality(S) \in Nat
  BY PoolAssumption, FS_Subset, FS_CardinalityType
<1> QED BY <1>1 DEF Counted, Having

LEMMA FinitePrimed ==
  /\ IsFiniteSet(Counted') /\ Cardinality(Counted)' \in Nat
  /\ \A o : IsFiniteSet(Having(o)') /\ Cardinality(Having(o))' \in Nat
<1>1. ASSUME NEW S \in SUBSET Conns
      PROVE  IsFiniteSet(S) /\ Cardinality(S) \in Nat
  BY PoolAssumption, FS_Subset, FS_CardinalityType
<1> QED BY <1>1 DEF Counted, Having

\* Connections leave and current_size_ drops by as many.
LEMMA Shrink ==
  ASSUME SizeExact, PoolBound, size \in Nat, NEW D \in SUBSET Counted,
         Counted' = Counted \ D, size' = Less(Cardinality(D)), spc' = spc
  PROVE  SizeExact' /\ PoolBound' /\ size' \in Nat
<1>1. /\ Cardinality(Counted \ D) = Cardinality(Counted) - Cardinality(D)
      /\ Cardinality(D) \in Nat /\ Cardinality(D) <= Cardinality(Counted)
  <2>1. Counted \cap D = D
    OBVIOUS
  <2> QED BY <2>1, Finite, FS_Difference, FS_Subset, FS_CardinalityType
<1>2. Cardinality(Counted)' = Cardinality(Counted) - Cardinality(D)
  BY <1>1
<1> QED BY <1>1, <1>2, Finite, PoolAssumption DEF SizeExact, PoolBound, Less

LEMMA ShrinkOne ==
  ASSUME SizeExact, PoolBound, size \in Nat, NEW d \in Counted,
         Counted' = Counted \ {d}, size' = Less(1), spc' = spc
  PROVE  SizeExact' /\ PoolBound' /\ size' \in Nat
<1>1. Cardinality({d}) = 1 /\ {d} \in SUBSET Counted
  BY FS_Singleton
<1>2. size' = Less(Cardinality({d}))
  BY <1>1
<1> QED BY <1>1, <1>2, Shrink

\* One connection is counted while there is room.
LEMMA Grow ==
  ASSUME SizeExact, NEW S \in SUBSET Counted, NEW d \in Conns \ S,
         Counted' = S \cup {d}, size' = Cardinality(S) + 1,
         Cardinality(S) < MaxSize
  PROVE  SizeExact' /\ PoolBound' /\ size' \in Nat
<1>1. IsFiniteSet(S) /\ Cardinality(S) \in Nat
  BY Finite, FS_Subset, FS_CardinalityType
<1>2. Cardinality(Counted)' = Cardinality(S) + 1
  BY <1>1, FS_AddElement
<1> QED BY <1>1, <1>2, PoolAssumption DEF SizeExact, PoolBound

LEMMA Still ==
  ASSUME SizeExact, PoolBound, Counted' = Counted, size' = size, spc' = spc
  PROVE  SizeExact' /\ PoolBound'
  BY DEF SizeExact, PoolBound

-----------------------------------------------------------------------------
(* Waking up.                                                              *)

\* From the program counters p, some waiters may have been woken up.
Woken(p) ==
  /\ pc' \in [Users -> UserPCs]
  /\ \A b \in Users : \/ pc'[b] = p[b]
                      \/ p[b] \in {"asleep", "slice"} /\ pc'[b] = "enter"

LEMMA NotifyOneWakes ==
  ASSUME NEW p \in [Users -> UserPCs], NotifyOne(p) PROVE Woken(p)
  BY DEF NotifyOne, Waiters, Woken, UserPCs

LEMMA NotifyAllWakes ==
  ASSUME TypeOK, NEW m, NotifyAll(m) PROVE Woken(pc)
  BY DEF NotifyAll, Waiters, Woken, UserPCs, TypeOK

-----------------------------------------------------------------------------
(* The steps that move no connection.                                      *)

\* Nothing the accounting depends on changes.
LEMMA Quiet ==
  ASSUME PoolInv, UNCHANGED <<size, owner, conn, inFlight, down, kpc, spc>>,
         pc' \in [Users -> UserPCs], link' \in [Conns -> Links],
         expired' \in [Users -> BOOLEAN],
         \A b \in Users : /\ pc'[b] \in Holding <=> pc[b] \in Holding
                          /\ pc'[b] # "fallback"
  PROVE  PoolInv'
<1>1. TypeOK' /\ OwnInv' /\ DownInv' /\ FallbackUnreachable'
  BY DEF PoolInv, TypeOK, OwnInv, DownInv, FallbackUnreachable
<1>2. FlightInv'
  BY DEF PoolInv, FlightInv, Having
<1>3. SizeExact' /\ PoolBound'
  BY Still DEF PoolInv, Counted
<1> QED BY <1>1, <1>2, <1>3 DEF PoolInv

LEMMA QuietSteps ==
  ASSUME PoolInv, NEW a \in Users,
         \/ Acquire(a) \/ Expire(a) \/ Wait(a) \/ WakeUp(a)
         \/ CreateConnection(a) \/ Connect(a) \/ Release(a)
  PROVE  PoolInv'
<1> USE DEF pool, Goto, Holding, UserPCs, Links
<1>1. CASE Acquire(a)
  BY <1>1, Quiet DEF Acquire, PoolInv, TypeOK, FallbackUnreachable
<1>2. CASE Expire(a)
  BY <1>2, Quiet DEF Expire, PoolInv, TypeOK, FallbackUnreachable
<1>3. CASE Wait(a)
  BY <1>3, Quiet DEF Wait, PoolInv, TypeOK, FallbackUnreachable
<1>4. CASE WakeUp(a)
  BY <1>4, Quiet DEF WakeUp, PoolInv, TypeOK, FallbackUnreachable
<1>5. CASE CreateConnection(a)
  BY <1>5, Quiet DEF CreateConnection, PoolInv, TypeOK, FallbackUnreachable
<1>6. CASE Connect(a)
  BY <1>6, Quiet DEF Connect, PoolInv, TypeOK, FallbackUnreachable
<1>7. CASE Release(a)
  BY <1>7, Quiet DEF Release, PoolInv, TypeOK, FallbackUnreachable
<1> QED BY <1>1, <1>2, <1>3, <1>4, <1>5, <1>6, <1>7

LEMMA BreakStep ==
  ASSUME PoolInv, NEW c \in Conns, Break(c) PROVE PoolInv'
  BY Quiet DEF Break, user, Links, PoolInv, TypeOK, FallbackUnreachable

-----------------------------------------------------------------------------
(* A user gives its connection up.                                         *)

LEMMA NotPlaces ==
  \A a \in Users : a \notin {"free", "pool", "snapshot", "survivor", "lost"}
  BY PoolAssumption

\* A user that owns its connection hands it over to place o ("free" or "pool"),
\* and others may wake up.
LEMMA HandOver ==
  ASSUME PoolInv, NEW a \in Users, pc[a] \in Holding, NEW o \in {"free", "pool"},
         owner' = [owner EXCEPT ![conn[a]] = o], link' \in [Conns -> Links],
         Woken(Goto(a, "idle")),
         UNCHANGED <<inFlight, down, conn, expired, kpc, spc>>,
         IF o = "free" THEN size' = Less(1) ELSE size' = size
  PROVE  PoolInv'
<1> DEFINE d == conn[a]
<1>1. d \in Conns /\ owner[d] = a /\ a # "free" /\ a # "snapshot" /\ d \in Counted
  BY NotPlaces DEF PoolInv, TypeOK, OwnInv, Counted
<1>2. SizeExact' /\ PoolBound' /\ size' \in Nat
  <2>1. CASE o = "free"
    <3>1. Counted' = Counted \ {d}
      BY <1>1, <2>1 DEF Counted, PoolInv, TypeOK
    <3> QED BY <1>1, <2>1, <3>1, ShrinkOne DEF PoolInv, TypeOK
  <2>2. CASE o = "pool"
    <3>1. Counted' = Counted
      BY <1>1, <2>2 DEF Counted, PoolInv, TypeOK
    <3> QED BY <2>2, <3>1, Still DEF PoolInv, TypeOK
  <2> QED BY <2>1, <2>2
<1>3. TypeOK'
  BY <1>2 DEF PoolInv, TypeOK, Woken, Owners
<1>4. OwnInv'
  <2> SUFFICES ASSUME NEW b \in Users
               PROVE  /\ pc'[b] \in Holding => owner'[conn[b]] = b
                      /\ \A c \in Conns : owner'[c] = b =>
                                            pc'[b] \in Holding /\ conn[b] = c
    BY DEF OwnInv
  <2>1. /\ b = a => pc'[b] \notin Holding
        /\ b # a => (pc'[b] \in Holding <=> pc[b] \in Holding)
    BY DEF Woken, Goto, Holding, PoolInv, TypeOK
  <2>2. \A c \in Conns : owner'[c] = IF c = d THEN o ELSE owner[c]
    BY <1>1 DEF PoolInv, TypeOK
  <2>3. b # "free" /\ b # "pool"
    BY NotPlaces
  <2> QED BY <1>1, <2>1, <2>2, <2>3 DEF OwnInv, PoolInv, TypeOK
<1>5. Having("snapshot")' = Having("snapshot")
  BY <1>1 DEF Having, PoolInv, TypeOK
<1>6. FlightInv' /\ DownInv'
  BY <1>5 DEF FlightInv, DownInv, PoolInv
<1>7. FallbackUnreachable'
  BY DEF FallbackUnreachable, Woken, Goto, PoolInv, TypeOK
<1> QED BY <1>2, <1>3, <1>4, <1>6, <1>7 DEF PoolInv

LEMMA HandOverSteps ==
  ASSUME PoolInv, NEW a \in Users,
         CreateFailed(a) \/ PushBack(a) \/ HandleDead(a)
  PROVE  PoolInv'
<1>1. TypeOK /\ Goto(a, "idle") \in [Users -> UserPCs]
  BY DEF PoolInv, TypeOK, Goto, UserPCs
<1>2. CASE CreateFailed(a)
  <2>1. Woken(Goto(a, "idle"))
    BY <1>1, <1>2 DEF Woken, CreateFailed
  <2> QED BY <1>1, <1>2, <2>1, HandOver DEF CreateFailed, Holding, TypeOK
<1>3. CASE PushBack(a)
  <2>1. Woken(Goto(a, "idle"))
    BY <1>1, <1>3, NotifyOneWakes DEF PushBack
  <2>2. link' \in [Conns -> Links]
    BY <1>1, <1>3 DEF PushBack, TypeOK, Links
  <2> QED BY <1>3, <2>1, <2>2, HandOver DEF PushBack, Holding
<1>4. CASE HandleDead(a)
  <2>1. Woken(Goto(a, "idle"))
    BY <1>1, <1>4, NotifyOneWakes DEF HandleDead
  <2> QED BY <1>1, <1>4, <2>1, HandOver DEF HandleDead, Holding, TypeOK
<1> QED BY <1>2, <1>3, <1>4

-----------------------------------------------------------------------------
(* A user takes a connection.                                              *)

\* User a, which owned nothing, comes to hold connection c; the connections D
\* of the pool are discarded.
LEMMA TakeOne ==
  ASSUME PoolInv, NEW a \in Users, pc[a] = "enter",
         NEW l \in Holding, NEW c \in Conns, owner[c] \in {"free", "pool"},
         NEW D \in SUBSET Having("pool"), 
         owner' = [d \in Conns |-> IF d = c THEN a
                                   ELSE IF d \in D THEN "free" ELSE owner[d]],
         conn' = [conn EXCEPT ![a] = c], pc' = Goto(a, l)
  PROVE  OwnInv' /\ Having("snapshot")' = Having("snapshot")
<1>1. Having("snapshot")' = Having("snapshot")
  BY NotPlaces DEF Having, PoolInv, TypeOK
<1>2. OwnInv'
  <2> SUFFICES ASSUME NEW b \in Users
               PROVE  /\ pc'[b] \in Holding => owner'[conn'[b]] = b
                      /\ \A d \in Conns : owner'[d] = b =>
                                            pc'[b] \in Holding /\ conn'[b] = d
    BY DEF OwnInv
  <2>1. \A d \in Conns : owner[d] # a
    BY DEF PoolInv, OwnInv, Holding
  <2>2. b # "free" /\ b # "pool"
    BY NotPlaces
  <2>3. CASE b = a
    <3>1. pc'[a] = l /\ conn'[a] = c
      BY DEF Goto, PoolInv, TypeOK
    <3> QED BY <2>1, <2>2, <2>3, <3>1 DEF Having
  <2>4. CASE b # a
    <3>1. pc'[b] = pc[b] /\ conn'[b] = conn[b] /\ conn[b] \in Conns
      BY <2>4 DEF Goto, PoolInv, TypeOK
    <3> QED BY <2>2, <2>4, <3>1 DEF Having, PoolInv, OwnInv
  <2> QED BY <2>3, <2>4
<1> QED BY <1>1, <1>2

LEMMA TakeIdleStep ==
  ASSUME PoolInv, NEW a \in Users, TakeIdle(a) PROVE PoolInv'
<1>1. PICK D \in SUBSET Having("pool"), c \in Having("pool") :
        /\ \A d \in D : ~Connected(d)
        /\ Connected(c)
        /\ owner' = [d \in Conns |-> IF d \in D THEN "free"
                                     ELSE IF d = c THEN a ELSE owner[d]]
        /\ link' = [d \in Conns |-> IF d \in D THEN "closed" ELSE link[d]]
        /\ size' = Less(Cardinality(D))
        /\ conn' = [conn EXCEPT ![a] = c]
  BY DEF TakeIdle
<1>2. c \in Conns /\ c \notin D /\ owner[c] = "pool" /\ D \subseteq Counted
  BY <1>1 DEF Having, Counted
<1>3. pc[a] = "enter" /\ pc' = Goto(a, "using")
      /\ UNCHANGED <<inFlight, down, expired, kpc, spc>>
  BY DEF TakeIdle
<1>4. OwnInv' /\ Having("snapshot")' = Having("snapshot")
  <2>1. owner' = [d \in Conns |-> IF d = c THEN a
                                  ELSE IF d \in D THEN "free" ELSE owner[d]]
    BY <1>1, <1>2
  <2>2. "using" \in Holding /\ owner[c] \in {"free", "pool"}
    BY <1>2 DEF Holding
  <2> QED BY <1>1, <1>2, <1>3, <2>1, <2>2, TakeOne
<1>5. SizeExact' /\ PoolBound' /\ size' \in Nat
  <2>1. Counted' = Counted \ D
    BY <1>1, <1>2, NotPlaces DEF Counted
  <2> QED BY <1>1, <1>2, <1>3, <2>1, Shrink DEF PoolInv, TypeOK
<1>6. TypeOK'
  BY <1>1, <1>2, <1>3, <1>5 DEF PoolInv, TypeOK, Goto, UserPCs, Owners, Links
<1>7. FlightInv' /\ DownInv'
  BY <1>3, <1>4 DEF FlightInv, DownInv, PoolInv
<1>8. FallbackUnreachable'
  BY <1>3 DEF FallbackUnreachable, Goto, PoolInv, TypeOK
<1> QED BY <1>4, <1>5, <1>6, <1>7, <1>8 DEF PoolInv

LEMMA TakeNewStep ==
  ASSUME PoolInv, NEW a \in Users, TakeNew(a) PROVE PoolInv'
<1> DEFINE P == Having("pool")
           left == Less(Cardinality(P))
           kept == [c \in Conns |-> IF owner[c] = "pool" THEN "free" ELSE owner[c]]
<1>1. /\ pc[a] = "enter" /\ Ready
      /\ link' = [c \in Conns |-> IF owner[c] = "pool" THEN "closed" ELSE link[c]]
      /\ UNCHANGED <<inFlight, down, expired, kpc, spc>>
  BY DEF TakeNew
<1>2. P \in SUBSET Counted /\ IsFiniteSet(P) /\ Cardinality(P) \in Nat
  BY Finite DEF Having, Counted
<1>3. left \in Nat
  BY <1>2 DEF Less, PoolInv, TypeOK
<1>4. ASSUME size' = left, owner' = kept, conn' = conn,
             NEW l \in {"idle", "slice"}, pc' = Goto(a, l)
      PROVE  PoolInv'
  <2>1. Counted' = Counted \ P
    BY <1>4 DEF Counted, Having
  <2>2. SizeExact' /\ PoolBound'
    BY <1>1, <1>2, <1>4, <2>1, Shrink DEF PoolInv, TypeOK
  <2>3. TypeOK' /\ FallbackUnreachable'
    BY <1>1, <1>3, <1>4 DEF PoolInv, TypeOK, FallbackUnreachable, Goto, UserPCs,
                            Owners, Links
  <2>4. OwnInv'
    BY <1>1, <1>4, NotPlaces DEF OwnInv, PoolInv, TypeOK, Goto, Holding
  <2>5. Having("snapshot")' = Having("snapshot")
    BY <1>4 DEF Having
  <2>6. FlightInv' /\ DownInv'
    BY <1>1, <2>5 DEF FlightInv, DownInv, PoolInv
  <2> QED BY <2>2, <2>3, <2>4, <2>6 DEF PoolInv
<1>5. CASE down \/ inFlight > 0
  <2>1. CASE size' = left /\ owner' = kept /\ UNCHANGED conn
             /\ pc' = Goto(a, IF down \/ expired[a] THEN "idle" ELSE "slice")
    BY <1>4, <2>1
  <2>2. CASE ~down /\ inFlight = 0
    BY <1>5, <2>2
  <2> QED BY <2>1, <2>2 DEF TakeNew
<1>6. CASE ~down /\ ~(inFlight > 0)
  <2>1. spc # "done" /\ size = Cardinality(Counted) /\ size <= MaxSize
    BY <1>6 DEF PoolInv, DownInv, SizeExact, PoolBound
  <2>2. left = Cardinality(Counted \ P) /\ left < MaxSize
    <3>1. Counted \cap P = P
      BY <1>2
    <3>2. /\ Cardinality(Counted \ P) = Cardinality(Counted) - Cardinality(P)
          /\ Cardinality(P) <= Cardinality(Counted)
          /\ Cardinality(P) = 0 <=> P = {}
      <4>1. Cardinality(Counted \ P) = Cardinality(Counted) - Cardinality(P)
        BY <3>1, Finite, FS_Difference
      <4>2. Cardinality(P) <= Cardinality(Counted)
        BY <1>2, Finite, FS_Subset
      <4>3. Cardinality(P) = 0 <=> P = {}
        BY <1>2, FS_EmptySet
      <4> QED BY <4>1, <4>2, <4>3
    <3> QED BY <1>1, <1>2, <1>6, <2>1, <3>2, Finite, PoolAssumption
            DEF Less, Ready
  <2>3. PICK c \in Conns : /\ kept[c] = "free"
                           /\ owner' = [kept EXCEPT ![c] = a]
                           /\ conn' = [conn EXCEPT ![a] = c]
    BY <1>6, <2>2 DEF TakeNew
  <2>4. size' = left + 1 /\ pc' = Goto(a, "create")
    BY <1>6, <2>2 DEF TakeNew
  <2>5. owner[c] \in {"free", "pool"}
    BY <2>3
  <2>6. owner' = [d \in Conns |-> IF d = c THEN a
                                  ELSE IF d \in P THEN "free" ELSE owner[d]]
    BY <2>3 DEF Having
  <2>7. OwnInv' /\ Having("snapshot")' = Having("snapshot")
    <3>1. "create" \in Holding /\ P \in SUBSET Having("pool")
      BY DEF Holding
    <3>2. conn' = [conn EXCEPT ![a] = c] /\ pc[a] = "enter"
          /\ pc' = Goto(a, "create")
      BY <1>1, <2>3, <2>4
    <3> HIDE DEF P, left, kept
    <3> QED BY <2>5, <2>6, <3>1, <3>2, TakeOne
  <2>8. SizeExact' /\ PoolBound' /\ size' \in Nat
    <3>1. Counted' = (Counted \ P) \cup {c}
      BY <2>5, <2>6, NotPlaces DEF Counted, Having
    <3>2. c \notin Counted \ P
      BY <2>5 DEF Counted, Having
    <3> QED BY <2>2, <2>4, <3>1, <3>2, Grow DEF PoolInv
  <2>9. TypeOK' /\ FallbackUnreachable'
    BY <1>1, <2>3, <2>4, <2>6, <2>8 DEF PoolInv, TypeOK, FallbackUnreachable,
                                        Goto, UserPCs, Owners, Links
  <2>10. FlightInv' /\ DownInv'
    BY <1>1, <2>7 DEF FlightInv, DownInv, PoolInv
  <2> QED BY <2>7, <2>8, <2>9, <2>10 DEF PoolInv
<1> QED BY <1>5, <1>6

-----------------------------------------------------------------------------
(* The keep-alive thread and shutdown.                                     *)

\* A step that touches no user's connection keeps who holds what.
LEMMA OthersOwn ==
  ASSUME PoolInv, Woken(pc), conn' = conn,
         \A c \in Conns : owner[c] \in Users \/ owner'[c] \in Users
                            => owner'[c] = owner[c]
  PROVE  OwnInv' /\ FallbackUnreachable'
<1>1. \A b \in Users : /\ pc'[b] \in Holding <=> pc[b] \in Holding
                       /\ pc'[b] # "fallback"
  BY DEF Woken, Holding, PoolInv, TypeOK, FallbackUnreachable
<1>2. \A b \in Users, c \in Conns : owner'[c] = b <=> owner[c] = b
  OBVIOUS
<1> QED BY <1>1, <1>2 DEF OwnInv, FallbackUnreachable, PoolInv, TypeOK

\* One connection of place o is closed and uncounted by handleDeadConnection.
LEMMA Discard ==
  ASSUME PoolInv, NEW c \in Conns, owner[c] \in {"snapshot", "survivor"},
         owner' = [owner EXCEPT ![c] = "free"],
         link' = [link EXCEPT ![c] = "closed"],
         size' = Less(1), NotifyOne(pc), spc' = spc,
         UNCHANGED <<inFlight, down, conn, expired>>, kpc' \in KeepPCs
  PROVE  TypeOK' /\ OwnInv' /\ FallbackUnreachable' /\ DownInv'
         /\ SizeExact' /\ PoolBound'
<1>1. Woken(pc)
  BY NotifyOneWakes DEF PoolInv, TypeOK
<1>2. c \in Counted /\ Counted' = Counted \ {c}
  BY DEF Counted, PoolInv, TypeOK
<1>3. SizeExact' /\ PoolBound' /\ size' \in Nat
  BY <1>2, ShrinkOne DEF PoolInv, TypeOK
<1>4. OwnInv' /\ FallbackUnreachable'
  BY <1>1, OthersOwn, NotPlaces DEF PoolInv, TypeOK
<1>5. TypeOK' /\ DownInv'
  BY <1>1, <1>3 DEF Woken, PoolInv, TypeOK, DownInv, Owners, Links
<1> QED BY <1>3, <1>4, <1>5

LEMMA ProbeStep ==
  ASSUME PoolInv, NEW c \in Conns, Probe(c) PROVE PoolInv'
<1>1. /\ kpc = "probe" /\ kpc' = "uncount" /\ owner[c] = "snapshot"
      /\ UNCHANGED <<inFlight, down, conn, expired, spc>>
  BY DEF Probe
<1>2. inFlight = Cardinality(Having("snapshot")) /\ c \in Having("snapshot")
  BY <1>1 DEF PoolInv, FlightInv, Having
<1>3. ASSUME Having("snapshot")' = Having("snapshot") \ {c} PROVE FlightInv'
  <2>1. Cardinality(Having("snapshot") \ {c}) = Cardinality(Having("snapshot")) - 1
    BY <1>2, Finite, FS_RemoveElement
  <2>2. Cardinality(Having("snapshot")) \in Nat
    BY Finite
  <2>3. Cardinality(Having("snapshot"))' = Cardinality(Having("snapshot")) - 1
    BY <1>3, <2>1
  <2>4. inFlight' = Cardinality(Having("snapshot"))' + 1
    BY <1>1, <1>2, <2>2, <2>3
  <2> QED BY <1>1, <2>4 DEF FlightInv
<1>4. CASE UNCHANGED <<size, link, pc>>
           /\ owner' = [owner EXCEPT ![c] = "survivor"]
  <2>1. Having("snapshot")' = Having("snapshot") \ {c} /\ Counted' = Counted
    BY <1>1, <1>4 DEF Having, Counted, PoolInv, TypeOK
  <2>2. SizeExact' /\ PoolBound'
    BY <1>1, <1>4, <2>1, Still DEF PoolInv
  <2>3. OwnInv' /\ FallbackUnreachable'
    BY <1>1, <1>4, OthersOwn, NotPlaces DEF Woken, PoolInv, TypeOK
  <2>4. TypeOK' /\ DownInv'
    BY <1>1, <1>4 DEF PoolInv, TypeOK, DownInv, Owners, KeepPCs
  <2> QED BY <1>3, <2>1, <2>2, <2>3, <2>4 DEF PoolInv
<1>5. CASE /\ owner' = [owner EXCEPT ![c] = "free"]
           /\ link' = [link EXCEPT ![c] = "closed"]
           /\ size' = Less(1)
           /\ NotifyOne(pc)
  <2>1. Having("snapshot")' = Having("snapshot") \ {c}
    BY <1>1, <1>5 DEF Having, PoolInv, TypeOK
  <2>2. owner[c] \in {"snapshot", "survivor"} /\ kpc' \in KeepPCs
    BY <1>1 DEF KeepPCs
  <2> QED BY <1>1, <1>3, <1>5, <2>1, <2>2, Discard DEF PoolInv
<1> QED BY <1>4, <1>5 DEF Probe

LEMMA DropSurvivorStep ==
  ASSUME PoolInv, NEW c \in Conns, DropSurvivor(c) PROVE PoolInv'
<1>1. kpc = "drop" /\ owner[c] = "survivor"
      /\ UNCHANGED <<inFlight, down, conn, expired, kpc, spc>>
      /\ owner' = [owner EXCEPT ![c] = "free"]
      /\ link' = [link EXCEPT ![c] = "closed"]
      /\ size' = Less(1) /\ NotifyOne(pc)
  BY DEF DropSurvivor
<1>2. owner[c] \in {"snapshot", "survivor"} /\ kpc' \in KeepPCs
  BY <1>1 DEF KeepPCs
<1>3. FlightInv'
  BY <1>1 DEF FlightInv, PoolInv
<1> QED BY <1>1, <1>2, <1>3, Discard DEF PoolInv

\* The rest of keepAliveLoop and of its pass.
LEMMA KeepAliveSteps ==
  ASSUME PoolInv,
         \/ KeepAlivePass \/ CountInFlight \/ Uncount \/ PassThrows
         \/ ReturnSurvivors \/ DropDone
  PROVE  PoolInv'
<1>1. ASSUME UNCHANGED <<size, down, conn, expired, spc>>, Woken(pc),
             kpc' \in KeepPCs, inFlight' \in Nat, link' \in [Conns -> Links],
             owner' \in [Conns -> Owners],
             \A c \in Conns : owner'[c] # owner[c] =>
                /\ owner[c] \in {"pool", "snapshot", "survivor"}
                /\ owner'[c] \in {"pool", "snapshot", "survivor", "lost"}
      PROVE  /\ TypeOK' /\ OwnInv' /\ DownInv' /\ SizeExact' /\ PoolBound'
             /\ FallbackUnreachable'
  <2>1. OwnInv' /\ FallbackUnreachable'
    BY <1>1, OthersOwn, NotPlaces
  <2>2. Counted' = Counted
    BY <1>1 DEF Counted
  <2>3. SizeExact' /\ PoolBound'
    BY <1>1, <2>2, Still DEF PoolInv
  <2>4. TypeOK' /\ DownInv'
    BY <1>1 DEF Woken, PoolInv, TypeOK, DownInv
  <2> QED BY <2>1, <2>3, <2>4
<1>2. pc' = pc => Woken(pc)
  BY DEF Woken, PoolInv, TypeOK
<1> USE DEF pool, user, KeepPCs, Owners, Links
<1>3. CASE KeepAlivePass
  <2>1. FlightInv'
    BY <1>3 DEF KeepAlivePass, FlightInv, PoolInv
  <2> QED BY <1>1, <1>2, <1>3, <2>1 DEF KeepAlivePass, PoolInv, TypeOK
<1>4. CASE CountInFlight
  <2>1. FlightInv' /\ inFlight' \in Nat
    BY <1>4, Finite DEF CountInFlight, FlightInv, PoolInv, Having
  <2> QED BY <1>1, <1>2, <1>4, <2>1 DEF CountInFlight, PoolInv, TypeOK
<1>5. CASE Uncount
  <2>1. FlightInv' /\ inFlight' \in Nat
    BY <1>5, Finite DEF Uncount, FlightInv, PoolInv, Having
  <2> QED BY <1>1, <1>2, <1>5, <2>1 DEF Uncount, PoolInv, TypeOK
<1>6. CASE PassThrows
  <2>1. FlightInv' /\ inFlight' = 0
    BY <1>6, Finite DEF PassThrows, FlightInv, PoolInv
  <2> QED BY <1>1, <1>2, <1>6, <2>1 DEF PassThrows, PoolInv, TypeOK, Having
<1>7. CASE ReturnSurvivors
  <2>1. Woken(pc)
    BY <1>2, <1>7, NotifyAllWakes DEF ReturnSurvivors, PoolInv
  <2>2. FlightInv'
    BY <1>7, FS_EmptySet DEF ReturnSurvivors, FlightInv, PoolInv
  <2> QED BY <1>1, <1>7, <2>1, <2>2 DEF ReturnSurvivors, PoolInv, TypeOK
<1>8. CASE DropDone
  <2>1. FlightInv'
    BY <1>8 DEF DropDone, FlightInv, PoolInv
  <2> QED BY <1>1, <1>2, <1>8, <2>1 DEF DropDone, PoolInv, TypeOK
<1> QED BY <1>3, <1>4, <1>5, <1>6, <1>7, <1>8

LEMMA ShutdownSteps ==
  ASSUME PoolInv, Shutdown \/ Join \/ Drain PROVE PoolInv'
<1>1. CASE Shutdown
  <2>1. Woken(pc)
    BY <1>1, NotifyAllWakes DEF Shutdown, PoolInv
  <2>2. OwnInv' /\ FallbackUnreachable'
    BY <1>1, <2>1, OthersOwn DEF Shutdown, pool
  <2>3. TypeOK' /\ DownInv'
    BY <1>1, <2>1 DEF Shutdown, pool, Woken, PoolInv, TypeOK, DownInv, ShutPCs
  <2>4. FlightInv' /\ SizeExact' /\ PoolBound'
    BY <1>1 DEF Shutdown, pool, FlightInv, Having, SizeExact, PoolBound, Counted,
                PoolInv
  <2> QED BY <2>2, <2>3, <2>4 DEF PoolInv
<1>2. CASE Join
  <2>1. OwnInv' /\ FallbackUnreachable' /\ TypeOK' /\ DownInv'
    BY <1>2 DEF Join, pool, user, PoolInv, TypeOK, OwnInv, DownInv, ShutPCs,
                FallbackUnreachable
  <2>2. FlightInv' /\ SizeExact' /\ PoolBound'
    BY <1>2 DEF Join, pool, FlightInv, Having, SizeExact, PoolBound, Counted,
                PoolInv
  <2> QED BY <2>1, <2>2 DEF PoolInv
<1>3. CASE Drain
  <2>1. Woken(pc)
    BY <1>3 DEF Drain, user, Woken, PoolInv, TypeOK
  <2>2. OwnInv' /\ FallbackUnreachable'
    BY <1>3, <2>1, OthersOwn, NotPlaces DEF Drain, user
  <2>3. TypeOK' /\ DownInv' /\ SizeExact'
    BY <1>3 DEF Drain, user, PoolInv, TypeOK, DownInv, ShutPCs, Owners, Links,
                SizeExact
  <2>4. Counted' \in SUBSET Counted
    BY <1>3 DEF Drain, Counted
  <2>5. PoolBound'
    <3>1. Cardinality(Counted)' <= Cardinality(Counted)
      BY <2>4, Finite, FS_Subset
    <3> QED BY <3>1, Finite, FinitePrimed, PoolAssumption DEF PoolBound, PoolInv
  <2>6. Having("snapshot")' = Having("snapshot")
    BY <1>3 DEF Drain, Having
  <2>7. FlightInv'
    BY <1>3, <2>6 DEF Drain, FlightInv, PoolInv
  <2> QED BY <2>2, <2>3, <2>5, <2>7 DEF PoolInv
<1> QED BY <1>1, <1>2, <1>3

-----------------------------------------------------------------------------
(* The theorems.                                                           *)

LEMMA PoolInit == Init => PoolInv
<1> SUFFICES ASSUME Init PROVE PoolInv
  OBVIOUS
<1>1. TypeOK /\ DownInv /\ FallbackUnreachable
  BY DEF Init, TypeOK, DownInv, FallbackUnreachable, Owners, Links, UserPCs,
         KeepPCs, ShutPCs
<1>2. OwnInv
  BY NotPlaces DEF Init, OwnInv, Holding
<1>3. FlightInv
  BY DEF Init, FlightInv
<1>4. Counted = {}
  BY DEF Init, Counted
<1>5. SizeExact /\ PoolBound
  BY <1>4, FS_EmptySet, PoolAssumption DEF Init, SizeExact, PoolBound
<1> QED BY <1>1, <1>2, <1>3, <1>5 DEF PoolInv

LEMMA PoolStep == PoolInv /\ [Next]_vars => PoolInv'
<1> SUFFICES ASSUME PoolInv, [Next]_vars PROVE PoolInv'
  OBVIOUS
<1>1. ASSUME NEW a \in Users,
             Acquire(a) \/ Expire(a) \/ UserStep(a) \/ Release(a)
      PROVE  PoolInv'
  BY <1>1, QuietSteps, HandOverSteps, TakeIdleStep, TakeNewStep DEF UserStep
<1>2. ASSUME NEW c \in Conns, Break(c) PROVE PoolInv'
  BY <1>2, BreakStep
<1>3. CASE KeepAliveStep
  BY <1>3, KeepAliveSteps, ProbeStep, DropSurvivorStep DEF KeepAliveStep
<1>4. CASE Shutdown \/ Join \/ Drain
  BY <1>4, ShutdownSteps
<1>5. CASE UNCHANGED vars
  <2>1. \A b \in Users : /\ pc'[b] \in Holding <=> pc[b] \in Holding
                         /\ pc'[b] # "fallback"
    BY <1>5 DEF vars, user, PoolInv, FallbackUnreachable
  <2> QED BY <1>5, <2>1, Quiet DEF vars, pool, user, PoolInv, TypeOK
<1> QED BY <1>1, <1>2, <1>3, <1>4, <1>5 DEF Next

\* The counters of the pool are sound for any number of sender threads: types
\* are kept, keepAliveInFlight_ and current_size_ never wrap around, in
\* particular.
THEOREM PoolTypeCorrect == Spec => []TypeOK
<1>1. PoolInv => TypeOK
  BY DEF PoolInv
<1> QED BY <1>1, PoolInit, PoolStep, PTL DEF Spec

\* current_size_ counts exactly the connections that exist, whatever the
\* interleaving of acquire, release, handleDeadConnection and keep-alive.
THEOREM PoolAccounting == Spec => []SizeExact
<1>1. PoolInv => SizeExact
  BY DEF PoolInv
<1> QED BY <1>1, PoolInit, PoolStep, PTL DEF Spec

\* There are never more than max_size_ connections.
THEOREM PoolBounded == Spec => []PoolBound
<1>1. PoolInv => PoolBound
  BY DEF PoolInv
<1> QED BY <1>1, PoolInit, PoolStep, PTL DEF Spec

\* The branch of acquire marked "Should not happen" is dead code.
THEOREM NoFallback == Spec => []FallbackUnreachable
<1>1. PoolInv => FallbackUnreachable
  BY DEF PoolInv
<1> QED BY <1>1, PoolInit, PoolStep, PTL DEF Spec

=============================================================================
