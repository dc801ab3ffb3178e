-------------------------- MODULE ChunkSenderProofs --------------------------
(***************************************************************************)
(* The senders of ChunkSender, for any number of threads, retries and      *)
(* connections: the pool they share is never overfull, a chunk is tried at *)
(* most MaxRetries times, and the breaker is closed exactly while fewer    *)
(* than Threshold failures are counted.                                    *)
(***************************************************************************)
EXTENDS ChunkSender, FiniteSetTheorems, TLAPS

\* Idle connections and those in the hands of a sender are within the pool's size,
\* whatever breaks, is dropped or comes back (UDTConnectionPool::acquire).
PoolNeverOverfull == fresh + stale + Cardinality(InUse) <= PoolSize

\* The breaker is closed exactly while it counts fewer than Threshold failures, also
\* when reports come late, from senders it had admitted before it opened
\* (CircuitBreaker::reportFailure, reportSuccess).
ClosedWhileBelowThreshold == (state = "CLOSED") <=> (failureCount < Threshold)

\* Variables in their types, the bounds apart.
SenderTypes ==
  /\ BreakerType
  /\ up \in BOOLEAN /\ running \in BOOLEAN
  /\ fresh \in Nat /\ stale \in Nat
  /\ pc \in [Senders -> PCs]
  /\ tries \in [Senders -> Nat]
  /\ holds \in [Senders -> {"none", "fresh", "stale"}]

Using == {"send", "stored", "complete", "exists", "lost"}

\* A sender has a wrapper from the moment a connection is found until the outcome is
\* settled; between two attempts it may have a dead one.
HoldsInv ==
  \A s \in Senders : /\ pc[s] \in Using => holds[s] # "none"
                     /\ holds[s] # "none" => pc[s] \in Using \cup {"delay"}

\* A sender with an attempt before it has one left.
TriesInv ==
  \A s \in Senders : /\ tries[s] <= MaxRetries
                     /\ pc[s] \notin {"idle", "exhausted"} => tries[s] < MaxRetries

SenderInv ==
  SenderTypes /\ HoldsInv /\ TriesInv /\ PoolNeverOverfull /\ ClosedWhileBelowThreshold

-----------------------------------------------------------------------------
(* Counting.                                                               *)

LEMMA InUseFinite ==
  /\ IsFiniteSet(InUse) /\ Cardinality(InUse) \in Nat
  /\ IsFiniteSet(InUse') /\ Cardinality(InUse)' \in Nat
<1>1. ASSUME NEW S \in SUBSET Senders PROVE IsFiniteSet(S) /\ Cardinality(S) \in Nat
  BY <1>1, SenderAssumption, FS_Subset, FS_CardinalityType
<1>2. InUse \in SUBSET Senders /\ InUse' \in SUBSET Senders
  BY DEF InUse
<1>3. Cardinality(InUse)' = Cardinality(InUse')
  OBVIOUS
<1> QED
  BY <1>1, <1>2, <1>3

LEMMA OneMore ==
  ASSUME NEW s, s \notin InUse, InUse' \subseteq InUse \cup {s}
  PROVE  Cardinality(InUse)' <= Cardinality(InUse) + 1
<1>1. Cardinality(InUse \cup {s}) = Cardinality(InUse) + 1 /\ IsFiniteSet(InUse \cup {s})
  BY InUseFinite, FS_AddElement
<1> QED
  BY <1>1, InUseFinite, FS_Subset

LEMMA OneLess ==
  ASSUME NEW s \in InUse, InUse' \subseteq InUse \ {s}
  PROVE  Cardinality(InUse)' <= Cardinality(InUse) - 1
<1>1. /\ Cardinality(InUse \ {s}) = Cardinality(InUse) - 1
      /\ IsFiniteSet(InUse \ {s})
  BY InUseFinite, FS_RemoveElement
<1> QED
  BY <1>1, InUseFinite, FS_Subset

LEMMA NoMore ==
  ASSUME InUse' \subseteq InUse
  PROVE  Cardinality(InUse)' <= Cardinality(InUse)
BY InUseFinite, FS_Subset

-----------------------------------------------------------------------------
(* The breaker.                                                            *)

\* Each operation of the breaker keeps its type and the count its state stands for.
LEMMA BreakerKept ==
  ASSUME BreakerType, ClosedWhileBelowThreshold,
         \/ shouldAttempt \/ reportSuccess \/ reportFailure \/ Elapse
         \/ UNCHANGED breaker
  PROVE  BreakerType' /\ ClosedWhileBelowThreshold'
<1> USE ThresholdAssumption DEF BreakerType, ClosedWhileBelowThreshold
<1>1. CASE shouldAttempt
  BY <1>1 DEF shouldAttempt
<1>2. CASE reportSuccess
  BY <1>2 DEF reportSuccess
<1>3. CASE reportFailure
  <2>1. failureCount' \in 0..Threshold
    BY <1>3 DEF reportFailure
  <2>4. elapsed' = FALSE
    BY <1>3 DEF reportFailure
  <2>2. state' \in {"CLOSED", "OPEN", "HALF_OPEN"}
    BY <1>3 DEF reportFailure
  <2>3. (state' = "CLOSED") <=> (failureCount' < Threshold)
    BY <1>3 DEF reportFailure
  <2> QED
    BY <2>1, <2>2, <2>3, <2>4
<1>4. CASE Elapse
  BY <1>4 DEF Elapse
<1>5. CASE UNCHANGED breaker
  BY <1>5 DEF breaker
<1> QED
  BY <1>1, <1>2, <1>3, <1>4, <1>5

-----------------------------------------------------------------------------
(* The steps.                                                              *)

\* What a step of sender s does to its own place, wrapper and count decides the
\* invariants about senders.
LEMMA OwnStep ==
  ASSUME SenderTypes, HoldsInv, TriesInv, NEW s \in Senders,
         NEW l \in PCs, NEW h \in {"none", "fresh", "stale"}, NEW n \in Nat,
         pc' = [pc EXCEPT ![s] = l], holds' = [holds EXCEPT ![s] = h],
         tries' = [tries EXCEPT ![s] = n],
         l \in Using => h # "none", h # "none" => l \in Using \cup {"delay"},
         n <= MaxRetries, l \notin {"idle", "exhausted"} => n < MaxRetries
  PROVE  /\ pc' \in [Senders -> PCs] /\ tries' \in [Senders -> Nat]
         /\ holds' \in [Senders -> {"none", "fresh", "stale"}]
         /\ HoldsInv' /\ TriesInv'
         /\ InUse' = IF h # "none" \/ l \in {"create", "connect"}
                     THEN InUse \cup {s} ELSE InUse \ {s}
<1>1. /\ pc' \in [Senders -> PCs] /\ tries' \in [Senders -> Nat]
      /\ holds' \in [Senders -> {"none", "fresh", "stale"}]
  BY DEF SenderTypes
<1>2. /\ pc'[s] = l /\ holds'[s] = h /\ tries'[s] = n
      /\ \A r \in Senders \ {s} :
           pc'[r] = pc[r] /\ holds'[r] = holds[r] /\ tries'[r] = tries[r]
  BY DEF SenderTypes
<1>3. HoldsInv'
  BY <1>2 DEF HoldsInv
<1>4. TriesInv'
  BY <1>2 DEF TriesInv
<1>5. InUse' = IF h # "none" \/ l \in {"create", "connect"}
               THEN InUse \cup {s} ELSE InUse \ {s}
  BY <1>2 DEF InUse
<1> QED
  BY <1>1, <1>3, <1>4, <1>5

\* The two parts of the invariant that the environment and every step share.
LEMMA Combine ==
  ASSUME SenderInv,
         BreakerType', ClosedWhileBelowThreshold',
         up' \in BOOLEAN, running' \in BOOLEAN, fresh' \in Nat, stale' \in Nat,
         pc' \in [Senders -> PCs], tries' \in [Senders -> Nat],
         holds' \in [Senders -> {"none", "fresh", "stale"}],
         HoldsInv', TriesInv',
         fresh' + stale' + Cardinality(InUse)' <= PoolSize
  PROVE  SenderInv'
BY DEF SenderInv, SenderTypes, PoolNeverOverfull

LEMMA SenderStepInv ==
  ASSUME SenderInv, NEW s \in Senders, SenderStep(s)
  PROVE  SenderInv'
<1> USE SenderAssumption DEF SenderInv, SenderTypes
<1>t. /\ pc[s] \in PCs /\ tries[s] \in Nat /\ tries[s] <= MaxRetries
      /\ holds[s] \in {"none", "fresh", "stale"}
      /\ tries = [tries EXCEPT ![s] = tries[s]] /\ holds = [holds EXCEPT ![s] = holds[s]]
      /\ s \in InUse <=> holds[s] # "none" \/ pc[s] \in {"create", "connect"}
  BY DEF TriesInv, InUse
<1>h. /\ pc[s] \in Using => holds[s] # "none"
      /\ holds[s] # "none" => pc[s] \in Using \cup {"delay"}
      /\ pc[s] \notin {"idle", "exhausted"} => tries[s] < MaxRetries
  BY DEF HoldsInv, TriesInv
<1>b. /\ BreakerType' /\ ClosedWhileBelowThreshold'
      /\ up' \in BOOLEAN /\ running' \in BOOLEAN
  <2>1. \/ shouldAttempt \/ reportSuccess \/ reportFailure \/ Elapse
        \/ UNCHANGED breaker
    BY DEF SenderStep, Ask, Stopped, AcquireIdle, AcquireNew, CreateConnection, Connect,
           Unconnected, SendChunk, Succeeded, Lost, Delay, Exhausted
  <2>2. up' = up /\ running' = running
    BY DEF SenderStep, Ask, Stopped, AcquireIdle, AcquireNew, CreateConnection, Connect,
           Unconnected, SendChunk, Succeeded, Lost, Delay, Exhausted
  <2> QED
    BY <2>1, <2>2, BreakerKept
<1>n. Cardinality(InUse) \in Nat /\ Cardinality(InUse)' \in Nat
  BY InUseFinite
\* A step that leaves the idle connections alone and takes none into use.
<1>calm. ASSUME NEW l \in PCs, NEW h \in {"none", "fresh", "stale"}, NEW n \in Nat,
                pc' = [pc EXCEPT ![s] = l], holds' = [holds EXCEPT ![s] = h],
                tries' = [tries EXCEPT ![s] = n],
                l \in Using => h # "none", h # "none" => l \in Using \cup {"delay"},
                n <= MaxRetries, l \notin {"idle", "exhausted"} => n < MaxRetries,
                h # "none" \/ l \in {"create", "connect"} => s \in InUse,
                UNCHANGED idle
         PROVE  SenderInv'
  <2>1. /\ pc' \in [Senders -> PCs] /\ tries' \in [Senders -> Nat]
        /\ holds' \in [Senders -> {"none", "fresh", "stale"}]
        /\ HoldsInv' /\ TriesInv'
        /\ InUse' = IF h # "none" \/ l \in {"create", "connect"}
                    THEN InUse \cup {s} ELSE InUse \ {s}
    BY <1>calm, OwnStep
  <2>3. InUse' \subseteq InUse
    BY <1>calm, <2>1
  <2>2. fresh' + stale' + Cardinality(InUse)' <= PoolSize
    BY <1>calm, <1>n, <2>3, NoMore DEF idle, PoolNeverOverfull
  <2> QED
    BY <1>calm, <1>b, <2>1, <2>2, Combine DEF idle
<1>1. CASE Ask(s)
  <2>1. PICK l \in {"acquire", "idle"} : pc' = [pc EXCEPT ![s] = l]
    BY <1>1 DEF Ask, Goto
  <2>2. /\ holds' = [holds EXCEPT ![s] = "none"] /\ tries' = [tries EXCEPT ![s] = 0]
        /\ UNCHANGED idle
    BY <1>1, <1>t, <1>h DEF Ask, Using
  <2>3. l \in PCs /\ l \notin Using /\ l \notin {"create", "connect"}
    BY DEF PCs, Using
  <2>4. 0 \in Nat /\ 0 <= MaxRetries /\ 0 < MaxRetries
    OBVIOUS
  <2> QED
    BY <2>1, <2>2, <2>3, <2>4, <1>calm
<1>2. CASE Stopped(s) \/ Delay(s)
  <2>1. PICK l \in {"acquire", "idle"} : pc' = [pc EXCEPT ![s] = l]
    BY <1>2 DEF Stopped, Delay, Goto
  <2>2. /\ holds' = [holds EXCEPT ![s] = "none"] /\ tries' = [tries EXCEPT ![s] = tries[s]]
        /\ UNCHANGED idle /\ tries[s] < MaxRetries
    BY <1>2, <1>t, <1>h DEF Stopped, Delay
  <2> QED
    BY <2>1, <2>2, <1>calm, <1>t DEF PCs, Using
<1>3. CASE AcquireIdle(s)
  <2>1. PICK h \in {"fresh", "stale"} : holds' = [holds EXCEPT ![s] = h]
    BY <1>3 DEF AcquireIdle
  <2>2. /\ pc' = [pc EXCEPT ![s] = "send"] /\ tries' = [tries EXCEPT ![s] = tries[s]]
        /\ s \notin InUse /\ tries[s] < MaxRetries
    BY <1>3, <1>t, <1>h DEF AcquireIdle, Goto, Using
  <2>3. /\ pc' \in [Senders -> PCs] /\ tries' \in [Senders -> Nat]
        /\ holds' \in [Senders -> {"none", "fresh", "stale"}]
        /\ HoldsInv' /\ TriesInv' /\ InUse' = InUse \cup {s}
    BY <1>t, <2>1, <2>2, OwnStep DEF PCs, Using
  <2>4. Cardinality(InUse)' <= Cardinality(InUse) + 1
    BY <2>2, <2>3, OneMore
  <2>5. fresh' \in Nat /\ stale' \in Nat /\ fresh' + stale' = fresh + stale - 1
    BY <1>3 DEF AcquireIdle
  <2>6. fresh' + stale' + Cardinality(InUse)' <= PoolSize
    <3>1. fresh + stale + Cardinality(InUse) <= PoolSize
      BY DEF PoolNeverOverfull
    <3> DEFINE n == Cardinality(InUse)
               n1 == Cardinality(InUse)'
               f1 == fresh'
               g1 == stale'
    <3>2. /\ fresh \in Nat /\ stale \in Nat /\ f1 \in Nat /\ g1 \in Nat
          /\ n \in Nat /\ n1 \in Nat /\ PoolSize \in Nat /\ fresh + stale + n <= PoolSize
          /\ n1 <= n + 1 /\ f1 + g1 = fresh + stale - 1
      BY <1>n, <3>1, <2>4, <2>5
    <3> HIDE DEF n, n1, f1, g1
    <3>3. f1 + g1 + n1 <= PoolSize
      BY <3>2
    <3> QED
      BY <3>3 DEF n1, f1, g1
  <2> QED
    BY <1>b, <2>3, <2>5, <2>6, Combine
<1>4. CASE AcquireNew(s)
  <2>1. /\ holds' = [holds EXCEPT ![s] = "none"] /\ tries' = [tries EXCEPT ![s] = tries[s]]
        /\ fresh' = 0 /\ stale' = 0 /\ s \notin InUse /\ tries[s] < MaxRetries
    BY <1>4, <1>t, <1>h DEF AcquireNew, Using
  <2>2. PICK l \in {"create", "unconnected"} :
          /\ pc' = [pc EXCEPT ![s] = l]
          /\ l = "create" => Cardinality(InUse) < PoolSize
    BY <1>4 DEF AcquireNew, Goto
  <2>3. /\ pc' \in [Senders -> PCs] /\ tries' \in [Senders -> Nat]
        /\ holds' \in [Senders -> {"none", "fresh", "stale"}]
        /\ HoldsInv' /\ TriesInv'
        /\ InUse' = IF l = "create" THEN InUse \cup {s} ELSE InUse \ {s}
    BY <1>t, <2>1, <2>2, OwnStep DEF PCs, Using
  <2>4. Cardinality(InUse)' <= PoolSize
    <3>1. CASE l = "create"
      BY <1>n, <2>1, <2>2, <2>3, <3>1, OneMore
    <3>2. CASE l # "create"
      BY <1>n, <2>3, <3>2, NoMore DEF PoolNeverOverfull
    <3> QED
      BY <3>1, <3>2
  <2>5. fresh' + stale' + Cardinality(InUse)' <= PoolSize
    BY <1>n, <2>1, <2>4
  <2> QED
    BY <1>b, <2>1, <2>3, <2>5, Combine
<1>5. CASE CreateConnection(s) \/ SendChunk(s) \/ Exhausted(s)
  <2>1. PICK l \in PCs :
          /\ pc' = [pc EXCEPT ![s] = l]
          /\ l \in Using => pc[s] \in Using /\ holds[s] # "none"
          /\ holds[s] # "none" => l \in Using
          /\ l \notin {"idle", "exhausted"} => tries[s] < MaxRetries
          /\ holds[s] # "none" \/ l \in {"create", "connect"} => s \in InUse
    BY <1>5, <1>t, <1>h DEF CreateConnection, SendChunk, Exhausted, Goto, PCs, Using
  <2>2. /\ holds' = [holds EXCEPT ![s] = holds[s]]
        /\ tries' = [tries EXCEPT ![s] = tries[s]] /\ UNCHANGED idle
    BY <1>5, <1>t DEF CreateConnection, SendChunk, Exhausted
  <2> QED
    BY <2>1, <2>2, <1>calm, <1>t
<1>6. CASE Connect(s)
  <2>1. /\ tries' = [tries EXCEPT ![s] = tries[s]] /\ UNCHANGED idle
        /\ s \in InUse /\ tries[s] < MaxRetries /\ holds[s] = "none"
    BY <1>6, <1>t, <1>h DEF Connect, Using
  <2>2. CASE holds' = [holds EXCEPT ![s] = "fresh"] /\ pc' = [pc EXCEPT ![s] = "send"]
    BY <2>1, <2>2, <1>calm, <1>t DEF PCs, Using
  <2>3. CASE holds' = holds /\ pc' = [pc EXCEPT ![s] = "unconnected"]
    <3>1. holds' = [holds EXCEPT ![s] = "none"]
      BY <2>1, <2>3, <1>t
    <3> QED
      BY <2>1, <2>3, <3>1, <1>calm, <1>t DEF PCs, Using
  <2> QED
    BY <1>6, <2>2, <2>3 DEF Connect, Goto
<1>7. CASE Unconnected(s) \/ Lost(s)
  <2>1. PICK l \in {"delay", "exhausted", "idle"} :
          /\ pc' = [pc EXCEPT ![s] = l] /\ tries' = [tries EXCEPT ![s] = tries[s] + 1]
          /\ (l = "delay") <=> (tries[s] + 1 < MaxRetries)
    BY <1>7, <1>t DEF Unconnected, Lost, Retry, Goto
  <2>2. tries[s] < MaxRetries /\ UNCHANGED idle
    BY <1>7, <1>t, <1>h DEF Unconnected, Lost
  <2>3. PICK h \in {"none", "fresh", "stale"} :
          /\ holds' = [holds EXCEPT ![s] = h]
          /\ h # "none" => l = "delay" /\ s \in InUse
    <3>1. CASE Unconnected(s)
      BY <3>1, <1>t, <1>h DEF Unconnected, Using
    <3>2. CASE Lost(s)
      BY <3>2, <1>t, <1>h, <2>1 DEF Lost, Using
    <3> QED
      BY <1>7, <3>1, <3>2
  <2>4. tries[s] + 1 \in Nat /\ tries[s] + 1 <= MaxRetries
    BY <1>t, <2>2
  <2>5. l \in PCs /\ l \notin Using /\ l \notin {"create", "connect"}
    BY DEF PCs, Using
  <2> QED
    BY <2>1, <2>2, <2>3, <2>4, <2>5, <1>calm
<1>8. CASE Succeeded(s)
  <2>1. /\ pc' = [pc EXCEPT ![s] = "idle"] /\ tries' = [tries EXCEPT ![s] = tries[s]]
        /\ holds' = [holds EXCEPT ![s] = "none"] /\ s \in InUse
    BY <1>8, <1>t, <1>h DEF Succeeded, Goto, Using
  <2>2. /\ pc' \in [Senders -> PCs] /\ tries' \in [Senders -> Nat]
        /\ holds' \in [Senders -> {"none", "fresh", "stale"}]
        /\ HoldsInv' /\ TriesInv' /\ InUse' = InUse \ {s}
    BY <1>t, <2>1, OwnStep DEF PCs, Using
  <2>3. fresh' \in Nat /\ stale' \in Nat /\ fresh' + stale' <= fresh + stale + 1
    BY <1>8 DEF Succeeded, idle
  <2>4. Cardinality(InUse)' <= Cardinality(InUse) - 1
    BY <2>1, <2>2, OneLess
  <2>5. fresh' + stale' + Cardinality(InUse)' <= PoolSize
    <3>1. fresh + stale + Cardinality(InUse) <= PoolSize
      BY DEF PoolNeverOverfull
    <3> DEFINE n == Cardinality(InUse)
               n1 == Cardinality(InUse)'
               f1 == fresh'
               g1 == stale'
    <3>2. /\ fresh \in Nat /\ stale \in Nat /\ f1 \in Nat /\ g1 \in Nat
          /\ n \in Nat /\ n1 \in Nat /\ PoolSize \in Nat /\ fresh + stale + n <= PoolSize
          /\ n1 <= n - 1 /\ f1 + g1 <= fresh + stale + 1
      BY <1>n, <3>1, <2>3, <2>4
    <3> HIDE DEF n, n1, f1, g1
    <3>3. f1 + g1 + n1 <= PoolSize
      BY <3>2
    <3> QED
      BY <3>3 DEF n1, f1, g1
  <2> QED
    BY <1>b, <2>2, <2>3, <2>5, Combine
<1> QED
  BY <1>1, <1>2, <1>3, <1>4, <1>5, <1>6, <1>7, <1>8 DEF SenderStep

LEMMA EnvironmentInv ==
  ASSUME SenderInv, ServerDown \/ ServerUp \/ Stop \/ Timeout \/ UNCHANGED vars
  PROVE  SenderInv'
<1> USE SenderAssumption DEF SenderInv, SenderTypes
<1>b. /\ BreakerType' /\ ClosedWhileBelowThreshold'
      /\ up' \in BOOLEAN /\ running' \in BOOLEAN
  <2>1. Elapse \/ UNCHANGED breaker
    BY DEF ServerDown, ServerUp, Stop, Timeout, vars
  <2>2. up' \in BOOLEAN /\ running' \in BOOLEAN
    BY DEF ServerDown, ServerUp, Stop, Timeout, vars
  <2> QED
    BY <2>1, <2>2, BreakerKept
<1>n. Cardinality(InUse) \in Nat /\ Cardinality(InUse)' \in Nat
  BY InUseFinite
<1>1. CASE ServerDown
  <2>1. /\ pc' = pc /\ tries' = tries /\ fresh' = 0 /\ stale' = stale + fresh
        /\ holds' \in [Senders -> {"none", "fresh", "stale"}]
        /\ \A s \in Senders : (holds'[s] # "none") <=> (holds[s] # "none")
    BY <1>1 DEF ServerDown
  <2>2. HoldsInv' /\ TriesInv' /\ InUse' \subseteq InUse
    BY <2>1 DEF HoldsInv, TriesInv, InUse
  <2>3. fresh' + stale' + Cardinality(InUse)' <= PoolSize
    BY <1>n, <2>1, <2>2, NoMore DEF PoolNeverOverfull
  <2> QED
    BY <1>b, <2>1, <2>2, <2>3, Combine
<1>2. CASE ServerUp \/ Stop \/ Timeout \/ UNCHANGED vars
  <2>1. UNCHANGED <<fresh, stale, pc, tries, holds>>
    BY <1>2 DEF ServerUp, Stop, Timeout, vars, idle, sender
  <2>2. HoldsInv' /\ TriesInv' /\ InUse' = InUse
    BY <2>1 DEF HoldsInv, TriesInv, InUse
  <2>3. fresh' + stale' + Cardinality(InUse)' <= PoolSize
    BY <2>1, <2>2 DEF PoolNeverOverfull
  <2> QED
    BY <1>b, <2>1, <2>2, <2>3, Combine
<1> QED
  BY <1>1, <1>2

LEMMA SenderInductive == Spec => []SenderInv
<1>1. Init => SenderInv
  <2> SUFFICES ASSUME Init PROVE SenderInv
    OBVIOUS
  <2>5. BreakerType
    <3>1. failureCount \in 0..Threshold
      BY ThresholdAssumption DEF Init, BreakerInit
    <3> QED
      BY <3>1 DEF Init, BreakerInit, BreakerType
  <2>1. SenderTypes
    BY <2>5 DEF Init, SenderTypes, PCs
  <2>2. HoldsInv /\ TriesInv /\ InUse = {}
    BY SenderAssumption DEF Init, HoldsInv, TriesInv, InUse, Using
  <2>3. PoolNeverOverfull
    BY <2>2, FS_EmptySet, SenderAssumption DEF Init, PoolNeverOverfull
  <2>4. ClosedWhileBelowThreshold
    BY ThresholdAssumption DEF Init, BreakerInit, ClosedWhileBelowThreshold
  <2> QED
    BY <2>1, <2>2, <2>3, <2>4 DEF SenderInv
<1>2. SenderInv /\ [Next]_vars => SenderInv'
  BY SenderStepInv, EnvironmentInv DEF Next
<1> QED
  BY <1>1, <1>2, PTL DEF Spec

-----------------------------------------------------------------------------
(* Theorems.                                                               *)

\* Types, with the bounds of the pool and of a chunk's attempts: no interleaving of
\* senders, broken connections and stops makes a sender try a chunk more than
\* MaxRetries times (sendChunkToTarget, sendPendingChunkToTarget).
THEOREM SenderTypeCorrect == Spec => []TypeOK
<1>1. SenderInv => TypeOK
  <2> SUFFICES ASSUME SenderInv PROVE TypeOK
    OBVIOUS
  <2>1. fresh \in 0..PoolSize /\ stale \in 0..PoolSize
    BY InUseFinite, SenderAssumption DEF SenderInv, SenderTypes, PoolNeverOverfull
  <2>2. tries \in [Senders -> 0..MaxRetries]
    BY SenderAssumption DEF SenderInv, SenderTypes, TriesInv
  <2> QED
    BY <2>1, <2>2 DEF SenderInv, SenderTypes, TypeOK
<1> QED
  BY <1>1, SenderInductive, PTL

\* The connections idle in the pool and in senders' hands are never more than the
\* pool's size, also when acquire drops dead ones while others are being created
\* (UDTConnectionPool::acquire, _createConnection).
THEOREM SendersWithinPool == Spec => []PoolNeverOverfull
<1>1. SenderInv => PoolNeverOverfull
  BY DEF SenderInv
<1> QED
  BY <1>1, SenderInductive, PTL

\* The breaker's state and its count of failures always agree, although any number of
\* senders report to it in any order (CircuitBreaker::reportFailure, reportSuccess).
THEOREM BreakerMatchesCount == Spec => []ClosedWhileBelowThreshold
<1>1. SenderInv => ClosedWhileBelowThreshold
  BY DEF SenderInv
<1> QED
  BY <1>1, SenderInductive, PTL

=============================================================================
