-------------------------- MODULE ServerLoopProofs --------------------------
(***************************************************************************)
(* For any clients, leftovers, threads and queue length: every task and    *)
(* every open connection is in exactly one pair of hands, so no wake-up is *)
(* lost and nothing is left behind when the server has returned.           *)
(***************************************************************************)
EXTENDS ServerLoop, TLAPS

-----------------------------------------------------------------------------
(* The inductive invariant.                                                *)

Handling == {"handle", "notify", "last"}
Holding  == {"accepted", "admit"}
Open     == {"held", "queued", "served"}

Tasks == [at : {"handle"}, of : Clients] \cup [at : {"finalise"}, of : Files]
Threads == {Checking, Asleep, Exited} \cup [at : Handling, of : Clients]
             \cup [at : {"finalise"}, of : Files]

\* The types of the queue and of the threads.
TasksInv == queue \in Seq(Tasks) /\ worker \in [Workers -> Threads]

\* A connection is in the queue once, and known to be there.
QueuedInv ==
  \A i \in DOMAIN queue :
    queue[i].at = "handle" =>
      /\ client[queue[i].of] = "queued"
      /\ \A j \in DOMAIN queue : queue[j] = queue[i] => j = i

\* A connection is handled by one thread only.
ServedInv ==
  \A w \in Workers :
    worker[w].at \in Handling =>
      /\ client[worker[w].of] = "served"
      /\ \A v \in Workers :
           worker[v].at \in Handling /\ worker[v].of = worker[w].of => v = w

\* The accept thread holds the connection it has just accepted.
HeldInv == acceptor \in Holding => fresh \in Clients /\ client[fresh] = "held"

\* No open connection is forgotten: the accept thread, the queue or a thread of
\* the pool has it.
AccountInv ==
  \A c \in Clients :
    /\ client[c] = "held" => acceptor \in Holding /\ fresh = c
    /\ client[c] = "queued" =>
         \E i \in DOMAIN queue : queue[i] = [at |-> "handle", of |-> c]
    /\ client[c] = "served" =>
         \E w \in Workers : worker[w].at \in Handling /\ worker[w].of = c

\* Nor is a finalisation.
FilesInv ==
  \A f \in Files :
    file[f] = "queued" =>
      \/ \E i \in DOMAIN queue : queue[i] = [at |-> "finalise", of |-> f]
      \/ \E w \in Workers : worker[w] = [at |-> "finalise", of |-> f]

HandsInv == TasksInv /\ QueuedInv /\ ServedInv /\ HeldInv /\ AccountInv /\ FilesInv

Starting == {"init", "initNotify", "listening", "running", "starting", "failed"}
Draining == {"poolNotify", "poolJoin", "returned"}

\* Which threads are there when: the pool is stopped after the accept thread has
\* ended, and a thread of the pool ends only when nothing is queued any more.
PhaseInv ==
  /\ main \in Starting => acceptor = "none"
  /\ main \in Draining \cup {"poolStop"} => acceptor \in {"none", "ended"}
  /\ stopped <=> main \in Draining
  /\ \A w \in Workers : worker[w] = Exited => stopped /\ queue = <<>>
  /\ main = "returned" => \A w \in Workers : worker[w] = Exited

LoopInv == TypeOK /\ HandsInv /\ PhaseInv /\ NoLostWakeup

\* When the server has returned no finalisation is left in the queue (stop drains
\* it), and every file that was queued has been finalised.
NothingQueuedAtReturn ==
  main = "returned" => queue = <<>> /\ \A f \in Files : file[f] # "queued"

-----------------------------------------------------------------------------
(* Lemmas.                                                                 *)

\* What taking the first element of a sequence leaves.
LEMMA TakeFacts ==
  ASSUME NEW S, NEW s \in Seq(S), s # <<>>
  PROVE  /\ Len(s) \in Nat \ {0} /\ DOMAIN s = 1..Len(s)
         /\ Head(s) = s[1] /\ Head(s) \in S
         /\ Tail(s) \in Seq(S) /\ DOMAIN Tail(s) = 1..(Len(s) - 1)
         /\ Len(Tail(s)) = Len(s) - 1
         /\ \A i \in 1..(Len(s) - 1) : Tail(s)[i] = s[i + 1]
<1>1. Len(s) \in Nat \ {0} /\ DOMAIN s = 1..Len(s) /\ Head(s) = s[1]
  OBVIOUS
<1>2. Tail(s) \in Seq(S) /\ Len(Tail(s)) = Len(s) - 1
  OBVIOUS
<1> QED
  BY <1>1, <1>2

\* What appending an element adds.
LEMMA PushFacts ==
  ASSUME NEW S, NEW s \in Seq(S), NEW e \in S
  PROVE  /\ Len(s) \in Nat /\ DOMAIN s = 1..Len(s)
         /\ Append(s, e) \in Seq(S) /\ Append(s, e) # <<>>
         /\ Len(Append(s, e)) = Len(s) + 1 /\ DOMAIN Append(s, e) = 1..(Len(s) + 1)
         /\ Append(s, e)[Len(s) + 1] = e
         /\ \A i \in 1..Len(s) : Append(s, e)[i] = s[i]
<1>1. Len(s) \in Nat /\ DOMAIN s = 1..Len(s)
  OBVIOUS
<1>2. Append(s, e) \in Seq(S) /\ Len(Append(s, e)) = Len(s) + 1
  OBVIOUS
<1> QED
  BY <1>1, <1>2

\* What the states of a thread tell.
LEMMA ThreadFacts ==
  ASSUME NEW t \in Threads
  PROVE  /\ t.at \in Handling => t.of \in Clients
         /\ t.at = "finalise" => t.of \in Files /\ t = [at |-> "finalise", of |-> t.of]
         /\ t.at = "check" <=> t = Checking
         /\ t.at = "asleep" <=> t = Asleep
         /\ t.at = "exited" <=> t = Exited
         /\ t.at \in {"check", "asleep", "exited", "finalise"} \cup Handling
BY DEF Threads, Handling, Checking, Asleep, Exited

LEMMA TaskFacts ==
  ASSUME NEW t \in Tasks
  PROVE  /\ t \in Threads /\ t.at \in {"handle", "finalise"} /\ t.of \in Files
         /\ t.at = "handle" => t.of \in Clients
         /\ t = [at |-> t.at, of |-> t.of]
BY DEF Tasks, Threads, Handling, Files

\* A step that moves no task and no open connection keeps them all accounted for.
LEMMA HandsKept ==
  ASSUME HandsInv, UNCHANGED <<fresh, file, queue>>, worker' \in [Workers -> Threads],
         acceptor' \in Holding <=> acceptor \in Holding,
         \A c \in Clients : \A st \in Open : client'[c] = st <=> client[c] = st,
         \A w \in Workers :
           /\ worker'[w].at \in Handling <=> worker[w].at \in Handling
           /\ worker[w].at \in Handling => worker'[w].of = worker[w].of
           /\ worker[w].at = "finalise" => worker'[w] = worker[w]
  PROVE  HandsInv'
<1> USE DEF HandsInv, TasksInv
<1>1. QueuedInv'
  <2>1. ASSUME NEW i \in DOMAIN queue, queue[i].at = "handle" PROVE queue[i].of \in Clients
    BY <2>1, TaskFacts
  <2> QED
    BY <2>1 DEF QueuedInv, Open
<1>2. ServedInv'
  BY ThreadFacts DEF ServedInv, Open
<1>3. HeldInv'
  BY DEF HeldInv, Open
<1>4. AccountInv'
  <2> SUFFICES ASSUME NEW c \in Clients
               PROVE  /\ client'[c] = "held" => acceptor' \in Holding /\ fresh' = c
                      /\ client'[c] = "queued" =>
                           \E i \in DOMAIN queue' : queue'[i] = [at |-> "handle", of |-> c]
                      /\ client'[c] = "served" =>
                           \E w \in Workers : worker'[w].at \in Handling /\ worker'[w].of = c
    BY DEF AccountInv
  <2> QED
    BY DEF AccountInv, Open
<1>5. FilesInv'
  <2> SUFFICES ASSUME NEW f \in Files, file[f] = "queued"
               PROVE  \/ \E i \in DOMAIN queue : queue[i] = [at |-> "finalise", of |-> f]
                      \/ \E w \in Workers : worker'[w] = [at |-> "finalise", of |-> f]
    BY DEF FilesInv
  <2> QED
    BY DEF FilesInv
<1> QED
  BY <1>1, <1>2, <1>3, <1>4, <1>5

\* Threads that wake, sleep or end keep what the others do.
LEMMA WakeKeepsTypes ==
  ASSUME TasksInv, NotifyOne \/ NotifyAll
  PROVE  /\ worker' \in [Workers -> Threads]
         /\ \A w \in Workers : worker'[w] = worker[w]
                              \/ (worker[w] = Asleep /\ worker'[w] = Checking)
<1>1. Checking \in Threads
  BY DEF Threads
<1>2. CASE NotifyOne
  BY <1>1, <1>2 DEF NotifyOne, TasksInv, Sleepers
<1>3. CASE NotifyAll
  BY <1>1, <1>3 DEF NotifyAll, TasksInv, Sleepers
<1> QED
  BY <1>2, <1>3

\* Being woken is no work.
LEMMA WakeMovesNothing ==
  ASSUME NEW w \in Workers,
         worker'[w] = worker[w] \/ (worker[w] = Asleep /\ worker'[w] = Checking)
  PROVE  /\ worker'[w].at \in Handling <=> worker[w].at \in Handling
         /\ worker[w].at \in Handling => worker'[w].of = worker[w].of
         /\ worker[w].at = "finalise" => worker'[w] = worker[w]
BY DEF Handling, Asleep, Checking

LEMMA QuietKeepsHands ==
  ASSUME HandsInv, UNCHANGED <<client, fresh, file, queue, worker>>,
         acceptor' \in Holding <=> acceptor \in Holding
  PROVE  HandsInv'
BY HandsKept DEF HandsInv, TasksInv

LEMMA WakingKeepsHands ==
  ASSUME HandsInv, UNCHANGED <<client, fresh, file, queue>>, NotifyOne \/ NotifyAll,
         acceptor' \in Holding <=> acceptor \in Holding
  PROVE  HandsInv'
BY HandsKept, WakeKeepsTypes, WakeMovesNothing DEF HandsInv

\* Closing the listener, and a new client, touch no connection the server has.
LEMMA ListenerKeepsHands ==
  ASSUME TypeOK, HandsInv, UNCHANGED <<fresh, file, queue, worker, acceptor>>,
         \/ CloseListener
         \/ \E c \in Clients : client[c] = "away" /\ client' = [client EXCEPT ![c] = "backlog"]
  PROVE  HandsInv'
<1>1. \A c \in Clients : \A st \in Open : client'[c] = st <=> client[c] = st
  BY DEF CloseListener, TypeOK, Open
<1> QED
  BY <1>1, HandsKept DEF HandsInv, TasksInv

\* A thread takes a task: the connection or the finalisation is now in its hands.
LEMMA TakeTaskHands ==
  ASSUME TypeOK, HandsInv, NEW w \in Workers, TakeTask(w)
  PROVE  HandsInv'
<1> DEFINE t == Head(queue)
           n == Len(queue)
<1>1. /\ queue \in Seq(Tasks) /\ queue # <<>> /\ worker \in [Workers -> Threads]
      /\ queue' = Tail(queue) /\ worker' = [worker EXCEPT ![w] = t]
      /\ client' = IF t.at = "handle" THEN [client EXCEPT ![t.of] = "served"] ELSE client
      /\ worker[w] = Checking
      /\ UNCHANGED <<acceptor, fresh, file>>
  BY DEF TakeTask, HandsInv, TasksInv
<1>2. /\ n \in Nat \ {0} /\ DOMAIN queue = 1..n /\ t = queue[1] /\ t \in Tasks
      /\ queue' \in Seq(Tasks) /\ DOMAIN queue' = 1..(n - 1)
      /\ \A i \in 1..(n - 1) : queue'[i] = queue[i + 1]
  BY <1>1, TakeFacts
<1> HIDE DEF t, n
<1>3. /\ t \in Threads /\ t.at \in {"handle", "finalise"} /\ t.of \in Files
      /\ t.at = "handle" => t.of \in Clients
      /\ t = [at |-> t.at, of |-> t.of]
  BY <1>2, TaskFacts
<1>4. \A i \in 1..(n - 1) : i + 1 \in 1..n /\ i + 1 # 1
  BY <1>2
<1>5. \A i \in 1..n : i # 1 => i - 1 \in 1..(n - 1) /\ queue'[i - 1] = queue[i]
  <2> TAKE i \in 1..n
  <2> HAVE i # 1
  <2>1. i - 1 \in 1..(n - 1) /\ (i - 1) + 1 = i
    BY <1>2
  <2> QED
    BY <2>1, <1>2
<1>6. /\ worker' \in [Workers -> Threads] /\ worker'[w] = t
      /\ \A v \in Workers : v # w => worker'[v] = worker[v]
      /\ worker[w].at \notin Handling /\ worker[w].at # "finalise"
  BY <1>1, <1>3 DEF Checking, Handling
<1>7. client \in [Clients -> {"away", "backlog", "held", "queued", "served", "closed"}]
  BY DEF TypeOK
<1>8. ASSUME t.at = "handle"
      PROVE  /\ client[t.of] = "queued" /\ client'[t.of] = "served"
             /\ \A c \in Clients : c # t.of => client'[c] = client[c]
  BY <1>8, <1>1, <1>2, <1>3, <1>7 DEF HandsInv, QueuedInv
<1>9. QueuedInv'
  <2> SUFFICES ASSUME NEW i \in 1..(n - 1), queue[i + 1].at = "handle"
               PROVE  /\ client'[queue[i + 1].of] = "queued"
                      /\ \A j \in 1..(n - 1) : queue[j + 1] = queue[i + 1] => j = i
    BY <1>2 DEF QueuedInv
  <2>1. /\ queue[i + 1] \in Tasks /\ client[queue[i + 1].of] = "queued"
        /\ \A j \in 1..n : queue[j] = queue[i + 1] => j = i + 1
    BY <1>1, <1>2, <1>4 DEF HandsInv, QueuedInv
  <2>2. queue[i + 1].of \in Clients
    BY <2>1, TaskFacts
  <2>3. \A j \in 1..(n - 1) : queue[j + 1] = queue[i + 1] => j = i
    BY <2>1, <1>2, <1>4
  <2>4. ASSUME t.at = "handle" PROVE queue[i + 1].of # t.of
    <3> SUFFICES ASSUME queue[i + 1].of = t.of PROVE FALSE
      OBVIOUS
    <3>1. queue[i + 1] = t
      BY <2>1, <2>4, <1>2, TaskFacts
    <3>2. 1 \in 1..n /\ 1 = i + 1
      BY <3>1, <2>1, <1>2
    <3> QED
      BY <3>2, <1>4
  <2>5. client'[queue[i + 1].of] = "queued"
    BY <2>1, <2>2, <2>4, <1>1, <1>8
  <2> QED
    BY <2>3, <2>5
<1>10. ServedInv'
  <2>1. ASSUME NEW v \in Workers, v # w, worker[v].at \in Handling
        PROVE  /\ worker[v].of \in Clients /\ client'[worker[v].of] = "served"
               /\ t.at = "handle" => worker[v].of # t.of
    <3>1. worker[v].of \in Clients /\ client[worker[v].of] = "served"
      BY <2>1, <1>1, ThreadFacts DEF HandsInv, ServedInv
    <3> QED
      BY <3>1, <1>1, <1>8
  <2>2. t.at \in Handling => t.at = "handle"
    BY <1>3 DEF Handling
  <2> QED
    BY <2>1, <2>2, <1>6, <1>8 DEF HandsInv, ServedInv
<1>11. HeldInv'
  BY <1>1, <1>8 DEF HandsInv, HeldInv
<1>12. AccountInv'
  <2> SUFFICES ASSUME NEW c \in Clients
               PROVE  /\ client'[c] = "held" => acceptor \in Holding /\ fresh = c
                      /\ client'[c] = "queued" =>
                           \E i \in DOMAIN queue' : queue'[i] = [at |-> "handle", of |-> c]
                      /\ client'[c] = "served" =>
                           \E v \in Workers : worker'[v].at \in Handling /\ worker'[v].of = c
    BY <1>1 DEF AccountInv
  <2>1. CASE t.at = "handle" /\ c = t.of
    BY <2>1, <1>6, <1>8 DEF Handling
  <2>2. CASE ~(t.at = "handle" /\ c = t.of)
    <3>1. client'[c] = client[c]
      BY <2>2, <1>1, <1>8
    <3>2. ASSUME client[c] = "queued"
          PROVE  \E i \in DOMAIN queue' : queue'[i] = [at |-> "handle", of |-> c]
      <4>1. PICK i \in 1..n : queue[i] = [at |-> "handle", of |-> c]
        BY <3>2, <1>2 DEF HandsInv, AccountInv
      <4>2. i # 1
        BY <4>1, <2>2, <1>2
      <4> QED
        BY <4>1, <4>2, <1>2, <1>5
    <3>3. ASSUME client[c] = "served"
          PROVE  \E v \in Workers : worker'[v].at \in Handling /\ worker'[v].of = c
      BY <3>3, <1>6 DEF HandsInv, AccountInv
    <3> QED
      BY <3>1, <3>2, <3>3 DEF HandsInv, AccountInv
  <2> QED
    BY <2>1, <2>2
<1>13. FilesInv'
  <2> SUFFICES ASSUME NEW f \in Files, file[f] = "queued"
               PROVE  \/ \E i \in DOMAIN queue' : queue'[i] = [at |-> "finalise", of |-> f]
                      \/ \E v \in Workers : worker'[v] = [at |-> "finalise", of |-> f]
    BY <1>1 DEF FilesInv
  <2>1. CASE \E v \in Workers : worker[v] = [at |-> "finalise", of |-> f]
    BY <2>1, <1>6
  <2>2. CASE \E i \in DOMAIN queue : queue[i] = [at |-> "finalise", of |-> f]
    <3>1. PICK i \in 1..n : queue[i] = [at |-> "finalise", of |-> f]
      BY <2>2, <1>2
    <3>2. CASE i = 1
      BY <3>1, <3>2, <1>2, <1>6
    <3>3. CASE i # 1
      BY <3>1, <3>3, <1>2, <1>5
    <3> QED
      BY <3>2, <3>3
  <2> QED
    BY <2>1, <2>2 DEF HandsInv, FilesInv
<1> QED
  BY <1>2, <1>6, <1>9, <1>10, <1>11, <1>12, <1>13 DEF HandsInv, TasksInv

\* A finalisation is queued.
LEMMA PushFinaliseHands ==
  ASSUME HandsInv, NEW f \in Files,
         queue' = Append(queue, [at |-> "finalise", of |-> f]),
         \A g \in Files : g # f => file'[g] = file[g],
         UNCHANGED <<client, fresh, acceptor>>, worker' \in [Workers -> Threads],
         \A w \in Workers :
           /\ worker'[w].at \in Handling <=> worker[w].at \in Handling
           /\ worker[w].at \in Handling => worker'[w].of = worker[w].of
           /\ worker[w].at = "finalise" => worker'[w] = worker[w]
  PROVE  HandsInv'
<1> DEFINE t == [at |-> "finalise", of |-> f]
           n == Len(queue)
<1>1. t \in Tasks /\ queue \in Seq(Tasks) /\ worker \in [Workers -> Threads]
  BY DEF Tasks, HandsInv, TasksInv
<1>2. /\ n \in Nat /\ DOMAIN queue = 1..n
      /\ queue' \in Seq(Tasks) /\ DOMAIN queue' = 1..(n + 1)
      /\ queue'[n + 1] = t /\ \A i \in 1..n : queue'[i] = queue[i]
  <2> HIDE DEF t
  <2> QED
    BY <1>1, PushFacts DEF t
<1>3. \A i \in 1..(n + 1) : i = n + 1 \/ i \in 1..n
  BY <1>2
<1>4. t.at = "finalise" /\ t.at # "handle"
  OBVIOUS
<1> HIDE DEF t, n
<1>5. QueuedInv'
  <2> SUFFICES ASSUME NEW i \in 1..(n + 1), queue'[i].at = "handle"
               PROVE  /\ client[queue'[i].of] = "queued"
                      /\ \A j \in 1..(n + 1) : queue'[j] = queue'[i] => j = i
    BY <1>2 DEF QueuedInv
  <2>1. i \in 1..n /\ queue'[i] = queue[i]
    BY <1>2, <1>3, <1>4
  <2>2. /\ client[queue[i].of] = "queued"
        /\ \A j \in 1..n : queue[j] = queue[i] => j = i
    BY <2>1, <1>2 DEF HandsInv, QueuedInv
  <2> QED
    BY <2>1, <2>2, <1>2, <1>3, <1>4
<1>6. ServedInv'
  BY <1>1, ThreadFacts DEF HandsInv, ServedInv
<1>7. HeldInv'
  BY DEF HandsInv, HeldInv
<1>8. AccountInv'
  <2> SUFFICES ASSUME NEW c \in Clients
               PROVE  /\ client[c] = "held" => acceptor \in Holding /\ fresh = c
                      /\ client[c] = "queued" =>
                           \E i \in 1..(n + 1) : queue'[i] = [at |-> "handle", of |-> c]
                      /\ client[c] = "served" =>
                           \E v \in Workers : worker'[v].at \in Handling /\ worker'[v].of = c
    BY <1>2 DEF AccountInv
  <2>1. \A i \in 1..n : i \in 1..(n + 1)
    BY <1>2
  <2> QED
    BY <2>1, <1>2 DEF HandsInv, AccountInv
<1>9. FilesInv'
  <2> SUFFICES ASSUME NEW g \in Files, file'[g] = "queued"
               PROVE  \/ \E i \in 1..(n + 1) : queue'[i] = [at |-> "finalise", of |-> g]
                      \/ \E v \in Workers : worker'[v] = [at |-> "finalise", of |-> g]
    BY <1>2 DEF FilesInv
  <2>1. CASE g = f
    <3>1. n + 1 \in 1..(n + 1)
      BY <1>2
    <3> QED
      BY <2>1, <3>1, <1>2 DEF t
  <2>2. CASE g # f
    <3>1. \A i \in 1..n : i \in 1..(n + 1)
      BY <1>2
    <3> QED
      BY <2>2, <3>1, <1>2 DEF HandsInv, FilesInv
  <2> QED
    BY <2>1, <2>2
<1> QED
  BY <1>2, <1>5, <1>6, <1>7, <1>8, <1>9 DEF HandsInv, TasksInv

LEMMA LoadPendingHands ==
  ASSUME TypeOK, HandsInv, LoadPending
  PROVE  HandsInv'
<1>1. PICK f \in todo :
        \/ /\ Push([at |-> "finalise", of |-> f])
           /\ file' = [file EXCEPT ![f] = "queued"]
        \/ /\ file' = [file EXCEPT ![f] = "left"]
           /\ UNCHANGED queue
  BY DEF LoadPending
<1>2. /\ f \in Files /\ UNCHANGED <<client, fresh, acceptor, worker>>
      /\ file \in [Files -> {"none", "queued", "left", "finalised"}]
      /\ worker \in [Workers -> Threads]
  BY DEF LoadPending, TypeOK, Files, HandsInv, TasksInv
<1>3. CASE Push([at |-> "finalise", of |-> f]) /\ file' = [file EXCEPT ![f] = "queued"]
  <2>1. \A g \in Files : g # f => file'[g] = file[g]
    BY <1>2, <1>3
  <2> QED
    BY <1>2, <1>3, <2>1, PushFinaliseHands DEF Push
<1>4. CASE file' = [file EXCEPT ![f] = "left"] /\ UNCHANGED queue
  BY <1>2, <1>4
    DEF HandsInv, TasksInv, QueuedInv, ServedInv, HeldInv, AccountInv, FilesInv
<1> QED
  BY <1>1, <1>3, <1>4

LEMMA CompleteFileHands ==
  ASSUME TypeOK, HandsInv, NEW w \in Workers, CompleteFile(w)
  PROVE  HandsInv'
<1> DEFINE c == worker[w].of
<1>1. /\ worker \in [Workers -> Threads] /\ worker[w].at \in Handling
      /\ UNCHANGED <<client, fresh, acceptor>>
      /\ file \in [Files -> {"none", "queued", "left", "finalised"}]
  BY DEF CompleteFile, HandsInv, TasksInv, Handling, TypeOK
<1>2. c \in Clients /\ c \in Files /\ worker[w] \in [at : Handling, of : Clients]
  BY <1>1 DEF Threads, Handling, Checking, Asleep, Exited, Files
<1>3. PICK a \in Handling : worker' = [worker EXCEPT ![w].at = a]
  BY DEF CompleteFile, Handling
<1>4. [worker[w] EXCEPT !.at = a] \in [at : Handling, of : Clients]
  BY <1>2
<1>5. /\ worker' \in [Workers -> Threads]
      /\ worker'[w].at \in Handling /\ worker'[w].of = worker[w].of
      /\ \A v \in Workers : v # w => worker'[v] = worker[v]
  <2>1. worker' = [worker EXCEPT ![w] = [worker[w] EXCEPT !.at = a]]
    BY <1>3
  <2>2. [worker[w] EXCEPT !.at = a] \in Threads
    BY <1>4 DEF Threads
  <2>3. worker'[w] = [worker[w] EXCEPT !.at = a]
    BY <2>1, <1>1
  <2> QED
    BY <2>1, <2>2, <2>3, <1>1, <1>2
<1>6. \A v \in Workers :
        /\ worker'[v].at \in Handling <=> worker[v].at \in Handling
        /\ worker[v].at \in Handling => worker'[v].of = worker[v].of
        /\ worker[v].at = "finalise" => worker'[v] = worker[v]
  BY <1>1, <1>5 DEF Handling
<1>7. CASE Push([at |-> "finalise", of |-> c]) /\ file' = [file EXCEPT ![c] = "queued"]
  <2>1. \A g \in Files : g # c => file'[g] = file[g]
    BY <1>1, <1>7
  <2> QED
    BY <1>1, <1>2, <1>5, <1>6, <1>7, <2>1, PushFinaliseHands DEF Push
<1>8. CASE file' = [file EXCEPT ![c] = "left"] /\ UNCHANGED queue
  <2>1. QueuedInv' /\ HeldInv'
    BY <1>1, <1>8 DEF HandsInv, QueuedInv, HeldInv
  <2>2. ServedInv'
    BY <1>1, <1>6 DEF HandsInv, ServedInv
  <2>3. AccountInv'
    BY <1>1, <1>6, <1>8 DEF HandsInv, AccountInv
  <2>4. FilesInv'
    <3>1. \A f \in Files : file'[f] = "queued" => file[f] = "queued"
      BY <1>1, <1>2, <1>8
    <3>2. ASSUME NEW f \in Files, NEW v \in Workers,
                 worker[v] = [at |-> "finalise", of |-> f]
          PROVE  worker'[v] = worker[v]
      BY <3>2, <1>6
    <3> QED
      BY <3>1, <3>2, <1>8 DEF HandsInv, FilesInv
  <2> QED
    BY <1>5, <1>8, <2>1, <2>2, <2>3, <2>4 DEF HandsInv, TasksInv
<1> QED
  BY <1>7, <1>8 DEF CompleteFile

LEMMA HandlerNotifyHands ==
  ASSUME HandsInv, NEW w \in Workers, HandlerNotify(w)
  PROVE  HandsInv'
<1>1. /\ worker \in [Workers -> Threads] /\ worker[w].at = "notify"
      /\ UNCHANGED <<client, fresh, acceptor, file, queue>>
  BY DEF HandlerNotify, HandsInv, TasksInv
<1>2. worker[w] \in [at : Handling, of : Clients]
  BY <1>1 DEF Threads, Handling, Checking, Asleep, Exited
<1> DEFINE t == [worker[w] EXCEPT !.at = "last"]
<1>3. /\ t \in Threads /\ t.at \in Handling /\ t.of = worker[w].of
      /\ Checking \in Threads
  BY <1>2 DEF Threads, Handling
<1>4. /\ worker' \in [Workers -> Threads] /\ worker'[w] = t
      /\ \A v \in Workers :
           v # w => worker'[v] = worker[v] \/ (worker[v] = Asleep /\ worker'[v] = Checking)
  <2> DEFINE last == [worker EXCEPT ![w] = t]
  <2>1. /\ last \in [Workers -> Threads] /\ last[w] = t
        /\ \A v \in Workers : v # w => last[v] = worker[v]
    BY <1>1, <1>3
  <2>2. worker[w] # Asleep
    BY <1>1 DEF Asleep
  <2>3. worker' = last \/ \E v \in Sleepers : worker' = [last EXCEPT ![v] = Checking]
    BY DEF HandlerNotify
  <2> HIDE DEF last, t
  <2> QED
    BY <2>1, <2>2, <2>3, <1>1, <1>3 DEF Sleepers
<1> HIDE DEF t
<1>5. \A v \in Workers :
        /\ worker'[v].at \in Handling <=> worker[v].at \in Handling
        /\ worker[v].at \in Handling => worker'[v].of = worker[v].of
        /\ worker[v].at = "finalise" => worker'[v] = worker[v]
  BY <1>1, <1>3, <1>4, WakeMovesNothing DEF Handling
<1> QED
  BY <1>1, <1>4, <1>5, HandsKept

\* The handler returns, and the destructor closes its connection.
LEMMA HandlerEndsHands ==
  ASSUME TypeOK, HandsInv, NEW w \in Workers, HandlerEnds(w)
  PROVE  HandsInv'
<1> DEFINE c == worker[w].of
<1>1. /\ worker \in [Workers -> Threads] /\ worker[w].at \in Handling
      /\ worker' = [worker EXCEPT ![w] = Checking]
      /\ client' = [client EXCEPT ![c] = "closed"]
      /\ client \in [Clients -> {"away", "backlog", "held", "queued", "served", "closed"}]
      /\ UNCHANGED <<fresh, acceptor, file, queue>>
  BY DEF HandlerEnds, HandsInv, TasksInv, Handling, TypeOK
<1>2. /\ c \in Clients /\ client[c] = "served" /\ client'[c] = "closed"
      /\ \A d \in Clients : d # c => client'[d] = client[d]
  BY <1>1, ThreadFacts DEF HandsInv, ServedInv
<1>3. /\ worker' \in [Workers -> Threads] /\ worker'[w] = Checking
      /\ \A v \in Workers : v # w => worker'[v] = worker[v]
      /\ worker'[w].at \notin Handling
      /\ worker[w].at # "finalise"
  BY <1>1 DEF Threads, Checking, Handling
<1> HIDE DEF c
<1>4. QueuedInv'
  <2>1. \A i \in DOMAIN queue : queue[i].at = "handle" => queue[i].of \in Clients
    BY TaskFacts DEF HandsInv, TasksInv
  <2> QED
    BY <2>1, <1>1, <1>2 DEF HandsInv, QueuedInv
<1>5. ServedInv'
  <2> SUFFICES ASSUME NEW v \in Workers, worker'[v].at \in Handling
               PROVE  /\ client'[worker'[v].of] = "served"
                      /\ \A u \in Workers :
                           worker'[u].at \in Handling /\ worker'[u].of = worker'[v].of
                             => u = v
    BY DEF ServedInv
  <2>1. v # w /\ worker'[v] = worker[v]
    BY <1>3
  <2>2. worker[v].of # c /\ worker[v].of \in Clients /\ client[worker[v].of] = "served"
    BY <2>1, <1>1, ThreadFacts DEF HandsInv, ServedInv, c
  <2>3. client'[worker[v].of] = "served"
    BY <2>2, <1>2
  <2>4. ASSUME NEW u \in Workers, worker'[u].at \in Handling,
               worker'[u].of = worker'[v].of
        PROVE  u = v
    <3>1. worker'[u] = worker[u]
      BY <2>4, <1>3
    <3> QED
      BY <3>1, <2>1, <2>4 DEF HandsInv, ServedInv
  <2> QED
    BY <2>1, <2>3, <2>4
<1>6. HeldInv'
  BY <1>1, <1>2 DEF HandsInv, HeldInv
<1>7. AccountInv'
  <2> SUFFICES ASSUME NEW d \in Clients
               PROVE  /\ client'[d] = "held" => acceptor \in Holding /\ fresh = d
                      /\ client'[d] = "queued" =>
                           \E i \in DOMAIN queue : queue[i] = [at |-> "handle", of |-> d]
                      /\ client'[d] = "served" =>
                           \E v \in Workers : worker'[v].at \in Handling /\ worker'[v].of = d
    BY <1>1 DEF AccountInv
  <2>1. CASE d = c
    BY <2>1, <1>2
  <2>2. CASE d # c
    <3>1. client'[d] = client[d]
      BY <2>2, <1>2
    <3>2. ASSUME client[d] = "served"
          PROVE  \E v \in Workers : worker'[v].at \in Handling /\ worker'[v].of = d
      <4>1. PICK v \in Workers : worker[v].at \in Handling /\ worker[v].of = d
        BY <3>2 DEF HandsInv, AccountInv
      <4>2. worker'[v] = worker[v]
        BY <4>1, <2>2, <1>3 DEF c
      <4> QED
        BY <4>1, <4>2
    <3> QED
      BY <3>1, <3>2 DEF HandsInv, AccountInv
  <2> QED
    BY <2>1, <2>2
<1>8. FilesInv'
  <2>1. ASSUME NEW f \in Files, NEW v \in Workers,
               worker[v] = [at |-> "finalise", of |-> f]
        PROVE  worker'[v] = worker[v]
    BY <2>1, <1>3
  <2> QED
    BY <2>1, <1>1 DEF HandsInv, FilesInv
<1> QED
  BY <1>1, <1>3, <1>4, <1>5, <1>6, <1>7, <1>8 DEF HandsInv, TasksInv

LEMMA FinaliseHands ==
  ASSUME TypeOK, HandsInv, NEW w \in Workers, Finalise(w)
  PROVE  HandsInv'
<1> DEFINE f == worker[w].of
<1>1. /\ worker \in [Workers -> Threads] /\ worker[w].at = "finalise"
      /\ worker' = [worker EXCEPT ![w] = Checking]
      /\ file' = [file EXCEPT ![f] = "finalised"]
      /\ file \in [Files -> {"none", "queued", "left", "finalised"}]
      /\ UNCHANGED <<fresh, acceptor, client, queue>>
  BY DEF Finalise, HandsInv, TasksInv, TypeOK
<1>2. /\ f \in Files /\ file'[f] = "finalised" /\ worker[w] = [at |-> "finalise", of |-> f]
      /\ \A g \in Files : g # f => file'[g] = file[g]
  BY <1>1, ThreadFacts
<1>3. /\ worker' \in [Workers -> Threads] /\ worker'[w] = Checking
      /\ \A v \in Workers : v # w => worker'[v] = worker[v]
      /\ worker'[w].at \notin Handling /\ worker[w].at \notin Handling
  BY <1>1 DEF Threads, Checking, Handling
<1> HIDE DEF f
<1>4. QueuedInv' /\ HeldInv'
  BY <1>1 DEF HandsInv, QueuedInv, HeldInv
<1>5. ServedInv'
  BY <1>1, <1>3 DEF HandsInv, ServedInv
<1>6. AccountInv'
  BY <1>1, <1>3 DEF HandsInv, AccountInv
<1>7. FilesInv'
  <2> SUFFICES ASSUME NEW g \in Files, file'[g] = "queued"
               PROVE  \/ \E i \in DOMAIN queue : queue[i] = [at |-> "finalise", of |-> g]
                      \/ \E v \in Workers : worker'[v] = [at |-> "finalise", of |-> g]
    BY <1>1 DEF FilesInv
  <2>1. g # f /\ file[g] = "queued"
    BY <1>2
  <2>2. ASSUME NEW v \in Workers, worker[v] = [at |-> "finalise", of |-> g]
        PROVE  worker'[v] = worker[v]
    <3>1. v # w
      BY <2>1, <2>2, <1>2
    <3> QED
      BY <3>1, <1>3
  <2> QED
    BY <2>1, <2>2 DEF HandsInv, FilesInv
<1> QED
  BY <1>1, <1>3, <1>4, <1>5, <1>6, <1>7 DEF HandsInv, TasksInv

-----------------------------------------------------------------------------
(* The accept thread and what it holds.                                    *)

LEMMA AcceptHands ==
  ASSUME TypeOK, HandsInv, Accept
  PROVE  HandsInv'
<1>1. PICK c \in Clients : /\ client[c] = "backlog"
                           /\ client' = [client EXCEPT ![c] = "held"]
                           /\ fresh' = c
  BY DEF Accept
<1>2. /\ acceptor \notin Holding /\ acceptor' \in Holding
      /\ UNCHANGED <<file, queue, worker>>
      /\ client \in [Clients -> {"away", "backlog", "held", "queued", "served", "closed"}]
  BY DEF Accept, Holding, TypeOK, tasks
<1>3. client'[c] = "held" /\ \A d \in Clients : d # c => client'[d] = client[d]
  BY <1>1, <1>2
<1>4. QueuedInv'
  <2>1. \A i \in DOMAIN queue : queue[i].at = "handle" => queue[i].of \in Clients
    BY TaskFacts DEF HandsInv, TasksInv
  <2> QED
    BY <2>1, <1>1, <1>2, <1>3 DEF HandsInv, QueuedInv
<1>5. ServedInv'
  BY <1>1, <1>2, <1>3, ThreadFacts DEF HandsInv, ServedInv, TasksInv
<1>6. HeldInv'
  BY <1>1, <1>3 DEF HeldInv
<1>7. AccountInv'
  BY <1>1, <1>2, <1>3 DEF HandsInv, AccountInv
<1> QED
  BY <1>2, <1>4, <1>5, <1>6, <1>7 DEF HandsInv, TasksInv, FilesInv

\* The accept thread closes what it holds and lets go of it.
LEMMA CloseFreshHands ==
  ASSUME TypeOK, HandsInv, acceptor \in Holding, CloseFresh, acceptor' \notin Holding,
         UNCHANGED <<file, queue, worker>>
  PROVE  HandsInv'
<1>1. /\ fresh \in Clients /\ client[fresh] = "held" /\ client'[fresh] = "closed"
      /\ \A d \in Clients : d # fresh => client'[d] = client[d]
  BY DEF CloseFresh, TypeOK, HandsInv, HeldInv
<1>2. QueuedInv'
  <2>1. \A i \in DOMAIN queue : queue[i].at = "handle" => queue[i].of \in Clients
    BY TaskFacts DEF HandsInv, TasksInv
  <2> QED
    BY <2>1, <1>1 DEF HandsInv, QueuedInv
<1>3. ServedInv'
  BY <1>1, ThreadFacts DEF HandsInv, ServedInv, TasksInv
<1>4. AccountInv'
  BY <1>1 DEF HandsInv, AccountInv
<1> QED
  BY <1>2, <1>3, <1>4 DEF HandsInv, TasksInv, FilesInv, HeldInv

LEMMA AdmitHands ==
  ASSUME TypeOK, HandsInv, Admit
  PROVE  HandsInv'
<1>1. CASE CloseFresh /\ acceptor' = "test" /\ UNCHANGED queue
  BY <1>1, CloseFreshHands DEF Admit, Holding
<1>2. CASE /\ Push([at |-> "handle", of |-> fresh])
           /\ client' = [client EXCEPT ![fresh] = "queued"] /\ fresh' = NoClient
           /\ acceptor' = "notify"
  <2> DEFINE t == [at |-> "handle", of |-> fresh]
             n == Len(queue)
  <2>1. /\ fresh \in Clients /\ client[fresh] = "held" /\ client'[fresh] = "queued"
        /\ \A d \in Clients : d # fresh => client'[d] = client[d]
        /\ UNCHANGED <<file, worker>>
        /\ acceptor' \notin Holding /\ acceptor \in Holding
    BY <1>2 DEF Admit, Holding, TypeOK, HandsInv, HeldInv
  <2>2. t \in Tasks /\ queue \in Seq(Tasks) /\ t.at = "handle" /\ t.of = fresh
    BY <2>1 DEF Tasks, HandsInv, TasksInv
  <2>3. /\ n \in Nat /\ DOMAIN queue = 1..n
        /\ queue' \in Seq(Tasks) /\ DOMAIN queue' = 1..(n + 1)
        /\ queue'[n + 1] = t /\ \A i \in 1..n : queue'[i] = queue[i]
    <3> HIDE DEF t
    <3> QED
      BY <1>2, <2>2, PushFacts DEF Push, t
  <2>4. \A i \in 1..(n + 1) : i = n + 1 \/ i \in 1..n
    BY <2>3
  <2> HIDE DEF t, n
  <2>5. ASSUME NEW i \in 1..n, queue[i].at = "handle"
        PROVE  queue[i].of \in Clients /\ queue[i].of # fresh /\ queue[i] # t
    <3>1. queue[i] \in Tasks /\ client[queue[i].of] = "queued"
      BY <2>2, <2>3, <2>5 DEF HandsInv, QueuedInv
    <3> QED
      BY <3>1, <2>1, <2>2, <2>5, TaskFacts
  <2>6. QueuedInv'
    <3> SUFFICES ASSUME NEW i \in 1..(n + 1), queue'[i].at = "handle"
                 PROVE  /\ client'[queue'[i].of] = "queued"
                        /\ \A j \in 1..(n + 1) : queue'[j] = queue'[i] => j = i
      BY <2>3 DEF QueuedInv
    <3>1. CASE i = n + 1
      BY <3>1, <2>1, <2>2, <2>3, <2>4, <2>5
    <3>2. CASE i \in 1..n
      <4>1. /\ queue'[i] = queue[i] /\ client[queue[i].of] = "queued"
            /\ \A j \in 1..n : queue[j] = queue[i] => j = i
        BY <3>2, <2>3 DEF HandsInv, QueuedInv
      <4> QED
        BY <3>2, <4>1, <2>1, <2>3, <2>4, <2>5
    <3> QED
      BY <3>1, <3>2, <2>4
  <2>7. ServedInv'
    BY <2>1, ThreadFacts DEF HandsInv, ServedInv, TasksInv
  <2>8. AccountInv'
    <3> SUFFICES ASSUME NEW d \in Clients
                 PROVE  /\ client'[d] # "held"
                        /\ client'[d] = "queued" =>
                             \E i \in 1..(n + 1) : queue'[i] = [at |-> "handle", of |-> d]
                        /\ client'[d] = "served" =>
                             \E v \in Workers : worker[v].at \in Handling /\ worker[v].of = d
      BY <2>1, <2>3 DEF AccountInv
    <3>1. CASE d = fresh
      <4>1. n + 1 \in 1..(n + 1)
        BY <2>3
      <4> QED
        BY <3>1, <4>1, <2>1, <2>3 DEF t
    <3>2. CASE d # fresh
      <4>1. \A i \in 1..n : i \in 1..(n + 1)
        BY <2>3
      <4> QED
        BY <3>2, <4>1, <2>1, <2>3 DEF HandsInv, AccountInv
    <3> QED
      BY <3>1, <3>2
  <2>9. FilesInv'
    <3>1. \A i \in 1..n : i \in 1..(n + 1)
      BY <2>3
    <3> QED
      BY <3>1, <2>1, <2>3 DEF HandsInv, FilesInv
  <2> QED
    BY <2>1, <2>3, <2>6, <2>7, <2>8, <2>9 DEF HandsInv, TasksInv, HeldInv
<1> QED
  BY <1>1, <1>2 DEF Admit

-----------------------------------------------------------------------------
(* The four parts of the invariant are inductive.                          *)

LEMMA HandsStep == TypeOK /\ HandsInv /\ PhaseInv /\ [Next]_vars => HandsInv'
<1> SUFFICES ASSUME TypeOK, HandsInv, PhaseInv, [Next]_vars PROVE HandsInv'
  OBVIOUS
<1> DEFINE Quiet == UNCHANGED <<client, fresh, file, queue, worker>>
           SameHold == acceptor' \in Holding <=> acceptor \in Holding
<1>1. CASE \/ Listen \/ StartFails \/ SetRunning \/ ResetRequest \/ WaitForRequest
           \/ StopEvent \/ StopRequest \/ JoinAccept \/ DestroyReceiver \/ StopPool
           \/ Finish \/ CtrlC \/ CtrlNotify \/ UNCHANGED vars
  <2>1. Quiet /\ UNCHANGED acceptor
    BY <1>1 DEF Listen, StartFails, SetRunning, ResetRequest, WaitForRequest, StopEvent,
                StopRequest, JoinAccept, DestroyReceiver, StopPool, Finish, CtrlC,
                CtrlNotify, vars, tasks
  <2> QED
    BY <2>1, QuietKeepsHands
<1>2. CASE StartAccept \/ BeforeAccept \/ AcceptClosed \/ AcceptFails \/ AfterRefusal
  <2>1. Quiet /\ acceptor' \notin Holding /\ acceptor \notin Holding
    BY <1>2 DEF StartAccept, BeforeAccept, AcceptClosed, AcceptFails, AfterRefusal, tasks,
                Holding, PhaseInv, Starting
  <2> QED
    BY <2>1, QuietKeepsHands
<1>3. CASE StartAcceptFails \/ StopClose \/ CtrlClose \/ Connect
  <2>1. /\ UNCHANGED <<fresh, file, queue, worker, acceptor>>
        /\ \/ CloseListener
           \/ \E c \in Clients : client[c] = "away"
                                /\ client' = [client EXCEPT ![c] = "backlog"]
    BY <1>3 DEF StartAcceptFails, StopClose, CtrlClose, Connect, tasks
  <2> QED
    BY <2>1, ListenerKeepsHands
<1>4. CASE LoadNotify \/ PoolNotify \/ AcceptNotify
  <2>1. UNCHANGED <<client, fresh, file, queue>> /\ (NotifyOne \/ NotifyAll) /\ SameHold
    BY <1>4 DEF LoadNotify, PoolNotify, AcceptNotify, Holding
  <2> QED
    BY <2>1, WakingKeepsHands
<1>5. CASE LoadPending
  BY <1>5, LoadPendingHands
<1>6. CASE Accept
  BY <1>6, AcceptHands
<1>7. CASE AfterAccept
  <2>1. CASE requested /\ CloseFresh /\ acceptor' = "ended"
    BY <1>7, <2>1, CloseFreshHands DEF AfterAccept, Holding, tasks
  <2>2. CASE ~requested /\ acceptor' = "admit" /\ UNCHANGED <<client, fresh>>
    BY <1>7, <2>2, QuietKeepsHands DEF AfterAccept, Holding, tasks
  <2> QED
    BY <1>7, <2>1, <2>2 DEF AfterAccept
<1>8. CASE Admit
  BY <1>8, AdmitHands
<1>9. ASSUME NEW w \in Workers, WorkerStep(w) PROVE HandsInv'
  <2>1. CASE WaitForTask(w) \/ ExitWorker(w)
    <3>1. /\ UNCHANGED <<client, fresh, file, queue, acceptor>> /\ worker[w] = Checking
          /\ \E t \in {Asleep, Exited} : worker' = [worker EXCEPT ![w] = t]
      BY <2>1 DEF WaitForTask, ExitWorker
    <3>2. /\ worker' \in [Workers -> Threads]
          /\ \A v \in Workers : v # w => worker'[v] = worker[v]
          /\ worker'[w] \in {Asleep, Exited}
      BY <3>1 DEF HandsInv, TasksInv, Threads
    <3>3. \A v \in Workers :
            /\ worker'[v].at \in Handling <=> worker[v].at \in Handling
            /\ worker[v].at \in Handling => worker'[v].of = worker[v].of
            /\ worker[v].at = "finalise" => worker'[v] = worker[v]
      BY <3>1, <3>2 DEF Handling, Asleep, Exited, Checking
    <3> QED
      BY <3>1, <3>2, <3>3, HandsKept
  <2>2. CASE TakeTask(w)
    BY <2>2, TakeTaskHands
  <2>3. CASE CompleteFile(w)
    BY <2>3, CompleteFileHands
  <2>4. CASE HandlerNotify(w)
    BY <2>4, HandlerNotifyHands
  <2>5. CASE HandlerEnds(w)
    BY <2>5, HandlerEndsHands
  <2>6. CASE Finalise(w)
    BY <2>6, FinaliseHands
  <2> QED
    BY <1>9, <2>1, <2>2, <2>3, <2>4, <2>5, <2>6 DEF WorkerStep
<1> QED
  BY <1>1, <1>2, <1>3, <1>4, <1>5, <1>6, <1>7, <1>8, <1>9
    DEF Next, MainStep, AcceptorStep, CtrlStep

LEMMA PhaseStep == TypeOK /\ HandsInv /\ PhaseInv /\ [Next]_vars => PhaseInv'
<1> SUFFICES ASSUME TypeOK, HandsInv, PhaseInv, [Next]_vars PROVE PhaseInv'
  OBVIOUS
<1> USE DEF Starting, Draining
<1>1. ASSUME UNCHANGED <<stopped, queue, worker, acceptor>>,
             \/ UNCHANGED main
             \/ main \in Starting /\ main' \in Starting
             \/ main \notin Starting \cup Draining \cup {"poolStop"}
                 /\ main' \notin Starting \cup Draining \cup {"poolStop"}
      PROVE  PhaseInv'
  BY <1>1 DEF PhaseInv
<1>2. CASE \/ Listen \/ StartFails \/ SetRunning \/ ResetRequest \/ StartAcceptFails
  BY <1>1, <1>2 DEF Listen, StartFails, SetRunning, ResetRequest, StartAcceptFails, tasks
<1>3. CASE WaitForRequest \/ StopEvent \/ StopRequest \/ StopClose
  BY <1>1, <1>3 DEF WaitForRequest, StopEvent, StopRequest, StopClose, tasks
<1>4. CASE CtrlC \/ CtrlClose \/ CtrlNotify \/ Connect \/ UNCHANGED vars
  BY <1>1, <1>4 DEF CtrlC, CtrlClose, CtrlNotify, WakeRun, Connect, vars, tasks
<1>5. CASE StartAccept \/ JoinAccept \/ DestroyReceiver \/ StopPool \/ Finish
  BY <1>5 DEF StartAccept, JoinAccept, DestroyReceiver, StopPool, Finish, PhaseInv, tasks
<1>6. CASE LoadPending
  <2>1. main' \in {"init", "initNotify"} /\ UNCHANGED <<acceptor, stopped, worker>>
    BY <1>6 DEF LoadPending
  <2>2. \A w \in Workers : worker[w] # Exited
    BY <1>6 DEF LoadPending, PhaseInv
  <2> QED
    BY <1>6, <2>1, <2>2 DEF LoadPending, PhaseInv
<1>7. ASSUME UNCHANGED <<queue, stopped>>, NotifyOne \/ NotifyAll
      PROVE  \A w \in Workers :
               /\ worker'[w] = Exited => stopped' /\ queue' = <<>>
               /\ worker[w] = Exited => worker'[w] = Exited
  <2>1. \A w \in Workers : worker'[w] = worker[w]
                          \/ (worker[w] = Asleep /\ worker'[w] = Checking)
    BY <1>7, WakeKeepsTypes DEF HandsInv
  <2> QED
    BY <2>1, <1>7 DEF PhaseInv, Checking, Exited, Asleep
<1>8. CASE LoadNotify \/ PoolNotify \/ AcceptNotify
  BY <1>7, <1>8 DEF LoadNotify, PoolNotify, AcceptNotify, PhaseInv
<1>9. CASE BeforeAccept \/ Accept \/ AcceptClosed \/ AcceptFails \/ AfterRefusal
           \/ AfterAccept
  BY <1>9 DEF BeforeAccept, Accept, AcceptClosed, AcceptFails, AfterRefusal, AfterAccept,
              PhaseInv, tasks
<1>10. CASE Admit
  BY <1>10 DEF Admit, PhaseInv
<1>11. ASSUME NEW w \in Workers, WorkerStep(w) PROVE PhaseInv'
  <2> DEFINE Rest == UNCHANGED <<main, acceptor, stopped>>
  <2>0. /\ worker \in [Workers -> Threads] /\ queue \in Seq(Tasks)
        /\ worker[w] # Exited /\ main # "returned"
    BY <1>11 DEF HandsInv, TasksInv, PhaseInv, WorkerStep, WaitForTask, ExitWorker,
        TakeTask, CompleteFile, HandlerNotify, HandlerEnds, Finalise, Checking, Exited
  <2>1. ASSUME Rest, UNCHANGED queue,
               \A v \in Workers : worker'[v] = Exited => worker[v] = Exited
        PROVE  PhaseInv'
    BY <2>0, <2>1 DEF PhaseInv
  <2>2. CASE WaitForTask(w) \/ HandlerEnds(w) \/ Finalise(w)
    <3>1. Rest /\ UNCHANGED queue
          /\ \E t \in {Asleep, Checking} : worker' = [worker EXCEPT ![w] = t]
      BY <2>2 DEF WaitForTask, HandlerEnds, Finalise
    <3>2. \A v \in Workers : worker'[v] = Exited => worker[v] = Exited
      BY <3>1, <2>0 DEF Asleep, Checking, Exited
    <3> QED
      BY <2>1, <3>1, <3>2
  <2>3. CASE ExitWorker(w)
    BY <2>3, <2>0 DEF ExitWorker, PhaseInv
  <2>4. CASE TakeTask(w)
    <3>1. Head(queue) # Exited
      BY <2>4, <2>0, TakeFacts DEF TakeTask, Tasks, Exited
    <3>2. \A v \in Workers : worker'[v] # Exited
      BY <2>4, <2>0, <3>1 DEF TakeTask, PhaseInv
    <3> QED
      BY <2>4, <2>0, <3>2 DEF TakeTask, PhaseInv
  <2>5. CASE CompleteFile(w)
    <3>1. \A v \in Workers : worker'[v] = Exited => worker[v] = Exited
      BY <2>5, <2>0 DEF CompleteFile, Exited
    <3>2. Rest /\ (UNCHANGED queue \/ ~stopped)
      BY <2>5 DEF CompleteFile, Room
    <3> QED
      BY <3>1, <3>2, <2>0 DEF PhaseInv
  <2>6. CASE HandlerNotify(w)
    <3>1. \A v \in Workers : worker'[v] = Exited => worker[v] = Exited
      BY <2>6, <2>0 DEF HandlerNotify, Exited, Checking, Sleepers
    <3> QED
      BY <2>6, <3>1, <2>1 DEF HandlerNotify
  <2> QED
    BY <1>11, <2>2, <2>3, <2>4, <2>5, <2>6 DEF WorkerStep
<1> QED
  BY <1>2, <1>3, <1>4, <1>5, <1>6, <1>8, <1>9, <1>10, <1>11
    DEF Next, MainStep, AcceptorStep, CtrlStep

LEMMA TypeStep == TypeOK /\ HandsInv /\ PhaseInv /\ [Next]_vars => TypeOK'
<1> SUFFICES ASSUME TypeOK, HandsInv, PhaseInv, [Next]_vars PROVE TypeOK'
  OBVIOUS
<1>0. HandsInv'
  BY HandsStep
<1> DEFINE ClientStates == {"away", "backlog", "held", "queued", "served", "closed"}
           FileStates == {"none", "queued", "left", "finalised"}
           Flags == {service, receiver, running, requested, stopped} \subseteq BOOLEAN
           Counts == /\ todo \subseteq Leftovers /\ signals \in 0..MaxSignals
                     /\ faults \in 0..MaxFaults
                     /\ listener \in {"none", "listening", "closed"}
\* The connection the accept thread holds is open, and the tasks have their types,
\* by HandsInv.
<1>1. /\ acceptor' \in {"accepted", "admit"} => client'[fresh'] = "held"
      /\ \A i \in DOMAIN queue' : queue'[i].at \in {"handle", "finalise"}
  <2>1. \A i \in DOMAIN queue' : queue'[i] \in Tasks
    BY <1>0 DEF HandsInv, TasksInv
  <2> QED
    BY <1>0, <2>1, TaskFacts DEF HandsInv, HeldInv, Holding
<1>2. Flags'
  <2>1. CASE MainStep \/ StartFails \/ StartAcceptFails \/ StopEvent
    BY <2>1 DEF MainStep, StartFails, StartAcceptFails, StopEvent, LoadPending,
         LoadNotify, Listen, SetRunning, ResetRequest, StartAccept, WaitForRequest,
         StopRequest, StopClose, JoinAccept, DestroyReceiver, StopPool, PoolNotify,
         Finish, life, tasks, TypeOK
  <2>2. CASE AcceptorStep \/ AcceptFails \/ CtrlC \/ CtrlStep \/ Connect \/ UNCHANGED vars
    BY <2>2 DEF AcceptorStep, AcceptFails, CtrlC, CtrlStep, Connect, vars, CtrlClose,
         CtrlNotify, BeforeAccept, Accept, AcceptClosed, AfterRefusal, AfterAccept, Admit,
         AcceptNotify, life, tasks, TypeOK
  <2>3. CASE \E w \in Workers : WorkerStep(w)
    BY <2>3 DEF WorkerStep, WaitForTask, ExitWorker, TakeTask, CompleteFile,
         HandlerNotify, HandlerEnds, Finalise, life, TypeOK
  <2> QED
    BY <2>1, <2>2, <2>3 DEF Next
<1>3. Counts'
  <2>0. Counts
    BY DEF TypeOK
  <2>1. CASE MainStep \/ StartFails \/ StartAcceptFails \/ StopEvent
    <3>1. CASE StartFails \/ StartAcceptFails
      BY <2>0, <3>1, LoopAssumption DEF StartFails, StartAcceptFails, life, Fault,
           CloseListener
    <3>2. CASE LoadPending
      <4>1. todo' \subseteq Leftovers /\ UNCHANGED <<signals, faults, listener>>
        BY <2>0, <3>2 DEF LoadPending
      <4> QED
        BY <2>0, <4>1
    <3>3. CASE (MainStep /\ ~LoadPending) \/ StopEvent
      BY <2>0, <3>3 DEF MainStep, StopEvent, LoadNotify, Listen, SetRunning,
           ResetRequest, StartAccept, WaitForRequest, StopRequest, StopClose, JoinAccept,
           DestroyReceiver, StopPool, PoolNotify, Finish, life, CloseListener
    <3> QED
      BY <2>1, <3>1, <3>2, <3>3
  <2>2. CASE AcceptorStep \/ AcceptFails \/ CtrlC \/ CtrlStep \/ Connect \/ UNCHANGED vars
    BY <2>0, <2>2, LoopAssumption DEF AcceptorStep, AcceptFails, CtrlC, CtrlStep, Connect,
         vars, CtrlClose, CtrlNotify, BeforeAccept, Accept, AcceptClosed, AfterRefusal,
         AfterAccept, Admit, AcceptNotify, life, Fault, CloseListener
  <2>3. CASE \E w \in Workers : WorkerStep(w)
    BY <2>0, <2>3 DEF WorkerStep, WaitForTask, ExitWorker, TakeTask, CompleteFile,
         HandlerNotify, HandlerEnds, Finalise, life
  <2> QED
    BY <2>1, <2>2, <2>3 DEF Next
<1>4. client' \in [Clients -> ClientStates]
  <2>0. client \in [Clients -> ClientStates]
    BY DEF TypeOK
  <2>1. CASE MainStep \/ StartFails \/ StartAcceptFails \/ StopEvent
    BY <2>0, <2>1 DEF MainStep, StartFails, StartAcceptFails, StopEvent, LoadPending,
         LoadNotify, Listen, SetRunning, ResetRequest, StartAccept, WaitForRequest,
         StopRequest, StopClose, JoinAccept, DestroyReceiver, StopPool, PoolNotify,
         Finish, CloseListener
  <2>2. CASE AcceptorStep \/ AcceptFails \/ CtrlC \/ CtrlStep \/ Connect \/ UNCHANGED vars
    BY <2>0, <2>2 DEF AcceptorStep, AcceptFails, CtrlC, CtrlStep, Connect,
         vars, CtrlClose, CtrlNotify, BeforeAccept, Accept, AcceptClosed, AfterRefusal,
         AfterAccept, Admit, AcceptNotify, CloseListener, CloseFresh
  <2>3. CASE \E w \in Workers : WorkerStep(w)
    BY <2>0, <2>3 DEF WorkerStep, WaitForTask, ExitWorker, TakeTask, CompleteFile,
         HandlerNotify, HandlerEnds, Finalise
  <2> QED
    BY <2>1, <2>2, <2>3 DEF Next
<1>5. file' \in [Files -> FileStates]
  <2>0. file \in [Files -> FileStates]
    BY DEF TypeOK
  <2>1. CASE MainStep \/ StartFails \/ StartAcceptFails \/ StopEvent
    BY <2>0, <2>1 DEF MainStep, StartFails, StartAcceptFails, StopEvent, LoadPending,
         LoadNotify, Listen, SetRunning, ResetRequest, StartAccept, WaitForRequest,
         StopRequest, StopClose, JoinAccept, DestroyReceiver, StopPool, PoolNotify, Finish
  <2>2. CASE AcceptorStep \/ AcceptFails \/ CtrlC \/ CtrlStep \/ Connect \/ UNCHANGED vars
    BY <2>0, <2>2 DEF AcceptorStep, AcceptFails, CtrlC, CtrlStep, Connect,
         vars, CtrlClose, CtrlNotify, BeforeAccept, Accept, AcceptClosed, AfterRefusal,
         AfterAccept, Admit, AcceptNotify
  <2>3. CASE \E w \in Workers : WorkerStep(w)
    BY <2>0, <2>3 DEF WorkerStep, WaitForTask, ExitWorker, TakeTask, CompleteFile,
         HandlerNotify, HandlerEnds, Finalise
  <2> QED
    BY <2>1, <2>2, <2>3 DEF Next
<1>6. fresh' \in Clients \cup {NoClient}
  BY DEF TypeOK, Next, MainStep, StartFails, StartAcceptFails, StopEvent, LoadPending,
         LoadNotify, Listen, SetRunning, ResetRequest, StartAccept, WaitForRequest,
         StopRequest, StopClose, JoinAccept, DestroyReceiver, StopPool, PoolNotify, Finish,
         AcceptorStep, AcceptFails, CtrlC, CtrlStep, Connect, vars, CtrlClose, CtrlNotify,
         BeforeAccept, Accept, AcceptClosed, AfterRefusal, AfterAccept, Admit,
         AcceptNotify, CloseFresh, WorkerStep, WaitForTask, ExitWorker, TakeTask,
         CompleteFile, HandlerNotify, HandlerEnds, Finalise
<1>7. Len(queue') <= MaxPending
  <2>0. queue \in Seq(Tasks) /\ Len(queue) \in Nat /\ Len(queue) <= MaxPending
    BY DEF TypeOK, HandsInv, TasksInv
  <2>1. CASE UNCHANGED queue
    BY <2>0, <2>1
  <2>2. ASSUME NEW t \in Tasks, Room, Push(t) PROVE Len(queue') <= MaxPending
    BY <2>0, <2>2, PushFacts, LoopAssumption DEF Room, Push
  <2>3. ASSUME NEW w \in Workers, TakeTask(w) PROVE Len(queue') <= MaxPending
    BY <2>0, <2>3, TakeFacts, LoopAssumption DEF TakeTask
  <2>4. CASE LoadPending
    <3>1. \A f \in Leftovers : [at |-> "finalise", of |-> f] \in Tasks
      BY DEF Tasks, Files
    <3> QED
      BY <2>1, <2>2, <2>4, <3>1 DEF LoadPending, TypeOK
  <2>5. CASE Admit
    <3>1. fresh \in Clients
      BY <2>5 DEF Admit, HandsInv, HeldInv, Holding
    <3>2. [at |-> "handle", of |-> fresh] \in Tasks
      BY <3>1 DEF Tasks
    <3> QED
      BY <2>1, <2>2, <2>5, <3>2 DEF Admit
  <2>6. ASSUME NEW w \in Workers, CompleteFile(w) PROVE Len(queue') <= MaxPending
    <3>1. worker[w].of \in Files
      BY <2>6, ThreadFacts DEF CompleteFile, HandsInv, TasksInv, Handling, Files
    <3>2. [at |-> "finalise", of |-> worker[w].of] \in Tasks
      BY <3>1 DEF Tasks
    <3> QED
      BY <2>1, <2>2, <2>6, <3>2 DEF CompleteFile
  <2> QED
    BY <2>1, <2>3, <2>4, <2>5, <2>6
      DEF Next, MainStep, StartFails, StartAcceptFails, StopEvent,
         LoadNotify, Listen, SetRunning, ResetRequest, StartAccept, WaitForRequest,
         StopRequest, StopClose, JoinAccept, DestroyReceiver, StopPool, PoolNotify, Finish,
         AcceptorStep, AcceptFails, CtrlC, CtrlStep, Connect, vars, CtrlClose, CtrlNotify,
         BeforeAccept, Accept, AcceptClosed, AfterRefusal, AfterAccept,
         AcceptNotify, WorkerStep, WaitForTask, ExitWorker,
         HandlerNotify, HandlerEnds, Finalise, tasks
<1> QED
  BY <1>1, <1>2, <1>3, <1>4, <1>5, <1>6, <1>7 DEF TypeOK

\* Whoever queues a task still owes the notification in the next state; whoever
\* pays it wakes a thread, unless none sleeps.
LEMMA WakeStep ==
  TypeOK /\ HandsInv /\ PhaseInv /\ NoLostWakeup /\ [Next]_vars => NoLostWakeup'
<1> SUFFICES ASSUME TypeOK, HandsInv, PhaseInv, NoLostWakeup, [Next]_vars,
                    queue' # <<>>, \A w \in Workers : worker'[w] \in {Asleep, Exited}
             PROVE  acceptor' = "notify" \/ main' = "initNotify"
  BY DEF NoLostWakeup
<1>0. /\ worker \in [Workers -> Threads] /\ queue \in Seq(Tasks)
      /\ Workers # {} /\ Checking \notin {Asleep, Exited}
  BY LoopAssumption DEF HandsInv, TasksInv, Checking, Asleep, Exited
<1>1. ASSUME UNCHANGED <<queue, worker>>, acceptor' = acceptor \/ acceptor # "notify",
             main' = main \/ main # "initNotify"
      PROVE  acceptor' = "notify" \/ main' = "initNotify"
  BY <1>1 DEF NoLostWakeup
<1>2. CASE MainStep /\ ~LoadPending /\ ~LoadNotify /\ ~PoolNotify
  BY <1>1, <1>2 DEF MainStep, Listen, SetRunning, ResetRequest, StartAccept,
       WaitForRequest, StopRequest, StopClose, JoinAccept, DestroyReceiver, StopPool,
       Finish, tasks, PhaseInv, Starting
<1>3. CASE StartFails \/ StartAcceptFails \/ StopEvent \/ CtrlC \/ CtrlStep \/ Connect
           \/ UNCHANGED vars
  BY <1>1, <1>3 DEF StartFails, StartAcceptFails, StopEvent, CtrlC, CtrlStep, CtrlClose,
       CtrlNotify, WakeRun, Connect, vars, tasks
<1>4. CASE LoadPending
  <2>1. UNCHANGED <<worker, acceptor>> /\ (UNCHANGED <<queue, main>> \/ main' = "initNotify")
    BY <1>4 DEF LoadPending
  <2> QED
    BY <1>1, <2>1
<1>5. ASSUME UNCHANGED <<queue, stopped>>, NotifyOne \/ NotifyAll PROVE FALSE
  <2>1. \A w \in Workers : worker'[w] = worker[w]
                          \/ (worker[w] = Asleep /\ worker'[w] = Checking)
    BY <1>5, WakeKeepsTypes DEF HandsInv
  <2>2. \A w \in Workers : worker[w] = worker'[w] /\ worker[w] # Exited
    BY <2>1, <1>0, <1>5 DEF PhaseInv
  <2>3. Sleepers = Workers
    BY <2>2 DEF Sleepers
  <2>4. \E w \in Workers : worker'[w] = Checking
    BY <2>3, <1>0, <1>5 DEF NotifyOne, NotifyAll
  <2> QED
    BY <2>4, <1>0
<1>6. CASE LoadNotify \/ PoolNotify \/ AcceptNotify
  BY <1>5, <1>6 DEF LoadNotify, PoolNotify, AcceptNotify
<1>7. CASE BeforeAccept \/ Accept \/ AcceptClosed \/ AfterRefusal \/ AfterAccept
           \/ AcceptFails
  BY <1>1, <1>7 DEF BeforeAccept, Accept, AcceptClosed, AfterRefusal, AfterAccept,
       AcceptFails, tasks
<1>8. CASE Admit
  BY <1>1, <1>8 DEF Admit
<1>9. ASSUME NEW w \in Workers, WorkerStep(w)
      PROVE  FALSE
  <2>1. CASE WaitForTask(w) \/ ExitWorker(w)
    BY <2>1 DEF WaitForTask, ExitWorker
  <2>2. CASE TakeTask(w)
    <3>1. Head(queue) \in Tasks /\ worker'[w] = Head(queue)
      BY <2>2, <1>0, TakeFacts DEF TakeTask
    <3> QED
      BY <3>1, TaskFacts DEF Asleep, Exited
  <2>3. CASE CompleteFile(w) \/ HandlerNotify(w)
    <3>0. worker[w].at \in Handling
      BY <2>3 DEF CompleteFile, HandlerNotify, Handling
    <3>1. worker[w] \in [at : Handling, of : Clients] /\ worker[w] # Asleep
      BY <3>0, <1>0 DEF Threads, Handling, Checking, Asleep, Exited
    <3>2. PICK a \in Handling :
            \/ worker' = [worker EXCEPT ![w].at = a]
            \/ \E v \in Sleepers :
                 worker' = [[worker EXCEPT ![w].at = a] EXCEPT ![v] = Checking]
      BY <2>3 DEF CompleteFile, HandlerNotify, Handling
    <3>3. worker'[w] = [worker[w] EXCEPT !.at = a]
      BY <3>1, <3>2, <1>0 DEF Sleepers
    <3>4. worker'[w].at \in Handling
      BY <3>1, <3>3
    <3> QED
      BY <3>4 DEF Handling, Asleep, Exited
  <2>4. CASE HandlerEnds(w) \/ Finalise(w)
    BY <2>4, <1>0 DEF HandlerEnds, Finalise
  <2> QED
    BY <1>9, <2>1, <2>2, <2>3, <2>4 DEF WorkerStep
<1> QED
  BY <1>2, <1>3, <1>4, <1>6, <1>7, <1>8, <1>9 DEF Next, MainStep, AcceptorStep

LEMMA LoopInit == Init => LoopInv
<1> SUFFICES ASSUME Init PROVE LoopInv
  OBVIOUS
<1>1. TypeOK
  <2>1. /\ Len(queue) <= MaxPending
        /\ \A i \in DOMAIN queue : queue[i].at \in {"handle", "finalise"}
    BY LoopAssumption DEF Init
  <2>2. signals \in 0..MaxSignals /\ faults \in 0..MaxFaults
    BY LoopAssumption DEF Init
  <2>3. {service, receiver, running, requested, stopped} \subseteq BOOLEAN
    BY DEF Init
  <2> QED
    BY <2>1, <2>2, <2>3 DEF Init, TypeOK
<1>2. HandsInv
  <2>1. TasksInv
    BY DEF Init, TasksInv, Threads
  <2>2. \A w \in Workers : worker[w].at \notin Handling
    BY DEF Init, Checking, Handling
  <2> QED
    BY <2>1, <2>2 DEF Init, HandsInv, QueuedInv, ServedInv, HeldInv, Holding, AccountInv,
                      FilesInv
<1>3. PhaseInv
  <2>1. \A w \in Workers : worker[w] # Exited
    BY DEF Init, Checking, Exited
  <2> QED
    BY <2>1 DEF Init, PhaseInv, Starting, Draining
<1> QED
  BY <1>1, <1>2, <1>3 DEF Init, LoopInv, NoLostWakeup

LEMMA LoopInductive == Spec => []LoopInv
<1>1. LoopInv /\ [Next]_vars => LoopInv'
  BY TypeStep, HandsStep, PhaseStep, WakeStep DEF LoopInv
<1> QED
  BY <1>1, LoopInit, PTL DEF Spec

-----------------------------------------------------------------------------
(* Theorems.                                                               *)

\* Types of the server's state, with the bound on the queue and the connection in
\* the accept thread's hands (ServerUDT, ThreadPool).
THEOREM LoopTypeCorrect == Spec => []TypeOK
<1>1. LoopInv => TypeOK
  BY DEF LoopInv
<1> QED
  BY <1>1, LoopInductive, PTL

\* With any number of threads, no notification is lost between addTask and a thread
\* that is about to sleep (ThreadPool::addTask, workerThread).
THEOREM NoWakeupLost == Spec => []NoLostWakeup
<1>1. LoopInv => NoLostWakeup
  BY DEF LoopInv
<1> QED
  BY <1>1, LoopInductive, PTL

\* All the threads have ended, so that nothing is queued and no thread has a task.
LEMMA ReturnedIsIdle ==
  ASSUME LoopInv, main = "returned"
  PROVE  /\ queue = <<>> /\ DOMAIN queue = {} /\ acceptor \notin Holding
         /\ \A w \in Workers : worker[w].at \notin Handling \cup {"finalise"}
<1>1. queue = <<>> /\ acceptor \notin Holding /\ \A w \in Workers : worker[w] = Exited
  BY LoopAssumption DEF LoopInv, PhaseInv, Draining, Holding
<1> QED
  BY <1>1 DEF Exited, Handling

\* Whenever the request to stop comes, no connection the server accepted is open
\* when it has returned (acceptClients, handleClient, stop).
THEOREM NoSocketIsLeaked == Spec => []NoSocketLeaked
<1>1. LoopInv => NoSocketLeaked
  BY ReturnedIsIdle DEF LoopInv, NoSocketLeaked, HandsInv, AccountInv
<1> QED
  BY <1>1, LoopInductive, PTL

\* stop drains the queue: no finalisation that was queued is lost when the server
\* returns, on a request as after a failed start (ThreadPool::stop, ~ServerUDT).
THEOREM StopDrainsQueue == Spec => []NothingQueuedAtReturn
<1>1. LoopInv => NothingQueuedAtReturn
  <2> SUFFICES ASSUME LoopInv, main = "returned", NEW f \in Files, file[f] = "queued"
               PROVE  FALSE
    BY ReturnedIsIdle DEF NothingQueuedAtReturn
  <2>1. \E w \in Workers : worker[w] = [at |-> "finalise", of |-> f]
    BY ReturnedIsIdle DEF LoopInv, HandsInv, FilesInv
  <2> QED
    BY <2>1, ReturnedIsIdle
<1> QED
  BY <1>1, LoopInductive, PTL

=============================================================================
