----------------------------- MODULE ServerLoop -----------------------------
(***************************************************************************)
(* The server's life: run, the accept thread, the shared thread pool and   *)
(* shutdown (ServerUDT, ThreadPool).  What a connection handler does with  *)
(* its chunks is the subject of SecureSession and FileReceiver; here it    *)
(* occupies a thread of the pool until its client is done or silent for    *)
(* too long, and may put the finalisation of a file into the same queue.   *)
(***************************************************************************)
EXTENDS Naturals, Sequences, FiniteSets

CONSTANTS
  Clients,      \* connections that may be opened
  Leftovers,    \* complete files found in the database at start-up
  Workers,      \* threads of the pool
  MaxPending,   \* maxPendingTasks
  MaxSignals,   \* how often Ctrl+C is pressed
  MaxFaults,    \* bound on start-up failures and errors of accept
  NoClient

ASSUME LoopAssumption ==
  /\ IsFiniteSet(Clients) /\ NoClient \notin Clients
  /\ Clients \cap Leftovers = {}
  /\ Workers # {} /\ MaxPending \in Nat \ {0}
  /\ MaxSignals \in Nat /\ MaxFaults \in Nat

VARIABLES
  service,     \* runAsService
  main,        \* where run, stop and the destructor are
  todo,        \* leftovers not looked at yet
  receiver,    \* the FileReceiver exists
  running, requested,  \* ServerUDT::running, shutdownRequested
  listener,    \* serverSocket: "none", "listening" or "closed"
  ctrl,        \* where the console's control handler is
  signals,     \* Ctrl+C still to come
  acceptor,    \* where the accept thread is
  fresh,       \* the connection it has just accepted
  client,      \* client[c]: what became of connection c
  file,        \* file[f]: what became of the file of a client, or of a leftover
  queue, stopped,      \* ThreadPool::tasks, ThreadPool::stopped
  worker,      \* what each thread of the pool is doing
  faults       \* what is left of MaxFaults

life  == <<service, todo, receiver, running>>
tasks == <<queue, stopped, worker>>
vars  == <<life, main, requested, listener, ctrl, signals, acceptor, fresh,
           client, file, tasks, faults>>

Files == Clients \cup Leftovers
Checking == [at |-> "check", of |-> NoClient]
Asleep   == [at |-> "asleep", of |-> NoClient]
Exited   == [at |-> "exited", of |-> NoClient]

Init ==
  /\ service \in BOOLEAN
  /\ main = "init" /\ todo = Leftovers /\ receiver = TRUE
  /\ running = FALSE /\ requested = FALSE /\ listener = "none"
  /\ ctrl = "idle" /\ signals = MaxSignals
  /\ acceptor = "none" /\ fresh = NoClient
  /\ client = [c \in Clients |-> "away"]
  /\ file = [f \in Files |-> "none"]
  /\ queue = <<>> /\ stopped = FALSE
  /\ worker = [w \in Workers |-> Checking]
  /\ faults = MaxFaults

Fault == faults > 0 /\ faults' = faults - 1

-----------------------------------------------------------------------------
(* ThreadPool.                                                             *)

\* Mutant of Room: the bound of the queue is not looked at.
RoomUnlessStopped == ~stopped

\* addTask throws when the pool is stopped or its queue is full.
Room == ~stopped /\ Len(queue) < MaxPending
Push(task) == queue' = Append(queue, task)

\* notify_one and notify_all wake threads that sleep; the others see the queue
\* when they get there.
Sleepers == {w \in Workers : worker[w] = Asleep}
NotifyOne ==
  \/ Sleepers = {} /\ UNCHANGED worker
  \/ \E w \in Sleepers : worker' = [worker EXCEPT ![w] = Checking]
NotifyAll == worker' = [w \in Workers |-> IF w \in Sleepers THEN Checking ELSE worker[w]]

\* Mutant of WaitForTask: a thread sleeps first and looks afterwards.
SleepFirst(w) ==
  /\ worker[w] = Checking /\ ~stopped
  /\ worker' = [worker EXCEPT ![w] = Asleep]
  /\ UNCHANGED <<life, main, requested, listener, ctrl, signals, acceptor, fresh,
                 client, file, queue, stopped, faults>>

\* workerThread under queueMutex: sleep, exit or take the next task.
WaitForTask(w) ==
  /\ worker[w] = Checking /\ queue = <<>> /\ ~stopped
  /\ worker' = [worker EXCEPT ![w] = Asleep]
  /\ UNCHANGED <<life, main, requested, listener, ctrl, signals, acceptor, fresh,
                 client, file, queue, stopped, faults>>

\* Mutant of ExitWorker: what is still queued is dropped.
ExitAtOnce(w) ==
  /\ worker[w] = Checking /\ stopped
  /\ worker' = [worker EXCEPT ![w] = Exited]
  /\ UNCHANGED <<life, main, requested, listener, ctrl, signals, acceptor, fresh,
                 client, file, queue, stopped, faults>>

ExitWorker(w) ==
  /\ worker[w] = Checking /\ stopped /\ queue = <<>>
  /\ worker' = [worker EXCEPT ![w] = Exited]
  /\ UNCHANGED <<life, main, requested, listener, ctrl, signals, acceptor, fresh,
                 client, file, queue, stopped, faults>>

TakeTask(w) ==
  /\ worker[w] = Checking /\ queue # <<>>
  /\ worker' = [worker EXCEPT ![w] = Head(queue)]
  /\ queue' = Tail(queue)
  /\ client' = IF Head(queue).at = "handle"
               THEN [client EXCEPT ![Head(queue).of] = "served"] ELSE client
  /\ UNCHANGED <<life, main, requested, listener, ctrl, signals, acceptor, fresh,
                 file, stopped, faults>>

-----------------------------------------------------------------------------
(* The tasks.                                                              *)

\* The last chunk of a file has come (FileReceiver::receiveChunk): its
\* finalisation is queued, or left to the next start-up.
CompleteFile(w) ==
  LET c == worker[w].of
  IN /\ worker[w].at = "handle" /\ file[c] = "none"
     /\ \/ /\ Room
           /\ Push([at |-> "finalise", of |-> c])
           /\ file' = [file EXCEPT ![c] = "queued"]
           /\ worker' = [worker EXCEPT ![w].at = "notify"]
        \/ /\ ~Room
           /\ file' = [file EXCEPT ![c] = "left"]
           /\ worker' = [worker EXCEPT ![w].at = "last"]
           /\ UNCHANGED queue
     /\ UNCHANGED <<life, main, requested, listener, ctrl, signals, acceptor, fresh,
                    client, stopped, faults>>

HandlerNotify(w) ==
  LET last == [worker EXCEPT ![w].at = "last"]
  IN /\ worker[w].at = "notify"
     /\ \/ Sleepers = {} /\ worker' = last
        \/ \E v \in Sleepers : worker' = [last EXCEPT ![v] = Checking]
     /\ UNCHANGED <<life, main, requested, listener, ctrl, signals, acceptor, fresh,
                    client, file, queue, stopped, faults>>

\* handleClient returns: CLOSE_NOW after a complete file, the end of the stream,
\* or a recv that has timed out.  The destructor closes the connection.
HandlerEnds(w) ==
  /\ worker[w].at \in {"handle", "last"}
  /\ client' = [client EXCEPT ![worker[w].of] = "closed"]
  /\ worker' = [worker EXCEPT ![w] = Checking]
  /\ UNCHANGED <<life, main, requested, listener, ctrl, signals, acceptor, fresh,
                 file, queue, stopped, faults>>

\* tryReconstructFile.
Finalise(w) ==
  /\ worker[w].at = "finalise"
  /\ file' = [file EXCEPT ![worker[w].of] = "finalised"]
  /\ worker' = [worker EXCEPT ![w] = Checking]
  /\ UNCHANGED <<life, main, requested, listener, ctrl, signals, acceptor, fresh,
                 client, queue, stopped, faults>>

WorkerStep(w) ==
  \/ WaitForTask(w) \/ ExitWorker(w) \/ TakeTask(w) \/ CompleteFile(w)
  \/ HandlerNotify(w) \/ HandlerEnds(w) \/ Finalise(w)

-----------------------------------------------------------------------------
(* signalShutdown, by the control handler or by stop.                      *)

\* Mutant of CloseListener: the listening socket is left to stop.
LeaveListener == UNCHANGED <<listener, client>>

\* Under shutdownMutex; connections nobody has accepted go with the listener.
CloseListener ==
  /\ listener' = IF listener = "listening" THEN "closed" ELSE listener
  /\ client' = [c \in Clients |-> IF client[c] = "backlog" THEN "closed" ELSE client[c]]

\* notify_all on shutdownCV wakes run.
WakeRun == IF main = "asleep" THEN "wait" ELSE main

CtrlC ==
  /\ ~service /\ main # "returned" /\ ctrl = "idle" /\ signals > 0
  /\ signals' = signals - 1
  /\ requested' = TRUE
  /\ ctrl' = IF requested THEN "idle" ELSE "close"
  /\ UNCHANGED <<life, main, listener, acceptor, fresh, client, file, tasks, faults>>

CtrlClose ==
  /\ ctrl = "close"
  /\ CloseListener
  /\ ctrl' = "notify"
  /\ UNCHANGED <<life, main, requested, signals, acceptor, fresh, file, tasks, faults>>

CtrlNotify ==
  /\ ctrl = "notify"
  /\ main' = WakeRun
  /\ ctrl' = "idle"
  /\ UNCHANGED <<life, requested, listener, signals, acceptor, fresh, client, file,
                 tasks, faults>>

CtrlStep == CtrlClose \/ CtrlNotify

-----------------------------------------------------------------------------
(* run.                                                                    *)

\* FileReceiver's constructor, loadPendingCounters: a leftover that finds the
\* queue full is left to the next start-up.
LoadPending ==
  /\ main = "init"
  /\ \E f \in todo :
       /\ todo' = todo \ {f}
       /\ \/ /\ Room
             /\ Push([at |-> "finalise", of |-> f])
             /\ file' = [file EXCEPT ![f] = "queued"]
             /\ main' = "initNotify"
          \/ /\ ~Room
             /\ file' = [file EXCEPT ![f] = "left"]
             /\ UNCHANGED <<queue, main>>
  /\ UNCHANGED <<service, receiver, running, requested, listener, ctrl, signals,
                 acceptor, fresh, client, stopped, worker, faults>>

LoadNotify ==
  /\ main = "initNotify"
  /\ NotifyOne
  /\ main' = "init"
  /\ UNCHANGED <<life, requested, listener, ctrl, signals, acceptor, fresh, client,
                 file, queue, stopped, faults>>

\* Directories, UDT, socket, bind and listen.
Listen ==
  /\ main = "init" /\ todo = {}
  /\ listener' = "listening" /\ main' = "listening"
  /\ UNCHANGED <<life, requested, ctrl, signals, acceptor, fresh, client, file, tasks,
                 faults>>

\* One of them fails: what was opened is closed again and run returns false.
StartFails ==
  /\ main = "init" /\ todo = {}
  /\ Fault
  /\ main' = "failed"
  /\ UNCHANGED <<life, requested, listener, ctrl, signals, acceptor, fresh, client,
                 file, tasks>>

SetRunning ==
  /\ main = "listening"
  /\ running' = TRUE /\ main' = "running"
  /\ UNCHANGED <<service, todo, receiver, requested, listener, ctrl, signals, acceptor,
                 fresh, client, file, tasks, faults>>

\* "Reset flag on start": a request that came before is forgotten.
ResetRequest ==
  /\ main = "running"
  /\ requested' = FALSE /\ main' = "starting"
  /\ UNCHANGED <<life, listener, ctrl, signals, acceptor, fresh, client, file, tasks,
                 faults>>

StartAccept ==
  /\ main = "starting"
  /\ acceptor' = "test"
  /\ main' = IF service THEN "serve" ELSE "wait"
  /\ UNCHANGED <<life, requested, listener, ctrl, signals, fresh, client, file, tasks,
                 faults>>

\* The accept thread cannot be created.
StartAcceptFails ==
  /\ main = "starting"
  /\ Fault
  /\ CloseListener
  /\ running' = FALSE /\ main' = "failed"
  /\ UNCHANGED <<service, todo, receiver, requested, ctrl, signals, acceptor, fresh,
                 file, tasks>>

\* In a console run waits for the request, testing it under shutdownMutex.
WaitForRequest ==
  /\ main = "wait"
  /\ main' = IF requested THEN "stop" ELSE "asleep"
  /\ UNCHANGED <<life, requested, listener, ctrl, signals, acceptor, fresh, client,
                 file, tasks, faults>>

\* As a service the stop event leads to the destructor and so to stop.
StopEvent ==
  /\ main = "serve"
  /\ main' = "stop"
  /\ UNCHANGED <<life, requested, listener, ctrl, signals, acceptor, fresh, client,
                 file, tasks, faults>>

-----------------------------------------------------------------------------
(* stop and the destructor.                                                *)

StopRequest ==
  /\ main = "stop"
  /\ running' = FALSE /\ requested' = TRUE
  /\ main' = IF requested THEN "join" ELSE "stopClose"
  /\ UNCHANGED <<service, todo, receiver, listener, ctrl, signals, acceptor, fresh,
                 client, file, tasks, faults>>

StopClose ==
  /\ main = "stopClose"
  /\ CloseListener
  /\ main' = "join"
  /\ UNCHANGED <<life, requested, ctrl, signals, acceptor, fresh, file, tasks, faults>>

JoinAccept ==
  /\ main = "join" /\ acceptor = "ended"
  /\ main' = "poolStop"
  /\ UNCHANGED <<life, requested, listener, ctrl, signals, acceptor, fresh, client,
                 file, tasks, faults>>

\* After a failed start the destructor finds the server not running; its members
\* go in the reverse order of their declaration, the FileReceiver first.
DestroyReceiver ==
  /\ main = "failed"
  /\ receiver' = FALSE /\ main' = "poolStop"
  /\ UNCHANGED <<service, todo, running, requested, listener, ctrl, signals, acceptor,
                 fresh, client, file, tasks, faults>>

StopPool ==
  /\ main = "poolStop"
  /\ stopped' = TRUE /\ main' = "poolNotify"
  /\ UNCHANGED <<life, requested, listener, ctrl, signals, acceptor, fresh, client,
                 file, queue, worker, faults>>

PoolNotify ==
  /\ main = "poolNotify"
  /\ NotifyAll
  /\ main' = "poolJoin"
  /\ UNCHANGED <<life, requested, listener, ctrl, signals, acceptor, fresh, client,
                 file, queue, stopped, faults>>

\* All threads have ended; the socket is closed, UDT cleaned up and the rest of
\* the server destroyed.
Finish ==
  /\ main = "poolJoin" /\ \A w \in Workers : worker[w] = Exited
  /\ listener' = "none" /\ receiver' = FALSE /\ main' = "returned"
  /\ UNCHANGED <<service, todo, running, requested, ctrl, signals, acceptor, fresh,
                 client, file, tasks, faults>>

MainStep ==
  \/ LoadPending \/ LoadNotify \/ Listen \/ SetRunning \/ ResetRequest \/ StartAccept
  \/ WaitForRequest \/ StopRequest \/ StopClose \/ JoinAccept \/ DestroyReceiver
  \/ StopPool \/ PoolNotify \/ Finish

-----------------------------------------------------------------------------
(* acceptClients.                                                          *)

BeforeAccept ==
  /\ acceptor = "test"
  /\ acceptor' = IF requested THEN "ended" ELSE "accept"
  /\ UNCHANGED <<life, main, requested, listener, ctrl, signals, fresh, client, file,
                 tasks, faults>>

Accept ==
  /\ acceptor = "accept" /\ listener = "listening"
  /\ \E c \in Clients : /\ client[c] = "backlog"
                        /\ client' = [client EXCEPT ![c] = "held"]
                        /\ fresh' = c
  /\ acceptor' = "accepted"
  /\ UNCHANGED <<life, main, requested, listener, ctrl, signals, file, tasks, faults>>

\* accept returns no socket: always when the listener is closed.
AcceptClosed ==
  /\ acceptor = "accept" /\ listener # "listening"
  /\ acceptor' = "refused"
  /\ UNCHANGED <<life, main, requested, listener, ctrl, signals, fresh, client, file,
                 tasks, faults>>

AcceptFails ==
  /\ acceptor = "accept" /\ listener = "listening"
  /\ Fault
  /\ acceptor' = "refused"
  /\ UNCHANGED <<life, main, requested, listener, ctrl, signals, fresh, client, file,
                 tasks>>

\* The loop ends on a request, or on the error code taken for a closed socket;
\* otherwise it pauses and tries again.
AfterRefusal ==
  /\ acceptor = "refused"
  /\ \/ acceptor' = "ended" /\ (requested \/ listener # "listening")
     \/ acceptor' = "test" /\ ~requested
  /\ UNCHANGED <<life, main, requested, listener, ctrl, signals, fresh, client, file,
                 tasks, faults>>

CloseFresh == client' = [client EXCEPT ![fresh] = "closed"] /\ fresh' = NoClient

\* Mutant of AfterAccept: the loop is left with the connection open.
LeaveWithConnection ==
  /\ acceptor = "accepted"
  /\ \/ requested /\ acceptor' = "ended"
     \/ ~requested /\ acceptor' = "admit"
  /\ UNCHANGED <<life, main, requested, listener, ctrl, signals, fresh, client, file,
                 tasks, faults>>

\* The request is tested again as soon as accept returns.
AfterAccept ==
  /\ acceptor = "accepted"
  /\ \/ requested /\ CloseFresh /\ acceptor' = "ended"
     \/ ~requested /\ acceptor' = "admit" /\ UNCHANGED <<client, fresh>>
  /\ UNCHANGED <<life, main, requested, listener, ctrl, signals, file, tasks, faults>>

\* A client that is not in server.allowed_clients, or finds the queue full, is
\* closed; any client may be one of the former.
Admit ==
  /\ acceptor = "admit"
  /\ \/ /\ CloseFresh
        /\ acceptor' = "test"
        /\ UNCHANGED queue
     \/ /\ Room
        /\ Push([at |-> "handle", of |-> fresh])
        /\ client' = [client EXCEPT ![fresh] = "queued"] /\ fresh' = NoClient
        /\ acceptor' = "notify"
  /\ UNCHANGED <<life, main, requested, listener, ctrl, signals, file, stopped, worker,
                 faults>>

AcceptNotify ==
  /\ acceptor = "notify"
  /\ NotifyOne
  /\ acceptor' = "test"
  /\ UNCHANGED <<life, main, requested, listener, ctrl, signals, fresh, client, file,
                 queue, stopped, faults>>

AcceptorStep == \/ BeforeAccept \/ Accept \/ AcceptClosed \/ AfterRefusal
                \/ AfterAccept \/ Admit \/ AcceptNotify

\* A client connects to the listening socket.
Connect ==
  /\ listener = "listening"
  /\ \E c \in Clients : client[c] = "away" /\ client' = [client EXCEPT ![c] = "backlog"]
  /\ UNCHANGED <<life, main, requested, listener, ctrl, signals, acceptor, fresh, file,
                 tasks, faults>>

Next ==
  \/ MainStep \/ StartFails \/ StartAcceptFails \/ StopEvent
  \/ AcceptorStep \/ AcceptFails
  \/ CtrlC \/ CtrlStep \/ Connect
  \/ \E w \in Workers : WorkerStep(w)

Spec == Init /\ [][Next]_vars

\* Every thread goes on.  A handler ends: rcv.timeout is positive, and one file
\* has finitely many chunks.  Nobody has to connect or to ask for shutdown.
Fairness ==
  /\ WF_vars(MainStep) /\ WF_vars(AcceptorStep) /\ WF_vars(CtrlStep)
  /\ \A w \in Workers : WF_vars(WorkerStep(w))

FairSpec == Spec /\ Fairness

-----------------------------------------------------------------------------
(* Properties.                                                             *)

\* Every variable stays in its type.
TypeOK ==
  /\ todo \subseteq Leftovers /\ signals \in 0..MaxSignals /\ faults \in 0..MaxFaults
  /\ {service, receiver, running, requested, stopped} \subseteq BOOLEAN
  /\ listener \in {"none", "listening", "closed"}
  /\ client \in [Clients -> {"away", "backlog", "held", "queued", "served", "closed"}]
  /\ file \in [Files -> {"none", "queued", "left", "finalised"}]
  /\ fresh \in Clients \cup {NoClient}
  /\ acceptor \in {"accepted", "admit"} => client[fresh] = "held"
  /\ Len(queue) <= MaxPending
  /\ \A i \in DOMAIN queue : queue[i].at \in {"handle", "finalise"}

\* No wake-up is lost: while every thread of the pool sleeps, a task is queued
\* only if whoever queued it is still to notify (addTask, workerThread).
NoLostWakeup ==
  queue # <<>> /\ (\A w \in Workers : worker[w] \in {Asleep, Exited}) =>
    acceptor = "notify" \/ main = "initNotify"

\* Once the server is gone every connection it accepted is closed, whenever the
\* request came (acceptClients, stop).
NoSocketLeaked ==
  main = "returned" =>
    \A c \in Clients : client[c] \notin {"held", "queued", "served"}

\* A finalisation that was queued runs, although connections hold the same
\* threads and the server may be told to stop (stop drains the queue).
QueuedIsFinalised == \A f \in Files : file[f] = "queued" ~> file[f] = "finalised"

\* A request ends the server, wherever accept, the pool and run are when it comes;
\* unless run then clears it, because it came before the server was up.
ShutdownReturns == requested ~> (main = "returned" \/ ~requested)

\* "Ensures the server is stopped cleanly": no thread of the pool works for a
\* FileReceiver that is gone (~ServerUDT).
ReceiverOutlivesTasks ==
  \A w \in Workers : worker[w].at = "finalise" => receiver

=============================================================================
