# TransferUDT: a TLA+ verification project

TransferUDT copies files from watched directories of an **Agent** to a **Server**
over UDT, in chunks that are hashed, retried and resumed. This directory holds
TLA+ modules of the parts that carry that promise, TLC configurations that check
them on small instances, and TLAPS proofs for instances of any size.
`PROJECT.json` maps every definition to the lines it models.

    tlc -workers 2 -config fr_single.cfg MCFileReceiver     # any run
    tlapm FileReceiverSafety.tla                            # any proof module

## 1. The system

| Component | State | Operations | What makes it correct |
|---|---|---|---|
| `FileReceiver` (server) | SQLite tables `chunks`, `reconstructed_files`; the output file; `reconstructionStatus`, `versionedTransferFilenames`, `fileMutexes` | `receiveChunk`, `tryReconstructFile`, `loadPendingCounters` | a published file is the whole of one transfer; the agent is told "complete" only when it may forget the file; foreign files are never touched; a complete transfer is published in the end, crashes included |
| `Database` (server) | the two tables | single statements, two transactions | rows agree with the bytes on disk |
| `ThreadPool` | bounded queue, workers, `stopped` | `addTask` (may throw), `workerThread`, `stop` | no wake-up is lost, every accepted task runs |
| `ServerUDT` | listener, accept thread, `running`, `shutdownRequested` | `run`, `acceptClients`, `signalShutdown`, `stop`, destructor | a request ends the server wherever it is; no connection leaks; nothing outlives what it uses |
| `ClientHandler` | state of one connection, its own breaker | handshake, packet loop, answers | each request gets the answer of its own chunk |
| `UDTConnectionPool` (agent) | queue of idle connections, `current_size_`, `keepAliveInFlight_`, `shutting_down_` | `acquire`, `release`, `invalidate`, keep-alive pass, `shutdown`, `_createConnection` | exact accounting, at most `max_size_` connections, no caller waits for ever, shutdown ends |
| `SecurityHandshake`, `SecurePacket`, `UDTConnection` | session key and id, sequence numbers | handshake, seal, open | both ends agree before a connection is used; honest ends stay in step |
| `CircuitBreaker` | `state`, `failureCount`, `lastFailure` | `shouldAttempt`, `reportSuccess`, `reportFailure` | an open circuit heals |
| `NetworkManager` | one breaker, pool and chunk-size controller per target | `sendChunk`, `sendPendingChunkToTarget`, the backlog sweep | chunks get through whenever the server is there; senders end on stop |
| `Database`, `FileProcessor`, `RadarAgent` (agent) | `processed_files`, `chunks`, `permanentlyFailedFiles`; files in process; retry counters | detect, split, send, retry, clean up, abandon, stop | a file is recorded as processed only when every target holds it, and is settled in the end |
| `AdaptiveChunkController`, `MemoryManager`, `ChunkPacketParser` | chunk size | grow, shrink, cut, parse | chunks cover the file exactly; the receiver accepts what the sender cuts |
| `FileWatcher`, `FileStabilityChecker` | overlapped directory reads | report changed files | every change is reported (not modelled) |

How they interact. The agent's watcher hands files to `RadarAgent`, which queues them
on the agent's pool; `FileProcessor` splits them and calls `NetworkManager` for each
chunk and target; failed chunks stay in the agent's database, where the
pending-chunks thread finds them, retries failed files and cleans up sent ones.
`NetworkManager` asks the target's breaker, takes a connection of the target's pool
(whose creation asks the same breaker again and runs the handshake), sends the packet
and waits for the answer. On the server a pool thread per connection runs
`ClientHandler`, which calls `FileReceiver::receiveChunk`; the call that completes a
file queues `tryReconstructFile` on the same thread pool. The server's result decides
what the agent does: `Stored` completes a chunk; `JustCompleted` is sent as
`SUCCESS_FILE_COMPLETE` and `AlreadyCompleted` as `FILE_ALREADY_EXISTS`, on which
the agent marks the whole file as processed and never sends it again.

What is hard: `receiveChunk` makes about ten separate accesses to shared state and
holds the file mutex for a few of them only; a finalisation may run between any two
of them, and a crash may stop it there; retries repeat packets, change their order
and, with adaptive chunks, their boundaries; on the agent, workers, the backlog and
the clean-up change the same rows without a common lock; keep-alive payloads, late
answers and exhausted sequence numbers meet on one connection; the pool's counters are
moved by users, by the keep-alive thread and by shutdown; a shutdown request may come
at any step of start-up. The list `hazards` in `PROJECT.json` gives each such place
with its line and the properties that watch it.

## 2. Modules

`FileReceiver` — one client file on the server.
Every SQL statement or transaction, critical section and file operation of
`receiveChunk` is one action, named after it; `pc` names the access a handler makes
next, `call` holds its locals. `tryReconstructFile` has the steps `ReadChunks`,
`CommitFinalization` and `ClearStatus`. `Restart` is a crash at any moment followed by
`loadPendingCounters`. File names are numbers: 0 the name the client sends, 1, 2, ...
the names `buildVersionedFilename` generates, which never repeat. The content of a
file is a function from slots (byte ranges) to the transfer whose bytes are there. A
packet is a transfer id, a chunk number, the slots it covers and the declared total,
0 on all but the last packet of an adaptive transfer. `policy` is the configured
`changedFilesServerPolicy`, one of `Configured`, read again by each `Restart`.
`HandlerFails`, `WriteFails` and `FinalizationFails` are the error paths.

`ConnectionPool` — one target's pool. The owner of each connection object (queue,
user, keep-alive pass, nobody) is a ghost of the program's `shared_ptr`s;
`size`, `inFlight` and `down` are the counters as the code has them, with its guards
against decrements below zero. A section under `pool_mutex_` is one step, the atomics
outside it are steps of their own. `notify_one` wakes any one waiter, which may be
the keep-alive thread; `notify_all` of `shutdown`, made without the mutex, may miss
threads about to wait. Such a notification and the locked step before it are one
action: a waiter that runs between them only finds what it would find after.

`CircuitBreaker` — one breaker; each operation runs under its mutex and is one step.
`ChunkSender` — senders of both kinds over one breaker and an abstraction of the
pool (how many idle connections work, how many do not).

`AgentStore` — one watched file on the agent. The three tables are `status`,
`fingerprint`, `permanent` and `rows`, and the history variable `unmarked` remembers
that the file failed and the database was not told; a worker of the pool and the pending-chunks
thread are records whose field `at` names the next access. Each database call is one
step (SQLite serialises them), each chunk sent to each target another: it is taken,
taken with the answer lost, or not sent. Every write of the database may fail: inside
`processFile` that ends the attempt (`Abort`), elsewhere it is logged and the code goes
on (`RecordDelivered`, `markAsFileFailed`, the updates of the backlog). `Restart` is a crash and the recovery in
`Database::Database`; `Change` rewrites or removes the file; `Stop` and `StopPool` are
the two halves of `RadarAgent::stop`, which joins the pending-chunks thread before it
stops the pool.
`Delivery` — the abstract specification `AgentStore` implements: a file is recorded as
delivered only when every target holds all of it; it may be given up, and come back.
The refinement mapping reads `has` off the targets' stores and `phase` off
`processed_files` and `permanentlyFailedFiles`.

`SecureSession` — one sender of the agent and the handlers at the other end of the
connections it opens one after the other. `Config` is what the two properties files may
say, and every pair of them is an initial state, mismatches included. Streams are FIFO
as UDT's are; closing an end discards what it had not read, and what is written to an
end that is gone is lost. Cryptography is perfect: a sealed message is a record with
its key, session and number. The handshake of each mode, the secure session, `READY`,
chunks, the answers, `CLOSE_NOW` and keep-alive payloads are all messages.

`ServerLoop` — the server from `main` to the end of its destructor: `run`, the accept
thread, the console's control handler, and the thread pool with handlers and
finalisations in one queue. Steps under `queueMutex` or `shutdownMutex` are one action,
notifications after the unlock another.

`ChunkSplit` — one call of `splitFile`, with the controllers other threads move
meanwhile and the numeric checks of `ChunkPacketParser`.

The `MC...` modules give packets, configurations and symmetry sets for TLC.
`FileReceiverProofs`, `FileReceiverSafety`, `ConnectionPoolProofs`, `ChunkSplitProofs`,
`ServerLoopProofs`, `AgentStoreProofs`, `ChunkSenderProofs`, `SecureSessionProofs` — the
proofs (section 4). The definitions called *Mutant* are plausible wrong versions of the operation
that follows; no specification uses them, they show that each property can fail.

## 3. Runs

Passing runs:

| Run | Instance | Shows |
|---|---|---|
| `fr_single` | 2 handlers, 2 workers, one adaptive transfer of 3 chunks, 2 faults of any kind; 340,890 states | `TypeOK`; what is published is whole unless the receiver itself removed it (`WholeUnlessRemoved`); the count that ends a transfer is right (`JustCompletedIsTrue`); the status mark and the record only appear for a complete transfer (`MarkedIsComplete`); `ForeignKept` |
| `fr_policies` | 2 transfers of one name, calls one at a time, 2 faults, all three policies; 592,407 states | successful rows have their bytes on disk (`StoredDataOnDisk`), every published name is whole (`FinalizedWhole`), the policies that keep outputs keep them (`PublishedKept`) |
| `fr_live` | 2 handlers, 1 worker, one adaptive transfer of 3 chunks, 1 crash, fairness; 231,273 states | `CompleteIsFinalized` |
| `pool` | 2 users, 3 connections, size 2, exceptions, fairness; 355,104 states | `TypeOK`, `SizeExact`, `PoolBound`, `FallbackUnreachable`, `AcquireReturns`, `ShutdownCompletes` |
| `send` | 3 senders of both kinds, 2 retries, threshold 2, pool of 2, fairness; 312,816 states | `TypeOK`, `OpenHeals`, `SendingResumes`; every send comes to its end, in an outage, with the pool exhausted or while stopping (`SendsReturn`) |
| `agent` | 2 workers, queue of 1, 2 targets, a file of 2 chunks that may vanish and return, 2 attempts, both resend modes, 2 disturbances, fairness; 1,300,643 states | a row marked as sent is held by every target (`SuccessRowsHeld`); a file in `processing` is in someone's hands, has all its rows, is held everywhere, or its failure could not be written (`ProcessingHasWork`); `ImplementsDelivery`; every file is settled unless the write of its outcome was lost (`Settles`); stop returns (`StopCompletes`) |
| `session` | 2 connections, 2 chunks, 16 agent by 32 server configurations, numbers up to 3, 2 disturbances, fairness; 340,892 states | `TypeOK`; a connection is used only if both ends agree (`ReadyMeansAgreed`); no answer is taken for another's (`AckedIsStored`); `NeverOutOfStep`; no handshake hangs (`HandshakeEnds`); `AllDelivered` |
| `server` | 2 clients, 1 leftover, 2 threads, queue of 1, 2 signals, 1 fault, fairness; 329,093 states | `TypeOK`, `NoLostWakeup`, `NoSocketLeaked`, `QueuedIsFinalised`, `ShutdownReturns` |
| `split` | chunks of 4 to 16, files of 1 to 40, 2 targets, 4 settings, 2 samples; 1,506,362 states | `TypeOK`, `Partition`, `TotalsAgree`, `RefusedOnlyForLimits` |

Runs that TLC refutes, each stating a sentence of the repository
(`findings` quotes it):

| Run | Property | The code does |
|---|---|---|
| `fr_v_crash` | `AlreadyCompletedIsTrue` | A crash between creating the output file and inserting its first row: every later chunk is answered as already complete. |
| `agent_v_stale` | `ProcessedIsHeld` | `cleanupSentFiles` lists a file under its old version; a worker marks the next one as processing; the clean-up records it as processed and deletes its rows; after a crash the new version is never sent. |
| `server_v_teardown` | `ReceiverOutlivesTasks` | `run` fails after it has queued the finalisation of a leftover; the destructor destroys the `FileReceiver` while a pool thread works on it. |

Further behaviours the models have, without a run of their own. In `FileReceiver`, with
`FinalizedWhole` as the invariant of `fr_single.cfg` and `MaxFaults = 0`:

* `Packets <- OneTransfer`, `Slots = {0, 1}`: a repeated first chunk reads its rows just
  before the finalisation commits and its active id just after; the empty id counts as
  another transfer, and the published output is deleted while its record stays.
* `Packets <- Resplit`, one handler, `Overlap = FALSE`: stored chunks are recognised by
  number, so that a resume with other adaptive boundaries publishes a file with a hole.
* `Packets <- TwoOfSameLength`, `Slots = {0, 1}`: two handlers with two transfers of one
  name publish a mixture, as the active transfer is not tested again under the mutex.

And: under the versioned policy a transfer that was published under a version name is
published again when it is retried; a changed file that arrives before the previous one
is finalised is answered as already complete; without any fault, a handler that read no
rows may then meet the file another handler has just created, and answer the same; a
failed creation makes room in the pool and wakes nobody, so a waiter sleeps to its
deadline; a release that tested `shutting_down_` early puts an open connection into the
drained pool; `HALF_OPEN` admits every sender, one failed attempt may be reported to the
breaker twice, and a retry uses a pooled connection while the circuit is open; a
deferred change is dropped when the agent's queue is full; a write of the database that
fails at the end of a file's processing is only logged, so that the file stays in
`processing` until a restart: the retries do not look at it there, and with changed-file
resend on the same content reported again is skipped (`sendChunk` after every target has the file, where nothing is lost but
the record, and `markAsFileFailed`, where the file may be unsent); a keep-alive payload is
answered `FAILED`, which the next chunk on that connection takes for its own answer and
is sent again (harmless, as `AckedIsStored` shows); a signal during start-up closes the
listener and is forgotten, so that the server stays up without one until the next.

These explain the shape of the passing runs: `fr_policies` lets calls and
finalisations run one at a time (`Overlap = FALSE`; any of them may still crash
half-way), because with overlap the races above are what happens;
`fr_single` has the full overlap and states what survives it. `agent` has one version
of the file, because with two `agent_v_stale` is what happens. `ShutdownReturns` excepts
the forgotten signal, and nothing else. `ProcessingHasWork` and `Settles` except the two
lost writes, and show that nothing else leaves a file behind: the first says that then
every target holds it (`EverywhereHeld`) or it is the failure that was lost (`unmarked`).

**Bounds.** `Packets` fixes the transfers; every packet may arrive any number of
times, in any order. `MaxVersion` bounds generated names, `QueueLimit` the queue,
`MaxFaults` injected faults. Two handlers are enough for each pairwise race, and
every race found needs at most two; three slots are the fewest that tell a gap from a
short file; two faults allow a crash in the repair of a failure, or a change of policy
and a failure under the new one. In the pool, two users and a
limit of two let one wait or create while the other holds, the keep-alive pass may have
both, and the third connection object is the one too many; the proofs
of section 4 cover every other size. In the sender, `failureCount` saturates at the
threshold, beyond which the code cannot tell values apart, and the third sender lets
two reports pass each other while one is being admitted.

In `agent`, two workers let one wait for the mutex of the other, a queue of one is full
as soon as one task waits, two targets and two chunks are the fewest for a file that
one target has and the other has in part; `MaxAbandon = 2` lets a chunk of the backlog
fail once and be taken up again; `MaxDisturbances` is shared by failed sends and
writes, repeated notifications, crashes and changes, so that any two of them
combine. In `session`, `MaxSeq = 3` leaves two numbers each way, used up by the
second message; the second connection is for what follows a loss, and both are reused
without end; `Threshold = 2` opens the handler's breaker on the second refusal. In
`server`, two threads can both be held by clients while a finalisation waits, and a
queue of one is full with it. In `split`, 4 and 16 stand for 32 KiB and 4 MiB, and the
sizes lie below, at, between and beyond the limits; `MaxTotal` and `MaxFile` are both
exceeded by some file. Symmetry is used in safety runs only.

**Deadlock** checking is on for the receiver's runs and off for the others, which may
stop for good: after shutdown, after the last chunk, or at the end of the file.

**Fairness.** Threads that can run do run (weak fairness per handler, worker, user and
thread), since each has an operating-system thread. Packets need not arrive, faults,
breakage and shutdown need not happen, users need not release, nobody has to connect.
`Expire` is fair because time passes; connection attempts and probes end because their
sockets have timeouts. For the senders, `Ask` is fair because the backlog thread polls
for ever, and `Acquire` is strongly fair: a connection or room may come and go while a
thread waits, but `acquire` has a deadline and returns at the latest then, with or
without one, which is what `AcquireReturns` shows of the pool. Timeouts of the senders are counted in seconds (the breaker's reset timeout,
and the ten seconds `acquire` waits on an exhausted pool), so none runs out while a
sender is about to act on an outcome it has in hand, an instant (`TimePasses`). Without
that assumption TLC finds a run in which a report of a creation denied by the open
circuit re-opens it after every timeout, so the assumption is a real one. In
`ServerLoop` a handler ends in the end: `ServerConfig` only takes a positive
`rcv.timeout`, so a silent client is given up, and a file has finitely many chunks; a
client that keeps sending new files for ever would hold its thread, and is left out. In
`SecureSession` and `AgentStore` the disturbances are bounded, so liveness says what
happens once they end; an agent's own timeout is never needed to leave a handshake.

## 4. Proofs

For every value of the constants that satisfies the named assumptions:

* `FileReceiverProofs!TypeCorrect`: `Spec => []TypeOK`. The inductive invariant
  `TypeInv` adds `MutexInv`: a handler between `AcquireFileMutex` and `WriteChunk`
  holds the mutex of its file. It is needed because a write is typed only if the
  output file exists, and only the mutex keeps another handler from removing it
  between `prepareOutputFileForChunk` and the write.
* `FileReceiverSafety!ForeignFilesKept`: `Spec => ForeignKept`. `ForeignInv` says a
  foreign file has neither rows nor record, that no call past the test of the disk is
  about it, and that no finalisation is about to commit for it.
* `FileReceiverSafety!PublishedIsWhole` and `CompletionIsTrue`, under `SingleSplit`:
  all packets belong to one transfer, split once. `WholeInv` follows the evidence: the
  bytes are there for a handler past its write (`WritesHeld`), hence for successful
  rows (`RowsHeld`), hence when the rows count up to the total (`CountHeld`; with
  `OneRowEach` a count of rows is a count of chunks, and by the pigeonhole argument of
  `AllCounted` they are all of them), when a finalisation has validated them
  (`CommitHeld`) and when the record exists (`RecordHeld`). Files in `removed` are
  excepted, which the repeated first chunk of section 3 shows is necessary; the other
  two observations there show the same of `SingleSplit`.
* `FileReceiverSafety!StoredIsOnDisk`, `FinalizedIsWhole` and `PublishedIsKept`, under
  `~Overlap` (one call or finalisation at a time) and `EachSplitOnce`: any number of
  transfers of one name, each split once, with every policy, failures and restarts.
  `SequentialInv` says of a file that its rows belong to one transfer and have their
  bytes (`RowsOfOne`, `RowsStored`), that its record is true (`WholeFile`) and that a
  version not yet generated is free (`FreeVersion`, because `CheckOnDisk` goes on with a
  new name without testing it); and of the call under way (`CallInv`) that from the test
  of the record on, the file has no record or the call is going to delete it, and that
  the rows are those of the packet's transfer or are going to be deleted. The order of
  the deletions in `receiveChunk` (rows and record, mark, output) is what makes this
  inductive: a failure or a crash after any of them leaves a file that no later call
  writes into. The observations of section 3 show that neither hypothesis can be dropped.
* `FileReceiverSafety!MarkIsComplete`, with full overlap, under `OneCount`: one transfer
  with one chunk count, which the chunk number decides whether a packet declares.
  `MarkInv` says that a mark stands for a record or for all rows, and (`ReliedOn`) that
  what a call has read of the rows is still so or the file has got its record since: rows
  only grow until a finalisation exchanges them for the record (`MarkRows`,
  `MarkPersists`). A first chunk whose rows vanish between `getChunkRowCount` and
  `getActiveTransferId` does reset the file, but only after its record exists, and a
  reset leaves the record.
* `ConnectionPoolProofs`: `PoolTypeCorrect`, `PoolAccounting`, `PoolBounded`,
  `NoFallback`, all from `PoolInv`. `OwnInv` (a user between taking and giving back owns
  exactly the connection it names) makes each decrement belong to one connection;
  `FlightInv` ties `keepAliveInFlight_` to what the pass has still to probe, so it
  comes back to zero on the exception path as well.
* `ChunkSplitProofs`: `SplitTypeCorrect`, `SplitPartitions`, `SplitTotalsAgree` and
  `SplitIsParsed`, for any sizes, limits and settings. `SettingsInOrder`: whatever is
  configured, the minimum is not above the maximum, without which `clamp` would leave
  its range; the type invariant keeps that alive in the range of `current`. `Partition`
  is inductive together with `TypeOK`, by which what is read is never more than what is
  left of the file. `CutInv` adds what the totals rest on: in fixed mode every chunk but
  the last has the fixed size, so that the number of chunks read so far and the number
  still expected add up to the division announced in advance (`FixedInv`); in dynamic
  mode no packet has a total before the last (`DynamicInv`); and each packet lies within
  the file and the limits of a chunk (`PacketsInv`), which is what the parser tests.
* `ServerLoopProofs`: `LoopTypeCorrect`, `NoWakeupLost`, `NoSocketIsLeaked` and
  `StopDrainsQueue`, from `LoopInv`. `HandsInv` says who has each connection and each
  finalisation: it is in the queue exactly once, with exactly one thread of the pool, or
  with the accept thread; so none is forgotten and none is closed twice. `PhaseInv` says
  which threads are there in which phase of `run` and `stop`: the accept thread has ended
  before the pool is stopped, and a thread of the pool ends only with an empty queue.
  Both are needed at once: that nothing is left open at the end follows from the queue
  being empty, and that from nobody adding to it any more.
* `AgentStoreProofs`: `StoreTypeCorrect`, `RecordedChunksAreHeld`,
  `ProcessedMeansHeld`, `ProcessingIsWorkedOn` and the refinement
  `AgentImplementsDelivery`, under `StableFile`: the watched file has one content, though it may be removed, put back,
  reported again, and the agent may crash at any step. The run `agent_v_stale` shows the
  hypothesis is necessary, and `ProcessedMeansHeld` that it is the only thing missing. `SentInv` follows the evidence: the targets a thread has been
  to hold what it has sent them (`WorkerSent`, `SweepSent`), so do the rows it then
  writes (`RowsSent`), so does the file when all rows are successful (`CleanupSound`) and
  when it is recorded (`ProcessedSound`). `WorkInv` says that one thread at a time is
  inside `processFile` and has a row behind it for each chunk it has passed, and
  (`WorkOrRows`) that a file in `processing` has a thread past `markFileAsProcessing`,
  all its rows, or lost the record of its end: `SentInv` is what shows that in
  `sendChunk` it is lost only when every target has the file. For the
  refinement, a step leaves the record alone and the targets only gain chunks, or leaves
  the targets alone and records the file as processed only when all hold it
  (`RecordStep`); these are the steps of `Delivery`.
* `ChunkSenderProofs`: `SenderTypeCorrect`, `SendersWithinPool` and
  `BreakerMatchesCount`, from `SenderInv`, for any number of senders, retries and
  connections. The bound on the pool needs `HoldsInv` (which senders have a wrapper), as
  a wrapper given back must be one that was counted; the bound on attempts needs
  `TriesInv`. The last theorem is about late reports: a sender admitted before the
  breaker opened may report success or failure afterwards, and state and count still
  agree.
* `SecureSessionProofs`: `SessionTypeCorrect`, `ConnectionsAgree`,
  `AcknowledgedIsStored` and `NumbersStayInStep`, from `SessionInv`, for any set of
  connections, any two sets of configurations, any number of chunks and disturbances and
  any largest sequence number. The invariant describes one connection at a time, as a
  step on one leaves the others alone (`StepOn`): how far each end may be and which
  streams are then empty (`ControlInv`); the secrets (`KeysInv`); what is in the agent's
  stream during the handshake, where a challenge is of the server's mode, the secure
  session is right before `READY` and `READY` is last (`GreetingInv`): an agent that
  reads `READY` has therefore read all that a server with other settings would have
  sent. For a connection in use it says what is under way to the handler
  (`RequestsInv`: at most one chunk, the last message, with the number expected;
  `CLOSE_NOW` only to a handler that waits for it) and to the agent (`AnswersInv`:
  consecutive numbers; an answer that delivers is the only one left to read, no request
  is under way, and its chunk is stored). Keep-alive payloads and the `FAILED` they are
  answered with may be anywhere; they are why the weaker "one request, one answer" is
  not invariant. `StepInv` relates the counters of the two ends by what is under way.

The constants' assumptions are those the code gives: `SessionAssumption` names a
connection by a positive number, because it is also its session's id and 0 stands for
no session. The invariants above were checked by TLC on the instances of section 3
before they were proved.

Only model-checked: every liveness property, as fairness and `ENABLED` are outside the
prover.

The three properties of the runs that expect a violation are not theorems of these
specifications; `ProcessedIsHeld` is one under `StableFile`.

No module uses recursion.

## 5. What is abstracted, and what is not modelled

* A transfer id is the SHA-256 of the file, which `ChunkPacketParser` requires to be
  64 digits: it stands for the content, and the branches for an empty id do not occur.
* Crashes are of the process: what was written stays written. Power loss, where
  neither the output nor SQLite's cache need be on disk, is not modelled.
* SQLite connections are thread-local, statements and transactions atomic.
* `remainingChunks` is written and never read. Hash verification, directory creation,
  storage budget and disk space only decide between going on and failing.
* In `ConnectionPool`, handshake and greeting end in success or failure; their messages
  are in `SecureSession`. Null connections never enter the pool. The 10 ms slice of
  `acquire` is a wait that may end at any moment.
* In `ChunkSender`, an answer of failure by a running server is a server that is not
  `up`. In `AgentStore` a send is one step and the targets keep what they took: the
  receiver's own races are those of `FileReceiver`. Each attempt at a chunk of the
  backlog is a step, with the retries it writes. When the file cannot be opened, the
  marking of the file and of its chunks is one step that may get any part of it written.
  Reads of the database do not fail (the code then goes on as with an empty result).
* In `SecureSession` what the receiver makes of a chunk (stored, complete, already
  there, refused) is a choice; identities are trusted or not; a peer is honest, and the
  network loses or damages but does not forge; damage is only
  considered for sealed messages, where the code can notice it. The greeting is required
  and the expected one, as by default. A handler that timed out still writes its refusal,
  which the closed socket loses; answers the agent had received before the peer closed
  may be read or given up.
* In `ServerLoop`, creating, binding and listening are one step, and `Finalise` does not
  look at whether the receiver is still there, which `ReceiverOutlivesTasks` does.
* In `ChunkSplit`, the number of chunks is not cut to an `int`, which only matters beyond
  the largest file the protocol takes, and the share of memory is the default 70 %.
* `CircuitBreaker::reset` is not called by the program and is no action.
* `FileWatcher` and `FileStabilityChecker`: what they do is decided by overlapped
  directory reads of Windows (buffer overflows, cancelled reads, the order of events),
  of which the source has only the calls. `AgentStore` takes their result: a report at
  start, after each change, and at any other time.
* Not modelled at all: logging, the rest of the configuration, path mapping, the
  dashboard, installer and scripts, the byte layout of packets, cryptography.

## 6. Plan

Done: `FileReceiver`, `ConnectionPool`, `CircuitBreaker`, `ChunkSender`, `AgentStore`
with `Delivery`, `SecureSession`, `ServerLoop`, `ChunkSplit`.

Proved: every invariant and every safety action property that the passing runs check,
and the refinement of `Delivery`. What is left:

1. Weaker hypotheses: which of `FileReceiver`'s sequential theorems survive overlap of
   calls for different names (the file mutex and the rows are per name).
2. `AlreadyCompletedIsTrue` for one transfer, one call at a time and no faults, the
   setting in which none of the behaviours of section 3 contradicts it.
