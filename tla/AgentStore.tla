----------------------------- MODULE AgentStore -----------------------------
(***************************************************************************)
(* One watched file on the agent, from the watcher's notification to the   *)
(* record that it was delivered: the tables of the agent's Database, the   *)
(* workers that split and send it (RadarAgent::handleNewFile,              *)
(* FileProcessor::processFile), and the thread that revisits failed files  *)
(* and unsent chunks (RadarAgent::pendingChunksThreadFunc).                *)
(*                                                                         *)
(* Sending one chunk to one target is one step here; its retries, breaker  *)
(* and pool are the subject of ChunkSender and ConnectionPool.             *)
(***************************************************************************)
EXTENDS Naturals, Sequences, FiniteSets, FiniteSetsExt

CONSTANTS
  Versions,        \* contents the file may have; a version is a fingerprint
  Size,            \* Size[v]: number of chunks of version v
  NTargets,        \* number of configured targets
  Workers,         \* threads of the pool
  MaxPending,      \* maxPendingTasks of the pool
  MaxAbandon,      \* max.retries.abandon: a chunk is resent while below it
  MaxAttempts,     \* getMaxFileProcessingAttempts
  ResendModes,     \* values of isChangedFilesResendEnabled to consider
  MaxDisturbances, \* bound on failed sends, failed writes of the database,
                   \* repeated notifications, crashes and changes of the file
                   \* together
  None             \* no content, no fingerprint

Targets == 1..NTargets
Numbers == 0..(Max({Size[v] : v \in Versions}) - 1)

ASSUME StoreAssumption ==
  /\ Versions # {} /\ None \notin Versions
  /\ Size \in [Versions -> Nat \ {0}]
  /\ NTargets \in Nat \ {0} /\ MaxPending \in Nat \ {0}
  /\ MaxAbandon \in Nat \ {0} /\ MaxAttempts \in Nat \ {0}
  /\ MaxDisturbances \in Nat
  /\ ResendModes \subseteq BOOLEAN /\ ResendModes # {}

VARIABLES
  \* The world outside
  content,      \* what the file holds on disk, None when it is absent
  held,         \* held[t]: chunks <<transfer id, number>> target t has stored
  budget,       \* what is left of MaxDisturbances
  resend,       \* isChangedFilesResendEnabled
  \* Database
  status,       \* processed_files.status, "none" without a row
  fingerprint,  \* processed_files.content_hash (and size, last write)
  permanent,    \* the file is in permanentlyFailedFiles
  rows,         \* the chunks table: rows[k] for chunk_number k
  unmarked,     \* history: the file failed, and the database was not told
  \* Memory
  running, stopped,   \* RadarAgent::running, ThreadPool::stopped
  notified,     \* the watcher has the file to report
  queue,        \* tasks of the pool
  attempts,     \* failedFileRetries_
  worker,       \* what each worker of the pool is doing
  sweep         \* what the pending-chunks thread is doing

world  == <<content, held, resend>>
table  == <<status, fingerprint, permanent, rows, unmarked>>
pool   == <<queue, stopped>>
vars   == <<world, budget, table, running, notified, pool, attempts, worker, sweep>>

NoRow == [status |-> "none", retries |-> 0, transfer |-> None]
IdleWorker == [at |-> "idle", ver |-> None, k |-> 0, t |-> 1, failed |-> FALSE,
               exists |-> TRUE]
FirstSweep == [at |-> "files", todo |-> {}, size |-> 0, row |-> NoRow, k |-> 0,
               t |-> 1, retries |-> 0, exists |-> TRUE]

Init ==
  /\ content \in Versions
  /\ held = [t \in Targets |-> {}]
  /\ budget = MaxDisturbances
  /\ resend \in ResendModes
  /\ status = "none" /\ fingerprint = None /\ permanent = FALSE
  /\ rows = [k \in Numbers |-> NoRow] /\ unmarked = FALSE
  /\ running = TRUE /\ stopped = FALSE
  /\ notified = TRUE               \* the initial scan of the watcher
  /\ queue = <<>>
  /\ attempts = 0
  /\ worker = [w \in Workers |-> IdleWorker]
  /\ sweep = FirstSweep

Disturbed == budget > 0 /\ budget' = budget - 1

-----------------------------------------------------------------------------
(* The agent's Database.                                                   *)

Stored     == {k \in Numbers : rows[k].status # "none"}
Successful == {k \in Numbers : rows[k].status = "success"}
NoRows     == [k \in Numbers |-> NoRow]

\* The total the rows declare: MAX(total_chunk).
TotalChunk == Max({0} \cup {Size[rows[k].transfer] : k \in Stored})

getPendingChunks ==
  {k \in Stored : rows[k].status = "failed" /\ rows[k].retries < MaxAbandon}

isFileProcessing == status = "processing"

isFileFullyProcessed ==
  \/ status = "processed"
  \/ TotalChunk > 0 /\ TotalChunk = Cardinality(Successful)

getFailedFiles == status = "failed" /\ ~permanent

\* Mutant of getFullySentFiles: the rows there are instead of those declared.
NoFailedRow == Stored # {} /\ Stored = Successful

getFullySentFiles ==
  /\ Stored # {} /\ Stored = Successful
  /\ Cardinality(Stored) = TotalChunk

\* updateChunkRetries and updateChunkStatus touch the row if there is one.
UpdateChunk(k, st, retries) ==
  [rows EXCEPT ![k] = IF k \in Stored
                      THEN [@ EXCEPT !.status = st, !.retries = retries] ELSE @]
updateChunkStatus(k, st)       == UpdateChunk(k, st, rows[k].retries)
updateChunkRetries(k, retries) == UpdateChunk(k, rows[k].status, retries)

addProcessedFileAndCleanupChunks ==
  /\ status' = "processed"
  /\ rows' = NoRows
  /\ unmarked' = FALSE
  /\ UNCHANGED <<fingerprint, permanent>>

\* Every target has the file; that the record of it cannot be written is only logged.
RecordDelivered ==
  \/ addProcessedFileAndCleanupChunks /\ UNCHANGED budget
  \/ Disturbed /\ UNCHANGED table

removeFileFromRetry == attempts' = 0

\* FileProcessor::markAsFileFailed: the attempt is counted, and at the limit the
\* file is logged as permanently failed and its chunks are dropped.  Each of the
\* two writes may fail, which is only logged; the second marks an existing row too.
markAsFileFailed ==
  \E marked, wrote \in BOOLEAN :
    LET last   == attempts + 1 >= MaxAttempts
        logged == last /\ wrote
    IN /\ IF marked /\ (last => wrote) THEN UNCHANGED budget ELSE Disturbed
       /\ attempts' = IF last THEN 0 ELSE attempts + 1
       /\ status' = IF marked \/ (logged /\ status # "none") THEN "failed" ELSE status
       /\ permanent' = (permanent \/ logged)
       /\ rows' = IF logged THEN NoRows ELSE rows
       /\ unmarked' = (status' # "failed")
       /\ UNCHANGED fingerprint

-----------------------------------------------------------------------------
(* The pool and the watcher's callback.                                    *)

Accepts == ~stopped /\ Len(queue) < MaxPending

\* Mutant of handleNewFile: the bound of the queue is not looked at.
QueueAlways ==
  /\ queue' = Append(queue, "process")
  /\ UNCHANGED <<table, attempts, budget>>

\* handleNewFile: a task that cannot be queued counts as a failed attempt.
handleNewFile ==
  IF Accepts
  THEN queue' = Append(queue, "process") /\ UNCHANGED <<table, attempts, budget>>
  ELSE markAsFileFailed /\ UNCHANGED queue

\* The watcher reports the file; while it is being processed the change is
\* looked at later.  An exception of addTask is only logged.
Notify ==
  /\ notified /\ running
  /\ notified' = FALSE
  /\ \/ /\ content = None                   \* isSafeWatchedRegularFile
        /\ UNCHANGED <<table, queue, attempts, budget>>
     \/ /\ content # None /\ isFileProcessing
        /\ queue' = IF Accepts THEN Append(queue, "deferred") ELSE queue
        /\ UNCHANGED <<table, attempts, budget>>
     \/ /\ content # None /\ ~isFileProcessing
        /\ handleNewFile
  /\ UNCHANGED <<world, running, stopped, worker, sweep>>

-----------------------------------------------------------------------------
(* A worker of the pool.                                                   *)

Step(w, rec) == worker' = [worker EXCEPT ![w] = rec]
Finish(w)    == Step(w, IdleWorker)

\* A write of the database throws and processFile returns false.
Abort(w) ==
  Disturbed /\ Step(w, [IdleWorker EXCEPT !.at = "giveUp"]) /\ UNCHANGED table

\* It is inside processFile and has the file's mutex.
Busy == {"mark", "clear", "send", "insert"}
MutexFree == \A w \in Workers : worker[w].at \notin Busy

TakeTask(w) ==
  /\ worker[w].at = "idle" /\ queue # <<>>
  /\ queue' = Tail(queue)
  /\ Step(w, [IdleWorker EXCEPT !.at = IF Head(queue) = "process" THEN "lock"
                                                                  ELSE "wait"])
  /\ UNCHANGED <<world, budget, table, running, notified, stopped, attempts, sweep>>

\* The deferred task: it waits while the file is being processed, for two
\* minutes at most.
Deferred(w) ==
  /\ worker[w].at = "wait"
  /\ IF running THEN handleNewFile ELSE UNCHANGED <<table, queue, attempts, budget>>
  /\ Finish(w)
  /\ UNCHANGED <<world, running, notified, stopped, sweep>>

\* The mutex is taken, the file waited for, opened and hashed.
OpenFile(w) ==
  /\ worker[w].at = "lock" /\ MutexFree
  /\ Step(w, IF content = None THEN [worker[w] EXCEPT !.at = "giveUp"]
             ELSE [worker[w] EXCEPT !.at = "mark", !.ver = content])
  /\ UNCHANGED <<world, budget, table, running, notified, pool, attempts, sweep>>

\* processFile failed: the mutex is free again, then the file is marked.
GiveUp(w) ==
  /\ worker[w].at = "giveUp"
  /\ markAsFileFailed
  /\ Finish(w)
  /\ UNCHANGED <<world, running, notified, pool, sweep>>

\* Mutant of NothingToDo: a failed file with its fingerprint is skipped too.
SameFingerprint(w) == fingerprint = worker[w].ver

NothingToDo(w) ==
  IF resend
  THEN status \in {"processed", "processing"} /\ fingerprint = worker[w].ver
  ELSE isFileFullyProcessed

markFileAsProcessingIfChanged(w) ==
  status' = "processing" /\ fingerprint' = worker[w].ver
markFileAsProcessing == status' = "processing" /\ UNCHANGED fingerprint

\* The file is marked unless there is nothing to do.
MarkProcessing(w) ==
  /\ worker[w].at = "mark"
  /\ \/ /\ NothingToDo(w)
        /\ Finish(w)
        /\ UNCHANGED <<table, budget>>
     \/ /\ ~NothingToDo(w)
        /\ IF resend THEN markFileAsProcessingIfChanged(w) ELSE markFileAsProcessing
        /\ unmarked' = FALSE
        /\ Step(w, [worker[w] EXCEPT !.at = "clear"])
        /\ UNCHANGED <<permanent, rows, budget>>
     \/ /\ resend \/ ~NothingToDo(w)
        /\ Abort(w)
  /\ UNCHANGED <<world, running, notified, pool, attempts, sweep>>

deleteFileChunks(w) ==
  /\ worker[w].at = "clear"
  /\ \/ /\ rows' = NoRows
        /\ Step(w, [worker[w] EXCEPT !.at = "send"])
        /\ UNCHANGED <<status, fingerprint, permanent, unmarked, budget>>
     \/ Abort(w)
  /\ UNCHANGED <<world, running, notified, pool, attempts, sweep>>

-----------------------------------------------------------------------------
(* Sending a chunk to a target.                                            *)

\* The target has every chunk of the transfer, and says so from then on.
Holds(t, v) == \A k \in 0..(Size[v] - 1) : <<v, k>> \in held[t]

\* What a send may come to: stored, stored with the answer lost, not sent.
Receives(t, v, k) ==
  held' = [held EXCEPT ![t] = IF Holds(t, v) THEN @ ELSE @ \cup {<<v, k>>}]
Answered(t, v) == IF Holds(t, v) THEN "AlreadyExists" ELSE "Success"
SendFails(t, v, k) ==
  /\ Disturbed
  /\ Receives(t, v, k) \/ UNCHANGED held

\* sendChunk: one target after the other, also after a failure.
SendChunk(w) ==
  LET me == worker[w]
      After(failed, exists) ==
        Step(w, [me EXCEPT !.failed = @ \/ failed, !.exists = @ /\ exists,
                           !.at = IF me.t = NTargets THEN "insert" ELSE "send",
                           !.t = IF me.t = NTargets THEN 1 ELSE @ + 1])
  IN /\ me.at = "send"
     /\ \/ /\ ~running
           /\ Step(w, [me EXCEPT !.failed = TRUE, !.at = "insert", !.t = 1])
           /\ UNCHANGED <<held, budget>>
        \/ /\ running
           /\ Receives(me.t, me.ver, me.k)
           /\ After(FALSE, Answered(me.t, me.ver) = "AlreadyExists")
           /\ UNCHANGED budget
        \/ /\ running
           /\ SendFails(me.t, me.ver, me.k)
           /\ After(TRUE, FALSE)
     /\ UNCHANGED <<content, resend, table, running, notified, pool, attempts, sweep>>

\* The next chunk is read; at the end of the file the split is over, also when
\* the file has become shorter than it was.
NextChunk(w) ==
  LET k == worker[w].k + 1
      more == /\ k < Size[worker[w].ver]
              /\ content # None => k < Size[content]
  IN IF more THEN Step(w, [IdleWorker EXCEPT !.at = "send", !.ver = worker[w].ver,
                                             !.k = k])
             ELSE Finish(w)

\* Mutant of Sent: a chunk that one target refused counts as sent.
SentToSome(w) == TRUE

Sent(w) == ~worker[w].failed

\* insertChunk with the outcome; when every target had the file the rest is skipped
\* and sendChunk has recorded it as processed, if the database took that.
insertChunk(w) ==
  LET me == worker[w]
  IN /\ me.at = "insert"
     /\ \/ /\ ~me.failed /\ me.exists
           /\ RecordDelivered
           /\ Finish(w)
        \/ /\ me.failed \/ ~me.exists
           /\ rows' = [rows EXCEPT ![me.k] =
                         [status |-> IF Sent(w) THEN "success" ELSE "failed",
                          retries |-> 0, transfer |-> me.ver]]
           /\ NextChunk(w)
           /\ UNCHANGED <<status, fingerprint, permanent, unmarked, budget>>
        \/ /\ me.failed \/ ~me.exists
           /\ Abort(w)
     /\ UNCHANGED <<world, running, notified, pool, attempts, sweep>>

WorkerStep(w) ==
  \/ TakeTask(w) \/ Deferred(w) \/ OpenFile(w) \/ GiveUp(w) \/ MarkProcessing(w)
  \/ deleteFileChunks(w) \/ SendChunk(w) \/ insertChunk(w)

-----------------------------------------------------------------------------
(* The pending-chunks thread.                                              *)

Goto(at) == sweep' = [FirstSweep EXCEPT !.at = at]

\* On to the next chunk of the backlog.
Advance(rest) ==
  sweep' = [FirstSweep EXCEPT !.at = "next", !.todo = rest, !.size = sweep.size]

\* Mutant of FilesToRetry: the loop of the thread does not look at running.
SweepForever ==
  /\ sweep.at = "files"
  /\ Goto(IF getFailedFiles THEN "retry" ELSE "backlog")
  /\ UNCHANGED <<world, budget, table, running, notified, pool, attempts, worker>>

\* The list of failed files is read, then each is looked at again.
FilesToRetry ==
  /\ sweep.at = "files"
  /\ Goto(IF ~running THEN "done" ELSE IF getFailedFiles THEN "retry" ELSE "backlog")
  /\ UNCHANGED <<world, budget, table, running, notified, pool, attempts, worker>>

RetryFile ==
  /\ sweep.at = "retry"
  /\ \/ /\ ~running
        /\ UNCHANGED <<table, queue, attempts, budget>>
     \/ /\ running /\ (isFileProcessing \/ isFileFullyProcessed)
        /\ removeFileFromRetry
        /\ UNCHANGED <<table, queue, budget>>
     \/ /\ running /\ ~isFileProcessing /\ ~isFileFullyProcessed
        /\ handleNewFile
  /\ Goto("backlog")
  /\ UNCHANGED <<world, running, notified, stopped, worker>>

\* sendPendingFailedChunks reads the backlog once and opens the file; when it
\* cannot, the file and its chunks are marked, as far as the database takes it.
ReadBacklog ==
  /\ sweep.at = "backlog"
  /\ LET pending == getPendingChunks
     IN \/ /\ pending = {} \/ ~running
           /\ Goto("list")
           /\ UNCHANGED <<table, budget>>
        \/ /\ pending # {} /\ running /\ content = None
           /\ \E marked \in BOOLEAN, written \in SUBSET pending :
                /\ IF marked /\ written = pending THEN UNCHANGED budget ELSE Disturbed
                /\ status' = IF marked THEN "failed" ELSE status
                /\ unmarked' = (unmarked /\ ~marked)
                /\ rows' = [k \in Numbers |->
                              IF k \in written THEN [rows[k] EXCEPT !.retries = @ + 1]
                                               ELSE rows[k]]
           /\ Goto("list")
           /\ UNCHANGED <<fingerprint, permanent>>
        \/ /\ pending # {} /\ running /\ content # None
           /\ sweep' = [FirstSweep EXCEPT !.at = "next", !.size = Size[content],
                                          !.todo = {<<k, rows[k]>> : k \in pending}]
           /\ UNCHANGED <<table, budget>>
  /\ UNCHANGED <<world, running, notified, pool, attempts, worker>>

\* The next chunk of the backlog, as it was read; one that now lies beyond the
\* end of the file fails.
NextPending ==
  /\ sweep.at = "next"
  /\ \/ /\ ~running \/ sweep.todo = {}
        /\ Goto("list")
        /\ UNCHANGED rows
     \/ /\ running
        /\ \E c \in sweep.todo :
             IF c[1] >= sweep.size
             THEN /\ rows' = UpdateChunk(c[1], "failed", c[2].retries + 1)
                  /\ Advance(sweep.todo \ {c})
             ELSE /\ sweep' = [sweep EXCEPT !.at = "send", !.todo = @ \ {c}, !.k = c[1],
                                            !.row = c[2], !.retries = c[2].retries]
                  /\ UNCHANGED rows
  /\ UNCHANGED <<world, budget, status, fingerprint, permanent, unmarked, running,
                 notified, pool, attempts, worker>>

\* sendPendingChunkToTarget, one attempt: a failed one is written to the row, if the
\* database takes it, and is repeated or, the last, ends the chunk, as a refusal of
\* the breaker does; the chunk carries the transfer id read with the row.
SendPending ==
  LET v == sweep.row.transfer
  IN /\ sweep.at = "send"
     /\ \/ /\ ~running
           /\ Goto("list")
           /\ UNCHANGED <<held, budget, rows>>
        \/ /\ running
           /\ Receives(sweep.t, v, sweep.k)
           /\ sweep' = [sweep EXCEPT
                          !.exists = @ /\ Answered(sweep.t, v) = "AlreadyExists",
                          !.at = IF sweep.t = NTargets THEN "settle" ELSE "send",
                          !.t = IF sweep.t = NTargets THEN 1 ELSE @ + 1]
           /\ UNCHANGED <<budget, rows>>
        \/ /\ running
           /\ SendFails(sweep.t, v, sweep.k)
           /\ \/ /\ rows' \in {rows, updateChunkRetries(sweep.k, sweep.retries + 1)}
                 /\ sweep' = [sweep EXCEPT !.retries = @ + 1]
              \/ /\ rows' \in {rows, UpdateChunk(sweep.k, "failed", sweep.retries + 1)}
                 /\ Advance(sweep.todo)
        \/ /\ running                        \* the circuit is open
           /\ Disturbed
           /\ rows' \in {rows, updateChunkStatus(sweep.k, "failed")}
           /\ Advance(sweep.todo)
           /\ UNCHANGED held
     /\ UNCHANGED <<content, resend, status, fingerprint, permanent, unmarked,
                    running, notified, pool, attempts, worker>>

\* The outcome of a chunk every target took is recorded, by number alone; a write
\* that fails is only logged.
SettlePending ==
  /\ sweep.at = "settle"
  /\ \/ /\ sweep.exists
        /\ RecordDelivered
        /\ Goto("list")
     \/ /\ ~sweep.exists
        /\ \/ rows' = updateChunkStatus(sweep.k, "success") /\ UNCHANGED budget
           \/ Disturbed /\ UNCHANGED rows
        /\ Advance(sweep.todo)
        /\ UNCHANGED <<status, fingerprint, permanent, unmarked>>
  /\ UNCHANGED <<world, running, notified, pool, attempts, worker>>

\* cleanupSentFiles: the list, then each file of it.
ListSent ==
  /\ sweep.at = "list"
  /\ Goto(IF getFullySentFiles THEN "cleanup" ELSE "files")
  /\ UNCHANGED <<world, budget, table, running, notified, pool, attempts, worker>>

CleanupSent ==
  /\ sweep.at = "cleanup"
  /\ RecordDelivered
  /\ Goto("files")
  /\ UNCHANGED <<world, running, notified, pool, attempts, worker>>

SweepStep == \/ FilesToRetry \/ RetryFile \/ ReadBacklog \/ NextPending
             \/ SendPending \/ SettlePending \/ ListSent \/ CleanupSent

-----------------------------------------------------------------------------
(* Stop, crash and the file itself.                                        *)

Stop ==
  /\ running
  /\ running' = FALSE
  /\ UNCHANGED <<world, budget, table, notified, pool, attempts, worker, sweep>>

\* stop joins the pending-chunks thread and then stops the pool.
StopPool ==
  /\ ~running /\ sweep.at = "done" /\ ~stopped
  /\ stopped' = TRUE
  /\ UNCHANGED <<world, budget, table, running, notified, queue, attempts, worker, sweep>>

\* Mutant of Restart: what was being processed stays so.
RestartAsIs ==
  /\ Disturbed
  /\ running' = TRUE /\ stopped' = FALSE /\ notified' = TRUE
  /\ queue' = <<>> /\ attempts' = 0
  /\ worker' = [w \in Workers |-> IdleWorker]
  /\ sweep' = FirstSweep
  /\ UNCHANGED <<world, table>>

\* The process dies and is started again: Database::Database turns what was
\* being processed into failed, and the watcher scans its directory.
Restart ==
  /\ Disturbed
  /\ status' = IF status = "processing" THEN "failed" ELSE status
  /\ unmarked' = FALSE
  /\ running' = TRUE /\ stopped' = FALSE /\ notified' = TRUE
  /\ queue' = <<>> /\ attempts' = 0
  /\ worker' = [w \in Workers |-> IdleWorker]
  /\ sweep' = FirstSweep
  /\ UNCHANGED <<world, fingerprint, permanent, rows>>

\* The operating system reports the file once more.
NotifyAgain ==
  /\ ~notified /\ running
  /\ Disturbed
  /\ notified' = TRUE
  /\ UNCHANGED <<world, table, running, pool, attempts, worker, sweep>>

\* The file is rewritten, removed or put back.
Change ==
  /\ Disturbed
  /\ content' \in (Versions \cup {None}) \ {content}
  /\ notified' = TRUE
  /\ UNCHANGED <<held, resend, table, running, pool, attempts, worker, sweep>>

Next ==
  \/ Notify \/ SweepStep \/ \E w \in Workers : WorkerStep(w)
  \/ Stop \/ StopPool \/ Restart \/ NotifyAgain \/ Change

Spec == Init /\ [][Next]_vars

\* Every thread goes on, and so does the stop once it is under way; nothing
\* obliges anyone to stop, crash or touch the file.
Fairness ==
  /\ WF_vars(Notify) /\ WF_vars(SweepStep) /\ WF_vars(StopPool)
  /\ \A w \in Workers : WF_vars(WorkerStep(w))

FairSpec == Spec /\ Fairness

-----------------------------------------------------------------------------
(* Properties.                                                             *)

\* Every variable stays in its type.
TypeOK ==
  /\ content \in Versions \cup {None} /\ resend \in ResendModes
  /\ budget \in 0..MaxDisturbances
  /\ held \in [Targets -> SUBSET (Versions \X Numbers)]
  /\ status \in {"none", "processing", "processed", "failed"}
  /\ fingerprint \in Versions \cup {None}
  /\ permanent \in BOOLEAN /\ unmarked \in BOOLEAN
  /\ \A k \in Numbers : /\ rows[k].status \in {"none", "failed", "success"}
                        /\ rows[k].retries \in Nat
                        /\ rows[k] # NoRow => rows[k].transfer \in Versions
  /\ running \in BOOLEAN /\ stopped \in BOOLEAN /\ notified \in BOOLEAN
  /\ queue \in Seq({"process", "deferred"}) /\ Len(queue) <= MaxPending
  /\ attempts \in 0..(MaxAttempts - 1)
  /\ \A w \in Workers :
       worker[w].at \in Busy \cup {"idle", "lock", "wait", "giveUp"}
  /\ sweep.at \in {"files", "retry", "backlog", "next", "send", "settle", "list",
                   "cleanup", "done"}

\* A chunk recorded as sent is held by every target, although workers and the
\* pending-chunks thread send, delete and rewrite the same rows without a common
\* lock, and answers may be lost (splitFile, sendPendingFailedChunks).
SuccessRowsHeld ==
  \A k \in Successful : \A t \in Targets :
     <<rows[k].transfer, k>> \in held[t] \/ Holds(t, rows[k].transfer)

\* The content of a file that does not change.
TheVersion == CHOOSE v \in Versions : TRUE

\* Every target holds all of it.
EverywhereHeld == \A t \in Targets : Holds(t, TheVersion)

\* Nothing unsent is forgotten in state processing: the file is in some worker's
\* hands or has a row for each of its chunks, from which the backlog finishes it.
\* Otherwise every target holds it and only the record of that was lost, or it
\* failed and the database could not be told (for a file that does not change).
ProcessingHasWork ==
  status = "processing" =>
     \/ \E w \in Workers : worker[w].at \in Busy \cup {"giveUp"}
     \/ TotalChunk > 0 /\ Cardinality(Stored) = TotalChunk
     \/ EverywhereHeld \/ unmarked

\* "a different payload cannot reuse prior progress accidentally": once the
\* content on disk is recorded as processed, with no row left and nobody working
\* on it, every target holds all of it.
ProcessedIsHeld ==
  (/\ status = "processed" /\ Stored = {} /\ MutexFree
   /\ content # None /\ (resend => fingerprint = content))
    => \A t \in Targets : Holds(t, content)

\* What one file's record means, for a file that does not change.
D == INSTANCE Delivery WITH
       Targets <- Targets,
       has <- {t \in Targets : Holds(t, TheVersion)},
       phase <- IF status = "processed" THEN "delivered"
                ELSE IF permanent THEN "givenUp" ELSE "pending"

\* The agent implements Delivery: across retries, restarts, repeated
\* notifications and lost answers, a file is recorded as processed only when
\* every target holds all of it.
ImplementsDelivery == D!Spec

\* A chunk that has used up its retries.
Abandoned == \E k \in Stored : rows[k].status = "failed" /\ rows[k].retries >= MaxAbandon

\* The end of the file's processing was never written: it was delivered, or it
\* failed (sendChunk and markAsFileFailed log the database's error and go on).
OutcomeLost ==
  \/ /\ status = "processing" /\ EverywhereHeld
     /\ MutexFree /\ getPendingChunks = {} /\ ~getFullySentFiles
  \/ unmarked

\* Once sends and writes succeed again the file is recorded as processed, however
\* it got into the tables; it stays unfinished only if it was given up, a chunk of
\* it has used up its retries, it is gone, the agent is stopping, or the write that
\* should have ended its processing was lost: then it waits for a restart.
Settles == []<>(status = "processed" \/ permanent \/ Abandoned \/ OutcomeLost
                  \/ content = None \/ ~running)

\* stop returns: the pending-chunks thread ends and the pool drains its queue,
\* deferred and repeated tasks included.
StopCompletes ==
  []<>(running \/ (/\ sweep.at = "done" /\ stopped /\ queue = <<>>
                   /\ \A w \in Workers : worker[w].at = "idle"))

=============================================================================
