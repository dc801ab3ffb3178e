---------------------------- MODULE FileReceiver ----------------------------
(***************************************************************************)
(* The server's receive, finalise and restart path for one client file:    *)
(* FileReceiver.cpp over the two SQLite tables of Database.cpp, the output *)
(* file that chunks are written into, and the in-memory maps of the        *)
(* receiver.  Connection handlers run receiveChunk concurrently, pool      *)
(* workers run tryReconstructFile, and the process may crash at any step.  *)
(*                                                                         *)
(* Every access to shared state (one query, one transaction, one critical  *)
(* section, one file operation) is a step of its own, because that is      *)
(* where other threads may interleave.  The file mutex covers only the     *)
(* steps from AcquireFileMutex to WriteChunk.                              *)
(*                                                                         *)
(* File 0 is the name the client sends; files 1, 2, ... are the names      *)
(* buildVersionedFilename generates for it.  The content of an output file *)
(* is abstracted to slots: which transfer's bytes fill each slot.          *)
(***************************************************************************)
EXTENDS Naturals, FiniteSets

CONSTANTS
  Handlers,     \* threads running ClientHandler::handleClient
  Workers,      \* pool threads that run finalisation tasks
  Packets,      \* the chunk packets agents may send, see PacketsAssumption
  Slots,        \* byte ranges of an output file
  Configured,   \* the values resend.changed_files.server_policy is given
  MaxVersion,   \* bound: version suffixes generated
  QueueLimit,   \* ThreadPool's maxPendingTasks, per file
  Overlap,      \* FALSE: calls and finalisations run one at a time
  Faults,       \* what the environment may do: subset of FaultKinds
  MaxFaults,    \* bound: faults injected in a behaviour
  NoTid,        \* no transfer id; in a file, a slot never written (zeros)
  Foreign,      \* content put on disk by something other than the server
  NoFile,       \* no such output file
  NoHandler     \* a file mutex nobody holds

Policies   == {"overwrite", "reject", "versioned"}
FaultKinds == {"crash", "io", "pool"}

TransferIds == {p.tid : p \in Packets}
ChunkNums   == {p.num : p \in Packets}
Totals      == {p.total : p \in Packets} \cup {0}

\* A packet says which transfer (SHA-256 of the file) it belongs to, its
\* chunk number, the slots its offset and length cover, and the chunk count,
\* which is 0 on every packet but the last of an adaptive transfer.
ASSUME PacketsAssumption ==
  /\ Packets \subseteq [tid : TransferIds, num : Nat, slots : SUBSET Slots,
                        total : Nat]
  /\ NoTid \notin TransferIds /\ Foreign \notin TransferIds
  /\ Foreign # NoTid
  /\ Slots # {} /\ Packets # {}

ASSUME EnvironmentAssumption ==
  /\ Configured \subseteq Policies /\ Configured # {}
  /\ MaxVersion \in Nat /\ QueueLimit \in Nat /\ MaxFaults \in Nat
  /\ Faults \subseteq FaultKinds /\ Overlap \in BOOLEAN
  /\ NoHandler \notin Handlers

Files == 0..MaxVersion

VARIABLES
  \* SQLite
  rows,         \* chunks table: per file, the set of its rows
  rec,          \* reconstructed_files: per file, the recorded transfer_id
  \* file system
  disk,         \* per file, NoFile or the content of each slot
  \* FileReceiver's memory
  status,       \* reconstructionStatus: finalisation marked as under way
  versioned,    \* versionedTransferFilenames[original], 0 when absent
  nextVersion,  \* suffixes used by buildVersionedFilename so far
  lock,         \* fileMutexes: per file, the handler inside
  tasks,        \* queued tryReconstructFile tasks, per file
  \* receiveChunk, per handler
  pc,           \* where it is; after a return, the result it returned
  call,         \* its locals
  \* tryReconstructFile, per worker
  wpc, wname, wtid,
  \* ServerConfig, read when the process starts
  policy,       \* resend.changed_files.server_policy
  \* bookkeeping of the model
  faults,       \* faults injected so far
  removed       \* files whose output a handler has removed to replace it

durable  == <<rows, rec, disk>>
memory   == <<status, versioned, nextVersion, lock, tasks>>
worker   == <<wpc, wname, wtid>>
env      == <<policy, faults, removed>>
vars     == <<durable, memory, pc, call, worker, env>>

Results == {"Stored", "AlreadyCompleted", "JustCompleted", "Failed"}
Idle    == Results \cup {"ready"}

\* The control points of receiveChunk, named after the access they make next.
Checking  == {"isReconstructed", "reconstructedId", "rowCount", "activeId",
              "onDisk", "status", "isSuccessful", "isKnown", "mutex"}
InMutex   == {"replace", "eraseStatus", "remove", "prepare", "write"}
Recording == {"recheck", "insert", "update", "total", "count", "enqueue",
              "unversion"}
PCs       == Idle \cup Checking \cup InMutex \cup Recording

Row     == [num : ChunkNums, tid : TransferIds, total : Totals,
            success : BOOLEAN, oldest : BOOLEAN]
Content == [Slots -> TransferIds \cup {NoTid, Foreign}]

ASSUME NoFileAssumption == NoFile \notin Content

\* The locals of receiveChunk: the packet, the effective file name, whether it
\* is a versioned one, replaceReconstructedFile, resetPartialTransfer,
\* chunkKnownInDb and declaredTotalChunks.
Call == [pkt : Packets, name : Files, redirected : BOOLEAN, replace : BOOLEAN,
         reset : BOOLEAN, known : BOOLEAN, declared : Totals]

NewCall(p, f) == [pkt |-> p, name |-> f, redirected |-> f # 0,
                  replace |-> FALSE, reset |-> FALSE, known |-> FALSE,
                  declared |-> 0]
NoCall == NewCall(CHOOSE p \in Packets : TRUE, 0)

-----------------------------------------------------------------------------
(* Queries of Database.cpp.                                                *)

HasRow(f, c)          == \E r \in rows[f] : r.num = c
isChunkSuccessful(f, c) == \E r \in rows[f] : r.num = c /\ r.success
getChunksForFile(f)   == {r \in rows[f] : r.success}

\* ORDER BY id LIMIT 1: rows are only ever deleted all together, so the row
\* with the lowest id is the one inserted into an empty set.
getActiveTransferId(f) ==
  IF rows[f] = {} THEN NoTid ELSE (CHOOSE r \in rows[f] : r.oldest).tid

\* MAX(total_chunk) over the rows rs is n, 0 when there are none.
IsMaxTotal(rs, n) == /\ n = 0 \/ \E r \in rs : r.total = n
                     /\ \A r \in rs : r.total <= n

\* As many rows are successful as the largest total recorded.
AllChunksIn(f) ==
  \E n \in Totals \ {0} : /\ IsMaxTotal(rows[f], n)
                          /\ Cardinality(getChunksForFile(f)) >= n

\* tryReconstructFile's validation: as many rows as the total says, numbered
\* 0, 1, 2, ... without a gap.
Contiguous(rs) ==
  \E n \in Totals \ {0} : IsMaxTotal(rs, n) /\ {r.num : r \in rs} = 0 .. n - 1

-----------------------------------------------------------------------------

\* Init: an empty database; the output name may be free or taken by a file the
\* server did not write.
Init ==
  /\ rows = [f \in Files |-> {}]
  /\ rec = [f \in Files |-> NoTid]
  /\ \E external \in BOOLEAN :
       disk = [f \in Files |-> IF external /\ f = 0
                               THEN [s \in Slots |-> Foreign] ELSE NoFile]
  /\ status = [f \in Files |-> FALSE]
  /\ versioned = 0
  /\ nextVersion = 0
  /\ lock = [f \in Files |-> NoHandler]
  /\ tasks = [f \in Files |-> 0]
  /\ pc = [h \in Handlers |-> "ready"]
  /\ call = [h \in Handlers |-> NoCall]
  /\ wpc = [w \in Workers |-> "idle"]
  /\ wname = [w \in Workers |-> 0]
  /\ wtid = [w \in Workers |-> NoTid]
  /\ policy \in Configured
  /\ faults = 0
  /\ removed = {}

-----------------------------------------------------------------------------
(* receiveChunk, by handler h.                                             *)

Pkt(h)  == call[h].pkt
Name(h) == call[h].name
isFirstChunk(h) == Pkt(h).num = 0

At(h, l)   == pc[h] = l
Goto(h, l) == pc' = [pc EXCEPT ![h] = l]
Set(h, c)  == call' = [call EXCEPT ![h] = c]

\* receiveChunk returns r; its locals are dead.
Return(h, r) == Goto(h, r) /\ Set(h, NoCall)

\* One more step of the call, no return.
Continue(h, l) == Goto(h, l) /\ UNCHANGED call

\* No call and no finalisation is under way.
Quiet == /\ \A h \in Handlers : pc[h] \in Idle
         /\ \A w \in Workers : wpc[w] = "idle"

\* Bound: every first chunk under way can still have a version suffix.
VersionsLeft ==
  nextVersion + Cardinality({h \in Handlers : pc[h] \notin Idle /\ isFirstChunk(h)})
    < MaxVersion

\* A packet arrives.  Under the versioned policy a chunk other than the first
\* follows the name chosen for the first.
ReceivePacket(h, p) ==
  /\ pc[h] \in Idle
  /\ Overlap \/ Quiet
  /\ policy = "versioned" /\ p.num = 0 => VersionsLeft
  /\ Goto(h, "isReconstructed")
  /\ Set(h, NewCall(p, IF p.num # 0 /\ policy = "versioned" THEN versioned
                                                            ELSE 0))
  /\ UNCHANGED <<durable, memory, worker, env>>

\* switchToVersionedFilename, then on to l.  Generated names are never reused.
SwitchToVersioned(h, l) ==
  /\ nextVersion < MaxVersion
  /\ nextVersion' = nextVersion + 1
  /\ versioned' = nextVersion + 1
  /\ Set(h, [call[h] EXCEPT !.name = nextVersion + 1, !.redirected = TRUE])
  /\ Goto(h, l)
  /\ UNCHANGED <<status, lock, tasks>>

isFileReconstructed(h) ==
  /\ At(h, "isReconstructed")
  /\ Continue(h, IF rec[Name(h)] = NoTid THEN "rowCount" ELSE "reconstructedId")
  /\ UNCHANGED <<durable, memory, worker, env>>

\* Mutant: every policy replaces a reconstructed output.
AlwaysReplace(h) ==
  /\ At(h, "reconstructedId")
  /\ IF rec[Name(h)] = Pkt(h).tid \/ ~isFirstChunk(h)
     THEN Return(h, "AlreadyCompleted")
     ELSE /\ Goto(h, "rowCount")
          /\ Set(h, [call[h] EXCEPT !.replace = TRUE])
  /\ UNCHANGED <<durable, memory, worker, env>>

\* The output is recorded as complete: acknowledge the same transfer, apply the
\* policy to the first chunk of another, skip any other chunk of another.
getReconstructedTransferId(h) ==
  /\ At(h, "reconstructedId")
  /\ IF \/ rec[Name(h)] = Pkt(h).tid
        \/ ~isFirstChunk(h)
        \/ policy = "reject"
     THEN Return(h, "AlreadyCompleted") /\ UNCHANGED memory
     ELSE \/ /\ policy = "versioned"
             /\ SwitchToVersioned(h, "rowCount")
          \/ /\ policy = "overwrite"
             /\ Goto(h, "rowCount")
             /\ Set(h, [call[h] EXCEPT !.replace = TRUE])
             /\ UNCHANGED memory
  /\ UNCHANGED <<durable, worker, env>>

\* With rows present, or an output about to be replaced, the test of the file
\* on disk decides nothing.
getChunkRowCount(h) ==
  /\ At(h, "rowCount")
  /\ Continue(h, IF rows[Name(h)] # {} THEN "activeId"
                 ELSE IF call[h].replace THEN "status" ELSE "onDisk")
  /\ UNCHANGED <<durable, memory, worker, env>>

\* Mutant: rows of another transfer are taken for this one's.
AnyActiveTransfer(h) ==
  /\ At(h, "activeId")
  /\ Continue(h, "status")
  /\ UNCHANGED <<durable, memory, worker, env>>

\* Rows of another transfer: only its first chunk may replace them.
CheckActiveTransfer(h) ==
  /\ At(h, "activeId")
  /\ \/ /\ getActiveTransferId(Name(h)) = Pkt(h).tid
        /\ Continue(h, "status")
     \/ /\ getActiveTransferId(Name(h)) # Pkt(h).tid
        /\ IF isFirstChunk(h)
           THEN Goto(h, "status") /\ Set(h, [call[h] EXCEPT !.reset = TRUE])
           ELSE Return(h, "Failed")
  /\ UNCHANGED <<durable, memory, worker, env>>

\* Mutant: a file without rows is taken for the server's own.
OnDiskIsOurs(h) ==
  /\ At(h, "onDisk")
  /\ Continue(h, "status")
  /\ UNCHANGED <<durable, memory, worker, env>>

\* No rows but a file: taken for an output that is not the server's.
CheckOnDisk(h) ==
  /\ At(h, "onDisk")
  /\ IF disk[Name(h)] = NoFile
     THEN Continue(h, "status") /\ UNCHANGED memory
     ELSE IF isFirstChunk(h) /\ policy = "versioned"
          THEN SwitchToVersioned(h, "status")
          ELSE Return(h, "AlreadyCompleted") /\ UNCHANGED memory
  /\ UNCHANGED <<durable, worker, env>>

\* The in-memory test, which a replacement passes by but a reset does not.
CheckStatus(h) ==
  /\ At(h, "status")
  /\ IF status[Name(h)] /\ ~call[h].replace
     THEN Return(h, "AlreadyCompleted")
     ELSE Continue(h, IF call[h].reset THEN "mutex" ELSE "isSuccessful")
  /\ UNCHANGED <<durable, memory, worker, env>>

\* A chunk that is stored already is acknowledged without any accounting.
CheckSuccessful(h) ==
  /\ At(h, "isSuccessful")
  /\ IF isChunkSuccessful(Name(h), Pkt(h).num)
     THEN Return(h, "Stored")
     ELSE Continue(h, "isKnown")
  /\ UNCHANGED <<durable, memory, worker, env>>

getChunkStatus(h) ==
  /\ At(h, "isKnown")
  /\ Goto(h, "mutex")
  /\ Set(h, [call[h] EXCEPT !.known = HasRow(Name(h), Pkt(h).num)])
  /\ UNCHANGED <<durable, memory, worker, env>>

AcquireFileMutex(h) ==
  /\ At(h, "mutex")
  /\ lock[Name(h)] = NoHandler
  /\ lock' = [lock EXCEPT ![Name(h)] = h]
  /\ Continue(h, IF call[h].replace \/ call[h].reset THEN "replace"
                                                     ELSE "prepare")
  /\ UNCHANGED <<durable, status, versioned, nextVersion, tasks, worker, env>>

\* Mutant: replacing an output forgets the chunk rows.
DeleteRecordOnly(h) ==
  /\ At(h, "replace")
  /\ rec' = IF call[h].replace THEN [rec EXCEPT ![Name(h)] = NoTid] ELSE rec
  /\ Continue(h, "eraseStatus")
  /\ UNCHANGED <<rows, disk, memory, worker, env>>

\* One transaction: the reconstructed row (when replacing) and every chunk row.
DeletePrevious(h) ==
  /\ At(h, "replace")
  /\ rec' = IF call[h].replace THEN [rec EXCEPT ![Name(h)] = NoTid] ELSE rec
  /\ rows' = [rows EXCEPT ![Name(h)] = {}]
  /\ Continue(h, "eraseStatus")
  /\ UNCHANGED <<disk, memory, worker, env>>

EraseStatus(h) ==
  /\ At(h, "eraseStatus")
  /\ status' = [status EXCEPT ![Name(h)] = FALSE]
  /\ Continue(h, "remove")
  /\ UNCHANGED <<durable, versioned, nextVersion, lock, tasks, worker, env>>

RemovePrevious(h) ==
  /\ At(h, "remove")
  /\ disk' = [disk EXCEPT ![Name(h)] = NoFile]
  /\ removed' = removed \cup {Name(h)}
  /\ Continue(h, "prepare")
  /\ UNCHANGED <<rows, rec, memory, worker, policy, faults>>

\* Mutant: the file is truncated for every chunk.
TruncateOutput(h) ==
  /\ At(h, "prepare")
  /\ disk' = [disk EXCEPT ![Name(h)] = [s \in Slots |-> NoTid]]
  /\ Continue(h, "write")
  /\ UNCHANGED <<rows, rec, memory, worker, env>>

\* A new file is created and extended to the declared size (zeros); an
\* existing one is kept.  Rejections for size, budget or space are HandlerFails.
prepareOutputFileForChunk(h) ==
  /\ At(h, "prepare")
  /\ disk' = IF disk[Name(h)] = NoFile
             THEN [disk EXCEPT ![Name(h)] = [s \in Slots |-> NoTid]]
             ELSE disk
  /\ Continue(h, "write")
  /\ UNCHANGED <<rows, rec, memory, worker, env>>

\* The content of file f after h has written the slots w of its packet.
Written(h, w) ==
  [disk EXCEPT ![Name(h)] =
     [s \in Slots |-> IF s \in w THEN Pkt(h).tid ELSE disk[Name(h)][s]]]

\* The chunk is written at its offset and the file mutex released.
WriteChunk(h) ==
  /\ At(h, "write")
  /\ disk' = Written(h, Pkt(h).slots)
  /\ lock' = [lock EXCEPT ![Name(h)] = NoHandler]
  /\ Continue(h, IF call[h].known THEN "update" ELSE "recheck")
  /\ UNCHANGED <<rows, rec, status, versioned, nextVersion, tasks, worker, env>>

RecheckRow(h) ==
  /\ At(h, "recheck")
  /\ Continue(h, IF HasRow(Name(h), Pkt(h).num) THEN "update" ELSE "insert")
  /\ UNCHANGED <<durable, memory, worker, env>>

\* UNIQUE(client_address, filename, chunk_number): a second insert throws.
insertChunk(h) ==
  /\ At(h, "insert")
  /\ IF HasRow(Name(h), Pkt(h).num)
     THEN Return(h, "Failed") /\ UNCHANGED rows
     ELSE /\ rows' = [rows EXCEPT ![Name(h)] = @ \cup
                {[num |-> Pkt(h).num, tid |-> Pkt(h).tid, total |-> Pkt(h).total,
                  success |-> FALSE, oldest |-> @ = {}]}]
          /\ Continue(h, "update")
  /\ UNCHANGED <<rec, disk, memory, worker, env>>

\* An UPDATE by chunk number: whichever transfer the row belongs to.
updateChunkStatus(h) ==
  /\ At(h, "update")
  /\ rows' = [rows EXCEPT ![Name(h)] =
       {IF r.num = Pkt(h).num THEN [r EXCEPT !.success = TRUE] ELSE r : r \in @}]
  /\ Continue(h, "total")
  /\ UNCHANGED <<rec, disk, memory, worker, env>>

\* The total of the packet, or the largest one recorded so far.
getTotalChunkCount(h) ==
  /\ At(h, "total")
  /\ \E total \in Totals :
       /\ IF Pkt(h).total > 0 THEN total = Pkt(h).total
                              ELSE IsMaxTotal(rows[Name(h)], total)
       /\ IF total = 0
          THEN Return(h, "Stored")
          ELSE Goto(h, "count") /\ Set(h, [call[h] EXCEPT !.declared = total])
  /\ UNCHANGED <<durable, memory, worker, env>>

\* Mutant: one chunk short is enough.
CountOneShort(h) ==
  /\ At(h, "count")
  /\ IF Cardinality(getChunksForFile(Name(h))) < call[h].declared - 1
     THEN Return(h, "Stored")
     ELSE Continue(h, "enqueue")
  /\ UNCHANGED <<durable, memory, worker, env>>

CountChunks(h) ==
  /\ At(h, "count")
  /\ IF Cardinality(getChunksForFile(Name(h))) < call[h].declared
     THEN Return(h, "Stored")
     ELSE Continue(h, "enqueue")
  /\ UNCHANGED <<durable, memory, worker, env>>

\* A fault of kind k strikes.
Fault(k) == /\ k \in Faults /\ faults < MaxFaults
            /\ faults' = faults + 1
            /\ UNCHANGED removed

\* Under reconstructionMutex: mark and queue, once.  When addTask throws (the
\* queue is full, with this file's tasks or with other work) the mark is taken
\* back, and the chunk is still reported as the one that completed the file.
EnqueueFinalization(h) ==
  LET f == Name(h)
  IN /\ At(h, "enqueue")
     /\ \/ /\ status[f] \/ tasks[f] >= QueueLimit
           /\ UNCHANGED <<status, tasks, env>>
        \/ /\ ~status[f] /\ tasks[f] < QueueLimit
           /\ status' = [status EXCEPT ![f] = TRUE]
           /\ tasks' = [tasks EXCEPT ![f] = @ + 1]
           /\ UNCHANGED env
        \/ /\ ~status[f] /\ Fault("pool")
           /\ UNCHANGED <<status, tasks, policy>>
     /\ IF call[h].redirected THEN Continue(h, "unversion")
                              ELSE Return(h, "JustCompleted")
     /\ UNCHANGED <<durable, versioned, nextVersion, lock, worker>>

ForgetVersion(h) ==
  /\ At(h, "unversion")
  /\ versioned' = 0
  /\ Return(h, "JustCompleted")
  /\ UNCHANGED <<durable, status, nextVersion, lock, tasks, worker, env>>

\* Where an exception, a hash mismatch, a rejected size or a lack of space makes
\* receiveChunk report Failed (from "total" on, by letting it escape), with the
\* transaction rolled back and the mutex released.
FailPoints == {"isReconstructed", "reconstructedId", "rowCount", "activeId",
               "onDisk", "isSuccessful", "isKnown", "mutex", "replace", "remove",
               "prepare", "recheck", "insert", "update", "total", "count"}

HandlerFails(h) ==
  /\ pc[h] \in FailPoints
  /\ Fault("io")
  /\ lock' = [f \in Files |-> IF lock[f] = h THEN NoHandler ELSE lock[f]]
  /\ Return(h, "Failed")
  /\ UNCHANGED <<durable, status, versioned, nextVersion, tasks, worker, policy>>

\* The last write attempt fails, having written some of the data.
WriteFails(h) ==
  /\ At(h, "write")
  /\ Fault("io")
  /\ \E w \in SUBSET Pkt(h).slots : disk' = Written(h, w)
  /\ lock' = [lock EXCEPT ![Name(h)] = NoHandler]
  /\ Return(h, "Failed")
  /\ UNCHANGED <<rows, rec, status, versioned, nextVersion, tasks, worker, policy>>

-----------------------------------------------------------------------------
(* tryReconstructFile, by worker w.                                        *)

WGoto(w, l) == wpc' = [wpc EXCEPT ![w] = l]
WDone(w) == /\ WGoto(w, "idle")
            /\ wname' = [wname EXCEPT ![w] = 0]
            /\ wtid' = [wtid EXCEPT ![w] = NoTid]

\* Mutant: a worker wakes up without a task.
StartWithoutTask(w, f) ==
  /\ wpc[w] = "idle"
  /\ Overlap \/ Quiet
  /\ tasks' = [tasks EXCEPT ![f] = @ - 1]
  /\ wname' = [wname EXCEPT ![w] = f]
  /\ WGoto(w, "read")
  /\ UNCHANGED <<durable, status, versioned, nextVersion, lock, pc, call, wtid,
                 env>>

\* A worker takes a queued task.  Tasks of different files do not interact, so
\* their order in the queue is left open.
StartFinalization(w, f) ==
  /\ wpc[w] = "idle"
  /\ Overlap \/ Quiet
  /\ tasks[f] > 0
  /\ tasks' = [tasks EXCEPT ![f] = @ - 1]
  /\ wname' = [wname EXCEPT ![w] = f]
  /\ WGoto(w, "read")
  /\ UNCHANGED <<durable, status, versioned, nextVersion, lock, pc, call, wtid,
                 env>>

\* Rows that do not make up a whole file end the task, and leave the mark.
ReadChunks(w) ==
  LET chunks == getChunksForFile(wname[w])
  IN /\ wpc[w] = "read"
     /\ IF Contiguous(chunks)
        THEN /\ WGoto(w, "commit")
             /\ \E r \in chunks : /\ r.num = 0
                                  /\ wtid' = [wtid EXCEPT ![w] = r.tid]
             /\ UNCHANGED wname
        ELSE WDone(w)
     /\ UNCHANGED <<durable, memory, pc, call, env>>

\* One transaction: INSERT OR IGNORE the reconstructed row, delete the chunks.
CommitFinalization(w) ==
  LET f == wname[w]
  IN /\ wpc[w] = "commit"
     /\ rec' = [rec EXCEPT ![f] = IF @ = NoTid THEN wtid[w] ELSE @]
     /\ rows' = [rows EXCEPT ![f] = {}]
     /\ WGoto(w, "clear")
     /\ UNCHANGED <<disk, memory, pc, call, wname, wtid, env>>

\* A database error in either step is rolled back; the mark is still cleared.
FinalizationFails(w) ==
  /\ wpc[w] \in {"read", "commit"}
  /\ Fault("io")
  /\ WGoto(w, "clear")
  /\ UNCHANGED <<durable, memory, pc, call, wname, wtid, policy>>

ClearStatus(w) ==
  /\ wpc[w] = "clear"
  /\ status' = [status EXCEPT ![wname[w]] = FALSE]
  /\ WDone(w)
  /\ UNCHANGED <<durable, versioned, nextVersion, lock, tasks, pc, call, env>>

-----------------------------------------------------------------------------
(* The process dies and is started again.                                  *)

\* Mutant: a restart forgets the finalisations that were pending.
ForgetPending ==
  /\ status' = [f \in Files |-> FALSE]
  /\ tasks' = [f \in Files |-> 0]

\* loadPendingCounters: files whose rows are all there and that have no
\* reconstructed row are marked and queued, none of them when the query fails;
\* when addTask throws for one of them (full), its mark stays.
loadPendingCounters ==
  LET complete == {f \in Files : rec[f] = NoTid /\ AllChunksIn(f)}
  IN \E ready \in {complete} \cup (IF "io" \in Faults THEN {{}} ELSE {}),
        full  \in IF "pool" \in Faults THEN SUBSET complete ELSE {{}} :
       /\ status' = [f \in Files |-> f \in ready]
       /\ tasks' = [f \in Files |-> IF f \in ready \ full THEN 1 ELSE 0]

\* The new process reads its configuration, which may have been changed.
Restart ==
  /\ Fault("crash")
  /\ policy' \in Configured
  /\ loadPendingCounters
  /\ versioned' = 0
  /\ lock' = [f \in Files |-> NoHandler]
  /\ pc' = [h \in Handlers |-> "ready"]
  /\ call' = [h \in Handlers |-> NoCall]
  /\ wpc' = [w \in Workers |-> "idle"]
  /\ wname' = [w \in Workers |-> 0]
  /\ wtid' = [w \in Workers |-> NoTid]
  /\ UNCHANGED <<durable, nextVersion>>

-----------------------------------------------------------------------------

\* A step of the call h is in, other than a fault.
HandlerStep(h) ==
  \/ isFileReconstructed(h)
  \/ getReconstructedTransferId(h)
  \/ getChunkRowCount(h)
  \/ CheckActiveTransfer(h)
  \/ CheckOnDisk(h)
  \/ CheckStatus(h)
  \/ CheckSuccessful(h)
  \/ getChunkStatus(h)
  \/ AcquireFileMutex(h)
  \/ DeletePrevious(h)
  \/ EraseStatus(h)
  \/ RemovePrevious(h)
  \/ prepareOutputFileForChunk(h)
  \/ WriteChunk(h)
  \/ RecheckRow(h)
  \/ insertChunk(h)
  \/ updateChunkStatus(h)
  \/ getTotalChunkCount(h)
  \/ CountChunks(h)
  \/ EnqueueFinalization(h)
  \/ ForgetVersion(h)

WorkerStep(w) ==
  \/ \E f \in Files : StartFinalization(w, f)
  \/ ReadChunks(w)
  \/ CommitFinalization(w)
  \/ ClearStatus(w)

Next ==
  \/ \E h \in Handlers : \/ \E p \in Packets : ReceivePacket(h, p)
                         \/ HandlerStep(h)
                         \/ HandlerFails(h)
                         \/ WriteFails(h)
  \/ \E w \in Workers : WorkerStep(w) \/ FinalizationFails(w)
  \/ Restart

Spec == Init /\ [][Next]_vars

\* Threads that can run do run; packets need not arrive and faults need not
\* happen.
Fairness ==
  /\ \A h \in Handlers : WF_vars(HandlerStep(h))
  /\ \A w \in Workers : WF_vars(WorkerStep(w))

FairSpec == Spec /\ Fairness

-----------------------------------------------------------------------------
(* Properties.                                                             *)

\* Every variable stays in its type.
TypeOK ==
  /\ rows \in [Files -> SUBSET Row]
  /\ rec \in [Files -> TransferIds \cup {NoTid}]
  /\ disk \in [Files -> Content \cup {NoFile}]
  /\ status \in [Files -> BOOLEAN]
  /\ versioned \in 0..nextVersion
  /\ nextVersion \in Files
  /\ lock \in [Files -> Handlers \cup {NoHandler}]
  /\ tasks \in [Files -> Nat]
  /\ pc \in [Handlers -> PCs]
  /\ call \in [Handlers -> Call]
  /\ wpc \in [Workers -> {"idle", "read", "commit", "clear"}]
  /\ wname \in [Workers -> Files]
  /\ wtid \in [Workers -> TransferIds \cup {NoTid}]
  /\ policy \in Policies
  /\ faults \in Nat
  /\ removed \subseteq Files

\* File f holds the data of slots S of transfer t.
Holds(f, t, S) == disk[f] # NoFile /\ \A s \in S : disk[f][s] = t

SlotsOf(t) == UNION {p.slots : p \in {q \in Packets : q.tid = t}}

\* A chunk recorded as stored has its bytes in the output file: the order
\* "write, then insert, then mark as success" of receiveChunk.
StoredDataOnDisk ==
  \A f \in Files : \A r \in getChunksForFile(f) : \A p \in Packets :
    p.tid = r.tid /\ p.num = r.num => Holds(f, r.tid, p.slots)

\* File f is recorded as the whole of some transfer and is that: no slot left
\* as zeros, none of another transfer.
WholeFile(f) == rec[f] # NoTid => Holds(f, rec[f], SlotsOf(rec[f]))

\* An output recorded as reconstructed is the whole content of its transfer
\* (tryReconstructFile records it on the evidence of the chunk rows alone).
FinalizedWhole == \A f \in Files : WholeFile(f)

\* An output recorded as reconstructed is the whole content of its transfer,
\* unless receiveChunk took the path that removes an output to replace it.
WholeUnlessRemoved == \A f \in Files \ removed : WholeFile(f)

\* A file that was on disk without any metadata of the server is never touched
\* (docs/architecture.md: "The Server does not overwrite files that merely
\* exist on disk without matching reconstructed metadata").
ForeignFile == [s \in Slots |-> Foreign]
ForeignKept ==
  [][\A f \in Files : disk[f] = ForeignFile => disk'[f] = disk[f]]_vars

\* Under the policies that keep an existing output, a published one keeps its
\* record and its content from then on.
PublishedKept ==
  [][\A f \in Files : rec[f] # NoTid /\ policy # "overwrite"
       => rec'[f] = rec[f] /\ disk'[f] = disk[f]]_vars

\* The agent may forget transfer t: it is published, or all its chunks are
\* recorded and will be; or the policy or a foreign file makes the server keep
\* something else, as documented.
MayForget(t) ==
  \/ \E f \in Files : \/ rec[f] = t
                      \/ AllChunksIn(f) /\ getActiveTransferId(f) = t
  \/ policy = "reject" /\ rec[0] # NoTid
  \/ disk[0] = ForeignFile

\* AlreadyCompleted, on which the agent marks the whole file as processed, is
\* answered only for a transfer the agent may forget.
AlreadyCompletedIsTrue ==
  [][\A h \in Handlers : pc[h] \notin Idle /\ pc'[h] = "AlreadyCompleted"
                         => MayForget(Pkt(h).tid)]_vars

\* Answered on the evidence of the record or of the in-memory mark, rather than
\* of a file on disk, AlreadyCompleted is true also under faults and concurrency:
\* a mark outlives neither the rows it was set for nor their finalisation.
MarkedIsComplete ==
  [][\A h \in Handlers : /\ pc[h] \in {"reconstructedId", "status"}
                         /\ pc'[h] = "AlreadyCompleted"
                         => MayForget(Pkt(h).tid)]_vars

\* JustCompleted is answered only when every byte of the transfer is in the
\* file, unless the output was removed meanwhile.
JustCompletedIsTrue ==
  \A h \in Handlers : pc[h] \in {"enqueue", "unversion"} /\ Name(h) \notin removed
                      => Holds(Name(h), Pkt(h).tid, SlotsOf(Pkt(h).tid))

\* When all the chunks of a file are recorded, it is recorded as reconstructed
\* some time later, crashes included (loadPendingCounters).
CompleteIsFinalized ==
  \A f \in Files : AllChunksIn(f) ~> rec[f] # NoTid

=============================================================================
