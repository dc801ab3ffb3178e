------------------------ MODULE FileReceiverProofs ------------------------
(***************************************************************************)
(* Theorems about FileReceiver, for every value of its constants.          *)
(***************************************************************************)
EXTENDS FileReceiver, FiniteSetTheorems, TLAPS

\* The file mutex: a handler between AcquireFileMutex and WriteChunk holds it,
\* and so the file it is about to write into has not been removed.
MutexInv ==
  \A h \in Handlers : /\ pc[h] \in InMutex => lock[Name(h)] = h
                      /\ pc[h] = "write" => disk[Name(h)] # NoFile

\* TypeOK alone is not inductive: that WriteChunk finds a file to write into
\* rests on the mutex.
TypeInv == TypeOK /\ MutexInv

LEMMA NoCallType == NoCall \in Call
  BY PacketsAssumption, EnvironmentAssumption
  DEF NoCall, NewCall, Call, Files, Totals

LEMMA PCsType ==
  /\ Idle \subseteq PCs /\ Checking \subseteq PCs /\ InMutex \subseteq PCs
  /\ Recording \subseteq PCs /\ Idle \cap InMutex = {}
  /\ Checking \cap InMutex = {} /\ Recording \cap InMutex = {}
  BY DEF PCs, Idle, Results, Checking, InMutex, Recording

LEMMA TypeInit == Init => TypeInv
<1> SUFFICES ASSUME Init PROVE TypeInv
  OBVIOUS
<1>1. TypeOK
  BY NoCallType, PacketsAssumption, EnvironmentAssumption
  DEF Init, TypeOK, Files, Content, PCs, Idle
<1>2. MutexInv
  BY PCsType DEF Init, MutexInv, Idle, InMutex, Results
<1> QED BY <1>1, <1>2 DEF TypeInv

-----------------------------------------------------------------------------
(* How a step of a handler changes its program counter and its locals.     *)

\* A step of handler h moves it, within the types, and moves nobody else.
Moves(h) ==
  /\ pc' \in [Handlers -> PCs] /\ call' \in [Handlers -> Call]
  /\ \A g \in Handlers \ {h} : pc'[g] = pc[g] /\ call'[g] = call[g]

LEMMA SetLemma ==
  ASSUME TypeOK, NEW h \in Handlers, NEW l \in PCs, NEW c \in Call,
         Goto(h, l), Set(h, c)
  PROVE  Moves(h) /\ pc'[h] = l /\ call'[h] = c
  BY DEF Moves, TypeOK, Goto, Set

LEMMA ReturnLemma ==
  ASSUME TypeOK, NEW h \in Handlers, NEW r \in Results, Return(h, r)
  PROVE  Moves(h) /\ pc'[h] = r /\ call'[h] = NoCall
  BY SetLemma, NoCallType DEF Return, PCs, Idle

LEMMA ContinueLemma ==
  ASSUME TypeOK, NEW h \in Handlers, NEW l \in PCs, Continue(h, l)
  PROVE  Moves(h) /\ pc'[h] = l /\ call' = call
  BY DEF Moves, TypeOK, Continue, Goto

LEMMA CallUpdates ==
  ASSUME NEW c \in Call
  PROVE  /\ \A f \in Files : [c EXCEPT !.name = f, !.redirected = TRUE] \in Call
         /\ [c EXCEPT !.replace = TRUE] \in Call
         /\ [c EXCEPT !.reset = TRUE] \in Call
         /\ \A b \in BOOLEAN : [c EXCEPT !.known = b] \in Call
         /\ \A n \in Totals : [c EXCEPT !.declared = n] \in Call
  BY DEF Call

LEMMA SwitchLemma ==
  ASSUME TypeOK, NEW h \in Handlers, NEW l \in PCs, SwitchToVersioned(h, l)
  PROVE  /\ Moves(h) /\ pc'[h] = l /\ Name(h)' = nextVersion + 1
         /\ nextVersion' \in Files /\ versioned' \in 0..nextVersion'
         /\ call'[h].replace = call[h].replace
         /\ UNCHANGED <<status, lock, tasks>>
<1>1. call[h] \in Call /\ nextVersion + 1 \in Files
  BY EnvironmentAssumption DEF TypeOK, Files, SwitchToVersioned
<1>2. [call[h] EXCEPT !.name = nextVersion + 1, !.redirected = TRUE] \in Call
  BY <1>1, CallUpdates
<1>3. /\ Moves(h) /\ pc'[h] = l
      /\ call'[h] = [call[h] EXCEPT !.name = nextVersion + 1, !.redirected = TRUE]
  BY <1>2, SetLemma DEF SwitchToVersioned
<1>4. Name(h)' = nextVersion + 1 /\ call'[h].replace = call[h].replace
  BY <1>1, <1>3 DEF Name, Call
<1> QED BY <1>1, <1>3, <1>4, EnvironmentAssumption DEF SwitchToVersioned, TypeOK, Files

\* A step that takes no part in the mutex, the tables or the files.
LEMMA LocalStep ==
  ASSUME TypeInv, NEW h \in Handlers, Moves(h), pc'[h] \notin InMutex,
         UNCHANGED <<durable, status, lock, tasks, worker>>,
         versioned' \in 0..nextVersion', nextVersion' \in Files,
         faults' \in Nat, removed' = removed, policy' \in Policies
  PROVE  TypeInv'
<1>1. TypeOK'
  BY DEF TypeInv, TypeOK, Moves, durable, worker
<1>2. MutexInv'
  BY DEF TypeInv, MutexInv, Moves, Name, durable, InMutex
<1> QED BY <1>1, <1>2 DEF TypeInv

\* A local step that leaves the receiver's memory alone.
LEMMA QuietStep ==
  ASSUME TypeInv, NEW h \in Handlers, Moves(h), pc'[h] \notin InMutex,
         UNCHANGED <<durable, memory, worker, env>>
  PROVE  TypeInv'
  BY LocalStep DEF memory, env, TypeInv, TypeOK

\* A step outside the mutex that writes chunk rows.
LEMMA RowsStep ==
  ASSUME TypeInv, NEW h \in Handlers, Moves(h), pc'[h] \notin InMutex,
         rows' \in [Files -> SUBSET Row],
         UNCHANGED <<rec, disk, memory, worker, env>>
  PROVE  TypeInv'
<1>1. TypeOK'
  BY DEF TypeInv, TypeOK, Moves, memory, worker, env
<1>2. MutexInv'
  BY DEF TypeInv, MutexInv, Moves, Name, memory, InMutex
<1> QED BY <1>1, <1>2 DEF TypeInv

\* What a write leaves in the file, whole or cut short.
LEMMA WrittenType ==
  ASSUME TypeInv, NEW h \in Handlers, pc[h] = "write",
         NEW w \in SUBSET Slots, disk' = Written(h, w)
  PROVE  /\ disk' \in [Files -> Content \cup {NoFile}]
         /\ Name(h) \in Files /\ disk'[Name(h)] # NoFile
         /\ \A s \in w : disk'[Name(h)][s] = Pkt(h).tid
         /\ \A s \in Slots \ w : disk'[Name(h)][s] = disk[Name(h)][s]
         /\ \A f \in Files \ {Name(h)} : disk'[f] = disk[f]
<1>1. Name(h) \in Files /\ Pkt(h) \in Packets /\ Pkt(h).tid \in TransferIds
  BY DEF TypeInv, TypeOK, Call, Name, Pkt, TransferIds
<1>2. disk \in [Files -> Content \cup {NoFile}] /\ disk[Name(h)] \in Content
  BY <1>1 DEF TypeInv, TypeOK, MutexInv
<1> DEFINE new == [s \in Slots |-> IF s \in w THEN Pkt(h).tid
                                              ELSE disk[Name(h)][s]]
<1>3. new \in Content
  BY <1>1, <1>2 DEF Content
<1>4. disk' = [disk EXCEPT ![Name(h)] = new]
  BY DEF Written
<1>5. disk'[Name(h)] = new
  BY <1>1, <1>2, <1>4
<1> HIDE DEF new
<1>6. /\ disk' \in [Files -> Content \cup {NoFile}]
      /\ \A f \in Files \ {Name(h)} : disk'[f] = disk[f]
  BY <1>1, <1>2, <1>3, <1>4
<1> USE DEF new
<1> QED BY <1>1, <1>3, <1>5, <1>6, NoFileAssumption

\* The step that ends the critical section after a write.
LEMMA UnlockStep ==
  ASSUME TypeInv, NEW h \in Handlers, Moves(h), pc'[h] \notin InMutex,
         pc[h] = "write", NEW w \in SUBSET Slots, disk' = Written(h, w),
         lock' = [lock EXCEPT ![Name(h)] = NoHandler],
         faults' \in Nat, removed' = removed, policy' \in Policies,
         UNCHANGED <<rows, rec, status, versioned, nextVersion, tasks, worker>>
  PROVE  TypeInv'
<1>1. /\ disk' \in [Files -> Content \cup {NoFile}]
      /\ Name(h) \in Files
      /\ \A f \in Files \ {Name(h)} : disk'[f] = disk[f]
  BY WrittenType
<1>2. TypeOK'
  BY <1>1 DEF TypeInv, TypeOK, Moves, worker
<1>3. ASSUME NEW g \in Handlers, pc'[g] \in InMutex
      PROVE  lock'[Name(g)'] = g /\ (pc'[g] = "write" => disk'[Name(g)'] # NoFile)
  <2>1. g # h /\ pc[g] \in InMutex /\ Name(g)' = Name(g) /\ lock[Name(g)] = g
    BY <1>3 DEF Moves, Name, TypeInv, MutexInv
  <2>2. lock[Name(h)] = h /\ Name(g) \in Files
    BY DEF TypeInv, MutexInv, InMutex, TypeOK, Name, Call
  <2>3. Name(g) # Name(h)
    BY <2>1, <2>2
  <2>4. pc'[g] = pc[g]
    BY <2>1 DEF Moves
  <2> QED BY <1>1, <2>1, <2>2, <2>3, <2>4 DEF TypeInv, TypeOK, MutexInv
<1>4. MutexInv'
  BY <1>3 DEF MutexInv, InMutex
<1> QED BY <1>2, <1>4 DEF TypeInv

\* The control points by name.
LEMMA Points ==
  /\ Results \subseteq PCs \ InMutex
  /\ {"isReconstructed", "reconstructedId", "rowCount", "activeId", "onDisk",
      "status", "isSuccessful", "isKnown", "mutex"} \subseteq PCs \ InMutex
  /\ {"recheck", "insert", "update", "total", "count", "enqueue", "unversion"}
       \subseteq PCs \ InMutex
  /\ InMutex = {"replace", "eraseStatus", "remove", "prepare", "write"}
  /\ InMutex \subseteq PCs
  /\ Results = {"Stored", "AlreadyCompleted", "JustCompleted", "Failed"}
  BY DEF PCs, Idle, Results, Checking, InMutex, Recording

-----------------------------------------------------------------------------

LEMMA TypeStep == TypeInv /\ [Next]_vars => TypeInv'
<1> SUFFICES ASSUME TypeInv, [Next]_vars PROVE TypeInv'
  OBVIOUS
<1> USE NoCallType, EnvironmentAssumption, Points
<1>0. TypeOK /\ MutexInv
  BY DEF TypeInv
<1>1. ASSUME NEW h \in Handlers, NEW p \in Packets, ReceivePacket(h, p)
      PROVE TypeInv'
  <2>1. NewCall(p, 0) \in Call /\ NewCall(p, versioned) \in Call
    BY <1>0 DEF NewCall, Call, Totals, TypeOK, Files
  <2>2. Moves(h) /\ pc'[h] = "isReconstructed"
    BY <1>0, <1>1, <2>1, SetLemma DEF ReceivePacket
  <2> QED BY <1>1, <2>2, QuietStep DEF ReceivePacket
<1>2. ASSUME NEW h \in Handlers, HandlerStep(h)
      PROVE TypeInv'
  <2>0. call[h] \in Call /\ Name(h) \in Files /\ Pkt(h) \in Packets
    BY <1>0 DEF TypeOK, Call, Name, Pkt
  <2>1. CASE isFileReconstructed(h)
    BY <1>0, <2>1, ContinueLemma, QuietStep DEF isFileReconstructed
  <2>2. CASE getReconstructedTransferId(h)
    <3>1. CASE Return(h, "AlreadyCompleted") /\ UNCHANGED memory
      BY <1>0, <2>2, <3>1, ReturnLemma, QuietStep DEF getReconstructedTransferId
    <3>2. CASE SwitchToVersioned(h, "rowCount")
      BY <1>0, <2>2, <3>2, SwitchLemma, LocalStep
      DEF getReconstructedTransferId, env, TypeOK
    <3>3. CASE /\ Goto(h, "rowCount")
               /\ Set(h, [call[h] EXCEPT !.replace = TRUE])
               /\ UNCHANGED memory
      BY <1>0, <2>0, <2>2, <3>3, SetLemma, CallUpdates, QuietStep
      DEF getReconstructedTransferId
    <3> QED BY <2>2, <3>1, <3>2, <3>3 DEF getReconstructedTransferId
  <2>3. CASE getChunkRowCount(h)
    BY <1>0, <2>3, ContinueLemma, QuietStep DEF getChunkRowCount
  <2>4. CASE CheckActiveTransfer(h)
    <3>1. CASE Continue(h, "status")
      BY <1>0, <2>4, <3>1, ContinueLemma, QuietStep DEF CheckActiveTransfer
    <3>2. CASE Goto(h, "status") /\ Set(h, [call[h] EXCEPT !.reset = TRUE])
      BY <1>0, <2>0, <2>4, <3>2, SetLemma, CallUpdates, QuietStep
      DEF CheckActiveTransfer
    <3>3. CASE Return(h, "Failed")
      BY <1>0, <2>4, <3>3, ReturnLemma, QuietStep DEF CheckActiveTransfer
    <3> QED BY <2>4, <3>1, <3>2, <3>3 DEF CheckActiveTransfer
  <2>5. CASE CheckOnDisk(h)
    <3>1. CASE Continue(h, "status") /\ UNCHANGED memory
      BY <1>0, <2>5, <3>1, ContinueLemma, QuietStep DEF CheckOnDisk
    <3>2. CASE SwitchToVersioned(h, "status")
      BY <1>0, <2>5, <3>2, SwitchLemma, LocalStep DEF CheckOnDisk, env, TypeOK
    <3>3. CASE Return(h, "AlreadyCompleted") /\ UNCHANGED memory
      BY <1>0, <2>5, <3>3, ReturnLemma, QuietStep DEF CheckOnDisk
    <3> QED BY <2>5, <3>1, <3>2, <3>3 DEF CheckOnDisk
  <2>6. CASE CheckStatus(h)
    BY <1>0, <2>6, ReturnLemma, ContinueLemma, QuietStep DEF CheckStatus
  <2>7. CASE CheckSuccessful(h)
    BY <1>0, <2>7, ReturnLemma, ContinueLemma, QuietStep DEF CheckSuccessful
  <2>8. CASE getChunkStatus(h)
    <3>1. HasRow(Name(h), Pkt(h).num) \in BOOLEAN
      BY DEF HasRow
    <3> QED BY <1>0, <2>0, <2>8, <3>1, SetLemma, CallUpdates, QuietStep
            DEF getChunkStatus
  <2>9. CASE AcquireFileMutex(h)
    <3>1. Moves(h) /\ pc'[h] \in {"replace", "prepare"} /\ call' = call
      BY <1>0, <2>9, ContinueLemma DEF AcquireFileMutex
    <3>2. lock[Name(h)] = NoHandler /\ lock' = [lock EXCEPT ![Name(h)] = h]
      BY <2>9 DEF AcquireFileMutex
    <3>a. lock' \in [Files -> Handlers \cup {NoHandler}]
      BY <1>0, <2>0, <3>2 DEF TypeOK
    <3>3. TypeOK'
      BY <1>0, <2>9, <3>1, <3>a
      DEF AcquireFileMutex, TypeOK, Moves, durable, worker, env
    <3>4. ASSUME NEW g \in Handlers, pc'[g] \in InMutex
          PROVE  /\ lock'[Name(g)'] = g
                 /\ pc'[g] = "write" => disk'[Name(g)'] # NoFile
      <4>1. Name(g)' = Name(g) /\ Name(g) \in Files /\ disk' = disk
        BY <1>0, <2>9, <3>1 DEF AcquireFileMutex, Name, TypeOK, Call, durable
      <4>2. CASE g = h
        BY <1>0, <2>0, <3>1, <3>2, <4>1, <4>2 DEF TypeOK
      <4>3. CASE g # h
        <5>1. pc'[g] = pc[g] /\ lock[Name(g)] = g
          BY <1>0, <3>1, <3>4, <4>3 DEF Moves, MutexInv
        <5>2. Name(g) # Name(h)
          BY <3>2, <5>1
        <5> QED BY <1>0, <2>0, <3>2, <4>1, <5>1, <5>2 DEF TypeOK, MutexInv
      <4> QED BY <4>2, <4>3
    <3>5. MutexInv'
      BY <3>4 DEF MutexInv, InMutex
    <3> QED BY <3>3, <3>5 DEF TypeInv
  <2>10. CASE DeletePrevious(h)
    <3>1. Moves(h) /\ pc'[h] = "eraseStatus" /\ call' = call /\ pc[h] = "replace"
      BY <1>0, <2>10, ContinueLemma DEF DeletePrevious, At
    <3>2. TypeOK'
      BY <1>0, <2>0, <2>10, <3>1
      DEF DeletePrevious, TypeOK, Moves, memory, worker, env
    <3>3. MutexInv'
      BY <1>0, <2>10, <3>1 DEF DeletePrevious, MutexInv, Moves, Name, memory
    <3> QED BY <3>2, <3>3 DEF TypeInv
  <2>11. CASE EraseStatus(h)
    <3>1. Moves(h) /\ pc'[h] = "remove" /\ call' = call /\ pc[h] = "eraseStatus"
      BY <1>0, <2>11, ContinueLemma DEF EraseStatus, At
    <3>2. TypeOK'
      BY <1>0, <2>0, <2>11, <3>1
      DEF EraseStatus, TypeOK, Moves, durable, worker, env
    <3>3. MutexInv'
      BY <1>0, <2>11, <3>1 DEF EraseStatus, MutexInv, Moves, Name, durable
    <3> QED BY <3>2, <3>3 DEF TypeInv
  <2>12. CASE RemovePrevious(h)
    <3>1. Moves(h) /\ pc'[h] = "prepare" /\ call' = call /\ pc[h] = "remove"
      BY <1>0, <2>12, ContinueLemma DEF RemovePrevious, At
    <3>2. TypeOK'
      BY <1>0, <2>0, <2>12, <3>1
      DEF RemovePrevious, TypeOK, Moves, memory, worker
    <3>3. MutexInv'
      BY <1>0, <2>0, <2>12, <3>1
      DEF RemovePrevious, MutexInv, TypeOK, Moves, Name, memory
    <3> QED BY <3>2, <3>3 DEF TypeInv
  <2>13. CASE prepareOutputFileForChunk(h)
    <3>1. Moves(h) /\ pc'[h] = "write" /\ call' = call /\ pc[h] = "prepare"
      BY <1>0, <2>13, ContinueLemma DEF prepareOutputFileForChunk, At
    <3>2. [s \in Slots |-> NoTid] \in Content
      BY DEF Content
    <3>3. /\ disk' \in [Files -> Content \cup {NoFile}]
          /\ disk'[Name(h)] # NoFile
          /\ \A f \in Files \ {Name(h)} : disk'[f] = disk[f]
      BY <1>0, <2>0, <2>13, <3>2, NoFileAssumption
      DEF prepareOutputFileForChunk, TypeOK
    <3>4. TypeOK'
      BY <1>0, <2>13, <3>1, <3>3
      DEF prepareOutputFileForChunk, TypeOK, Moves, memory, worker, env
    <3>5. MutexInv'
      BY <1>0, <2>0, <2>13, <3>1, <3>3
      DEF prepareOutputFileForChunk, MutexInv, TypeOK, Moves, Name, memory, Call
    <3> QED BY <3>4, <3>5 DEF TypeInv
  <2>14. CASE WriteChunk(h)
    <3>1. /\ Moves(h) /\ pc'[h] \in {"update", "recheck"} /\ call' = call
          /\ pc[h] = "write"
      BY <1>0, <2>14, ContinueLemma DEF WriteChunk, At
    <3>2. Pkt(h).slots \in SUBSET Slots
      BY <2>0, PacketsAssumption
    <3> QED BY <1>0, <2>14, <3>1, <3>2, UnlockStep DEF WriteChunk, TypeOK, env
  <2>15. CASE RecheckRow(h)
    BY <1>0, <2>15, ContinueLemma, QuietStep DEF RecheckRow
  <2>16. CASE insertChunk(h)
    <3>1. CASE Return(h, "Failed") /\ UNCHANGED rows
      BY <1>0, <2>16, <3>1, ReturnLemma, QuietStep DEF insertChunk, durable
    <3>2. CASE ~HasRow(Name(h), Pkt(h).num)
      <4>1. Moves(h) /\ pc'[h] = "update"
        BY <1>0, <2>16, <3>2, ContinueLemma DEF insertChunk
      <4>2. \A b \in BOOLEAN :
              [num |-> Pkt(h).num, tid |-> Pkt(h).tid, total |-> Pkt(h).total,
               success |-> FALSE, oldest |-> b] \in Row
        BY <2>0 DEF Row, ChunkNums, TransferIds, Totals
      <4>3. rows' \in [Files -> SUBSET Row]
        <5> DEFINE new == [num |-> Pkt(h).num, tid |-> Pkt(h).tid,
                           total |-> Pkt(h).total, success |-> FALSE,
                           oldest |-> rows[Name(h)] = {}]
        <5>1. new \in Row
          BY <4>2
        <5>2. rows' = [rows EXCEPT ![Name(h)] = rows[Name(h)] \cup {new}]
          BY <2>16, <3>2 DEF insertChunk
        <5> HIDE DEF new
        <5> QED BY <1>0, <2>0, <5>1, <5>2 DEF TypeOK
      <4> QED BY <2>16, <3>2, <4>1, <4>3, RowsStep DEF insertChunk
    <3> QED BY <2>16, <3>1, <3>2 DEF insertChunk
  <2>17. CASE updateChunkStatus(h)
    <3>1. Moves(h) /\ pc'[h] = "total"
      BY <1>0, <2>17, ContinueLemma DEF updateChunkStatus
    <3>2. \A r \in Row : [r EXCEPT !.success = TRUE] \in Row
      BY DEF Row
    <3>3. rows' \in [Files -> SUBSET Row]
      BY <1>0, <2>0, <2>17, <3>2 DEF updateChunkStatus, TypeOK
    <3> QED BY <2>17, <3>1, <3>3, RowsStep DEF updateChunkStatus
  <2>18. CASE getTotalChunkCount(h)
    <3>1. PICK total \in Totals :
            IF total = 0
            THEN Return(h, "Stored")
            ELSE Goto(h, "count") /\ Set(h, [call[h] EXCEPT !.declared = total])
      BY <2>18 DEF getTotalChunkCount
    <3>2. CASE total = 0
      BY <1>0, <2>18, <3>1, <3>2, ReturnLemma, QuietStep DEF getTotalChunkCount
    <3>3. CASE total # 0
      BY <1>0, <2>0, <2>18, <3>1, <3>3, SetLemma, CallUpdates, QuietStep
      DEF getTotalChunkCount
    <3> QED BY <3>2, <3>3
  <2>19. CASE CountChunks(h)
    BY <1>0, <2>19, ReturnLemma, ContinueLemma, QuietStep DEF CountChunks
  <2>20. CASE EnqueueFinalization(h)
    <3>1. Moves(h) /\ pc'[h] \notin InMutex
      BY <1>0, <2>20, ReturnLemma, ContinueLemma DEF EnqueueFinalization
    <3>2. /\ status' \in [Files -> BOOLEAN] /\ tasks' \in [Files -> Nat]
          /\ faults' \in Nat /\ removed' = removed /\ policy' \in Policies
      <4>1. CASE UNCHANGED <<status, tasks>>
        BY <1>0, <2>20, <4>1 DEF EnqueueFinalization, TypeOK, Fault, env
      <4>2. CASE /\ status' = [status EXCEPT ![Name(h)] = TRUE]
                 /\ tasks' = [tasks EXCEPT ![Name(h)] = @ + 1]
                 /\ UNCHANGED env
        BY <1>0, <2>0, <4>2 DEF TypeOK, env
      <4> QED BY <2>20, <4>1, <4>2 DEF EnqueueFinalization
    <3>3. TypeOK'
      BY <1>0, <2>20, <3>1, <3>2
      DEF EnqueueFinalization, TypeOK, Moves, durable, worker
    <3>4. MutexInv'
      BY <1>0, <2>20, <3>1 DEF EnqueueFinalization, MutexInv, Moves, Name, durable
    <3> QED BY <3>3, <3>4 DEF TypeInv
  <2>21. CASE ForgetVersion(h)
    <3>1. Moves(h) /\ pc'[h] \notin InMutex
      BY <1>0, <2>21, ReturnLemma DEF ForgetVersion
    <3>2. versioned' \in 0..nextVersion' /\ nextVersion' \in Files
      BY <1>0, <2>21 DEF ForgetVersion, TypeOK, Files
    <3>3. faults' \in Nat /\ removed' = removed /\ policy' \in Policies
      BY <1>0, <2>21 DEF ForgetVersion, TypeOK, env
    <3> QED BY <2>21, <3>1, <3>2, <3>3, LocalStep DEF ForgetVersion
  <2> QED BY <1>2, <2>1, <2>2, <2>3, <2>4, <2>5, <2>6, <2>7, <2>8, <2>9, <2>10,
             <2>11, <2>12, <2>13, <2>14, <2>15, <2>16, <2>17, <2>18, <2>19,
             <2>20, <2>21 DEF HandlerStep
<1>3. ASSUME NEW h \in Handlers, HandlerFails(h)
      PROVE TypeInv'
  <2>1. Moves(h) /\ pc'[h] = "Failed"
    BY <1>0, <1>3, ReturnLemma DEF HandlerFails
  <2>2. TypeOK'
    BY <1>0, <1>3, <2>1
    DEF HandlerFails, Fault, TypeOK, Moves, durable, worker
  <2>3. MutexInv'
    BY <1>0, <1>3, <2>1
    DEF HandlerFails, MutexInv, Moves, Name, durable, TypeOK, Call
  <2> QED BY <2>2, <2>3 DEF TypeInv
<1>4. ASSUME NEW h \in Handlers, WriteFails(h)
      PROVE TypeInv'
  <2>0. call[h] \in Call /\ Name(h) \in Files /\ Pkt(h) \in Packets
    BY <1>0 DEF TypeOK, Call, Name, Pkt
  <2>1. Moves(h) /\ pc'[h] = "Failed" /\ pc[h] = "write"
    BY <1>0, <1>4, ReturnLemma DEF WriteFails, At
  <2>2. PICK w \in SUBSET Pkt(h).slots : disk' = Written(h, w)
    BY <1>4 DEF WriteFails
  <2>3. w \in SUBSET Slots
    BY <2>0, PacketsAssumption
  <2>4. faults' \in Nat /\ removed' = removed /\ policy' \in Policies
    BY <1>0, <1>4 DEF WriteFails, TypeOK, Fault
  <2>5. /\ lock' = [lock EXCEPT ![Name(h)] = NoHandler]
        /\ UNCHANGED <<rows, rec, status, versioned, nextVersion, tasks, worker>>
    BY <1>4 DEF WriteFails
  <2>6. pc'[h] \notin InMutex
    BY <2>1
  <2> QED BY <2>1, <2>2, <2>3, <2>4, <2>5, <2>6, UnlockStep
<1>5. ASSUME NEW w \in Workers, WorkerStep(w)
      PROVE TypeInv'
  <2>1. ASSUME NEW f \in Files, StartFinalization(w, f)
        PROVE TypeInv'
    <3>1. TypeOK'
      BY <1>0, <2>1 DEF StartFinalization, WGoto, TypeOK, durable, env
    <3>2. MutexInv'
      BY <1>0, <2>1 DEF StartFinalization, MutexInv, Name, durable
    <3> QED BY <3>1, <3>2 DEF TypeInv
  <2>2. CASE ReadChunks(w)
    <3>0. \A r \in getChunksForFile(wname[w]) : r.tid \in TransferIds
      BY <1>0 DEF getChunksForFile, TypeOK, Row
    <3>a. /\ wpc' \in [Workers -> {"idle", "read", "commit", "clear"}]
          /\ wname' \in [Workers -> Files]
          /\ wtid' \in [Workers -> TransferIds \cup {NoTid}]
      <4>1. CASE Contiguous(getChunksForFile(wname[w]))
        BY <1>0, <2>2, <3>0, <4>1 DEF ReadChunks, WGoto, TypeOK
      <4>2. CASE ~Contiguous(getChunksForFile(wname[w]))
        <5>1. WDone(w) /\ 0 \in Files
          BY <2>2, <4>2 DEF ReadChunks, Files
        <5> QED BY <1>0, <5>1 DEF WGoto, WDone, TypeOK
      <4> QED BY <4>1, <4>2
    <3>1. TypeOK'
      BY <1>0, <2>2, <3>a DEF ReadChunks, TypeOK, durable, memory, env
    <3>2. MutexInv'
      BY <1>0, <2>2 DEF ReadChunks, MutexInv, Name, durable, memory
    <3> QED BY <3>1, <3>2 DEF TypeInv
  <2>3. CASE CommitFinalization(w)
    <3>1. TypeOK'
      BY <1>0, <2>3 DEF CommitFinalization, WGoto, TypeOK, memory, env
    <3>2. MutexInv'
      BY <1>0, <2>3 DEF CommitFinalization, MutexInv, Name, memory
    <3> QED BY <3>1, <3>2 DEF TypeInv
  <2>4. CASE ClearStatus(w)
    <3>1. TypeOK'
      BY <1>0, <2>4 DEF ClearStatus, WGoto, WDone, TypeOK, durable, env, Files
    <3>2. MutexInv'
      BY <1>0, <2>4 DEF ClearStatus, MutexInv, Name, durable
    <3> QED BY <3>1, <3>2 DEF TypeInv
  <2> QED BY <1>5, <2>1, <2>2, <2>3, <2>4 DEF WorkerStep
<1>6. ASSUME NEW w \in Workers, FinalizationFails(w)
      PROVE TypeInv'
  BY <1>0, <1>6 DEF FinalizationFails, Fault, WGoto, TypeInv, TypeOK, MutexInv,
                    Name, durable, memory
<1>7. CASE Restart
  <2>1. TypeOK'
    BY <1>0, <1>7 DEF Restart, loadPendingCounters, Fault, TypeOK, durable, Files,
                      PCs, Idle
  <2>2. MutexInv'
    BY <1>0, <1>7 DEF Restart, MutexInv
  <2> QED BY <2>1, <2>2 DEF TypeInv
<1>8. CASE UNCHANGED vars
  BY <1>0, <1>8 DEF vars, durable, memory, worker, env, TypeInv, TypeOK,
                    MutexInv, Name
<1> QED BY <1>1, <1>2, <1>3, <1>4, <1>5, <1>6, <1>7, <1>8 DEF Next

\* Every variable of the receiver stays in its type, and a handler inside the
\* file mutex owns it, under any interleaving, fault and restart.
THEOREM TypeCorrect == Spec => []TypeOK
<1>1. TypeInv => TypeOK
  BY DEF TypeInv
<1> QED BY <1>1, TypeInit, TypeStep, PTL DEF Spec

=============================================================================
