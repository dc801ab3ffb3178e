------------------------- MODULE FileReceiverSafety -------------------------
(***************************************************************************)
(* What FileReceiver does to output files and answers to agents, for every *)
(* value of its constants: files it did not create; the output of one      *)
(* transfer under interleaving; outputs of several transfers, one call at  *)
(* a time; and what an answer of AlreadyCompleted means.                   *)
(***************************************************************************)
EXTENDS FileReceiverProofs, FunctionTheorems

\* A handler's step ends the call, keeps its packet and file name, or switches
\* it to a new versioned name.
Returned(h) == pc'[h] \in Results /\ call'[h] = NoCall
Stays(h)    == /\ Pkt(h)' = Pkt(h) /\ Name(h)' = Name(h)
               /\ pc[h] # "reconstructedId" => call'[h].replace = call[h].replace
Switched(h) == /\ Pkt(h)' = Pkt(h) /\ Name(h)' = nextVersion + 1
               /\ pc[h] \in {"reconstructedId", "onDisk"}
               /\ pc'[h] \in {"rowCount", "status"}

\* Any step of a call, faults included.
CallStep(h) == HandlerStep(h) \/ HandlerFails(h) \/ WriteFails(h)

LEMMA CallOutcome ==
  ASSUME TypeOK, NEW h \in Handlers, CallStep(h)
  PROVE  Moves(h) /\ (Returned(h) \/ Stays(h) \/ Switched(h))
<1> USE Points DEF At
<1>0. call[h] \in Call
  BY DEF TypeOK
<1>1. ASSUME NEW r \in Results, Return(h, r)
      PROVE  Moves(h) /\ Returned(h)
  BY <1>1, ReturnLemma DEF Returned
<1>2. ASSUME NEW l \in PCs, Continue(h, l)
      PROVE  Moves(h) /\ Stays(h)
  BY <1>2, ContinueLemma DEF Stays, Pkt, Name
<1>3. ASSUME NEW l \in PCs, SwitchToVersioned(h, l), l \in {"rowCount", "status"},
             pc[h] \in {"reconstructedId", "onDisk"}
      PROVE  Moves(h) /\ Switched(h)
  <2>1. Moves(h) /\ pc'[h] = l /\ Name(h)' = nextVersion + 1
    BY <1>3, SwitchLemma
  <2>2. Pkt(h)' = Pkt(h)
    BY <1>0, <1>3 DEF SwitchToVersioned, Set, Pkt, Call, TypeOK
  <2> QED BY <1>3, <2>1, <2>2 DEF Switched
<1>4. ASSUME NEW l \in PCs, Goto(h, l), NEW c \in Call, Set(h, c),
             c.pkt = Pkt(h), c.name = Name(h),
             pc[h] # "reconstructedId" => c.replace = call[h].replace
      PROVE  Moves(h) /\ Stays(h)
  BY <1>4, SetLemma DEF Stays, Pkt, Name
<1>5. /\ [call[h] EXCEPT !.replace = TRUE].pkt = Pkt(h)
      /\ [call[h] EXCEPT !.replace = TRUE].name = Name(h)
      /\ [call[h] EXCEPT !.reset = TRUE].pkt = Pkt(h)
      /\ [call[h] EXCEPT !.reset = TRUE].name = Name(h)
      /\ [call[h] EXCEPT !.reset = TRUE].replace = call[h].replace
  BY <1>0 DEF Call, Pkt, Name
<1>6. \A b : /\ [call[h] EXCEPT !.known = b].pkt = Pkt(h)
             /\ [call[h] EXCEPT !.known = b].name = Name(h)
             /\ [call[h] EXCEPT !.known = b].replace = call[h].replace
             /\ [call[h] EXCEPT !.declared = b].pkt = Pkt(h)
             /\ [call[h] EXCEPT !.declared = b].name = Name(h)
             /\ [call[h] EXCEPT !.declared = b].replace = call[h].replace
  BY <1>0 DEF Call, Pkt, Name
<1>7. CASE isFileReconstructed(h)
  BY <1>2, <1>7 DEF isFileReconstructed
<1>8. CASE getReconstructedTransferId(h)
  <2>1. CASE Return(h, "AlreadyCompleted")
    BY <1>1, <2>1
  <2>2. CASE SwitchToVersioned(h, "rowCount")
    BY <1>3, <1>8, <2>2 DEF getReconstructedTransferId
  <2>3. CASE Goto(h, "rowCount") /\ Set(h, [call[h] EXCEPT !.replace = TRUE])
    BY <1>0, <1>4, <1>5, <1>8, <2>3, CallUpdates DEF getReconstructedTransferId
  <2> QED BY <1>8, <2>1, <2>2, <2>3 DEF getReconstructedTransferId
<1>9. CASE getChunkRowCount(h)
  BY <1>2, <1>9 DEF getChunkRowCount
<1>10. CASE CheckActiveTransfer(h)
  <2>1. CASE Goto(h, "status") /\ Set(h, [call[h] EXCEPT !.reset = TRUE])
    BY <1>0, <1>4, <1>5, <2>1, CallUpdates
  <2> QED BY <1>1, <1>2, <1>10, <2>1 DEF CheckActiveTransfer
<1>11. CASE CheckOnDisk(h)
  <2>1. CASE SwitchToVersioned(h, "status")
    BY <1>3, <1>11, <2>1 DEF CheckOnDisk
  <2> QED BY <1>1, <1>2, <1>11, <2>1 DEF CheckOnDisk
<1>12. CASE CheckStatus(h)
  BY <1>1, <1>2, <1>12 DEF CheckStatus
<1>13. CASE CheckSuccessful(h)
  BY <1>1, <1>2, <1>13 DEF CheckSuccessful
<1>14. CASE getChunkStatus(h)
  <2>1. HasRow(Name(h), Pkt(h).num) \in BOOLEAN
    BY DEF HasRow
  <2>2. [call[h] EXCEPT !.known = HasRow(Name(h), Pkt(h).num)] \in Call
    BY <1>0, <2>1, CallUpdates
  <2> QED BY <1>4, <1>6, <1>14, <2>2 DEF getChunkStatus
<1>15. CASE AcquireFileMutex(h)
  BY <1>2, <1>15 DEF AcquireFileMutex
<1>16. CASE DeletePrevious(h)
  BY <1>2, <1>16 DEF DeletePrevious
<1>17. CASE EraseStatus(h)
  BY <1>2, <1>17 DEF EraseStatus
<1>18. CASE RemovePrevious(h)
  BY <1>2, <1>18 DEF RemovePrevious
<1>19. CASE prepareOutputFileForChunk(h)
  BY <1>2, <1>19 DEF prepareOutputFileForChunk
<1>20. CASE WriteChunk(h)
  BY <1>2, <1>20 DEF WriteChunk
<1>21. CASE RecheckRow(h)
  BY <1>2, <1>21 DEF RecheckRow
<1>22. CASE insertChunk(h)
  BY <1>1, <1>2, <1>22 DEF insertChunk
<1>23. CASE updateChunkStatus(h)
  BY <1>2, <1>23 DEF updateChunkStatus
<1>24. CASE getTotalChunkCount(h)
  <2>1. PICK total \in Totals :
          IF total = 0
          THEN Return(h, "Stored")
          ELSE Goto(h, "count") /\ Set(h, [call[h] EXCEPT !.declared = total])
    BY <1>24 DEF getTotalChunkCount
  <2>2. [call[h] EXCEPT !.declared = total] \in Call
    BY <1>0, CallUpdates
  <2> QED BY <1>1, <1>4, <1>6, <2>1, <2>2
<1>25. CASE CountChunks(h)
  BY <1>1, <1>2, <1>25 DEF CountChunks
<1>26. CASE EnqueueFinalization(h)
  BY <1>1, <1>2, <1>26 DEF EnqueueFinalization
<1>27. CASE ForgetVersion(h)
  BY <1>1, <1>27 DEF ForgetVersion
<1>28. CASE HandlerFails(h)
  BY <1>1, <1>28 DEF HandlerFails
<1>29. CASE WriteFails(h)
  BY <1>1, <1>29 DEF WriteFails
<1> QED BY <1>7, <1>8, <1>9, <1>10, <1>11, <1>12, <1>13, <1>14, <1>15, <1>16,
           <1>17, <1>18, <1>19, <1>20, <1>21, <1>22, <1>23, <1>24, <1>25, <1>26,
           <1>27, <1>28, <1>29 DEF CallStep, HandlerStep

\* The steps of a call that touch a table or a file; no other does.
LEMMA ReadOnlySteps ==
  ASSUME NEW h \in Handlers, CallStep(h)
  PROVE  /\ UNCHANGED worker
         /\ \/ UNCHANGED <<durable, removed>>
            \/ DeletePrevious(h) \/ RemovePrevious(h)
            \/ prepareOutputFileForChunk(h) \/ WriteChunk(h) \/ WriteFails(h)
            \/ insertChunk(h) \/ updateChunkStatus(h)
  BY DEF CallStep, HandlerStep, HandlerFails, WriteFails, isFileReconstructed,
         getReconstructedTransferId, getChunkRowCount, CheckActiveTransfer,
         CheckOnDisk, CheckStatus, CheckSuccessful, getChunkStatus,
         AcquireFileMutex, DeletePrevious, EraseStatus, RemovePrevious,
         prepareOutputFileForChunk, WriteChunk, RecheckRow, insertChunk,
         updateChunkStatus, getTotalChunkCount, CountChunks, EnqueueFinalization,
         ForgetVersion, Fault, env, durable

-----------------------------------------------------------------------------
(* Files the server did not create.                                        *)

\* Where a call may still be when its file is a foreign one.
Early == Idle \cup {"isReconstructed", "rowCount", "onDisk"}

\* A foreign file has no metadata, no call that got past the test of the disk
\* or means to replace an output is about it, and no finalisation is about to
\* give it a record.
ForeignInv ==
  /\ \A f \in Files : disk[f] = ForeignFile
       => f = 0 /\ rows[f] = {} /\ rec[f] = NoTid
  /\ \A h \in Handlers : disk[Name(h)] = ForeignFile
       => pc[h] \in Early /\ ~call[h].replace
  /\ \A w \in Workers : wpc[w] = "commit" => disk[wname[w]] # ForeignFile

Untouched == \A f \in Files : disk[f] = ForeignFile => disk'[f] = disk[f]

LEMMA ForeignInit == Init => ForeignInv
<1> SUFFICES ASSUME Init PROVE ForeignInv
  OBVIOUS
<1>1. ForeignFile \in Content
  BY DEF ForeignFile, Content
<1>2. \A f \in Files : disk[f] = ForeignFile
        => f = 0 /\ rows[f] = {} /\ rec[f] = NoTid
  BY <1>1, NoFileAssumption DEF Init
<1>3. \A h \in Handlers : pc[h] \in Early /\ ~call[h].replace
  BY DEF Init, Early, Idle, NoCall, NewCall
<1>4. \A w \in Workers : wpc[w] # "commit"
  BY DEF Init
<1> QED BY <1>2, <1>3, <1>4 DEF ForeignInv

LEMMA ForeignCall ==
  ASSUME TypeInv, ForeignInv, NEW h \in Handlers, Moves(h), UNCHANGED worker,
         \A f \in Files : disk'[f] = ForeignFile => disk[f] = ForeignFile,
         \A f \in Files : disk[f] = ForeignFile
            => rows'[f] = {} /\ rec'[f] = NoTid /\ disk'[f] = disk[f],
         disk[Name(h)'] = ForeignFile => pc'[h] \in Early /\ ~call'[h].replace
  PROVE  ForeignInv' /\ Untouched
<1>1. \A f \in Files : disk'[f] = ForeignFile
        => f = 0 /\ rows'[f] = {} /\ rec'[f] = NoTid
  BY DEF ForeignInv
<1>2. ASSUME NEW g \in Handlers, disk'[Name(g)'] = ForeignFile
      PROVE  pc'[g] \in Early /\ ~call'[g].replace
  <2>1. Name(g)' \in Files
    BY DEF Moves, Name, Call
  <2>2. disk[Name(g)'] = ForeignFile
    BY <1>2, <2>1
  <2>3. CASE g = h
    BY <2>2, <2>3
  <2>4. CASE g # h
    BY <2>2, <2>4 DEF Moves, Name, ForeignInv
  <2> QED BY <2>3, <2>4
<1>3. \A w \in Workers : wpc'[w] = "commit" => disk'[wname'[w]] # ForeignFile
  BY DEF ForeignInv, worker, TypeInv, TypeOK
<1>4. Untouched
  BY DEF Untouched
<1>5. ForeignFile' = ForeignFile
  BY DEF ForeignFile
<1> QED BY <1>1, <1>2, <1>3, <1>4, <1>5 DEF ForeignInv

LEMMA ForeignCallStep ==
  ASSUME TypeInv, ForeignInv, NEW h \in Handlers, CallStep(h)
  PROVE  ForeignInv' /\ Untouched
<1> USE DEF At
<1>0. TypeOK /\ call[h] \in Call /\ Name(h) \in Files /\ Pkt(h) \in Packets
  BY DEF TypeInv, TypeOK, Call, Name, Pkt
<1>1. Moves(h) /\ UNCHANGED worker
  BY <1>0, CallOutcome, ReadOnlySteps
<1>2. ForeignFile \in Content /\ NoFile # ForeignFile
  BY NoFileAssumption DEF ForeignFile, Content
<1>3. CASE UNCHANGED <<durable, removed>>
  <2>1. ASSUME disk[Name(h)'] = ForeignFile
        PROVE  pc'[h] \in Early /\ ~call'[h].replace
    <3>1. CASE Returned(h)
      BY <3>1 DEF Returned, Early, Idle, NoCall, NewCall
    <3>2. CASE Switched(h)
      BY <1>0, <1>1, <2>1, <3>2, EnvironmentAssumption
      DEF Switched, ForeignInv, TypeOK, Files, Moves, Call, Name
    <3>3. CASE Stays(h)
      <4>1. disk[Name(h)] = ForeignFile /\ pc[h] \in Early /\ ~call[h].replace
        BY <2>1, <3>3 DEF Stays, ForeignInv
      <4>2. rows[Name(h)] = {} /\ rec[Name(h)] = NoTid
        BY <1>0, <4>1 DEF ForeignInv
      <4>3. ~call'[h].replace
        BY <3>3, <4>1 DEF Stays, Early, Idle, Results
      <4>4. \/ isFileReconstructed(h) \/ getChunkRowCount(h) \/ CheckOnDisk(h)
            \/ HandlerFails(h)
        BY <4>1
        DEF CallStep, HandlerStep, Early, Idle, Results, WriteFails,
            getReconstructedTransferId, CheckActiveTransfer,
            CheckStatus, CheckSuccessful, getChunkStatus, AcquireFileMutex,
            DeletePrevious, EraseStatus, RemovePrevious,
            prepareOutputFileForChunk, WriteChunk, RecheckRow, insertChunk,
            updateChunkStatus, getTotalChunkCount, CountChunks,
            EnqueueFinalization, ForgetVersion
      <4>5. CASE isFileReconstructed(h)
        BY <1>0, <4>2, <4>3, <4>5
        DEF isFileReconstructed, Continue, Goto, TypeOK, Early
      <4>6. CASE getChunkRowCount(h)
        BY <1>0, <4>1, <4>2, <4>3, <4>6
        DEF getChunkRowCount, Continue, Goto, TypeOK, Early
      <4>7. CASE CheckOnDisk(h)
        <5>1. CASE Return(h, "AlreadyCompleted")
          BY <1>0, <4>3, <5>1, Points, ReturnLemma DEF Early, Idle
        <5>2. CASE SwitchToVersioned(h, "status")
          BY <1>0, <2>1, <3>3, <5>2, Points, SwitchLemma, EnvironmentAssumption,
             <4>1 DEF ForeignInv, TypeOK, Files, Stays
        <5> QED BY <1>2, <4>1, <4>7, <5>1, <5>2 DEF CheckOnDisk
      <4>8. CASE HandlerFails(h)
        BY <1>0, <4>3, <4>8, Points, ReturnLemma DEF HandlerFails, Early, Idle
      <4> QED BY <4>4, <4>5, <4>6, <4>7, <4>8
    <3> QED BY <1>0, <3>1, <3>2, <3>3, CallOutcome
  <2> QED BY <1>1, <1>3, <2>1, ForeignCall DEF durable, ForeignInv
<1>4. CASE ~UNCHANGED <<durable, removed>>
  <2>1. \/ DeletePrevious(h) \/ RemovePrevious(h) \/ prepareOutputFileForChunk(h)
        \/ WriteChunk(h) \/ WriteFails(h) \/ insertChunk(h)
        \/ updateChunkStatus(h)
    BY <1>4, ReadOnlySteps
  <2>2. /\ pc[h] \in {"replace", "remove", "prepare", "write", "insert", "update"}
        /\ disk[Name(h)] # ForeignFile
    BY <2>1
    DEF DeletePrevious, RemovePrevious, prepareOutputFileForChunk, WriteChunk,
        WriteFails, insertChunk, updateChunkStatus, ForeignInv, Early, Idle,
        Results
  <2>3. disk[Name(h)'] = ForeignFile => pc'[h] \in Early /\ ~call'[h].replace
    <3>1. CASE Returned(h)
      BY <3>1 DEF Returned, Early, Idle, NoCall, NewCall
    <3>2. CASE Stays(h)
      BY <2>2, <3>2 DEF Stays
    <3>3. ~Switched(h)
      BY <2>2 DEF Switched
    <3> QED BY <1>0, <3>1, <3>2, <3>3, CallOutcome
  <2>4. ASSUME NEW w \in SUBSET Slots, disk' = Written(h, w), pc[h] = "write"
        PROVE  disk'[Name(h)] # ForeignFile
    <3>1. /\ \A s \in w : disk'[Name(h)][s] = Pkt(h).tid
          /\ \A s \in Slots \ w : disk'[Name(h)][s] = disk[Name(h)][s]
          /\ \A f \in Files \ {Name(h)} : disk'[f] = disk[f]
      BY <2>4, WrittenType
    <3>2. CASE w = {}
      <4>1. disk[Name(h)] \in Content
        BY <1>0, <2>4 DEF TypeInv, TypeOK, MutexInv
      <4> QED BY <2>2, <3>1, <3>2, <4>1 DEF ForeignFile, Content
    <3>3. CASE w # {}
      <4>1. Pkt(h).tid # Foreign
        BY <1>0, PacketsAssumption DEF TransferIds
      <4> QED BY <3>1, <3>3, <4>1 DEF ForeignFile
    <3> QED BY <3>2, <3>3
  <2>5. /\ \A f \in Files \ {Name(h)} :
             rows'[f] = rows[f] /\ rec'[f] = rec[f] /\ disk'[f] = disk[f]
        /\ disk'[Name(h)] # ForeignFile
    <3>1. CASE DeletePrevious(h)
      BY <1>0, <2>2, <3>1 DEF DeletePrevious, TypeOK
    <3>2. CASE RemovePrevious(h)
      BY <1>0, <1>2, <3>2 DEF RemovePrevious, TypeOK
    <3>3. CASE prepareOutputFileForChunk(h)
      <4>1. [s \in Slots |-> NoTid] # ForeignFile
        BY PacketsAssumption DEF ForeignFile
      <4> QED BY <1>0, <2>2, <3>3, <4>1 DEF prepareOutputFileForChunk, TypeOK
    <3>4. CASE WriteChunk(h)
      <4>1. /\ Pkt(h).slots \in SUBSET Slots /\ disk' = Written(h, Pkt(h).slots)
            /\ pc[h] = "write" /\ UNCHANGED <<rows, rec>>
        BY <1>0, <3>4, PacketsAssumption DEF WriteChunk
      <4> QED BY <2>4, <4>1, WrittenType
    <3>5. CASE WriteFails(h)
      <4>1. PICK w \in SUBSET Pkt(h).slots : disk' = Written(h, w)
        BY <3>5 DEF WriteFails
      <4>2. w \in SUBSET Slots /\ pc[h] = "write" /\ UNCHANGED <<rows, rec>>
        BY <1>0, <3>5, PacketsAssumption DEF WriteFails
      <4> QED BY <2>4, <4>1, <4>2, WrittenType
    <3>6. CASE insertChunk(h)
      BY <1>0, <2>2, <3>6 DEF insertChunk, TypeOK
    <3>7. CASE updateChunkStatus(h)
      BY <1>0, <2>2, <3>7 DEF updateChunkStatus, TypeOK
    <3> QED BY <2>1, <3>1, <3>2, <3>3, <3>4, <3>5, <3>6, <3>7
  <2> QED BY <1>0, <1>1, <2>2, <2>3, <2>5, ForeignCall DEF ForeignInv
<1> QED BY <1>3, <1>4

LEMMA ForeignStep ==
  TypeInv /\ ForeignInv /\ [Next]_vars => ForeignInv' /\ Untouched
<1> SUFFICES ASSUME TypeInv, ForeignInv, [Next]_vars PROVE ForeignInv' /\ Untouched
  OBVIOUS
<1>0. TypeOK /\ ForeignFile' = ForeignFile
  BY DEF TypeInv, ForeignFile
<1>1. ASSUME NEW h \in Handlers, NEW p \in Packets, ReceivePacket(h, p)
      PROVE  ForeignInv' /\ Untouched
  <2>1. NewCall(p, 0) \in Call /\ NewCall(p, versioned) \in Call
    BY <1>0, EnvironmentAssumption DEF NewCall, Call, Totals, TypeOK, Files
  <2>2. /\ Moves(h) /\ pc'[h] = "isReconstructed"
        /\ call'[h] \in {NewCall(p, 0), NewCall(p, versioned)}
    BY <1>0, <1>1, <2>1, SetLemma, Points DEF ReceivePacket
  <2>3. pc'[h] \in Early /\ ~call'[h].replace
    BY <2>2 DEF Early, NewCall
  <2> QED BY <1>1, <2>2, <2>3, ForeignCall DEF ReceivePacket, durable, ForeignInv
<1>2. ASSUME NEW h \in Handlers, CallStep(h)
      PROVE  ForeignInv' /\ Untouched
  BY <1>2, ForeignCallStep
<1>3. ASSUME NEW w \in Workers, WorkerStep(w) \/ FinalizationFails(w)
      PROVE  ForeignInv' /\ Untouched
  <2>1. UNCHANGED <<disk, pc, call>>
    BY <1>3 DEF WorkerStep, FinalizationFails, StartFinalization, ReadChunks,
                CommitFinalization, ClearStatus, durable
  <2>2. \A h \in Handlers : disk'[Name(h)'] = ForeignFile
          => pc'[h] \in Early /\ ~call'[h].replace
    BY <2>1 DEF ForeignInv, Name
  <2>3. CASE CommitFinalization(w)
    BY <1>0, <2>1, <2>2, <2>3
    DEF CommitFinalization, ForeignInv, WGoto, TypeOK, Untouched
  <2>4. CASE ReadChunks(w)
    <3>1. wpc'[w] = "commit" => rows[wname[w]] # {} /\ wname'[w] = wname[w]
      BY <1>0, <2>4 DEF ReadChunks, WGoto, WDone, TypeOK, getChunksForFile
    <3>2. /\ UNCHANGED <<rows, rec>>
          /\ \A v \in Workers \ {w} : wpc'[v] = wpc[v] /\ wname'[v] = wname[v]
      BY <1>0, <2>4 DEF ReadChunks, WGoto, WDone, TypeOK, durable
    <3>3. \A v \in Workers : wpc'[v] = "commit" => disk'[wname'[v]] # ForeignFile
      BY <1>0, <2>1, <3>1, <3>2 DEF ForeignInv, TypeOK
    <3> QED BY <1>0, <2>1, <2>2, <3>2, <3>3 DEF ForeignInv, Untouched
  <2>5. CASE ~CommitFinalization(w) /\ ~ReadChunks(w)
    <3>1. /\ UNCHANGED <<rows, rec>>
          /\ \A v \in Workers : wpc'[v] = "commit"
               => wpc[v] = "commit" /\ wname'[v] = wname[v]
      BY <1>0, <1>3, <2>5
      DEF WorkerStep, FinalizationFails, StartFinalization, ClearStatus, WGoto,
          WDone, TypeOK, durable
    <3> QED BY <1>0, <2>1, <2>2, <3>1 DEF ForeignInv, Untouched
  <2> QED BY <2>3, <2>4, <2>5
<1>4. CASE Restart
  <2>1. \A h \in Handlers : pc'[h] \in Early /\ ~call'[h].replace
    BY <1>4 DEF Restart, Early, Idle, NoCall, NewCall
  <2>2. \A w \in Workers : wpc'[w] # "commit"
    BY <1>4 DEF Restart
  <2> QED BY <1>0, <1>4, <2>1, <2>2 DEF Restart, durable, ForeignInv, Untouched
<1>5. CASE UNCHANGED vars
  BY <1>0, <1>5 DEF vars, durable, worker, ForeignInv, Untouched, Name
<1> QED BY <1>1, <1>2, <1>3, <1>4, <1>5 DEF Next, CallStep

\* A file that was on disk without any metadata of the server's is never
\* changed, whatever packets arrive under whatever policy, in any interleaving
\* and over any number of faults and restarts.
THEOREM ForeignFilesKept == Spec => ForeignKept
<1>1. TypeInv /\ ForeignInv /\ [Next]_vars
        => [\A f \in Files : disk[f] = ForeignFile => disk'[f] = disk[f]]_vars
  BY ForeignStep DEF Untouched
<1> QED BY <1>1, TypeInit, TypeStep, ForeignInit, ForeignStep, PTL
        DEF Spec, ForeignKept

-----------------------------------------------------------------------------
(* Files the server publishes.                                             *)

\* All packets belong to one transfer, split once: the same chunk number always
\* means the same bytes, and the chunk count, when given, is above them all.
SingleSplit ==
  \A p, q \in Packets : /\ p.tid = q.tid
                        /\ p.num = q.num => p.slots = q.slots
                        /\ p.total # 0 => q.num < p.total

\* File f holds the bytes of chunk n, or of every chunk.
ChunkHeld(f, n) == \A p \in Packets : p.num = n => Holds(f, p.tid, p.slots)
AllHeld(f)      == \A p \in Packets : Holds(f, p.tid, p.slots)

\* As long as no handler has removed file f, the bytes are there of every chunk
\* recorded as stored (RowsHeld) or past its write (WritesHeld); the whole file
\* is there when the accounting has found it complete (CountHeld), a
\* finalisation has read its rows (CommitHeld) or it has its record (RecordHeld).
RowsHeld   == \A f \in Files \ removed : \A r \in rows[f] :
                r.success => ChunkHeld(f, r.num)
WritesHeld == \A h \in Handlers :
                pc[h] \in {"recheck", "insert", "update"} /\ Name(h) \notin removed
                => ChunkHeld(Name(h), Pkt(h).num)
CountHeld  == \A h \in Handlers :
                pc[h] \in {"enqueue", "unversion"} /\ Name(h) \notin removed
                => AllHeld(Name(h))
CommitHeld == \A w \in Workers :
                wpc[w] = "commit" /\ wname[w] \notin removed => AllHeld(wname[w])
RecordHeld == \A f \in Files \ removed : rec[f] # NoTid => AllHeld(f)

\* One row per chunk number, and the count asked for is a declared one: the
\* count of rows is then a count of chunks.
OneRowEach == \A f \in Files : \A r, q \in rows[f] : r.num = q.num => r = q
CountAsked == \A h \in Handlers : pc[h] = "count" => call[h].declared # 0

WholeInv == /\ RowsHeld /\ WritesHeld /\ CountHeld /\ CommitHeld /\ RecordHeld
            /\ OneRowEach /\ CountAsked

LEMMA WholeInit == Init => WholeInv
  BY DEF Init, WholeInv, RowsHeld, WritesHeld, CountHeld, CommitHeld, RecordHeld,
         OneRowEach, CountAsked

\* Bytes that are in a file stay in it, unless the file is removed.
LEMMA HoldsStable ==
  ASSUME TypeInv, SingleSplit, [Next]_vars, NEW f \in Files, f \notin removed',
         NEW p \in Packets, Holds(f, p.tid, p.slots)
  PROVE  Holds(f, p.tid, p.slots)'
<1> USE DEF At
<1>0. TypeOK /\ p.slots \in SUBSET Slots
  BY PacketsAssumption DEF TypeInv
<1>1. CASE disk' = disk
  BY <1>1 DEF Holds
<1>2. ASSUME NEW h \in Handlers, RemovePrevious(h)
      PROVE  Holds(f, p.tid, p.slots)'
  BY <1>0, <1>2 DEF RemovePrevious, Holds, TypeOK
<1>3. ASSUME NEW h \in Handlers, prepareOutputFileForChunk(h)
      PROVE  Holds(f, p.tid, p.slots)'
  BY <1>0, <1>3 DEF prepareOutputFileForChunk, Holds, TypeOK
<1>4. ASSUME NEW h \in Handlers, pc[h] = "write",
             NEW w \in SUBSET Slots, disk' = Written(h, w)
      PROVE  Holds(f, p.tid, p.slots)'
  <2>1. /\ Name(h) \in Files /\ disk'[Name(h)] # NoFile
        /\ \A s \in w : disk'[Name(h)][s] = Pkt(h).tid
        /\ \A s \in Slots \ w : disk'[Name(h)][s] = disk[Name(h)][s]
        /\ \A g \in Files \ {Name(h)} : disk'[g] = disk[g]
    BY <1>4, WrittenType
  <2>2. Pkt(h).tid = p.tid
    BY <1>0 DEF SingleSplit, TypeOK, Call, Pkt
  <2> QED BY <1>0, <2>1, <2>2 DEF Holds
<1>5. \/ disk' = disk
      \/ \E h \in Handlers : \/ RemovePrevious(h) \/ prepareOutputFileForChunk(h)
                             \/ WriteChunk(h) \/ WriteFails(h)
  <2>1. ASSUME NEW h \in Handlers, CallStep(h)
        PROVE  \/ disk' = disk
               \/ RemovePrevious(h) \/ prepareOutputFileForChunk(h)
               \/ WriteChunk(h) \/ WriteFails(h)
    BY <2>1, ReadOnlySteps
    DEF durable, DeletePrevious, insertChunk, updateChunkStatus
  <2>2. \A w \in Workers : WorkerStep(w) \/ FinalizationFails(w) => disk' = disk
    BY DEF WorkerStep, FinalizationFails, StartFinalization, ReadChunks,
           CommitFinalization, ClearStatus, durable
  <2>3. Restart \/ UNCHANGED vars => disk' = disk
    BY DEF Restart, vars, durable
  <2>4. \A h \in Handlers, q \in Packets : ReceivePacket(h, q) => disk' = disk
    BY DEF ReceivePacket, durable
  <2> QED BY <2>1, <2>2, <2>3, <2>4 DEF Next, CallStep
<1>6. ASSUME NEW h \in Handlers, WriteChunk(h) \/ WriteFails(h)
      PROVE  Holds(f, p.tid, p.slots)'
  <2>1. Pkt(h).slots \in SUBSET Slots
    BY <1>0, PacketsAssumption DEF TypeOK, Call, Pkt
  <2>2. PICK w \in SUBSET Pkt(h).slots : disk' = Written(h, w) /\ pc[h] = "write"
    BY <1>6 DEF WriteChunk, WriteFails
  <2> QED BY <1>4, <2>1, <2>2
<1> QED BY <1>1, <1>2, <1>3, <1>5, <1>6

\* The step that leads a call to each point of its accounting.
LEMMA Arrivals ==
  ASSUME TypeOK, NEW h \in Handlers, CallStep(h)
  PROVE  /\ pc'[h] \in {"recheck", "insert", "update"}
              => WriteChunk(h) \/ RecheckRow(h) \/ insertChunk(h)
         /\ pc'[h] = "count" => getTotalChunkCount(h)
         /\ pc'[h] = "enqueue" => CountChunks(h)
         /\ pc'[h] = "unversion" => EnqueueFinalization(h)
<1> DEFINE Elsewhere == pc'[h] \notin {"recheck", "insert", "update", "count",
                                       "enqueue", "unversion"}
<1>0. pc \in [Handlers -> PCs]
  BY DEF TypeOK
<1> USE <1>0 DEF Return, Continue, Goto, SwitchToVersioned
<1>1. isFileReconstructed(h) => Elsewhere
  BY DEF isFileReconstructed
<1>2. getReconstructedTransferId(h) => Elsewhere
  BY DEF getReconstructedTransferId
<1>3. getChunkRowCount(h) => Elsewhere
  BY DEF getChunkRowCount
<1>4. CheckActiveTransfer(h) => Elsewhere
  BY DEF CheckActiveTransfer
<1>5. CheckOnDisk(h) => Elsewhere
  BY DEF CheckOnDisk
<1>6. CheckStatus(h) \/ CheckSuccessful(h) \/ getChunkStatus(h) => Elsewhere
  BY DEF CheckStatus, CheckSuccessful, getChunkStatus
<1>7. AcquireFileMutex(h) \/ DeletePrevious(h) \/ EraseStatus(h) => Elsewhere
  BY DEF AcquireFileMutex, DeletePrevious, EraseStatus
<1>8. RemovePrevious(h) \/ prepareOutputFileForChunk(h) => Elsewhere
  BY DEF RemovePrevious, prepareOutputFileForChunk
<1>9. updateChunkStatus(h) \/ ForgetVersion(h) => Elsewhere
  BY DEF updateChunkStatus, ForgetVersion
<1>10. HandlerFails(h) \/ WriteFails(h) => Elsewhere
  BY DEF HandlerFails, WriteFails
<1>11. WriteChunk(h) \/ RecheckRow(h) \/ insertChunk(h)
         => pc'[h] \notin {"count", "enqueue", "unversion"}
  BY DEF WriteChunk, RecheckRow, insertChunk
<1>12. getTotalChunkCount(h) => pc'[h] \in {"count", "Stored"}
  BY DEF getTotalChunkCount
<1>13. CountChunks(h) => pc'[h] \in {"enqueue", "Stored"}
  BY DEF CountChunks
<1>14. EnqueueFinalization(h) => pc'[h] \in {"unversion", "JustCompleted"}
  BY DEF EnqueueFinalization
<1> QED BY <1>1, <1>2, <1>3, <1>4, <1>5, <1>6, <1>7, <1>8, <1>9, <1>10, <1>11,
           <1>12, <1>13, <1>14 DEF CallStep, HandlerStep

LEMMA HeldStable ==
  ASSUME TypeInv, SingleSplit, [Next]_vars, NEW f \in Files, f \notin removed'
  PROVE  /\ \A n : ChunkHeld(f, n) => ChunkHeld(f, n)'
         /\ AllHeld(f) => AllHeld(f)'
  BY HoldsStable DEF ChunkHeld, AllHeld

\* As many stored rows as a declared count means every chunk is stored.
LEMMA AllCounted ==
  ASSUME TypeOK, SingleSplit, RowsHeld, OneRowEach,
         NEW f \in Files \ removed, NEW n \in Totals \ {0},
         ~(Cardinality(getChunksForFile(f)) < n)
  PROVE  AllHeld(f)
<1> DEFINE S == getChunksForFile(f)
           T == 0 .. n - 1
           F == [r \in S |-> r.num]
<1>1. /\ n \in Nat \ {0}
      /\ \A q \in Packets : q.num \in T
  BY PacketsAssumption DEF Totals, SingleSplit
<1>2. S \subseteq rows[f] /\ S \subseteq Row
  BY DEF getChunksForFile, TypeOK
<1>3. F \in [S -> T]
  BY <1>1, <1>2 DEF Row, ChunkNums
<1>4. \A a, b \in S : F[a] = F[b] => a = b
  BY <1>2 DEF OneRowEach
<1>5. F \in Injection(S, T)
  BY <1>3, <1>4, Fun_IsInj
<1>6. IsFiniteSet(T) /\ Cardinality(T) = n
  BY <1>1, FS_Interval
<1>7. /\ IsFiniteSet(S) /\ Cardinality(S) <= n
      /\ Cardinality(S) = n => F \in Surjection(S, T)
  BY <1>5, <1>6, FS_Injection
<1>8. Cardinality(S) \in Nat
  BY <1>7, FS_CardinalityType
<1>9. F \in Surjection(S, T)
  BY <1>1, <1>7, <1>8
<1>a. \A t \in T : \E r \in S : r.num = t
  <2>1. \A t \in T : \E r \in S : F[r] = t
    <3> HIDE DEF F
    <3> QED BY <1>9 DEF Surjection
  <2> QED BY <2>1
<1>10. ASSUME NEW q \in Packets
       PROVE  Holds(f, q.tid, q.slots)
  <2>1. PICK r \in S : r.num = q.num
    BY <1>1, <1>a
  <2>2. r \in rows[f] /\ r.success /\ r.num = q.num
    BY <2>1 DEF getChunksForFile
  <2> QED BY <2>2 DEF RowsHeld, ChunkHeld
<1> QED BY <1>10 DEF AllHeld

\* Contiguous rows up to a declared count mean the same.
LEMMA AllContiguous ==
  ASSUME TypeOK, SingleSplit, RowsHeld, NEW f \in Files \ removed,
         Contiguous(getChunksForFile(f))
  PROVE  AllHeld(f)
<1>1. PICK n \in Totals \ {0} :
        {r.num : r \in getChunksForFile(f)} = 0 .. n - 1
  BY DEF Contiguous
<1>2. n \in Nat \ {0} /\ \A q \in Packets : q.num \in 0 .. n - 1
  BY PacketsAssumption DEF Totals, SingleSplit
<1>3. ASSUME NEW q \in Packets
      PROVE  Holds(f, q.tid, q.slots)
  <2>1. PICK r \in getChunksForFile(f) : r.num = q.num
    BY <1>1, <1>2
  <2>2. r \in rows[f] /\ r.success
    BY DEF getChunksForFile
  <2> QED BY <2>1, <2>2 DEF RowsHeld, ChunkHeld
<1> QED BY <1>3 DEF AllHeld

\* What a call does to the rows: one row per number still, and a row that
\* becomes a success is that of a chunk past its write.
LEMMA RowsAfterCall ==
  ASSUME TypeOK, OneRowEach, NEW h \in Handlers, CallStep(h)
  PROVE  /\ OneRowEach'
         /\ \A f \in Files : \A r \in rows'[f] : r.success
              => \/ \E q \in rows[f] : q.num = r.num /\ q.success
                 \/ pc[h] = "update" /\ f = Name(h) /\ r.num = Pkt(h).num
<1>0. rows \in [Files -> SUBSET Row] /\ Name(h) \in Files
  BY DEF TypeOK, Call, Name
<1>1. CASE UNCHANGED rows
  BY <1>1 DEF OneRowEach
<1>2. CASE DeletePrevious(h)
  BY <1>0, <1>2 DEF DeletePrevious, OneRowEach
<1>3. CASE insertChunk(h) /\ ~HasRow(Name(h), Pkt(h).num)
  <2> DEFINE new == [num |-> Pkt(h).num, tid |-> Pkt(h).tid,
                     total |-> Pkt(h).total, success |-> FALSE,
                     oldest |-> rows[Name(h)] = {}]
  <2>1. rows' = [rows EXCEPT ![Name(h)] = rows[Name(h)] \cup {new}]
    BY <1>3 DEF insertChunk
  <2>2. /\ \A r \in rows[Name(h)] : r.num # new.num
        /\ new.success = FALSE
    BY <1>3 DEF HasRow
  <2> HIDE DEF new
  <2> QED BY <1>0, <2>1, <2>2 DEF OneRowEach
<1>4. CASE updateChunkStatus(h)
  <2> DEFINE U(r) == IF r.num = Pkt(h).num THEN [r EXCEPT !.success = TRUE] ELSE r
  <2>1. rows' = [rows EXCEPT ![Name(h)] = {U(r) : r \in rows[Name(h)]}]
    BY <1>4 DEF updateChunkStatus
  <2>2. \A r \in Row : U(r).num = r.num /\ (r.num # Pkt(h).num => U(r) = r)
    BY DEF Row
  <2>3. pc[h] = "update"
    BY <1>4 DEF updateChunkStatus, At
  <2> HIDE DEF U
  <2>4. OneRowEach'
    BY <1>0, <2>1, <2>2 DEF OneRowEach
  <2> QED BY <1>0, <2>1, <2>2, <2>3, <2>4
<1> QED BY <1>1, <1>2, <1>3, <1>4, ReadOnlySteps
    DEF durable, RemovePrevious, prepareOutputFileForChunk, WriteChunk, WriteFails,
        insertChunk

LEMMA WholeCall ==
  ASSUME TypeInv, SingleSplit, WholeInv, NEW h \in Handlers, CallStep(h)
  PROVE  WholeInv'
<1>0. TypeOK /\ Name(h) \in Files /\ Pkt(h) \in Packets /\ [Next]_vars
  BY DEF TypeInv, TypeOK, Call, Name, Pkt, CallStep, Next
<1>1. Moves(h) /\ UNCHANGED worker /\ (Returned(h) \/ Stays(h) \/ Switched(h))
  BY <1>0, CallOutcome, ReadOnlySteps
<1>2. /\ removed \subseteq removed'
      /\ \A f \in Files : rec'[f] # NoTid => rec[f] # NoTid
  BY <1>0, ReadOnlySteps
  DEF durable, env, DeletePrevious, RemovePrevious, prepareOutputFileForChunk,
      WriteChunk, WriteFails, insertChunk, updateChunkStatus, Fault, TypeOK
<1>3. \A f \in Files : f \notin removed'
        => /\ f \notin removed
           /\ \A n : ChunkHeld(f, n) => ChunkHeld(f, n)'
           /\ AllHeld(f) => AllHeld(f)'
  BY <1>0, <1>2, HeldStable
<1>4. RowsHeld'
  <2> SUFFICES ASSUME NEW f \in Files, f \notin removed', NEW r \in rows'[f],
                      r.success
               PROVE  ChunkHeld(f, r.num)'
    BY DEF RowsHeld
  <2>1. CASE \E q \in rows[f] : q.num = r.num /\ q.success
    BY <1>3, <2>1 DEF WholeInv, RowsHeld
  <2>2. CASE pc[h] = "update" /\ f = Name(h) /\ r.num = Pkt(h).num
    BY <1>3, <2>2 DEF WholeInv, WritesHeld
  <2> QED BY <1>0, <2>1, <2>2, RowsAfterCall DEF WholeInv
<1>5. OneRowEach'
  BY <1>0, RowsAfterCall DEF WholeInv
<1>6. CommitHeld'
  <2> SUFFICES ASSUME NEW w \in Workers, wpc'[w] = "commit", wname'[w] \notin removed'
               PROVE  AllHeld(wname[w])'
    BY DEF CommitHeld
  <2>1. wpc[w] = "commit" /\ wname[w] \in Files /\ wname' = wname
    BY <1>0, <1>1 DEF worker, TypeOK
  <2> QED BY <1>3, <2>1 DEF WholeInv, CommitHeld, AllHeld, Holds
<1>7. RecordHeld'
  BY <1>2, <1>3 DEF WholeInv, RecordHeld
<1>8. WritesHeld'
  <2> SUFFICES ASSUME NEW g \in Handlers, pc'[g] \in {"recheck", "insert", "update"},
                      Name(g)' \notin removed'
               PROVE  ChunkHeld(Name(g), Pkt(g).num)'
    BY DEF WritesHeld
  <2>1. CASE g # h
    <3>1. pc'[g] = pc[g] /\ Name(g)' = Name(g) /\ Pkt(g)' = Pkt(g) /\ Name(g) \in Files
      BY <1>0, <1>1, <2>1 DEF Moves, Name, Pkt, TypeOK, Call
    <3>2. ChunkHeld(Name(g), Pkt(g).num)
      BY <1>3, <3>1 DEF WholeInv, WritesHeld
    <3> QED BY <1>3, <3>1, <3>2 DEF ChunkHeld, Holds
  <2>2. CASE g = h
    <3>1. Name(h)' = Name(h) /\ Pkt(h)' = Pkt(h)
      BY <1>1, <2>2 DEF Returned, Results, Stays, Switched
    <3>2. CASE WriteChunk(h)
      <4>1. /\ Pkt(h).slots \in SUBSET Slots /\ disk' = Written(h, Pkt(h).slots)
            /\ pc[h] = "write"
        BY <1>0, <3>2, PacketsAssumption DEF WriteChunk, At
      <4>2. /\ disk'[Name(h)] # NoFile
            /\ \A s \in Pkt(h).slots : disk'[Name(h)][s] = Pkt(h).tid
        BY <4>1, WrittenType
      <4>3. \A p \in Packets : p.num = Pkt(h).num
              => p.tid = Pkt(h).tid /\ p.slots = Pkt(h).slots
        BY <1>0 DEF SingleSplit
      <4> QED BY <2>2, <3>1, <4>2, <4>3 DEF ChunkHeld, Holds
    <3>3. CASE RecheckRow(h) \/ insertChunk(h)
      <4>1. pc[h] \in {"recheck", "insert"}
        BY <3>3 DEF RecheckRow, insertChunk, At
      <4>2. ChunkHeld(Name(h), Pkt(h).num)
        BY <1>0, <1>3, <2>2, <3>1, <4>1 DEF WholeInv, WritesHeld
      <4> QED BY <1>0, <1>3, <2>2, <3>1, <4>2 DEF ChunkHeld, Holds
    <3> QED BY <1>0, <2>2, <3>2, <3>3, Arrivals
  <2> QED BY <2>1, <2>2
<1>9. CountHeld'
  <2> SUFFICES ASSUME NEW g \in Handlers, pc'[g] \in {"enqueue", "unversion"},
                      Name(g)' \notin removed'
               PROVE  AllHeld(Name(g))'
    BY DEF CountHeld
  <2>1. Name(g)' = Name(g) /\ Name(g) \in Files
    BY <1>0, <1>1 DEF Moves, Name, TypeOK, Call, Returned, Results, Stays, Switched
  <2>2. AllHeld(Name(g))
    <3>1. CASE g # h
      BY <1>1, <1>3, <2>1, <3>1 DEF Moves, WholeInv, CountHeld
    <3>2. CASE g = h /\ CountChunks(h)
      <4>1. pc[h] = "count" /\ call[h].declared \in Totals \ {0}
        BY <1>0, <3>2 DEF CountChunks, At, WholeInv, CountAsked, TypeOK, Call
      <4>2. ~(Cardinality(getChunksForFile(Name(h))) < call[h].declared)
        BY <1>0, <3>2, Points, ReturnLemma DEF CountChunks, Return
      <4> QED BY <1>0, <1>3, <2>1, <3>2, <4>1, <4>2, AllCounted DEF WholeInv
    <3>3. CASE g = h /\ EnqueueFinalization(h)
      BY <1>3, <2>1, <3>3 DEF EnqueueFinalization, At, WholeInv, CountHeld
    <3> QED BY <1>0, <3>1, <3>2, <3>3, Arrivals
  <2> QED BY <1>3, <2>1, <2>2 DEF AllHeld, Holds
<1>10. CountAsked'
  <2>1. ASSUME getTotalChunkCount(h), pc'[h] = "count"
        PROVE  call'[h].declared # 0
    <3>1. PICK total \in Totals :
            IF total = 0
            THEN Return(h, "Stored")
            ELSE Goto(h, "count") /\ Set(h, [call[h] EXCEPT !.declared = total])
      BY <2>1 DEF getTotalChunkCount
    <3>2. total # 0
      BY <1>0, <2>1, <3>1, Points, ReturnLemma
    <3> QED BY <1>0, <3>1, <3>2 DEF Set, TypeOK, Call
  <2> QED BY <1>0, <1>1, <2>1, Arrivals DEF CountAsked, WholeInv, Moves
<1> QED BY <1>4, <1>5, <1>6, <1>7, <1>8, <1>9, <1>10 DEF WholeInv

LEMMA WholeStep ==
  ASSUME SingleSplit
  PROVE  TypeInv /\ WholeInv /\ [Next]_vars => WholeInv'
<1> SUFFICES ASSUME TypeInv, WholeInv, [Next]_vars PROVE WholeInv'
  OBVIOUS
<1>0. TypeOK
  BY DEF TypeInv
<1>1. ASSUME NEW h \in Handlers, CallStep(h)
      PROVE  WholeInv'
  BY <1>1, WholeCall
<1>2. ASSUME NEW h \in Handlers, NEW p \in Packets, ReceivePacket(h, p)
      PROVE  WholeInv'
  <2>1. NewCall(p, 0) \in Call /\ NewCall(p, versioned) \in Call
    BY <1>0, EnvironmentAssumption DEF NewCall, Call, Totals, TypeOK, Files
  <2>2. Moves(h) /\ pc'[h] = "isReconstructed"
    BY <1>0, <1>2, <2>1, SetLemma, Points DEF ReceivePacket
  <2>3. UNCHANGED <<rows, rec, disk, wpc, wname, removed>>
    BY <1>2 DEF ReceivePacket, durable, worker, env
  <2>4. WritesHeld' /\ CountHeld' /\ CountAsked'
    BY <2>2, <2>3
    DEF WholeInv, WritesHeld, CountHeld, CountAsked, Moves, Name, Pkt, ChunkHeld,
        AllHeld, Holds
  <2> QED BY <2>3, <2>4
          DEF WholeInv, RowsHeld, CommitHeld, RecordHeld, OneRowEach, ChunkHeld,
              AllHeld, Holds
<1>3. ASSUME NEW w \in Workers, WorkerStep(w) \/ FinalizationFails(w)
      PROVE  WholeInv'
  <2>1. UNCHANGED <<disk, pc, call, removed>>
    BY <1>3 DEF WorkerStep, FinalizationFails, StartFinalization, ReadChunks,
                CommitFinalization, ClearStatus, durable, env, Fault
  <2>2. WritesHeld' /\ CountHeld' /\ CountAsked'
    BY <2>1 DEF WholeInv, WritesHeld, CountHeld, CountAsked, Name, Pkt, ChunkHeld,
                AllHeld, Holds
  <2>3. /\ \A f : AllHeld(f)' = AllHeld(f)
        /\ \A f, n : ChunkHeld(f, n)' = ChunkHeld(f, n)
    BY <2>1 DEF ChunkHeld, AllHeld, Holds
  <2>4. CASE CommitFinalization(w)
    <3>1. /\ wpc[w] = "commit" /\ wname[w] \in Files /\ wname' = wname
          /\ rows' = [rows EXCEPT ![wname[w]] = {}]
          /\ \A f \in Files \ {wname[w]} : rec'[f] = rec[f]
          /\ \A v \in Workers : wpc'[v] = "commit" => wpc[v] = "commit"
      BY <1>0, <2>4 DEF CommitFinalization, WGoto, TypeOK
    <3>2. RowsHeld' /\ OneRowEach'
      BY <1>0, <2>1, <2>3, <3>1 DEF WholeInv, RowsHeld, OneRowEach, TypeOK
    <3>3. CommitHeld'
      BY <2>1, <2>3, <3>1 DEF WholeInv, CommitHeld
    <3>4. RecordHeld'
      BY <2>1, <2>3, <3>1 DEF WholeInv, RecordHeld, CommitHeld
    <3> QED BY <2>2, <3>2, <3>3, <3>4 DEF WholeInv
  <2>5. CASE ~CommitFinalization(w)
    <3>1. UNCHANGED <<rows, rec>>
      BY <1>3, <2>5 DEF WorkerStep, FinalizationFails, StartFinalization,
                        ReadChunks, ClearStatus, durable
    <3>2. RowsHeld' /\ OneRowEach' /\ RecordHeld'
      BY <2>1, <2>3, <3>1 DEF WholeInv, RowsHeld, OneRowEach, RecordHeld
    <3>3. ASSUME NEW v \in Workers, wpc'[v] = "commit", wname'[v] \notin removed'
          PROVE  AllHeld(wname'[v])
      <4>1. CASE wpc[v] = "commit" /\ wname'[v] = wname[v]
        BY <2>1, <3>3, <4>1 DEF WholeInv, CommitHeld
      <4>2. CASE ReadChunks(w) /\ v = w
        <5>1. Contiguous(getChunksForFile(wname[w])) /\ wname'[w] = wname[w]
          BY <1>0, <3>3, <4>2 DEF ReadChunks, WDone, WGoto, TypeOK
        <5>2. wname[w] \in Files \ removed
          BY <1>0, <2>1, <3>3, <4>2, <5>1 DEF TypeOK
        <5> QED BY <1>0, <4>2, <5>1, <5>2, AllContiguous DEF WholeInv
      <4>3. CASE ReadChunks(w) /\ v # w
        BY <1>0, <3>3, <4>1, <4>3 DEF ReadChunks, WDone, WGoto, TypeOK
      <4>4. CASE ~ReadChunks(w)
        BY <1>0, <1>3, <2>5, <3>3, <4>1, <4>4
        DEF WorkerStep, FinalizationFails, StartFinalization, ClearStatus, WDone,
            WGoto, TypeOK
      <4> QED BY <4>2, <4>3, <4>4
    <3>4. CommitHeld'
      BY <2>3, <3>3 DEF CommitHeld
    <3> QED BY <2>2, <3>2, <3>4 DEF WholeInv
  <2> QED BY <2>4, <2>5
<1>4. CASE Restart
  BY <1>4 DEF Restart, Fault, durable, WholeInv, RowsHeld, WritesHeld, CountHeld,
              CommitHeld, RecordHeld, OneRowEach, CountAsked, ChunkHeld, AllHeld,
              Holds
<1>5. CASE UNCHANGED vars
  BY <1>5 DEF vars, durable, worker, env, WholeInv, RowsHeld, WritesHeld,
              CountHeld, CommitHeld, RecordHeld, OneRowEach, CountAsked,
              ChunkHeld, AllHeld, Holds, Name, Pkt
<1> QED BY <1>1, <1>2, <1>3, <1>4, <1>5 DEF Next, CallStep

LEMMA WholeImplies ==
  ASSUME TypeOK, SingleSplit, WholeInv
  PROVE  WholeUnlessRemoved /\ JustCompletedIsTrue
<1>1. ASSUME NEW f, NEW t \in TransferIds, AllHeld(f)
      PROVE  Holds(f, t, SlotsOf(t))
  BY <1>1 DEF AllHeld, Holds, SlotsOf, TransferIds
<1>2. WholeUnlessRemoved
  BY <1>1 DEF TypeOK, WholeInv, RecordHeld, WholeUnlessRemoved, WholeFile
<1>3. \A h \in Handlers : Pkt(h).tid \in TransferIds
  BY DEF TypeOK, Call, Pkt, TransferIds
<1>4. JustCompletedIsTrue
  BY <1>1, <1>3 DEF WholeInv, CountHeld, JustCompletedIsTrue
<1> QED BY <1>2, <1>4

\* One transfer split once, its packets repeated, reordered and interleaved
\* freely over any number of handlers, workers, faults and restarts: an output
\* recorded as reconstructed has every byte, as long as receiveChunk has not
\* itself removed that output.
THEOREM PublishedIsWhole ==
  ASSUME SingleSplit
  PROVE  Spec => []WholeUnlessRemoved
<1>1. TypeInv /\ WholeInv => WholeUnlessRemoved
  BY WholeImplies DEF TypeInv
<1>2. TypeInv /\ WholeInv /\ [Next]_vars => WholeInv'
  BY WholeStep
<1> QED BY <1>1, <1>2, TypeInit, TypeStep, WholeInit, PTL DEF Spec

\* In the same setting the accounting of receiveChunk counts chunks, not rows:
\* when it finds the transfer complete, every byte is in the file.
THEOREM CompletionIsTrue ==
  ASSUME SingleSplit
  PROVE  Spec => []JustCompletedIsTrue
<1>1. TypeInv /\ WholeInv => JustCompletedIsTrue
  BY WholeImplies DEF TypeInv
<1>2. TypeInv /\ WholeInv /\ [Next]_vars => WholeInv'
  BY WholeStep
<1> QED BY <1>1, <1>2, TypeInit, TypeStep, WholeInit, PTL DEF Spec

-----------------------------------------------------------------------------
(* Any number of transfers, one call or finalisation at a time.            *)

\* Every transfer is split once: the same chunk number of it always means the
\* same bytes, and its chunk count, when given, is above them all.
EachSplitOnce ==
  \A p, q \in Packets : p.tid = q.tid =>
    /\ p.num = q.num => p.slots = q.slots
    /\ p.total # 0 => q.num < p.total

\* A call runs alone.
Alone ==
  /\ \A h, g \in Handlers : pc[h] \notin Idle /\ pc[g] \notin Idle => h = g
  /\ \A h \in Handlers, w \in Workers : pc[h] \in Idle \/ wpc[w] = "idle"

\* The rows of file f are those of packets of one transfer, the first of them
\* still there.
RowsOfOne(f) ==
  /\ \A r, q \in rows[f] : r.tid = q.tid
  /\ rows[f] # {} => \E r \in rows[f] : r.oldest
  /\ \A r \in rows[f] : \E p \in Packets :
       p.tid = r.tid /\ p.num = r.num /\ p.total = r.total

\* What is recorded as stored is in the file.
RowsStored(f) ==
  \A r \in getChunksForFile(f) : \A p \in Packets :
    p.tid = r.tid /\ p.num = r.num => Holds(f, r.tid, p.slots)

\* A version that has not been generated yet is free.
FreeVersion(f) ==
  f > nextVersion => rows[f] = {} /\ rec[f] = NoTid /\ disk[f] = NoFile

FileInv(f) == RowsOfOne(f) /\ RowsStored(f) /\ WholeFile(f) /\ FreeVersion(f)

\* The rows of file f, if there are any, are those of transfer t.
RowsOf(f, t) == \A r \in rows[f] : r.tid = t

Undecided == Idle \cup {"isReconstructed", "reconstructedId"}

\* A call that goes on to write works on a file without a record, or will delete
\* the record first; its rows are of the packet's transfer, or will be deleted
\* first; and they are extended only when the bytes are in the file.
CallInv(h) ==
  /\ Name(h) <= nextVersion
  /\ call[h].replace => policy = "overwrite"
  /\ pc[h] \notin Undecided
       => \/ rec[Name(h)] = NoTid
          \/ call[h].replace /\ pc[h] \in Checking \cup {"replace"}
  /\ pc[h] \in {"onDisk", "eraseStatus", "remove"} => rows[Name(h)] = {}
  /\ pc[h] \in {"status", "isSuccessful", "isKnown", "mutex"}
       => call[h].reset \/ RowsOf(Name(h), Pkt(h).tid)
  /\ pc[h] \in {"prepare", "write"} \cup Recording => RowsOf(Name(h), Pkt(h).tid)
  /\ pc[h] \in {"recheck", "insert", "update"}
       => Holds(Name(h), Pkt(h).tid, Pkt(h).slots)

\* A finalisation that has read the rows has read those of a whole file.
CommitInv(w) == wpc[w] = "commit" => Holds(wname[w], wtid[w], SlotsOf(wtid[w]))

SequentialInv ==
  /\ Alone
  /\ \A f \in Files : FileInv(f)
  /\ \A h \in Handlers : CallInv(h)
  /\ \A w \in Workers : CommitInv(w)

LEMMA SequentialInit == Init => SequentialInv
<1> SUFFICES ASSUME Init PROVE SequentialInv
  OBVIOUS
<1>1. Alone
  BY DEF Init, Alone, Idle
<1>2. ASSUME NEW f \in Files PROVE FileInv(f)
  BY DEF Init, FileInv, RowsOfOne, RowsStored, getChunksForFile, WholeFile,
         FreeVersion, Files
<1>3. ASSUME NEW h \in Handlers PROVE CallInv(h)
  BY DEF Init, CallInv, NoCall, NewCall, Name, Undecided, Idle, Checking, Recording
<1>4. \A w \in Workers : CommitInv(w)
  BY DEF Init, CommitInv
<1> QED BY <1>1, <1>2, <1>3, <1>4 DEF SequentialInv

\* A call chooses no lower version, and runs under one policy.
LEMMA VersionsGrow ==
  ASSUME TypeOK, NEW h \in Handlers, CallStep(h)
  PROVE  /\ policy' = policy /\ nextVersion' \in Nat /\ nextVersion <= nextVersion'
         /\ pc[h] \notin Idle
<1>1. nextVersion \in Nat /\ (nextVersion' \in {nextVersion, nextVersion + 1}
                                => nextVersion' \in Nat /\ nextVersion <= nextVersion')
  BY DEF TypeOK, Files
<1>2. pc[h] \notin Idle
  BY DEF CallStep, HandlerStep, HandlerFails, WriteFails, isFileReconstructed,
         getReconstructedTransferId, getChunkRowCount, CheckActiveTransfer,
         CheckOnDisk, CheckStatus, CheckSuccessful, getChunkStatus,
         AcquireFileMutex, DeletePrevious, EraseStatus, RemovePrevious,
         prepareOutputFileForChunk, WriteChunk, RecheckRow, insertChunk,
         updateChunkStatus, getTotalChunkCount, CountChunks, EnqueueFinalization,
         ForgetVersion, FailPoints, At, Idle, Results
<1>3. policy' = policy /\ nextVersion' \in {nextVersion, nextVersion + 1}
  BY DEF CallStep, HandlerStep, HandlerFails, WriteFails, isFileReconstructed,
         getReconstructedTransferId, getChunkRowCount, CheckActiveTransfer,
         CheckOnDisk, CheckStatus, CheckSuccessful, getChunkStatus,
         AcquireFileMutex, DeletePrevious, EraseStatus, RemovePrevious,
         prepareOutputFileForChunk, WriteChunk, RecheckRow, insertChunk,
         updateChunkStatus, getTotalChunkCount, CountChunks, EnqueueFinalization,
         ForgetVersion, SwitchToVersioned, Fault, memory, env
<1> QED BY <1>1, <1>2, <1>3

\* A call that runs alone disturbs at most its own file.
LEMMA SequentialCall ==
  ASSUME TypeInv, SequentialInv, NEW h \in Handlers, CallStep(h),
         \A f \in Files \ {Name(h)} :
           rows'[f] = rows[f] /\ rec'[f] = rec[f] /\ disk'[f] = disk[f],
         \A f \in Files : f = Name(h) => FileInv(f)', CallInv(h)'
  PROVE  SequentialInv'
<1>0. TypeOK /\ Moves(h) /\ UNCHANGED worker /\ policy' = policy /\ pc[h] \notin Idle
  BY CallOutcome, ReadOnlySteps, VersionsGrow DEF TypeInv
<1>1. nextVersion \in Nat /\ nextVersion' \in Nat /\ nextVersion <= nextVersion'
  BY <1>0, VersionsGrow DEF TypeOK, Files
<1>2. \A g \in Handlers \ {h} : pc[g] \in Idle /\ pc'[g] = pc[g] /\ call'[g] = call[g]
  BY <1>0 DEF SequentialInv, Alone, Moves
<1>3. \A w \in Workers : wpc'[w] = "idle"
  BY <1>0 DEF SequentialInv, Alone, worker
<1>4. Alone'
  BY <1>2, <1>3 DEF Alone
<1>5. ASSUME NEW f \in Files PROVE FileInv(f)'
  <2>1. CASE f = Name(h)
    BY <2>1
  <2>2. CASE f # Name(h)
    <3>1. FileInv(f) /\ f \in Nat
      BY DEF SequentialInv, Files
    <3>2. rows'[f] = rows[f] /\ rec'[f] = rec[f] /\ disk'[f] = disk[f]
      BY <2>2
    <3>3. FreeVersion(f)'
      BY <1>1, <3>1, <3>2 DEF FileInv, FreeVersion
    <3> QED
      BY <3>1, <3>2, <3>3
      DEF FileInv, RowsOfOne, RowsStored, WholeFile, getChunksForFile, Holds
  <2> QED BY <2>1, <2>2
<1>6. ASSUME NEW g \in Handlers, g # h PROVE CallInv(g)'
  <2>1. Name(g)' = Name(g) /\ Pkt(g)' = Pkt(g) /\ pc'[g] \in Idle
    BY <1>2, <1>6 DEF Name, Pkt
  <2>2. Name(g) \in Nat /\ Name(g) <= nextVersion
    BY <1>0 DEF SequentialInv, CallInv, TypeOK, Call, Name, Files
  <2>3. Name(g)' <= nextVersion'
    BY <1>1, <2>1, <2>2
  <2>4. call'[g].replace => policy' = "overwrite"
    BY <1>0, <1>2, <1>6 DEF SequentialInv, CallInv
  <2>5. pc'[g] \in Undecided \ (Checking \cup InMutex \cup Recording)
    BY <2>1 DEF Undecided, Idle, Results, Checking, InMutex, Recording
  <2> QED
    BY <2>3, <2>4, <2>5 DEF CallInv, Checking, InMutex, Recording
<1>7. \A w \in Workers : CommitInv(w)'
  BY <1>3 DEF CommitInv
<1> QED BY <1>4, <1>5, <1>6, <1>7 DEF SequentialInv

LEMMA SequentialReturn ==
  ASSUME TypeOK, NEW h \in Handlers, Returned(h), nextVersion' \in Nat
  PROVE  CallInv(h)'
<1>1. call'[h].name = 0 /\ ~call'[h].replace /\ pc'[h] \in Results
  BY DEF Returned, NoCall, NewCall
<1>2. pc'[h] \in Undecided \ (Checking \cup InMutex \cup Recording)
  BY <1>1 DEF Undecided, Idle, Results, Checking, InMutex, Recording
<1>3. Name(h)' <= nextVersion'
  BY <1>1 DEF Name
<1> QED
  BY <1>1, <1>2, <1>3 DEF CallInv, Checking, InMutex, Recording

\* The steps of a call that write to a table or a file.
Touches(h) ==
  \/ DeletePrevious(h) \/ RemovePrevious(h) \/ prepareOutputFileForChunk(h)
  \/ WriteChunk(h) \/ WriteFails(h) \/ insertChunk(h) \/ updateChunkStatus(h)

\* What a call that goes on must still satisfy when it touches no table or file.
LEMMA SequentialReading ==
  ASSUME TypeInv, SequentialInv, NEW h \in Handlers, CallStep(h), ~Touches(h)
  PROVE  CallInv(h)'
<1>0. /\ TypeOK /\ call[h] \in Call /\ Name(h) \in Files /\ Pkt(h) \in Packets
      /\ UNCHANGED <<rows, rec, disk>> /\ policy' = policy
      /\ nextVersion \in Nat /\ nextVersion' \in Nat /\ nextVersion <= nextVersion'
      /\ pc \in [Handlers -> PCs] /\ call \in [Handlers -> Call]
      /\ Name(h) \in Nat
  BY VersionsGrow, ReadOnlySteps
  DEF TypeInv, TypeOK, Call, Name, Pkt, durable, Files, Touches
<1>1. FileInv(Name(h)) /\ CallInv(h)
  BY <1>0 DEF SequentialInv
<1>2. \A n \in Nat : n <= nextVersion => n <= nextVersion'
  BY <1>0
<1>3. ASSUME NEW r \in Results, Return(h, r)
      PROVE  CallInv(h)'
  BY <1>0, <1>3, ReturnLemma, SequentialReturn DEF Returned
<1>4. ASSUME NEW l \in PCs, Continue(h, l)
      PROVE  /\ pc'[h] = l /\ call'[h] = call[h] /\ Name(h)' = Name(h) /\ Pkt(h)' = Pkt(h)
             /\ Name(h)' <= nextVersion'
             /\ call'[h].replace => policy' = "overwrite"
  BY <1>0, <1>1, <1>2, <1>4, ContinueLemma DEF CallInv, Name, Pkt
<1>5. ASSUME NEW l \in {"rowCount", "status"}, SwitchToVersioned(h, l)
      PROVE  CallInv(h)'
  <2>1. /\ pc'[h] = l /\ Name(h)' = nextVersion + 1 /\ nextVersion + 1 \in Files
        /\ nextVersion' = nextVersion + 1 /\ call'[h].replace = call[h].replace
    BY <1>0, <1>5, Points, SwitchLemma DEF SwitchToVersioned
  <2>2. rows[nextVersion + 1] = {} /\ rec[nextVersion + 1] = NoTid
    BY <1>0, <2>1 DEF SequentialInv, FileInv, FreeVersion
  <2>3. Name(h)' <= nextVersion' /\ (call'[h].replace => policy' = "overwrite")
    BY <1>0, <1>1, <2>1 DEF CallInv
  <2>4. rows'[Name(h)'] = {} /\ rec'[Name(h)'] = NoTid
    BY <1>0, <2>1, <2>2
  <2> QED
    BY <2>1, <2>3, <2>4 DEF CallInv, RowsOf, Recording
<1> USE DEF At
<1>6. CASE isFileReconstructed(h)
  <2>1. CASE rec[Name(h)] = NoTid
    BY <1>0, <1>4, <1>6, <2>1, Points DEF isFileReconstructed, CallInv, Recording
  <2>2. CASE rec[Name(h)] # NoTid
    BY <1>0, <1>4, <1>6, <2>2, Points
    DEF isFileReconstructed, CallInv, Recording, Undecided
  <2> QED BY <2>1, <2>2
<1>7. CASE getReconstructedTransferId(h)
  <2>1. CASE policy = "overwrite" /\ Goto(h, "rowCount")
             /\ Set(h, [call[h] EXCEPT !.replace = TRUE])
    <3>1. /\ pc'[h] = "rowCount" /\ call'[h] = [call[h] EXCEPT !.replace = TRUE]
      BY <1>0, <2>1, CallUpdates, SetLemma, Points
    <3>2. /\ Name(h)' = Name(h) /\ call'[h].replace
      BY <1>0, <3>1 DEF Call, Name
    <3>3. Name(h)' <= nextVersion'
      BY <1>0, <1>1, <1>2, <3>2 DEF CallInv
    <3> QED
      BY <1>0, <2>1, <3>1, <3>2, <3>3 DEF CallInv, Checking, Recording
  <2>2. CASE Return(h, "AlreadyCompleted")
    BY <1>3, <2>2 DEF Results
  <2> QED BY <1>5, <1>7, <2>1, <2>2 DEF getReconstructedTransferId
<1>8. CASE getChunkRowCount(h)
  <2>1. /\ pc[h] = "rowCount" /\ pc'[h] \in {"activeId", "status", "onDisk"}
        /\ call'[h] = call[h]
        /\ Name(h)' = Name(h) /\ Pkt(h)' = Pkt(h)
        /\ Name(h)' <= nextVersion'
        /\ call'[h].replace => policy' = "overwrite"
        /\ pc'[h] \in {"status", "onDisk"} => rows[Name(h)] = {}
    BY <1>0, <1>4, <1>8, Points DEF getChunkRowCount
  <2>2. rec[Name(h)] = NoTid \/ call[h].replace
    BY <1>1, <2>1 DEF CallInv, Undecided, Idle, Results
  <2> QED
    BY <1>0, <2>1, <2>2 DEF CallInv, RowsOf, Checking, Recording
<1>9. CASE CheckActiveTransfer(h)
  <2>0. pc[h] = "activeId" /\ (rec[Name(h)] = NoTid \/ call[h].replace)
    BY <1>1, <1>9 DEF CheckActiveTransfer, CallInv, Undecided, Idle, Results
  <2>1. CASE Return(h, "Failed")
    BY <1>3, <2>1 DEF Results
  <2>2. CASE Goto(h, "status") /\ Set(h, [call[h] EXCEPT !.reset = TRUE])
    <3>1. /\ pc'[h] = "status" /\ call'[h] = [call[h] EXCEPT !.reset = TRUE]
      BY <1>0, <2>2, CallUpdates, SetLemma, Points
    <3>2. /\ Name(h)' = Name(h) /\ call'[h].replace = call[h].replace /\ call'[h].reset
      BY <1>0, <3>1 DEF Call, Name
    <3>3. Name(h)' <= nextVersion' /\ (call'[h].replace => policy' = "overwrite")
      BY <1>0, <1>1, <1>2, <3>2 DEF CallInv
    <3> QED
      BY <1>0, <2>0, <3>1, <3>2, <3>3 DEF CallInv, Checking, Recording
  <2>3. CASE getActiveTransferId(Name(h)) = Pkt(h).tid /\ Continue(h, "status")
    <3>1. RowsOf(Name(h), Pkt(h).tid)
      <4>1. CASE rows[Name(h)] = {}
        BY <4>1 DEF RowsOf
      <4>2. CASE rows[Name(h)] # {}
        <5>1. \E r \in rows[Name(h)] : r.oldest
          BY <1>1, <4>2 DEF FileInv, RowsOfOne
        <5>2. (CHOOSE r \in rows[Name(h)] : r.oldest) \in rows[Name(h)]
          BY <5>1
        <5>3. (CHOOSE r \in rows[Name(h)] : r.oldest).tid = Pkt(h).tid
          BY <2>3, <4>2 DEF getActiveTransferId
        <5> QED BY <1>1, <5>2, <5>3 DEF FileInv, RowsOfOne, RowsOf
      <4> QED BY <4>1, <4>2
    <3> QED
      BY <1>0, <1>4, <2>0, <2>3, <3>1, Points DEF CallInv, RowsOf, Checking, Recording
  <2> QED BY <1>9, <2>1, <2>2, <2>3 DEF CheckActiveTransfer
<1>10. CASE CheckOnDisk(h)
  <2>0. /\ pc[h] = "onDisk" /\ (rec[Name(h)] = NoTid \/ call[h].replace)
        /\ rows[Name(h)] = {}
    BY <1>1, <1>10 DEF CheckOnDisk, CallInv, Undecided, Idle, Results
  <2>1. CASE Return(h, "AlreadyCompleted")
    BY <1>3, <2>1 DEF Results
  <2>2. CASE Continue(h, "status")
    BY <1>0, <1>4, <2>0, <2>2, Points DEF CallInv, RowsOf, Checking, Recording
  <2> QED BY <1>5, <1>10, <2>1, <2>2 DEF CheckOnDisk
<1>11. ASSUME pc[h] \in {"status", "isSuccessful", "isKnown", "mutex"},
              pc'[h] \in {"isSuccessful", "isKnown", "mutex"},
              Name(h)' = Name(h), Pkt(h)' = Pkt(h), call'[h].reset = call[h].reset,
              call'[h].replace = call[h].replace
       PROVE  CallInv(h)'
  <2>1. rec[Name(h)] = NoTid \/ call[h].replace
    BY <1>1, <1>11 DEF CallInv, Undecided, Idle, Results
  <2>2. call[h].reset \/ RowsOf(Name(h), Pkt(h).tid)
    BY <1>1, <1>11 DEF CallInv
  <2>3. Name(h)' <= nextVersion' /\ (call'[h].replace => policy' = "overwrite")
    BY <1>0, <1>1, <1>2, <1>11 DEF CallInv
  <2> QED
    BY <1>0, <1>11, <2>1, <2>2, <2>3 DEF CallInv, RowsOf, Checking, Recording
<1>12. CASE CheckStatus(h)
  BY <1>0, <1>3, <1>4, <1>11, <1>12, Points DEF CheckStatus
<1>13. CASE CheckSuccessful(h)
  BY <1>0, <1>3, <1>4, <1>11, <1>13, Points DEF CheckSuccessful
<1>14. CASE getChunkStatus(h)
  <2>1. HasRow(Name(h), Pkt(h).num) \in BOOLEAN
    BY DEF HasRow
  <2>2. [call[h] EXCEPT !.known = HasRow(Name(h), Pkt(h).num)] \in Call
    BY <1>0, <2>1, CallUpdates
  <2>3. /\ pc'[h] = "mutex"
        /\ call'[h] = [call[h] EXCEPT !.known = HasRow(Name(h), Pkt(h).num)]
    BY <1>0, <1>14, <2>2, SetLemma, Points DEF getChunkStatus
  <2>4. /\ Name(h)' = Name(h) /\ Pkt(h)' = Pkt(h) /\ call'[h].reset = call[h].reset
        /\ call'[h].replace = call[h].replace
    BY <1>0, <2>3 DEF Call, Name, Pkt
  <2> QED BY <1>11, <1>14, <2>3, <2>4 DEF getChunkStatus
<1>15. CASE AcquireFileMutex(h)
  <2>1. /\ pc[h] = "mutex" /\ call'[h] = call[h]
        /\ Name(h)' = Name(h) /\ Pkt(h)' = Pkt(h)
        /\ Name(h)' <= nextVersion'
        /\ call'[h].replace => policy' = "overwrite"
        /\ pc'[h] = IF call[h].replace \/ call[h].reset THEN "replace" ELSE "prepare"
    BY <1>0, <1>4, <1>15, Points DEF AcquireFileMutex
  <2>2. /\ rec[Name(h)] = NoTid \/ call[h].replace
        /\ call[h].reset \/ RowsOf(Name(h), Pkt(h).tid)
    BY <1>1, <2>1 DEF CallInv, Undecided, Idle, Results
  <2>3. CASE call[h].replace \/ call[h].reset
    BY <1>0, <2>1, <2>2, <2>3 DEF CallInv, Recording
  <2>4. CASE ~(call[h].replace \/ call[h].reset)
    BY <1>0, <2>1, <2>2, <2>4 DEF CallInv, RowsOf
  <2> QED BY <2>3, <2>4
<1>16. ASSUME pc[h] \in {"eraseStatus"}, pc'[h] = "remove", call'[h] = call[h]
       PROVE  CallInv(h)'
  <2>1. rec[Name(h)] = NoTid /\ rows[Name(h)] = {}
    BY <1>1, <1>16 DEF CallInv, Undecided, Idle, Results, Checking
  <2> QED
    BY <1>0, <1>1, <1>2, <1>16, <2>1 DEF CallInv, Name, Recording
<1>17. ASSUME pc[h] \in Recording \cup {"prepare", "write"},
              pc'[h] \in Recording \ {"recheck", "insert", "update"},
              Name(h)' = Name(h), Pkt(h)' = Pkt(h), call'[h].replace = call[h].replace
       PROVE  CallInv(h)'
  <2>1. rec[Name(h)] = NoTid /\ RowsOf(Name(h), Pkt(h).tid)
    BY <1>1, <1>17 DEF CallInv, Undecided, Idle, Results, Checking, Recording
  <2>2. Name(h)' <= nextVersion' /\ (call'[h].replace => policy' = "overwrite")
    BY <1>0, <1>1, <1>2, <1>17 DEF CallInv
  <2> QED
    BY <1>0, <1>17, <2>1, <2>2 DEF CallInv, RowsOf, Recording
<1>18. CASE RecheckRow(h)
  <2>1. /\ pc[h] = "recheck" /\ call'[h] = call[h]
        /\ Name(h)' = Name(h) /\ Pkt(h)' = Pkt(h)
        /\ Name(h)' <= nextVersion'
        /\ call'[h].replace => policy' = "overwrite"
        /\ pc'[h] \in {"insert", "update"}
    BY <1>0, <1>4, <1>18, Points DEF RecheckRow
  <2>2. /\ rec[Name(h)] = NoTid /\ RowsOf(Name(h), Pkt(h).tid)
        /\ Holds(Name(h), Pkt(h).tid, Pkt(h).slots)
    BY <1>1, <2>1 DEF CallInv, Undecided, Idle, Results, Checking, Recording
  <2> QED
    BY <1>0, <2>1, <2>2 DEF CallInv, RowsOf, Holds
<1>19. CASE EraseStatus(h)
  BY <1>0, <1>4, <1>16, <1>19, Points DEF EraseStatus
<1>20. CASE getTotalChunkCount(h)
  <2>1. PICK total \in Totals :
          IF total = 0
          THEN Return(h, "Stored")
          ELSE Goto(h, "count") /\ Set(h, [call[h] EXCEPT !.declared = total])
    BY <1>20 DEF getTotalChunkCount
  <2>2. CASE total = 0
    BY <1>3, <2>1, <2>2 DEF Results
  <2>3. CASE total # 0
    <3>1. pc'[h] = "count" /\ call'[h] = [call[h] EXCEPT !.declared = total]
      BY <1>0, <2>1, <2>3, CallUpdates, SetLemma, Points
    <3>2. /\ Name(h)' = Name(h) /\ Pkt(h)' = Pkt(h)
          /\ call'[h].replace = call[h].replace
      BY <1>0, <3>1 DEF Call, Name, Pkt
    <3> QED BY <1>17, <1>20, <3>1, <3>2 DEF getTotalChunkCount, Recording
  <2> QED BY <2>2, <2>3
<1>21. CASE CountChunks(h)
  <2>1. CASE Return(h, "Stored")
    BY <1>3, <2>1 DEF Results
  <2>2. CASE Continue(h, "enqueue")
    BY <1>0, <1>4, <1>17, <1>21, <2>2, Points DEF CountChunks, Recording
  <2> QED BY <1>21, <2>1, <2>2 DEF CountChunks
<1>22. CASE EnqueueFinalization(h)
  <2>1. CASE Return(h, "JustCompleted")
    BY <1>3, <2>1 DEF Results
  <2>2. CASE Continue(h, "unversion")
    BY <1>0, <1>4, <1>17, <1>22, <2>2, Points DEF EnqueueFinalization, Recording
  <2> QED BY <1>22, <2>1, <2>2 DEF EnqueueFinalization
<1>23. CASE ForgetVersion(h) \/ HandlerFails(h)
  BY <1>3, <1>23 DEF ForgetVersion, HandlerFails, Results
<1> QED
  BY <1>6, <1>7, <1>8, <1>9, <1>10, <1>12, <1>13, <1>14, <1>15, <1>18, <1>19,
     <1>20, <1>21, <1>22, <1>23 DEF CallStep, HandlerStep, Touches

\* A write of the packet's slots, whole or in part, keeps what its rows say.
LEMMA SequentialWrite ==
  ASSUME TypeInv, SequentialInv, NEW h \in Handlers, pc[h] = "write",
         NEW w \in SUBSET Pkt(h).slots, disk' = Written(h, w),
         UNCHANGED <<rows, rec>>, nextVersion' = nextVersion
  PROVE  /\ \A f \in Files \ {Name(h)} : disk'[f] = disk[f]
         /\ \A f \in Files : f = Name(h) => FileInv(f)'
         /\ disk'[Name(h)] # NoFile /\ \A s \in w : disk'[Name(h)][s] = Pkt(h).tid
<1>0. /\ TypeOK /\ Name(h) \in Files /\ Pkt(h) \in Packets /\ w \in SUBSET Slots
      /\ FileInv(Name(h)) /\ CallInv(h)
  BY PacketsAssumption DEF TypeInv, TypeOK, Call, Name, Pkt, SequentialInv
<1>1. /\ disk'[Name(h)] # NoFile
      /\ \A s \in w : disk'[Name(h)][s] = Pkt(h).tid
      /\ \A s \in Slots \ w : disk'[Name(h)][s] = disk[Name(h)][s]
      /\ \A f \in Files \ {Name(h)} : disk'[f] = disk[f]
  BY <1>0, WrittenType
<1>2. /\ rec[Name(h)] = NoTid /\ RowsOf(Name(h), Pkt(h).tid)
      /\ Name(h) <= nextVersion /\ Name(h) \in Nat /\ nextVersion \in Nat
  BY <1>0 DEF CallInv, Undecided, Idle, Results, Checking, Recording, Files, TypeOK
<1> SUFFICES ASSUME NEW f \in Files, f = Name(h) PROVE FileInv(f)'
  BY <1>0, <1>1
<1>3. RowsOfOne(f)' /\ WholeFile(f)' /\ FreeVersion(f)'
  BY <1>0, <1>2 DEF FileInv, RowsOfOne, WholeFile, FreeVersion
<1>4. ASSUME NEW r \in rows[f], r.success, NEW p \in Packets, p.tid = r.tid, p.num = r.num
      PROVE  Holds(f, r.tid, p.slots)'
  <2>1. Holds(f, r.tid, p.slots) /\ p.slots \in SUBSET Slots
    BY <1>0, <1>4, PacketsAssumption DEF FileInv, RowsStored, getChunksForFile
  <2>2. r.tid = Pkt(h).tid
    BY <1>2 DEF RowsOf
  <2> QED BY <1>1, <2>1, <2>2 DEF Holds
<1>5. RowsStored(f)'
  BY <1>4 DEF RowsStored, getChunksForFile
<1> QED BY <1>3, <1>5 DEF FileInv

LEMMA SequentialTouch ==
  ASSUME EachSplitOnce, TypeInv, SequentialInv, NEW h \in Handlers, Touches(h)
  PROVE  /\ \A f \in Files \ {Name(h)} :
              rows'[f] = rows[f] /\ rec'[f] = rec[f] /\ disk'[f] = disk[f]
         /\ \A f \in Files : f = Name(h) => FileInv(f)'
         /\ CallInv(h)'
<1> USE DEF At
<1>0. /\ TypeOK /\ call[h] \in Call /\ Name(h) \in Files /\ Pkt(h) \in Packets
      /\ nextVersion \in Nat /\ Name(h) \in Nat
      /\ rows \in [Files -> SUBSET Row] /\ rec \in [Files -> TransferIds \cup {NoTid}]
      /\ disk \in [Files -> Content \cup {NoFile}]
      /\ FileInv(Name(h)) /\ CallInv(h)
  BY DEF TypeInv, TypeOK, Call, Name, Pkt, Files, SequentialInv
<1>1. policy' = policy /\ nextVersion' = nextVersion /\ Name(h) <= nextVersion
  BY <1>0 DEF Touches, DeletePrevious, RemovePrevious, prepareOutputFileForChunk,
      WriteChunk, WriteFails, insertChunk, updateChunkStatus, memory, env, Fault,
      CallInv
<1>2. ASSUME NEW l \in PCs, Continue(h, l)
      PROVE  /\ pc'[h] = l /\ call'[h] = call[h] /\ Name(h)' = Name(h) /\ Pkt(h)' = Pkt(h)
             /\ Name(h)' <= nextVersion'
             /\ call'[h].replace => policy' = "overwrite"
  BY <1>0, <1>1, <1>2, ContinueLemma DEF CallInv, Name, Pkt
<1>3. ASSUME NEW r \in Results, Return(h, r)
      PROVE  CallInv(h)'
  BY <1>0, <1>1, <1>3, ReturnLemma, SequentialReturn DEF Returned
<1>4. pc[h] \notin Undecided \cup Checking \cup {"replace"} => rec[Name(h)] = NoTid
  BY <1>0 DEF CallInv
<1>5. CASE DeletePrevious(h)
  <2>1. /\ rows'[Name(h)] = {} /\ disk' = disk /\ rec'[Name(h)] = NoTid
        /\ \A f \in Files \ {Name(h)} : rows'[f] = rows[f] /\ rec'[f] = rec[f]
    BY <1>0, <1>5 DEF DeletePrevious, CallInv, Undecided, Idle, Results
  <2>2. /\ pc'[h] = "eraseStatus" /\ call'[h] = call[h] /\ Name(h)' = Name(h)
        /\ Name(h)' <= nextVersion' /\ (call'[h].replace => policy' = "overwrite")
    BY <1>2, <1>5 DEF DeletePrevious, PCs, InMutex
  <2>3. CallInv(h)'
    BY <2>1, <2>2 DEF CallInv, Recording
  <2>4. ASSUME NEW f \in Files, f = Name(h) PROVE FileInv(f)'
    BY <1>0, <1>1, <2>1, <2>4
    DEF FileInv, RowsOfOne, RowsStored, getChunksForFile, WholeFile, FreeVersion
  <2> QED BY <2>1, <2>3, <2>4
<1>6. CASE RemovePrevious(h)
  <2>0. rows[Name(h)] = {} /\ rec[Name(h)] = NoTid
    BY <1>0, <1>4, <1>6
    DEF RemovePrevious, CallInv, Undecided, Idle, Results, Checking
  <2>1. /\ UNCHANGED <<rows, rec>> /\ \A f \in Files \ {Name(h)} : disk'[f] = disk[f]
    BY <1>0, <1>6 DEF RemovePrevious
  <2>2. /\ pc'[h] = "prepare" /\ call'[h] = call[h] /\ Name(h)' = Name(h)
        /\ Name(h)' <= nextVersion' /\ (call'[h].replace => policy' = "overwrite")
    BY <1>2, <1>6 DEF RemovePrevious, PCs, InMutex
  <2>3. CallInv(h)'
    BY <2>0, <2>1, <2>2 DEF CallInv, RowsOf
  <2>4. ASSUME NEW f \in Files, f = Name(h) PROVE FileInv(f)'
    BY <1>0, <1>1, <2>0, <2>1, <2>4
    DEF FileInv, RowsOfOne, RowsStored, getChunksForFile, WholeFile, FreeVersion
  <2> QED BY <2>1, <2>3, <2>4
<1>7. CASE prepareOutputFileForChunk(h)
  <2>0. RowsOf(Name(h), Pkt(h).tid) /\ rec[Name(h)] = NoTid
    BY <1>0, <1>4, <1>7
    DEF prepareOutputFileForChunk, CallInv, Undecided, Idle, Results, Checking
  <2>1. /\ UNCHANGED <<rows, rec>> /\ \A f \in Files \ {Name(h)} : disk'[f] = disk[f]
        /\ disk[Name(h)] = NoFile \/ disk' = disk
    BY <1>0, <1>7 DEF prepareOutputFileForChunk
  <2>2. /\ pc'[h] = "write" /\ call'[h] = call[h] /\ Name(h)' = Name(h)
        /\ Pkt(h)' = Pkt(h)
        /\ Name(h)' <= nextVersion' /\ (call'[h].replace => policy' = "overwrite")
    BY <1>2, <1>7 DEF prepareOutputFileForChunk, PCs, InMutex
  <2>3. CallInv(h)'
    BY <2>0, <2>1, <2>2 DEF CallInv, RowsOf
  <2>4. ASSUME NEW f \in Files, f = Name(h) PROVE FileInv(f)'
    <3>1. RowsStored(f)'
      BY <1>0, <2>1, <2>4 DEF FileInv, RowsStored, getChunksForFile, Holds
    <3> QED
      BY <1>0, <1>1, <2>0, <2>1, <2>4, <3>1
      DEF FileInv, RowsOfOne, WholeFile, FreeVersion
  <2> QED BY <2>1, <2>3, <2>4
<1>8. CASE WriteChunk(h)
  <2>0. RowsOf(Name(h), Pkt(h).tid) /\ rec[Name(h)] = NoTid
    BY <1>0, <1>4, <1>8
    DEF WriteChunk, CallInv, Undecided, Idle, Results, Checking
  <2>1. /\ pc[h] = "write" /\ UNCHANGED <<rows, rec>>
        /\ disk' = Written(h, Pkt(h).slots) /\ Pkt(h).slots \in SUBSET Pkt(h).slots
    BY <1>8 DEF WriteChunk
  <2>2. /\ \A f \in Files \ {Name(h)} : disk'[f] = disk[f]
        /\ \A f \in Files : f = Name(h) => FileInv(f)'
        /\ disk'[Name(h)] # NoFile
        /\ \A s \in Pkt(h).slots : disk'[Name(h)][s] = Pkt(h).tid
    BY <1>1, <2>1, SequentialWrite
  <2>3. /\ pc'[h] \in {"update", "recheck"} /\ call'[h] = call[h] /\ Name(h)' = Name(h)
        /\ Pkt(h)' = Pkt(h)
        /\ Name(h)' <= nextVersion' /\ (call'[h].replace => policy' = "overwrite")
    BY <1>2, <1>8, Points DEF WriteChunk
  <2>4. CallInv(h)'
    BY <2>0, <2>1, <2>2, <2>3 DEF CallInv, RowsOf, Holds
  <2> QED BY <2>1, <2>2, <2>4
<1>9. CASE WriteFails(h)
  <2>1. PICK w \in SUBSET Pkt(h).slots : disk' = Written(h, w)
    BY <1>9 DEF WriteFails
  <2>2. pc[h] = "write" /\ UNCHANGED <<rows, rec>> /\ Return(h, "Failed")
    BY <1>9 DEF WriteFails
  <2>3. CallInv(h)'
    BY <1>3, <2>2 DEF Results
  <2> QED BY <1>1, <2>1, <2>2, <2>3, SequentialWrite
<1>10. CASE insertChunk(h)
  <2>0. /\ RowsOf(Name(h), Pkt(h).tid) /\ rec[Name(h)] = NoTid
        /\ Holds(Name(h), Pkt(h).tid, Pkt(h).slots)
    BY <1>0, <1>4, <1>10
    DEF insertChunk, CallInv, Undecided, Idle, Results, Checking, Recording
  <2>1. UNCHANGED <<rec, disk>>
    BY <1>10 DEF insertChunk
  <2>2. CASE HasRow(Name(h), Pkt(h).num)
    <3>1. Return(h, "Failed") /\ UNCHANGED rows
      BY <1>10, <2>2 DEF insertChunk
    <3>2. CallInv(h)'
      BY <1>3, <3>1 DEF Results
    <3> QED
      BY <1>0, <1>1, <2>1, <3>1, <3>2
      DEF FileInv, RowsOfOne, RowsStored, getChunksForFile, WholeFile, FreeVersion,
          Holds
  <2>3. CASE ~HasRow(Name(h), Pkt(h).num)
    <3> DEFINE new == [num |-> Pkt(h).num, tid |-> Pkt(h).tid,
                       total |-> Pkt(h).total, success |-> FALSE,
                       oldest |-> rows[Name(h)] = {}]
    <3>1. rows' = [rows EXCEPT ![Name(h)] = rows[Name(h)] \cup {new}]
      BY <1>10, <2>3 DEF insertChunk
    <3>2. /\ new.num = Pkt(h).num /\ new.tid = Pkt(h).tid /\ new.total = Pkt(h).total
          /\ new.success = FALSE /\ (rows[Name(h)] = {} => new.oldest)
      OBVIOUS
    <3> HIDE DEF new
    <3>3. /\ \A f \in Files \ {Name(h)} : rows'[f] = rows[f]
          /\ rows'[Name(h)] = rows[Name(h)] \cup {new}
      BY <1>0, <3>1
    <3>4. /\ pc'[h] = "update" /\ call'[h] = call[h] /\ Name(h)' = Name(h)
          /\ Pkt(h)' = Pkt(h)
          /\ Name(h)' <= nextVersion' /\ (call'[h].replace => policy' = "overwrite")
      BY <1>2, <1>10, <2>3, Points DEF insertChunk
    <3>5. CallInv(h)'
      BY <2>0, <2>1, <3>2, <3>3, <3>4 DEF CallInv, RowsOf, Holds
    <3>6. ASSUME NEW f \in Files, f = Name(h) PROVE FileInv(f)'
      <4>1. RowsOfOne(f)'
        BY <1>0, <2>0, <3>2, <3>3, <3>6 DEF FileInv, RowsOfOne, RowsOf
      <4>2. RowsStored(f)'
        BY <1>0, <2>1, <3>2, <3>3, <3>6
        DEF FileInv, RowsStored, getChunksForFile, Holds
      <4> QED
        BY <1>0, <1>1, <2>0, <2>1, <3>6, <4>1, <4>2 DEF FileInv, WholeFile, FreeVersion
    <3> QED BY <2>1, <3>3, <3>5, <3>6
  <2> QED BY <2>2, <2>3
<1>11. CASE updateChunkStatus(h)
  <2>0. /\ RowsOf(Name(h), Pkt(h).tid) /\ rec[Name(h)] = NoTid
        /\ Holds(Name(h), Pkt(h).tid, Pkt(h).slots)
    BY <1>0, <1>4, <1>11
    DEF updateChunkStatus, CallInv, Undecided, Idle, Results, Checking, Recording
  <2> DEFINE U(r) == IF r.num = Pkt(h).num THEN [r EXCEPT !.success = TRUE] ELSE r
  <2>1. /\ rows' = [rows EXCEPT ![Name(h)] = {U(r) : r \in rows[Name(h)]}]
        /\ UNCHANGED <<rec, disk>>
    BY <1>11 DEF updateChunkStatus
  <2>2. \A r \in Row : /\ U(r).num = r.num /\ U(r).tid = r.tid /\ U(r).total = r.total
                       /\ U(r).oldest = r.oldest
                       /\ U(r).success => r.success \/ r.num = Pkt(h).num
    BY DEF Row
  <2> HIDE DEF U
  <2>3. /\ \A f \in Files \ {Name(h)} : rows'[f] = rows[f]
        /\ rows'[Name(h)] = {U(r) : r \in rows[Name(h)]}
        /\ rows[Name(h)] \subseteq Row
    BY <1>0, <2>1
  <2>4. /\ pc'[h] = "total" /\ call'[h] = call[h] /\ Name(h)' = Name(h)
        /\ Pkt(h)' = Pkt(h)
        /\ Name(h)' <= nextVersion' /\ (call'[h].replace => policy' = "overwrite")
    BY <1>2, <1>11, Points DEF updateChunkStatus
  <2>5. CallInv(h)'
    <3>1. RowsOf(Name(h), Pkt(h).tid)'
      BY <2>0, <2>2, <2>3, <2>4 DEF RowsOf
    <3> QED BY <2>0, <2>1, <2>4, <3>1 DEF CallInv
  <2>6. ASSUME NEW f \in Files, f = Name(h) PROVE FileInv(f)'
    <3>1. RowsOfOne(f)'
      <4>1. RowsOfOne(f)
        BY <1>0, <2>6 DEF FileInv
      <4>2. \A r \in rows'[f] : \E q \in rows[f] :
              r.num = q.num /\ r.tid = q.tid /\ r.total = q.total
        BY <2>2, <2>3, <2>6
      <4>3. \A q \in rows[f] : U(q) \in rows'[f] /\ U(q).oldest = q.oldest
        BY <2>2, <2>3, <2>6
      <4>4. rows'[f] # {} => \E r \in rows'[f] : r.oldest
        BY <4>1, <4>2, <4>3 DEF RowsOfOne
      <4> QED BY <4>1, <4>2, <4>4 DEF RowsOfOne
    <3>2. ASSUME NEW r \in rows'[f], r.success, NEW p \in Packets,
                 p.tid = r.tid, p.num = r.num
          PROVE  Holds(f, r.tid, p.slots)
      <4>1. PICK q \in rows[f] : /\ r.num = q.num /\ r.tid = q.tid
                                 /\ q.success \/ q.num = Pkt(h).num
        BY <2>2, <2>3, <2>6, <3>2
      <4>2. CASE q.success
        BY <1>0, <2>6, <3>2, <4>1, <4>2 DEF FileInv, RowsStored, getChunksForFile
      <4>3. CASE q.num = Pkt(h).num
        <5>1. r.tid = Pkt(h).tid /\ p.num = Pkt(h).num
          BY <2>0, <2>6, <3>2, <4>1, <4>3 DEF RowsOf
        <5>2. p.slots = Pkt(h).slots
          BY <1>0, <3>2, <5>1 DEF EachSplitOnce
        <5> QED BY <2>0, <2>6, <5>1, <5>2
      <4> QED BY <4>1, <4>2, <4>3
    <3>3. RowsStored(f)'
      BY <2>1, <3>2 DEF RowsStored, getChunksForFile, Holds
    <3> QED
      BY <1>0, <1>1, <2>0, <2>1, <2>6, <3>1, <3>3 DEF FileInv, WholeFile, FreeVersion
  <2> QED BY <2>1, <2>3, <2>5, <2>6
<1> QED BY <1>5, <1>6, <1>7, <1>8, <1>9, <1>10, <1>11 DEF Touches

\* Rows without a gap up to a declared count are those of a whole transfer.
LEMMA SequentialRead ==
  ASSUME EachSplitOnce, TypeOK, NEW f \in Files, FileInv(f),
         Contiguous(getChunksForFile(f)),
         NEW r0 \in getChunksForFile(f)
  PROVE  Holds(f, r0.tid, SlotsOf(r0.tid))
<1> DEFINE t == r0.tid
<1>1. /\ getChunksForFile(f) \subseteq rows[f] /\ RowsOfOne(f) /\ RowsStored(f)
      /\ \A r \in getChunksForFile(f) : r.tid = t
  BY DEF getChunksForFile, FileInv, RowsOfOne
<1>2. PICK n \in Totals \ {0} : /\ IsMaxTotal(getChunksForFile(f), n)
                                /\ {r.num : r \in getChunksForFile(f)} = 0 .. n - 1
  BY DEF Contiguous
<1>3. PICK r1 \in getChunksForFile(f) : r1.total = n
  BY <1>2 DEF IsMaxTotal
<1>4. PICK p1 \in Packets : p1.tid = t /\ p1.total = n
  BY <1>1, <1>3 DEF RowsOfOne
<1>5. ASSUME NEW q \in Packets, q.tid = t PROVE Holds(f, t, q.slots)
  <2>1. q.num \in Nat /\ n \in Nat
    BY <1>4, PacketsAssumption
  <2>2. q.num < n
    BY <1>2, <1>4, <1>5 DEF EachSplitOnce
  <2>3. q.num \in 0 .. n - 1
    BY <2>1, <2>2
  <2>4. PICK r \in getChunksForFile(f) : r.num = q.num
    BY <1>2, <2>3
  <2> QED BY <1>1, <1>5, <2>4 DEF RowsStored
<1>6. \A s \in SlotsOf(t) : disk[f][s] = t
  BY <1>5 DEF SlotsOf, Holds
<1>7. disk[f] # NoFile
  BY <1>4, <1>5 DEF Holds
<1> QED BY <1>6, <1>7 DEF Holds

LEMMA SequentialStep ==
  ASSUME ~Overlap, EachSplitOnce
  PROVE  TypeInv /\ SequentialInv /\ [Next]_vars => SequentialInv'
<1> SUFFICES ASSUME TypeInv, SequentialInv, [Next]_vars PROVE SequentialInv'
  OBVIOUS
<1>0. TypeOK /\ nextVersion \in Nat
  BY DEF TypeInv, TypeOK, Files
<1>1. ASSUME NEW h \in Handlers, CallStep(h)
      PROVE  SequentialInv'
  <2>1. CASE Touches(h)
    BY <1>1, <2>1, SequentialTouch, SequentialCall
  <2>2. CASE ~Touches(h)
    <3>1. UNCHANGED <<rows, rec, disk>> /\ Name(h) \in Files /\ FileInv(Name(h))
      BY <1>0, <1>1, <2>2, ReadOnlySteps
      DEF Touches, durable, TypeOK, Call, Name, SequentialInv
    <3>2. CallInv(h)' /\ nextVersion' \in Nat /\ nextVersion <= nextVersion'
      BY <1>0, <1>1, <2>2, SequentialReading, VersionsGrow
    <3>3. ASSUME NEW f \in Files, f = Name(h) PROVE FileInv(f)'
      <4>1. FreeVersion(f)'
        BY <1>0, <3>1, <3>2, <3>3 DEF FileInv, FreeVersion, Files
      <4> QED
        BY <3>1, <3>3, <4>1
        DEF FileInv, RowsOfOne, RowsStored, getChunksForFile, WholeFile, Holds
    <3> QED BY <1>1, <3>1, <3>2, <3>3, SequentialCall
  <2> QED BY <2>1, <2>2
<1>2. ASSUME UNCHANGED <<rows, rec, disk, nextVersion>>, NEW f \in Files PROVE FileInv(f)'
  BY <1>2
  DEF SequentialInv, FileInv, RowsOfOne, RowsStored, getChunksForFile, WholeFile,
      FreeVersion, Holds
<1>3. ASSUME NEW h \in Handlers, pc'[h] = pc[h], call'[h] = call[h], policy' = policy,
             UNCHANGED <<rows, rec, disk, nextVersion>>
      PROVE  CallInv(h)'
  BY <1>3 DEF SequentialInv, CallInv, Name, Pkt, RowsOf, Holds
<1>4. ASSUME NEW h \in Handlers, NEW p \in Packets, ReceivePacket(h, p)
      PROVE  SequentialInv'
  <2>1. NewCall(p, 0) \in Call /\ NewCall(p, versioned) \in Call
    BY <1>0, EnvironmentAssumption DEF NewCall, Call, Totals, TypeOK, Files
  <2>2. /\ Moves(h) /\ pc'[h] = "isReconstructed"
        /\ call'[h] \in {NewCall(p, 0), NewCall(p, versioned)}
    BY <1>0, <1>4, <2>1, SetLemma, Points DEF ReceivePacket
  <2>3. UNCHANGED <<rows, rec, disk, nextVersion, policy, wpc, wname, wtid>> /\ Quiet
    BY <1>4 DEF ReceivePacket, durable, memory, worker, env
  <2>4. Alone'
    BY <2>2, <2>3 DEF Alone, Quiet, Moves
  <2>5. CallInv(h)'
    <3>1. Name(h)' <= nextVersion' /\ ~call'[h].replace
      BY <1>0, <2>2, <2>3 DEF TypeOK, NewCall, Name
    <3> QED BY <2>2, <3>1 DEF CallInv, Undecided, Recording
  <2>6. \A g \in Handlers : CallInv(g)'
    BY <1>3, <2>2, <2>3, <2>5 DEF Moves
  <2>7. \A w \in Workers : CommitInv(w)'
    BY <2>3 DEF CommitInv, Quiet
  <2> QED BY <1>2, <2>3, <2>4, <2>6, <2>7 DEF SequentialInv
<1>5. ASSUME NEW w \in Workers, WorkerStep(w) \/ FinalizationFails(w)
      PROVE  SequentialInv'
  <2>1. UNCHANGED <<disk, pc, call, nextVersion, policy>>
    BY <1>5 DEF WorkerStep, FinalizationFails, StartFinalization, ReadChunks,
                CommitFinalization, ClearStatus, durable, memory, env, Fault
  <2>2. \A h \in Handlers : pc[h] \in Idle
    BY <1>5 DEF WorkerStep, FinalizationFails, StartFinalization, ReadChunks,
                CommitFinalization, ClearStatus, SequentialInv, Alone, Quiet
  <2>3. Alone'
    BY <2>1, <2>2 DEF Alone
  <2>4. ASSUME NEW h \in Handlers PROVE CallInv(h)'
    <3>1. /\ pc'[h] \in Undecided \ (Checking \cup InMutex \cup Recording)
          /\ Name(h)' = Name(h) /\ call'[h] = call[h]
      BY <2>1, <2>2 DEF Undecided, Idle, Results, Checking, InMutex, Recording, Name
    <3>2. Name(h)' <= nextVersion' /\ (call'[h].replace => policy' = "overwrite")
      BY <2>1, <3>1 DEF SequentialInv, CallInv
    <3> QED BY <3>1, <3>2 DEF CallInv, Checking, InMutex, Recording
  <2>5. CASE CommitFinalization(w)
    <3> DEFINE f == wname[w]
    <3>1. /\ f \in Files /\ UNCHANGED <<wname, wtid>> /\ wpc[w] = "commit"
          /\ rows'[f] = {} /\ rec'[f] = IF rec[f] = NoTid THEN wtid[w] ELSE rec[f]
          /\ \A g \in Files \ {f} : rows'[g] = rows[g] /\ rec'[g] = rec[g]
          /\ \A v \in Workers : wpc'[v] = "commit" => wpc[v] = "commit"
      BY <1>0, <2>5 DEF CommitFinalization, WGoto, TypeOK
    <3>2. Holds(f, wtid[w], SlotsOf(wtid[w])) /\ FileInv(f)
      BY <3>1 DEF SequentialInv, CommitInv
    <3>3. f <= nextVersion
      BY <1>0, <3>1, <3>2 DEF FileInv, FreeVersion, Holds, Files
    <3>4. ASSUME NEW g \in Files PROVE FileInv(g)'
      <4>1. CASE g = f
        <5>1. RowsOfOne(g)' /\ RowsStored(g)'
          BY <3>1, <4>1 DEF RowsOfOne, RowsStored, getChunksForFile
        <5>2. WholeFile(g)'
          BY <2>1, <3>1, <3>2, <4>1 DEF WholeFile, FileInv, Holds
        <5>3. FreeVersion(g)'
          BY <1>0, <2>1, <3>3, <4>1 DEF FreeVersion, Files
        <5> QED BY <5>1, <5>2, <5>3 DEF FileInv
      <4>2. CASE g # f
        BY <2>1, <3>1, <4>2
        DEF SequentialInv, FileInv, RowsOfOne, RowsStored, getChunksForFile,
            WholeFile, FreeVersion, Holds
      <4> QED BY <4>1, <4>2
    <3>5. \A v \in Workers : CommitInv(v)'
      BY <2>1, <3>1 DEF SequentialInv, CommitInv, Holds
    <3> QED BY <2>3, <2>4, <3>4, <3>5 DEF SequentialInv
  <2>6. CASE ~CommitFinalization(w)
    <3>1. UNCHANGED <<rows, rec>>
      BY <1>5, <2>6 DEF WorkerStep, FinalizationFails, StartFinalization,
                        ReadChunks, ClearStatus, durable
    <3>2. ASSUME NEW v \in Workers, wpc'[v] = "commit"
          PROVE  Holds(wname'[v], wtid'[v], SlotsOf(wtid'[v]))
      <4>1. CASE wpc[v] = "commit" /\ wname'[v] = wname[v] /\ wtid'[v] = wtid[v]
        BY <4>1 DEF SequentialInv, CommitInv
      <4>2. CASE ReadChunks(w) /\ v = w
        <5>1. Contiguous(getChunksForFile(wname[w])) /\ wname'[w] = wname[w]
          BY <1>0, <3>2, <4>2 DEF ReadChunks, WDone, WGoto, TypeOK
        <5>2. PICK r \in getChunksForFile(wname[w]) : wtid'[w] = r.tid
          BY <1>0, <4>2, <5>1 DEF ReadChunks, TypeOK
        <5>3. wname[w] \in Files /\ FileInv(wname[w])
          BY <1>0 DEF TypeOK, SequentialInv
        <5> QED BY <1>0, <4>2, <5>1, <5>2, <5>3, SequentialRead
      <4>3. CASE ReadChunks(w) /\ v # w
        BY <1>0, <3>2, <4>1, <4>3 DEF ReadChunks, WDone, WGoto, TypeOK
      <4>4. CASE ~ReadChunks(w)
        BY <1>0, <1>5, <2>6, <3>2, <4>1, <4>4
        DEF WorkerStep, FinalizationFails, StartFinalization, ClearStatus, WDone,
            WGoto, TypeOK
      <4> QED BY <4>2, <4>3, <4>4
    <3>3. \A v \in Workers : CommitInv(v)'
      BY <2>1, <3>2 DEF CommitInv, Holds
    <3> QED BY <1>2, <2>1, <2>3, <2>4, <3>1, <3>3 DEF SequentialInv
  <2> QED BY <2>5, <2>6
<1>6. CASE Restart
  <2>1. /\ UNCHANGED <<rows, rec, disk, nextVersion>>
        /\ \A h \in Handlers : pc'[h] = "ready" /\ call'[h] = NoCall
        /\ \A w \in Workers : wpc'[w] = "idle"
    BY <1>6 DEF Restart, durable
  <2>2. ASSUME NEW h \in Handlers PROVE CallInv(h)'
    <3>0. call'[h] = NoCall /\ pc'[h] = "ready"
      BY <2>1
    <3>1. call'[h].name = 0 /\ ~call'[h].replace
      BY <3>0 DEF NoCall, NewCall
    <3>2. Name(h)' <= nextVersion'
      BY <1>0, <2>1, <3>1 DEF Name
    <3> QED BY <3>0, <3>1, <3>2 DEF CallInv, Undecided, Idle, Recording
  <2>3. Alone' /\ \A w \in Workers : CommitInv(w)'
    BY <2>1 DEF Alone, CommitInv, Idle
  <2> QED BY <1>2, <2>1, <2>2, <2>3 DEF SequentialInv
<1>7. CASE UNCHANGED vars
  <2>1. /\ UNCHANGED <<rows, rec, disk, nextVersion, policy, pc, call>>
        /\ UNCHANGED <<wpc, wname, wtid>>
    BY <1>7 DEF vars, durable, memory, worker, env
  <2>2. Alone' /\ \A w \in Workers : CommitInv(w)'
    BY <2>1 DEF SequentialInv, Alone, CommitInv, Holds
  <2> QED BY <1>2, <1>3, <2>1, <2>2 DEF SequentialInv
<1> QED BY <1>1, <1>4, <1>5, <1>6, <1>7 DEF Next, CallStep

\* Any number of transfers to the same name, under any policy and over any
\* number of failures and restarts, one call or finalisation at a time: a chunk
\* recorded as stored has its bytes in the output.
THEOREM StoredIsOnDisk ==
  ASSUME ~Overlap, EachSplitOnce
  PROVE  Spec => []StoredDataOnDisk
<1>1. SequentialInv => StoredDataOnDisk
  BY DEF SequentialInv, FileInv, RowsStored, StoredDataOnDisk
<1>2. TypeInv /\ SequentialInv /\ [Next]_vars => SequentialInv'
  BY SequentialStep
<1> QED BY <1>1, <1>2, TypeInit, TypeStep, SequentialInit, PTL DEF Spec

\* In the same setting an output recorded as reconstructed has every byte of its
\* transfer and none of another, even where outputs are removed and replaced.
THEOREM FinalizedIsWhole ==
  ASSUME ~Overlap, EachSplitOnce
  PROVE  Spec => []FinalizedWhole
<1>1. SequentialInv => FinalizedWhole
  BY DEF SequentialInv, FileInv, FinalizedWhole
<1>2. TypeInv /\ SequentialInv /\ [Next]_vars => SequentialInv'
  BY SequentialStep
<1> QED BY <1>1, <1>2, TypeInit, TypeStep, SequentialInit, PTL DEF Spec

\* A step changes the record or the content of a published file only under the
\* overwrite policy.
Published == \A f \in Files : rec[f] # NoTid /\ policy # "overwrite"
               => rec'[f] = rec[f] /\ disk'[f] = disk[f]

LEMMA PublishedStep ==
  ASSUME TypeInv, SequentialInv, [Next]_vars
  PROVE  Published
<1>0. TypeOK
  BY DEF TypeInv
<1>1. ASSUME NEW h \in Handlers, CallStep(h), NEW f \in Files, rec[f] # NoTid,
             policy # "overwrite"
      PROVE  rec'[f] = rec[f] /\ disk'[f] = disk[f]
  <2>0. /\ Name(h) \in Files /\ CallInv(h) /\ ~call[h].replace
        /\ pc[h] \notin Undecided => f # Name(h)
    BY <1>0, <1>1 DEF TypeOK, Call, Name, SequentialInv, CallInv
  <2>1. CASE ~Touches(h)
    BY <1>1, <2>1, ReadOnlySteps DEF Touches, durable
  <2>2. CASE Touches(h)
    <3>1. f # Name(h)
      BY <2>0, <2>2
      DEF Touches, DeletePrevious, RemovePrevious, prepareOutputFileForChunk,
          WriteChunk, WriteFails, insertChunk, updateChunkStatus, At, Undecided,
          Idle, Results
    <3> QED
      BY <1>0, <2>0, <2>2, <3>1
      DEF Touches, DeletePrevious, RemovePrevious, prepareOutputFileForChunk,
          WriteChunk, WriteFails, insertChunk, updateChunkStatus, Written, TypeOK
  <2> QED BY <2>1, <2>2
<1>2. ASSUME NEW w \in Workers, WorkerStep(w) \/ FinalizationFails(w)
      PROVE  Published
  BY <1>0, <1>2 DEF WorkerStep, FinalizationFails, StartFinalization, ReadChunks,
              CommitFinalization, ClearStatus, durable, Published, TypeOK
<1>3. ASSUME NEW h \in Handlers, NEW p \in Packets, ReceivePacket(h, p)
      PROVE  Published
  BY <1>3 DEF ReceivePacket, durable, Published
<1>4. Restart \/ UNCHANGED vars => Published
  BY DEF Restart, vars, durable, Published
<1> QED BY <1>1, <1>2, <1>3, <1>4 DEF Next, CallStep, Published

\* In the same setting a published file keeps its record and its content from
\* then on under the policies that say so.
THEOREM PublishedIsKept ==
  ASSUME ~Overlap, EachSplitOnce
  PROVE  Spec => PublishedKept
<1>1. TypeInv /\ SequentialInv /\ [Next]_vars
        => [\A f \in Files : rec[f] # NoTid /\ policy # "overwrite"
              => rec'[f] = rec[f] /\ disk'[f] = disk[f]]_vars
  BY PublishedStep DEF Published
<1>2. TypeInv /\ SequentialInv /\ [Next]_vars => SequentialInv'
  BY SequentialStep
<1> QED BY <1>1, <1>2, TypeInit, TypeStep, SequentialInit, PTL DEF Spec, PublishedKept

-----------------------------------------------------------------------------
(* One transfer, calls and finalisations interleaved: what the mark means. *)

\* All packets belong to one transfer that has one chunk count, and the chunk
\* number decides whether a packet declares it.
OneCount ==
  \A p, q \in Packets : /\ p.tid = q.tid
                        /\ p.num = q.num => p.total = q.total
                        /\ p.total # 0 /\ q.total # 0 => p.total = q.total

\* The rows of a file are finitely many, each as its packet says, and the first
\* of them is still there.
RowsAsSent(f) ==
  /\ IsFiniteSet(rows[f])
  /\ \A r \in rows[f] : \E p \in Packets : p.num = r.num /\ p.total = r.total
  /\ rows[f] # {} => \E r \in rows[f] : r.oldest

Finalised(f) == rec[f] # NoTid

\* What a call may rely on although others run: no output is to be replaced, a
\* partial transfer is reset only when it was finalised meanwhile, and what the
\* call has read of the rows is still so, unless the file was finalised meanwhile.
ReliedOn(h) ==
  /\ ~call[h].replace
  /\ pc[h] \in {"isReconstructed", "reconstructedId", "rowCount", "onDisk"}
       => ~call[h].reset
  /\ pc[h] \in {"reconstructedId", "replace"} \/ call[h].reset => Finalised(Name(h))
  /\ pc[h] = "activeId" => Finalised(Name(h)) \/ rows[Name(h)] # {}
  /\ \/ call[h].known /\ pc[h] \in {"mutex"} \cup InMutex
     \/ pc[h] \in {"update", "total"}
     => Finalised(Name(h)) \/ HasRow(Name(h), Pkt(h).num)
  /\ pc[h] = "count" => /\ call[h].declared # 0
                        /\ \/ Finalised(Name(h))
                           \/ IsMaxTotal(rows[Name(h)], call[h].declared)
  /\ pc[h] = "enqueue" => Finalised(Name(h)) \/ AllChunksIn(Name(h))

MarkInv ==
  /\ \A f \in Files : RowsAsSent(f) /\ (status[f] => Finalised(f) \/ AllChunksIn(f))
  /\ \A h \in Handlers : ReliedOn(h)
  /\ \A w \in Workers : wpc[w] = "commit" => wtid[w] # NoTid

LEMMA MarkInit == Init => MarkInv
<1> SUFFICES ASSUME Init PROVE MarkInv
  OBVIOUS
<1>1. ASSUME NEW f \in Files
      PROVE  RowsAsSent(f) /\ (status[f] => Finalised(f) \/ AllChunksIn(f))
  BY FS_EmptySet DEF Init, RowsAsSent
<1>2. ASSUME NEW h \in Handlers PROVE ReliedOn(h)
  BY DEF Init, ReliedOn, NoCall, NewCall
<1>3. \A w \in Workers : wpc[w] # "commit"
  BY DEF Init
<1> QED BY <1>1, <1>2, <1>3 DEF MarkInv

\* The rows of file f are still there: with their number and count, and
\* unchanged when they were stored.
Kept(f) ==
  \A r \in rows[f] : \E q \in rows'[f] :
    q.num = r.num /\ q.total = r.total /\ (r.success => q = r)

\* What is read of rows that only grow is still so.
LEMMA KeptRows ==
  ASSUME OneCount, NEW f \in Files, RowsAsSent(f), RowsAsSent(f)', Kept(f)
  PROVE  /\ rows[f] # {} => rows'[f] # {}
         /\ \A n : HasRow(f, n) => HasRow(f, n)'
         /\ \A n \in Nat \ {0} : IsMaxTotal(rows[f], n) => IsMaxTotal(rows'[f], n)
         /\ AllChunksIn(f) => AllChunksIn(f)'
<1>1. rows[f] # {} => rows'[f] # {}
  BY DEF Kept
<1>2. \A n : HasRow(f, n) => HasRow(f, n)'
  BY DEF Kept, HasRow
<1>3. ASSUME NEW n \in Nat \ {0}, IsMaxTotal(rows[f], n)
      PROVE  IsMaxTotal(rows'[f], n)
  <2>1. PICK r \in rows[f] : r.total = n
    BY <1>3 DEF IsMaxTotal
  <2>2. PICK p \in Packets : p.total = n
    BY <2>1 DEF RowsAsSent
  <2>3. PICK q \in rows'[f] : q.total = n
    BY <2>1 DEF Kept
  <2>4. ASSUME NEW z \in rows'[f] PROVE z.total <= n
    <3>1. PICK u \in Packets : u.total = z.total
      BY DEF RowsAsSent
    <3>2. u.total \in Nat
      BY PacketsAssumption
    <3>3. u.total = 0 \/ u.total = n
      BY <2>2 DEF OneCount
    <3> QED BY <3>1, <3>2, <3>3
  <2> QED BY <2>3, <2>4 DEF IsMaxTotal
<1>4. ASSUME AllChunksIn(f) PROVE AllChunksIn(f)'
  <2>1. PICK n \in Totals \ {0} : /\ IsMaxTotal(rows[f], n)
                                  /\ Cardinality(getChunksForFile(f)) >= n
    BY <1>4 DEF AllChunksIn
  <2>2. n \in Nat \ {0}
    BY PacketsAssumption DEF Totals
  <2>3. getChunksForFile(f) \subseteq getChunksForFile(f)'
    BY DEF Kept, getChunksForFile
  <2>4. IsFiniteSet(getChunksForFile(f)')
    <3>1. getChunksForFile(f)' \subseteq rows'[f] /\ IsFiniteSet(rows'[f])
      BY DEF getChunksForFile, RowsAsSent
    <3> QED BY <3>1, FS_Subset
  <2>5. /\ IsFiniteSet(getChunksForFile(f))
        /\ Cardinality(getChunksForFile(f)) <= Cardinality(getChunksForFile(f)')
    BY <2>3, <2>4, FS_Subset
  <2>6. /\ Cardinality(getChunksForFile(f)) \in Nat
        /\ Cardinality(getChunksForFile(f)') \in Nat
    BY <2>4, <2>5, FS_CardinalityType
  <2>7. Cardinality(getChunksForFile(f)') >= n
    BY <2>1, <2>2, <2>5, <2>6
  <2>8. IsMaxTotal(rows'[f], n)
    BY <1>3, <2>1, <2>2
  <2> QED BY <2>7, <2>8 DEF AllChunksIn, IsMaxTotal
<1> QED BY <1>1, <1>2, <1>3, <1>4

LEMMA KeptSame ==
  ASSUME NEW f \in Files, RowsAsSent(f), rows'[f] = rows[f]
  PROVE  RowsAsSent(f)' /\ Kept(f)
  BY DEF RowsAsSent, Kept

\* Every step keeps a file's record, and its rows unless it has a record then.
LEMMA MarkRows ==
  ASSUME TypeInv, OneCount, MarkInv, [Next]_vars, NEW f \in Files
  PROVE  /\ RowsAsSent(f)'
         /\ Finalised(f) => Finalised(f)'
         /\ Finalised(f)' \/ Kept(f)
<1>0. /\ TypeOK /\ RowsAsSent(f) /\ rows \in [Files -> SUBSET Row]
      /\ rec \in [Files -> TransferIds \cup {NoTid}]
  BY DEF TypeInv, TypeOK, MarkInv
<1>1. CASE rows'[f] = rows[f] /\ rec'[f] = rec[f]
  BY <1>0, <1>1, KeptSame DEF Finalised
<1>2. ASSUME rows'[f] = {} PROVE RowsAsSent(f)'
  BY <1>2, FS_EmptySet DEF RowsAsSent
<1>3. ASSUME NEW h \in Handlers, CallStep(h), ~(rows'[f] = rows[f] /\ rec'[f] = rec[f])
      PROVE  /\ RowsAsSent(f)'
             /\ Finalised(f) => Finalised(f)'
             /\ Finalised(f)' \/ Kept(f)
  <2>0. Name(h) \in Files /\ Pkt(h) \in Packets /\ ReliedOn(h)
    BY <1>0 DEF TypeOK, Call, Name, Pkt, MarkInv
  <2>1. DeletePrevious(h) \/ insertChunk(h) \/ updateChunkStatus(h)
    BY <1>3, ReadOnlySteps
    DEF durable, RemovePrevious, prepareOutputFileForChunk, WriteChunk, WriteFails
  <2>2. CASE DeletePrevious(h)
    <3>1. rec' = rec /\ (f = Name(h) => Finalised(f))
      BY <2>0, <2>2 DEF DeletePrevious, ReliedOn, At
    <3>2. f = Name(h) /\ rows'[f] = {}
      BY <1>0, <1>3, <2>0, <2>2, <3>1 DEF DeletePrevious
    <3> QED BY <1>2, <3>1, <3>2 DEF Finalised
  <2>3. CASE insertChunk(h)
    <3> DEFINE new == [num |-> Pkt(h).num, tid |-> Pkt(h).tid,
                       total |-> Pkt(h).total, success |-> FALSE,
                       oldest |-> rows[Name(h)] = {}]
    <3>1. /\ rec' = rec
          /\ rows' = [rows EXCEPT ![Name(h)] = rows[Name(h)] \cup {new}]
      BY <1>3, <2>3 DEF insertChunk
    <3>2. /\ new.num = Pkt(h).num /\ new.total = Pkt(h).total
          /\ rows[Name(h)] = {} => new.oldest
      OBVIOUS
    <3> HIDE DEF new
    <3>3. f = Name(h) /\ rows'[f] = rows[f] \cup {new}
      BY <1>0, <1>3, <2>0, <3>1
    <3>4. IsFiniteSet(rows'[f])
      BY <1>0, <3>3, FS_AddElement DEF RowsAsSent
    <3>5. RowsAsSent(f)' /\ Kept(f)
      BY <1>0, <2>0, <3>2, <3>3, <3>4 DEF RowsAsSent, Kept
    <3> QED BY <3>1, <3>5 DEF Finalised
  <2>4. CASE updateChunkStatus(h)
    <3> DEFINE U(r) == IF r.num = Pkt(h).num THEN [r EXCEPT !.success = TRUE] ELSE r
    <3>1. /\ rec' = rec
          /\ rows' = [rows EXCEPT ![Name(h)] = {U(r) : r \in rows[Name(h)]}]
      BY <2>4 DEF updateChunkStatus
    <3>2. \A r \in Row : /\ U(r).num = r.num /\ U(r).total = r.total
                         /\ U(r).oldest = r.oldest
                         /\ r.success => U(r) = r
      BY DEF Row
    <3>3. f = Name(h) /\ rows'[f] = {U(r) : r \in rows[f]} /\ rows[f] \subseteq Row
      BY <1>0, <1>3, <2>0, <3>1
    <3>4. IsFiniteSet(rows'[f])
      <4> HIDE DEF U
      <4> DEFINE F == [r \in rows[f] |-> U(r)]
      <4>1. /\ F \in [rows[f] -> rows'[f]]
            /\ \A z \in rows'[f] : \E r \in rows[f] : F[r] = z
        BY <3>3
      <4>2. F \in Surjection(rows[f], rows'[f])
        BY <4>1 DEF Surjection
      <4> QED BY <1>0, <4>2, FS_Surjection DEF RowsAsSent
    <3> HIDE DEF U
    <3>5. Kept(f)
      BY <3>2, <3>3 DEF Kept
    <3>6. RowsAsSent(f)'
      BY <1>0, <3>2, <3>3, <3>4 DEF RowsAsSent
    <3> QED BY <3>1, <3>5, <3>6 DEF Finalised
  <2> QED BY <2>1, <2>2, <2>3, <2>4
<1>4. ASSUME NEW w \in Workers, WorkerStep(w) \/ FinalizationFails(w),
             ~(rows'[f] = rows[f] /\ rec'[f] = rec[f])
      PROVE  RowsAsSent(f)' /\ Finalised(f)'
  <2>1. CommitFinalization(w)
    BY <1>4 DEF WorkerStep, FinalizationFails, StartFinalization, ReadChunks,
                ClearStatus, durable
  <2>2. f = wname[w] /\ rows'[f] = {} /\ rec'[f] # NoTid
    BY <1>0, <1>4, <2>1 DEF CommitFinalization, MarkInv, TypeOK
  <2> QED BY <1>2, <2>2 DEF Finalised
<1>5. ASSUME NEW h \in Handlers, NEW p \in Packets, ReceivePacket(h, p)
      PROVE  rows' = rows /\ rec' = rec
  BY <1>5 DEF ReceivePacket, durable
<1>6. Restart \/ UNCHANGED vars => rows' = rows /\ rec' = rec
  BY DEF Restart, vars, durable
<1> QED BY <1>1, <1>3, <1>4, <1>5, <1>6 DEF Next, CallStep

\* So what a call relies on of a file it has read stays so, whoever moves.
LEMMA MarkPersists ==
  ASSUME TypeInv, OneCount, MarkInv, [Next]_vars, NEW f \in Files
  PROVE  /\ Finalised(f) => Finalised(f)'
         /\ Finalised(f) \/ rows[f] # {} => Finalised(f)' \/ rows'[f] # {}
         /\ \A n : Finalised(f) \/ HasRow(f, n) => Finalised(f)' \/ HasRow(f, n)'
         /\ \A n \in Nat \ {0} : Finalised(f) \/ IsMaxTotal(rows[f], n)
                                 => Finalised(f)' \/ IsMaxTotal(rows'[f], n)
         /\ Finalised(f) \/ AllChunksIn(f) => Finalised(f)' \/ AllChunksIn(f)'
<1>1. /\ RowsAsSent(f) /\ RowsAsSent(f)'
      /\ Finalised(f) => Finalised(f)'
      /\ Finalised(f)' \/ Kept(f)
  BY MarkRows DEF MarkInv
<1>2. CASE Finalised(f)'
  BY <1>2
<1>3. CASE Kept(f)
  BY <1>1, <1>3, KeptRows
<1> QED BY <1>1, <1>2, <1>3

\* A call that does not move keeps what it relies on.
LEMMA MarkOther ==
  ASSUME TypeInv, OneCount, MarkInv, [Next]_vars,
         NEW g \in Handlers, pc'[g] = pc[g], call'[g] = call[g]
  PROVE  ReliedOn(g)'
<1>0. /\ ReliedOn(g) /\ Name(g) \in Files /\ Name(g)' = Name(g) /\ Pkt(g)' = Pkt(g)
      /\ call[g].declared \in Nat
  BY PacketsAssumption DEF TypeInv, TypeOK, Call, Name, Pkt, MarkInv, Totals
<1>1. PICK f \in Files : f = Name(g)
  BY <1>0
<1>2. PICK n : n = Pkt(g).num
  OBVIOUS
<1>3. PICK d \in Nat : d = call[g].declared
  BY <1>0
<1>4. /\ Finalised(f) => Finalised(f)'
      /\ Finalised(f) \/ rows[f] # {} => Finalised(f)' \/ rows'[f] # {}
      /\ Finalised(f) \/ HasRow(f, n) => Finalised(f)' \/ HasRow(f, n)'
      /\ d # 0 => (Finalised(f) \/ IsMaxTotal(rows[f], d)
                     => Finalised(f)' \/ IsMaxTotal(rows'[f], d))
      /\ Finalised(f) \/ AllChunksIn(f) => Finalised(f)' \/ AllChunksIn(f)'
  BY MarkPersists
<1>5. /\ Finalised(Name(g)) = Finalised(f) /\ Finalised(Name(g))' = Finalised(f)'
      /\ HasRow(Name(g), Pkt(g).num) = HasRow(f, n)
      /\ HasRow(Name(g), Pkt(g).num)' = HasRow(f, n)'
      /\ AllChunksIn(Name(g)) = AllChunksIn(f)
      /\ AllChunksIn(Name(g))' = AllChunksIn(f)'
      /\ IsMaxTotal(rows[Name(g)], call[g].declared) = IsMaxTotal(rows[f], d)
      /\ IsMaxTotal(rows[Name(g)], call[g].declared)' = IsMaxTotal(rows'[f], d)
  BY <1>0, <1>1, <1>2, <1>3
  DEF Finalised, HasRow, AllChunksIn, getChunksForFile, IsMaxTotal
<1> QED
  BY <1>0, <1>1, <1>3, <1>4, <1>5 DEF ReliedOn

\* A call that moves relies only on what it has read.
LEMMA MarkCall ==
  ASSUME TypeInv, OneCount, MarkInv, NEW h \in Handlers, CallStep(h)
  PROVE  ReliedOn(h)'
<1> USE DEF At
<1>0. /\ TypeOK /\ ReliedOn(h) /\ call[h] \in Call /\ Pkt(h) \in Packets
      /\ Name(h) \in Files /\ [Next]_vars
      /\ pc \in [Handlers -> PCs] /\ call \in [Handlers -> Call]
  BY DEF TypeInv, TypeOK, Call, Pkt, Name, MarkInv, CallStep, Next
<1>1. PICK f \in Files : f = Name(h)
  BY <1>0
<1>2. PICK n : n = Pkt(h).num
  OBVIOUS
<1>3. /\ Finalised(f) => Finalised(f)'
      /\ Finalised(f) \/ rows[f] # {} => Finalised(f)' \/ rows'[f] # {}
      /\ Finalised(f) \/ HasRow(f, n) => Finalised(f)' \/ HasRow(f, n)'
      /\ Finalised(f) \/ AllChunksIn(f) => Finalised(f)' \/ AllChunksIn(f)'
      /\ RowsAsSent(f)
  BY <1>0, MarkPersists DEF MarkInv
<1>4. /\ ~call[h].replace
      /\ pc[h] \in {"isReconstructed", "reconstructedId", "rowCount", "onDisk"}
           => ~call[h].reset
      /\ pc[h] \in {"reconstructedId", "replace"} \/ call[h].reset => Finalised(f)
      /\ pc[h] = "activeId" => Finalised(f) \/ rows[f] # {}
      /\ \/ call[h].known /\ pc[h] \in {"mutex"} \cup InMutex
         \/ pc[h] \in {"update", "total"}
         => Finalised(f) \/ HasRow(f, n)
      /\ pc[h] = "count" => /\ call[h].declared # 0
                            /\ Finalised(f) \/ IsMaxTotal(rows[f], call[h].declared)
      /\ pc[h] = "enqueue" => Finalised(f) \/ AllChunksIn(f)
  BY <1>0, <1>1, <1>2 DEF ReliedOn
<1>5. ASSUME Name(h)' = f, Pkt(h)' = Pkt(h), ~call'[h].replace,
             pc'[h] \in {"isReconstructed", "reconstructedId", "rowCount", "onDisk"}
               => ~call'[h].reset,
             pc'[h] \in {"reconstructedId", "replace"} \/ call'[h].reset => Finalised(f)',
             pc'[h] = "activeId" => Finalised(f)' \/ rows'[f] # {},
             \/ call'[h].known /\ pc'[h] \in {"mutex"} \cup InMutex
             \/ pc'[h] \in {"update", "total"}
             => Finalised(f)' \/ HasRow(f, n)',
             pc'[h] = "count" =>
               /\ call'[h].declared # 0
               /\ Finalised(f)' \/ IsMaxTotal(rows'[f], call'[h].declared),
             pc'[h] = "enqueue" => Finalised(f)' \/ AllChunksIn(f)'
      PROVE  ReliedOn(h)'
  <2>1. /\ Finalised(Name(h))' = Finalised(f)'
        /\ HasRow(Name(h), Pkt(h).num)' = HasRow(f, n)'
        /\ AllChunksIn(Name(h))' = AllChunksIn(f)'
        /\ IsMaxTotal(rows[Name(h)], call[h].declared)'
             = IsMaxTotal(rows'[f], call'[h].declared)
    BY <1>2, <1>5
    DEF Finalised, HasRow, AllChunksIn, getChunksForFile, IsMaxTotal
  <2> QED BY <1>5, <2>1 DEF ReliedOn
<1>6. ASSUME NEW r \in Results, Return(h, r)
      PROVE  ReliedOn(h)'
  <2>1. pc'[h] \in Results /\ call'[h] = NoCall
    BY <1>0, <1>6, ReturnLemma
  <2>2. ~call'[h].replace /\ ~call'[h].reset /\ ~call'[h].known
    BY <2>1 DEF NoCall, NewCall
  <2> QED BY <2>1, <2>2 DEF ReliedOn, Results
<1>7. ASSUME NEW l \in PCs, Continue(h, l)
      PROVE  /\ pc'[h] = l /\ call'[h] = call[h] /\ Name(h)' = f /\ Pkt(h)' = Pkt(h)
             /\ ~call'[h].replace
             /\ call'[h].reset => Finalised(f)'
  BY <1>0, <1>1, <1>3, <1>4, <1>7, ContinueLemma DEF Name, Pkt
<1>8. CASE isFileReconstructed(h)
  <2>1. rec' = rec /\ ~call[h].reset
    BY <1>4, <1>8 DEF isFileReconstructed, durable
  <2>2. CASE rec[f] = NoTid
    BY <1>0, <1>1, <1>5, <1>7, <1>8, <2>1, <2>2, Points DEF isFileReconstructed
  <2>3. CASE rec[f] # NoTid
    BY <1>0, <1>1, <1>5, <1>7, <1>8, <2>1, <2>3, Points
    DEF isFileReconstructed, Finalised
  <2> QED BY <2>2, <2>3
<1>9. CASE getReconstructedTransferId(h)
  <2>1. rec[f] \in TransferIds
    BY <1>0, <1>4, <1>9 DEF getReconstructedTransferId, Finalised, TypeOK
  <2>2. rec[f] = Pkt(h).tid
    BY <1>0, <2>1 DEF OneCount, TransferIds
  <2> QED BY <1>1, <1>6, <1>9, <2>2 DEF getReconstructedTransferId, Results
<1>10. CASE getChunkRowCount(h)
  <2>1. rows' = rows /\ ~call[h].reset
    BY <1>4, <1>10 DEF getChunkRowCount, durable
  <2>2. CASE rows[f] # {}
    BY <1>0, <1>1, <1>5, <1>7, <1>10, <2>1, <2>2, Points DEF getChunkRowCount
  <2>3. CASE rows[f] = {}
    BY <1>0, <1>1, <1>4, <1>5, <1>7, <1>10, <2>1, <2>3, Points DEF getChunkRowCount
  <2> QED BY <2>2, <2>3
<1>11. CASE CheckActiveTransfer(h)
  <2>0. pc[h] = "activeId"
    BY <1>11 DEF CheckActiveTransfer
  <2>1. CASE Return(h, "Failed")
    BY <1>6, <2>1 DEF Results
  <2>2. CASE Continue(h, "status")
    BY <1>5, <1>7, <2>2, Points
  <2>3. CASE /\ getActiveTransferId(f) # Pkt(h).tid
             /\ Goto(h, "status") /\ Set(h, [call[h] EXCEPT !.reset = TRUE])
    <3>1. /\ pc'[h] = "status" /\ call'[h] = [call[h] EXCEPT !.reset = TRUE]
      BY <1>0, <2>3, CallUpdates, SetLemma, Points
    <3>2. Name(h)' = f /\ Pkt(h)' = Pkt(h) /\ ~call'[h].replace
      BY <1>0, <1>1, <1>4, <3>1 DEF Call, Name, Pkt
    <3>3. rows[f] = {}
      <4>1. SUFFICES ASSUME rows[f] # {} PROVE FALSE
        OBVIOUS
      <4>2. (CHOOSE r \in rows[f] : r.oldest) \in rows[f]
        BY <1>3, <4>1 DEF RowsAsSent
      <4>3. (CHOOSE r \in rows[f] : r.oldest).tid \in TransferIds
        BY <1>0, <4>2 DEF TypeOK, Row
      <4>4. getActiveTransferId(f) \in TransferIds
        BY <4>1, <4>3 DEF getActiveTransferId
      <4> QED BY <1>0, <2>3, <4>4 DEF OneCount, TransferIds
    <3>4. Finalised(f)'
      BY <1>3, <1>4, <2>0, <3>3
    <3> QED BY <1>5, <3>1, <3>2, <3>4, Points
  <2> QED BY <1>1, <1>11, <2>1, <2>2, <2>3 DEF CheckActiveTransfer
<1>12. CASE CheckOnDisk(h)
  <2>1. CASE Return(h, "AlreadyCompleted")
    BY <1>6, <2>1 DEF Results
  <2>2. CASE Continue(h, "status")
    BY <1>5, <1>7, <2>2, Points
  <2>3. CASE SwitchToVersioned(h, "status")
    <3>1. /\ pc'[h] = "status"
          /\ call'[h] = [call[h] EXCEPT !.name = nextVersion + 1, !.redirected = TRUE]
      BY <1>0, <2>3 DEF SwitchToVersioned, Goto, Set
    <3>2. ~call'[h].replace /\ ~call'[h].reset
      BY <1>0, <1>4, <1>12, <3>1 DEF Call, CheckOnDisk
    <3> QED BY <3>1, <3>2, Points DEF ReliedOn
  <2> QED BY <1>12, <2>1, <2>2, <2>3 DEF CheckOnDisk
<1>13. CASE CheckStatus(h)
  <2>1. CASE Return(h, "AlreadyCompleted")
    BY <1>6, <2>1 DEF Results
  <2>2. CASE call[h].reset /\ Continue(h, "mutex")
    BY <1>5, <1>7, <2>2, Points
  <2>3. CASE Continue(h, "isSuccessful")
    BY <1>5, <1>7, <2>3, Points
  <2> QED BY <1>13, <2>1, <2>2, <2>3 DEF CheckStatus
<1>14. CASE CheckSuccessful(h)
  <2>1. CASE Return(h, "Stored")
    BY <1>6, <2>1 DEF Results
  <2>2. CASE Continue(h, "isKnown")
    BY <1>5, <1>7, <2>2, Points
  <2> QED BY <1>14, <2>1, <2>2 DEF CheckSuccessful
<1>15. CASE getChunkStatus(h)
  <2>1. HasRow(f, n) \in BOOLEAN /\ rows' = rows
    BY <1>15 DEF HasRow, getChunkStatus, durable
  <2>2. [call[h] EXCEPT !.known = HasRow(f, n)] \in Call
    BY <1>0, <2>1, CallUpdates
  <2>3. pc'[h] = "mutex" /\ call'[h] = [call[h] EXCEPT !.known = HasRow(f, n)]
    BY <1>0, <1>1, <1>2, <1>15, <2>2, SetLemma, Points DEF getChunkStatus
  <2>4. /\ Name(h)' = f /\ Pkt(h)' = Pkt(h) /\ ~call'[h].replace
        /\ call'[h].reset = call[h].reset /\ call'[h].known = HasRow(f, n)
    BY <1>0, <1>1, <1>4, <2>3 DEF Call, Name, Pkt
  <2>5. HasRow(f, n)' = HasRow(f, n)
    BY <2>1 DEF HasRow
  <2> QED BY <1>3, <1>4, <1>5, <2>3, <2>4, <2>5
<1>16. CASE AcquireFileMutex(h)
  <2>1. CASE call[h].reset /\ Continue(h, "replace")
    BY <1>5, <1>7, <2>1, Points
  <2>2. CASE Continue(h, "prepare")
    BY <1>3, <1>4, <1>5, <1>7, <1>16, <2>2, Points DEF AcquireFileMutex
  <2> QED BY <1>4, <1>16, <2>1, <2>2 DEF AcquireFileMutex
<1>17. CASE DeletePrevious(h)
  BY <1>3, <1>4, <1>5, <1>7, <1>17, Points DEF DeletePrevious
<1>18. CASE EraseStatus(h)
  BY <1>3, <1>4, <1>5, <1>7, <1>18, Points DEF EraseStatus
<1>19. CASE RemovePrevious(h)
  BY <1>3, <1>4, <1>5, <1>7, <1>19, Points DEF RemovePrevious
<1>20. CASE prepareOutputFileForChunk(h)
  BY <1>3, <1>4, <1>5, <1>7, <1>20, Points DEF prepareOutputFileForChunk
<1>21. CASE WriteChunk(h)
  <2>1. CASE call[h].known /\ Continue(h, "update")
    BY <1>3, <1>4, <1>5, <1>7, <1>21, <2>1, Points DEF WriteChunk
  <2>2. CASE Continue(h, "recheck")
    BY <1>5, <1>7, <2>2, Points
  <2> QED BY <1>21, <2>1, <2>2 DEF WriteChunk
<1>22. CASE RecheckRow(h)
  <2>1. CASE HasRow(f, n) /\ Continue(h, "update")
    BY <1>3, <1>5, <1>7, <2>1, Points
  <2>2. CASE Continue(h, "insert")
    BY <1>5, <1>7, <2>2, Points
  <2> QED BY <1>1, <1>2, <1>22, <2>1, <2>2 DEF RecheckRow
<1>23. CASE insertChunk(h)
  <2>1. CASE Return(h, "Failed")
    BY <1>6, <2>1 DEF Results
  <2>2. CASE ~HasRow(f, n)
    <3> DEFINE new == [num |-> Pkt(h).num, tid |-> Pkt(h).tid,
                       total |-> Pkt(h).total, success |-> FALSE,
                       oldest |-> rows[Name(h)] = {}]
    <3>1. /\ rows' = [rows EXCEPT ![f] = rows[f] \cup {new}]
          /\ Continue(h, "update")
      BY <1>1, <1>2, <1>23, <2>2 DEF insertChunk
    <3>2. new \in rows'[f] /\ new.num = n
      BY <1>0, <1>1, <1>2, <3>1 DEF TypeOK
    <3>3. HasRow(f, n)'
      BY <3>2 DEF HasRow
    <3> QED BY <1>5, <1>7, <3>1, <3>3, Points
  <2> QED BY <1>1, <1>2, <1>23, <2>1, <2>2 DEF insertChunk
<1>24. CASE updateChunkStatus(h)
  BY <1>3, <1>4, <1>5, <1>7, <1>24, Points DEF updateChunkStatus
<1>25. CASE getTotalChunkCount(h)
  <2>1. PICK total \in Totals :
          /\ IF Pkt(h).total > 0 THEN total = Pkt(h).total
                                 ELSE IsMaxTotal(rows[f], total)
          /\ IF total = 0
             THEN Return(h, "Stored")
             ELSE Goto(h, "count") /\ Set(h, [call[h] EXCEPT !.declared = total])
    BY <1>1, <1>25 DEF getTotalChunkCount
  <2>2. CASE total = 0
    BY <1>6, <2>1, <2>2 DEF Results
  <2>3. CASE total # 0
    <3>1. pc'[h] = "count" /\ call'[h] = [call[h] EXCEPT !.declared = total]
      BY <1>0, <2>1, <2>3, CallUpdates, SetLemma, Points
    <3>2. /\ Name(h)' = f /\ Pkt(h)' = Pkt(h) /\ ~call'[h].replace
          /\ call'[h].reset = call[h].reset /\ call'[h].declared = total
      BY <1>0, <1>1, <1>4, <3>1 DEF Call, Name, Pkt
    <3>3. Finalised(f) \/ IsMaxTotal(rows[f], total)
      <4>1. CASE Finalised(f) \/ ~(Pkt(h).total > 0)
        BY <2>1, <4>1
      <4>2. CASE ~Finalised(f) /\ Pkt(h).total > 0
        <5>1. total = Pkt(h).total /\ total \in Nat
          BY <1>0, <2>1, <4>2, PacketsAssumption
        <5>2. PICK r \in rows[f] : r.num = n
          BY <1>4, <1>25, <4>2 DEF getTotalChunkCount, HasRow
        <5>3. PICK p \in Packets : p.num = r.num /\ p.total = r.total
          BY <1>3, <5>2 DEF RowsAsSent
        <5>4. r.total = total
          BY <1>0, <1>2, <5>1, <5>2, <5>3 DEF OneCount
        <5>5. ASSUME NEW z \in rows[f] PROVE z.total <= total
          <6>1. PICK q \in Packets : q.total = z.total
            BY <1>3 DEF RowsAsSent
          <6>2. q.total \in Nat /\ (q.total = 0 \/ q.total = total)
            BY <1>0, <2>3, <5>1, PacketsAssumption DEF OneCount
          <6> QED BY <5>1, <6>1, <6>2
        <5> QED BY <5>2, <5>4, <5>5 DEF IsMaxTotal
      <4> QED BY <4>1, <4>2
    <3>4. rows' = rows
      BY <1>25 DEF getTotalChunkCount, durable
    <3> QED BY <1>3, <1>4, <1>5, <2>3, <3>1, <3>2, <3>3, <3>4, Points
  <2> QED BY <2>2, <2>3
<1>26. CASE CountChunks(h)
  <2>1. CASE Return(h, "Stored")
    BY <1>6, <2>1 DEF Results
  <2>2. CASE /\ ~(Cardinality(getChunksForFile(f)) < call[h].declared)
             /\ Continue(h, "enqueue")
    <3>1. Finalised(f) \/ AllChunksIn(f)
      <4> SUFFICES ASSUME ~Finalised(f) PROVE AllChunksIn(f)
        OBVIOUS
      <4>1. /\ call[h].declared \in Totals \ {0} /\ call[h].declared \in Nat
            /\ IsMaxTotal(rows[f], call[h].declared)
        BY <1>0, <1>4, <1>26, PacketsAssumption DEF CountChunks, Call, Totals
      <4>2. getChunksForFile(f) \subseteq rows[f] /\ IsFiniteSet(rows[f])
        BY <1>3 DEF getChunksForFile, RowsAsSent
      <4>3. Cardinality(getChunksForFile(f)) \in Nat
        BY <4>2, FS_Subset, FS_CardinalityType
      <4>4. Cardinality(getChunksForFile(f)) >= call[h].declared
        BY <2>2, <4>1, <4>3
      <4> QED BY <4>1, <4>4 DEF AllChunksIn
    <3> QED BY <1>3, <1>5, <1>7, <2>2, <3>1, Points
  <2> QED BY <1>1, <1>26, <2>1, <2>2 DEF CountChunks
<1>27. CASE EnqueueFinalization(h)
  <2>1. CASE Return(h, "JustCompleted")
    BY <1>6, <2>1 DEF Results
  <2>2. CASE Continue(h, "unversion")
    BY <1>5, <1>7, <2>2, Points
  <2> QED BY <1>27, <2>1, <2>2 DEF EnqueueFinalization
<1>28. CASE ForgetVersion(h) \/ HandlerFails(h) \/ WriteFails(h)
  BY <1>6, <1>28 DEF ForgetVersion, HandlerFails, WriteFails, Results
<1> QED
  BY <1>8, <1>9, <1>10, <1>11, <1>12, <1>13, <1>14, <1>15, <1>16, <1>17, <1>18,
     <1>19, <1>20, <1>21, <1>22, <1>23, <1>24, <1>25, <1>26, <1>27, <1>28
  DEF CallStep, HandlerStep

\* A mark is set only for a file whose chunks are all recorded, or that has its
\* record.
LEMMA MarkStatus ==
  ASSUME TypeInv, OneCount, MarkInv, [Next]_vars, NEW f \in Files, status'[f]
  PROVE  Finalised(f)' \/ AllChunksIn(f)'
<1>0. TypeOK /\ status \in [Files -> BOOLEAN]
  BY DEF TypeInv, TypeOK
<1>1. CASE Finalised(f) \/ AllChunksIn(f)
  BY <1>1, MarkPersists
<1>2. CASE status[f]
  BY <1>1, <1>2 DEF MarkInv
<1>3. ASSUME NEW h \in Handlers, CallStep(h)
      PROVE  Finalised(f)' \/ AllChunksIn(f)'
  <2>1. CASE EnqueueFinalization(h)
    <3>1. f = Name(h) \/ status'[f] = status[f]
      BY <1>0, <2>1 DEF EnqueueFinalization
    <3>2. f = Name(h) => Finalised(f) \/ AllChunksIn(f)
      BY <2>1 DEF EnqueueFinalization, At, MarkInv, ReliedOn
    <3> QED BY <1>1, <1>2, <3>1, <3>2
  <2>2. CASE EraseStatus(h)
    BY <1>0, <1>2, <2>2 DEF EraseStatus
  <2>3. CASE ~EnqueueFinalization(h) /\ ~EraseStatus(h)
    <3>1. status' = status
      BY <1>3, <2>3
      DEF CallStep, HandlerStep, HandlerFails, WriteFails, isFileReconstructed,
          getReconstructedTransferId, getChunkRowCount, CheckActiveTransfer,
          CheckOnDisk, CheckStatus, CheckSuccessful, getChunkStatus,
          AcquireFileMutex, DeletePrevious, RemovePrevious,
          prepareOutputFileForChunk, WriteChunk, RecheckRow, insertChunk,
          updateChunkStatus, getTotalChunkCount, CountChunks, ForgetVersion,
          SwitchToVersioned, memory
    <3> QED BY <1>2, <3>1
  <2> QED BY <2>1, <2>2, <2>3
<1>4. ASSUME NEW h \in Handlers, NEW p \in Packets, ReceivePacket(h, p)
      PROVE  status' = status
  BY <1>4 DEF ReceivePacket, memory
<1>5. ASSUME NEW w \in Workers, WorkerStep(w) \/ FinalizationFails(w)
      PROVE  status[f]
  BY <1>0, <1>5 DEF WorkerStep, FinalizationFails, StartFinalization, ReadChunks,
                    CommitFinalization, ClearStatus, memory
<1>6. CASE Restart
  <2>1. rec[f] = NoTid /\ AllChunksIn(f)
    BY <1>6 DEF Restart, loadPendingCounters
  <2> QED BY <1>1, <2>1
<1>7. CASE UNCHANGED vars
  BY <1>2, <1>7 DEF vars, memory
<1> QED BY <1>2, <1>3, <1>4, <1>5, <1>6, <1>7 DEF Next, CallStep

LEMMA MarkStep ==
  ASSUME OneCount
  PROVE  TypeInv /\ MarkInv /\ [Next]_vars => MarkInv'
<1> SUFFICES ASSUME TypeInv, MarkInv, [Next]_vars PROVE MarkInv'
  OBVIOUS
<1>0. TypeOK
  BY DEF TypeInv
<1>1. ASSUME NEW f \in Files
      PROVE  RowsAsSent(f)' /\ (status'[f] => Finalised(f)' \/ AllChunksIn(f)')
  BY MarkRows, MarkStatus
<1>2. ASSUME NEW g \in Handlers PROVE ReliedOn(g)'
  <2>1. ASSUME NEW h \in Handlers, CallStep(h) PROVE ReliedOn(g)'
    <3>1. CASE g = h
      BY <2>1, <3>1, MarkCall
    <3>2. CASE g # h
      <4>1. pc'[g] = pc[g] /\ call'[g] = call[g]
        BY <1>0, <2>1, <3>2, CallOutcome DEF Moves
      <4> QED BY <4>1, MarkOther
    <3> QED BY <3>1, <3>2
  <2>2. ASSUME NEW h \in Handlers, NEW p \in Packets, ReceivePacket(h, p)
        PROVE  ReliedOn(g)'
    <3>1. NewCall(p, 0) \in Call /\ NewCall(p, versioned) \in Call
      BY <1>0, EnvironmentAssumption DEF NewCall, Call, Totals, TypeOK, Files
    <3>2. /\ Moves(h) /\ pc'[h] = "isReconstructed"
          /\ call'[h] \in {NewCall(p, 0), NewCall(p, versioned)}
      BY <1>0, <2>2, <3>1, SetLemma, Points DEF ReceivePacket
    <3>3. CASE g = h
      <4>1. ~call'[g].replace /\ ~call'[g].reset /\ ~call'[g].known
        BY <3>2, <3>3 DEF NewCall
      <4> QED BY <3>2, <3>3, <4>1 DEF ReliedOn
    <3>4. CASE g # h
      BY <3>2, <3>4, MarkOther DEF Moves
    <3> QED BY <3>3, <3>4
  <2>3. ASSUME UNCHANGED <<pc, call>> PROVE ReliedOn(g)'
    BY <2>3, MarkOther
  <2>4. ASSUME NEW w \in Workers, WorkerStep(w) \/ FinalizationFails(w)
        PROVE  UNCHANGED <<pc, call>>
    BY <2>4 DEF WorkerStep, FinalizationFails, StartFinalization, ReadChunks,
                CommitFinalization, ClearStatus
  <2>5. CASE Restart
    <3>1. pc'[g] = "ready" /\ call'[g] = NoCall
      BY <2>5 DEF Restart
    <3>2. ~call'[g].replace /\ ~call'[g].reset /\ ~call'[g].known
      BY <3>1 DEF NoCall, NewCall
    <3> QED BY <3>1, <3>2 DEF ReliedOn
  <2>6. UNCHANGED vars => UNCHANGED <<pc, call>>
    BY DEF vars
  <2> QED BY <2>1, <2>2, <2>3, <2>4, <2>5, <2>6 DEF Next, CallStep
<1>3. ASSUME NEW v \in Workers, wpc'[v] = "commit" PROVE wtid'[v] # NoTid
  <2>1. CASE wpc[v] = "commit" /\ wtid'[v] = wtid[v]
    BY <2>1 DEF MarkInv
  <2>2. ASSUME NEW w \in Workers, WorkerStep(w) \/ FinalizationFails(w)
        PROVE  wtid'[v] # NoTid
    <3>1. CASE ReadChunks(w)
      <4>1. CASE v = w
        <5>1. PICK r \in getChunksForFile(wname[w]) : wtid'[w] = r.tid
          BY <1>0, <1>3, <3>1, <4>1 DEF ReadChunks, WDone, WGoto, TypeOK
        <5>2. r.tid \in TransferIds
          BY <1>0 DEF getChunksForFile, TypeOK, Row
        <5> QED BY <4>1, <5>1, <5>2, PacketsAssumption
      <4>2. CASE v # w
        BY <1>0, <1>3, <2>1, <3>1, <4>2 DEF ReadChunks, WDone, WGoto, TypeOK
      <4> QED BY <4>1, <4>2
    <3>2. CASE ~ReadChunks(w)
      BY <1>0, <1>3, <2>1, <2>2, <3>2
      DEF WorkerStep, FinalizationFails, StartFinalization, CommitFinalization,
          ClearStatus, WDone, WGoto, TypeOK
    <3> QED BY <3>1, <3>2
  <2>3. ASSUME NEW h \in Handlers, CallStep(h) PROVE UNCHANGED <<wpc, wtid>>
    BY <2>3, ReadOnlySteps DEF worker
  <2>4. ASSUME NEW h \in Handlers, NEW p \in Packets, ReceivePacket(h, p)
        PROVE  UNCHANGED <<wpc, wtid>>
    BY <2>4 DEF ReceivePacket, worker
  <2>5. ~Restart
    BY <1>3 DEF Restart
  <2>6. UNCHANGED vars => UNCHANGED <<wpc, wtid>>
    BY DEF vars, worker
  <2> QED BY <1>3, <2>1, <2>2, <2>3, <2>4, <2>5, <2>6 DEF Next, CallStep
<1> QED BY <1>1, <1>2, <1>3 DEF MarkInv

\* A call answers AlreadyCompleted, on the record or on the mark, only for a
\* transfer that may be forgotten.
Answered ==
  \A h \in Handlers : /\ pc[h] \in {"reconstructedId", "status"}
                      /\ pc'[h] = "AlreadyCompleted"
                      => MayForget(Pkt(h).tid)

LEMMA MarkAnswer ==
  ASSUME TypeInv, OneCount, MarkInv, [Next]_vars
  PROVE  Answered
<1> SUFFICES ASSUME NEW g \in Handlers, pc[g] \in {"reconstructedId", "status"},
                    pc'[g] = "AlreadyCompleted"
             PROVE  MayForget(Pkt(g).tid)
  BY DEF Answered
<1>0. /\ TypeOK /\ Name(g) \in Files /\ Pkt(g) \in Packets /\ ReliedOn(g)
      /\ RowsAsSent(Name(g))
      /\ status[Name(g)] => Finalised(Name(g)) \/ AllChunksIn(Name(g))
  BY DEF TypeInv, TypeOK, Call, Name, Pkt, MarkInv
<1>1. \A t \in TransferIds : t = Pkt(g).tid
  BY <1>0 DEF OneCount, TransferIds
<1>2. CASE Finalised(Name(g))
  BY <1>0, <1>1, <1>2 DEF Finalised, TypeOK, MayForget
<1>3. CASE AllChunksIn(Name(g))
  <2>1. rows[Name(g)] # {}
    BY <1>3 DEF AllChunksIn, IsMaxTotal
  <2>2. (CHOOSE r \in rows[Name(g)] : r.oldest) \in rows[Name(g)]
    BY <1>0, <2>1 DEF RowsAsSent
  <2>3. getActiveTransferId(Name(g)) \in TransferIds
    BY <1>0, <2>1, <2>2 DEF getActiveTransferId, TypeOK, Row
  <2> QED BY <1>0, <1>1, <1>3, <2>3 DEF MayForget
<1>4. pc[g] = "status" /\ CheckStatus(g) => status[Name(g)]
  BY <1>0 DEF CheckStatus, Continue, Goto, TypeOK
<1>5. ASSUME NEW h \in Handlers, CallStep(h) PROVE g = h
  BY <1>0, <1>5, CallOutcome DEF Moves
<1>6. pc[g] = "status" /\ CallStep(g) => CheckStatus(g) \/ HandlerFails(g)
  BY DEF CallStep, HandlerStep, WriteFails, isFileReconstructed,
         getReconstructedTransferId, getChunkRowCount, CheckActiveTransfer,
         CheckOnDisk, CheckSuccessful, getChunkStatus,
         AcquireFileMutex, DeletePrevious, EraseStatus, RemovePrevious,
         prepareOutputFileForChunk, WriteChunk, RecheckRow, insertChunk,
         updateChunkStatus, getTotalChunkCount, CountChunks, EnqueueFinalization,
         ForgetVersion, At
<1>7. ~HandlerFails(g)
  BY <1>0 DEF HandlerFails, Return, Goto, TypeOK
<1>8. CallStep(g)
  <2>1. ASSUME NEW h \in Handlers, NEW p \in Packets, ReceivePacket(h, p)
        PROVE  FALSE
    BY <1>0, <2>1 DEF ReceivePacket, Goto, TypeOK
  <2>2. ASSUME NEW w \in Workers, WorkerStep(w) \/ FinalizationFails(w)
        PROVE  FALSE
    BY <2>2 DEF WorkerStep, FinalizationFails, StartFinalization, ReadChunks,
                CommitFinalization, ClearStatus
  <2>3. ~Restart /\ ~UNCHANGED vars
    BY DEF Restart, vars
  <2> QED BY <1>5, <2>1, <2>2, <2>3 DEF Next, CallStep
<1> QED BY <1>0, <1>2, <1>3, <1>4, <1>6, <1>7, <1>8 DEF ReliedOn

\* One transfer, its packets repeated, reordered and interleaved freely over any
\* number of handlers, workers, faults and restarts: AlreadyCompleted, answered on
\* the record or on the in-memory mark, is true of the transfer.
THEOREM MarkIsComplete ==
  ASSUME OneCount
  PROVE  Spec => MarkedIsComplete
<1>1. TypeInv /\ MarkInv /\ [Next]_vars
        => [\A h \in Handlers : /\ pc[h] \in {"reconstructedId", "status"}
                                /\ pc'[h] = "AlreadyCompleted"
                                => MayForget(Pkt(h).tid)]_vars
  BY MarkAnswer DEF Answered
<1>2. TypeInv /\ MarkInv /\ [Next]_vars => MarkInv'
  BY MarkStep
<1> QED BY <1>1, <1>2, TypeInit, TypeStep, MarkInit, PTL DEF Spec, MarkedIsComplete

=============================================================================
