-------------------------- MODULE AgentStoreProofs --------------------------
(***************************************************************************)
(* For a file whose content stays the same while it is watched (it may be  *)
(* removed, put back and reported again at any time), for any size of it,  *)
(* any number of targets, threads, retries, failures and restarts: what    *)
(* the agent's tables say of it is true of the targets.                    *)
(***************************************************************************)
EXTENDS AgentStore, FiniteSetTheorems, TLAPS

\* There is one content.
StableFile == Versions = {TheVersion}

-----------------------------------------------------------------------------
(* The inductive invariant.                                                *)

WorkerRec == [at : Busy \cup {"idle", "lock", "wait", "giveUp"}, ver : Versions \cup {None},
              k : Nat, t : Nat, failed : BOOLEAN, exists : BOOLEAN]
Row == [status : {"none", "failed", "success"}, retries : Nat,
        transfer : Versions \cup {None}]
PendingRow == [status : {"failed"}, retries : Nat, transfer : Versions]
SweepPlaces == {"files", "retry", "backlog", "next", "send", "settle", "list", "cleanup",
                "done"}
SweepRec == [at : SweepPlaces, todo : SUBSET (Numbers \X PendingRow), size : Nat,
             row : Row, k : Nat, t : Nat, retries : Nat, exists : BOOLEAN]

\* Types in full.  A worker that sends is at a chunk of the file and at a target;
\* what the pending-chunks thread sends was read from a row.
BaseTypes ==
  /\ content \in Versions \cup {None} /\ resend \in ResendModes
  /\ budget \in 0..MaxDisturbances
  /\ held \in [Targets -> SUBSET (Versions \X Numbers)]
  /\ status \in {"none", "processing", "processed", "failed"}
  /\ fingerprint \in Versions \cup {None}
  /\ permanent \in BOOLEAN /\ unmarked \in BOOLEAN
  /\ running \in BOOLEAN /\ stopped \in BOOLEAN /\ notified \in BOOLEAN
  /\ queue \in Seq({"process", "deferred"}) /\ Len(queue) <= MaxPending
  /\ attempts \in 0..(MaxAttempts - 1)

Placed(r) ==
  /\ r.k \in Numbers /\ r.t \in Targets
  /\ r.at \in Busy => r.ver \in Versions
  /\ r.at \notin {"send", "insert"} => r.k = 0 /\ r.t = 1
WorkerTypes ==
  worker \in [Workers -> WorkerRec] /\ \A w \in Workers : Placed(worker[w])

GoodRow(r) ==
  r \in Row /\ IF r.status = "none" THEN r = NoRow ELSE r.transfer \in Versions
RowTypes == rows \in [Numbers -> Row] /\ \A k \in Numbers : GoodRow(rows[k])

SweepTypes ==
  /\ sweep \in SweepRec
  /\ sweep.at \notin {"send", "settle"} => sweep.t = 1
  /\ sweep.at \in {"send", "settle"} => /\ sweep.row \in PendingRow
                                        /\ sweep.k \in Numbers /\ sweep.t \in Targets

StoreTypes == BaseTypes /\ WorkerTypes /\ RowTypes /\ SweepTypes

\* Target t has stored chunk k.
Has(t, k) == <<TheVersion, k>> \in held[t]
HoldsAll(t) == \A k \in Numbers : Has(t, k)
AllHold == \A t \in Targets : HoldsAll(t)

\* The same after a step.
NowHas(t, k) == <<TheVersion, k>> \in held'[t]
NowHoldsAll(t) == \A k \in Numbers : NowHas(t, k)

\* The targets a thread has been to hold what it believes they do: a worker at
\* "send" has been to those below its own, at "insert" to all of them.
SentBy(w) ==
  \A t \in Targets :
    worker[w].at = "insert" \/ (worker[w].at = "send" /\ t < worker[w].t) =>
      /\ ~worker[w].failed => Has(t, worker[w].k)
      /\ ~worker[w].failed /\ worker[w].exists => HoldsAll(t)
WorkerSent == \A w \in Workers : SentBy(w)

SweepSent ==
  \A t \in Targets :
    sweep.at = "settle" \/ (sweep.at = "send" /\ t < sweep.t) =>
      Has(t, sweep.k) /\ (sweep.exists => HoldsAll(t))

RowsSent == \A k \in Numbers : rows[k].status = "success" => \A t \in Targets : Has(t, k)

\* A file is about to be recorded as processed, or is, only when all hold it.
CleanupSound   == sweep.at = "cleanup" => \A t \in Targets : HoldsAll(t)
ProcessedSound == status = "processed" => \A t \in Targets : HoldsAll(t)

SentInv == WorkerSent /\ SweepSent /\ RowsSent /\ CleanupSound /\ ProcessedSound

\* One thread at a time is inside processFile.
OneInside ==
  \A v, w \in Workers : worker[v].at \in Busy /\ worker[w].at \in Busy => v = w

\* Who is splitting the file, or is about to record that it failed.
Working(w) == worker[w].at \in {"clear", "send", "insert", "giveUp"}

\* As long as nobody else has changed the file's status, the thread that splits it
\* has left a row for every chunk it has passed.
RowsBehind ==
  \A w \in Workers :
    worker[w].at \in {"send", "insert"} /\ status = "processing" =>
      \A j \in Numbers : j < worker[w].k => j \in Stored

\* A file in processing is in somebody's hands or has all its rows; else the record
\* of its end was lost, when every target had it or when it had failed.
WorkOrRows ==
  status = "processing" =>
    (\E w \in Workers : Working(w)) \/ Stored = Numbers \/ unmarked \/ AllHold

WorkInv == OneInside /\ RowsBehind /\ WorkOrRows

StoreInv == StoreTypes /\ SentInv /\ WorkInv

-----------------------------------------------------------------------------
(* One content.                                                            *)

LEMMA StableFacts ==
  ASSUME StableFile
  PROVE  /\ TheVersion \in Versions /\ TheVersion # None
         /\ Size[TheVersion] \in Nat \ {0} /\ Numbers = 0..(Size[TheVersion] - 1)
         /\ 0 \in Numbers /\ Numbers \subseteq Nat
         /\ 1 \in Targets /\ Targets \subseteq Nat /\ NTargets \in Targets
<1>1. TheVersion \in Versions /\ TheVersion # None /\ Size[TheVersion] \in Nat \ {0}
  BY StoreAssumption DEF StableFile
<1>2. {Size[v] : v \in Versions} = {Size[TheVersion]}
  BY DEF StableFile
<1>3. Max({Size[TheVersion]}) = Size[TheVersion]
  BY <1>1 DEF Max
<1>4. Numbers = 0..(Size[TheVersion] - 1)
  BY <1>2, <1>3 DEF Numbers
<1> QED
  BY <1>1, <1>4, StoreAssumption DEF Targets

LEMMA TotalIsSize ==
  ASSUME StableFile, RowTypes
  PROVE  TotalChunk = IF Stored = {} THEN 0 ELSE Size[TheVersion]
<1>1. \A k \in Stored : rows[k].transfer = TheVersion
  BY DEF StableFile, RowTypes, GoodRow, Stored
<1> DEFINE S == {0} \cup {Size[rows[k].transfer] : k \in Stored}
<1>2. CASE Stored = {}
  <2>1. S = {0}
    BY <1>2
  <2>2. Max({0}) = 0
    BY DEF Max
  <2> QED
    BY <2>1, <2>2, <1>2 DEF TotalChunk
<1>3. CASE Stored # {}
  <2>1. S = {0, Size[TheVersion]}
    BY <1>1, <1>3
  <2>2. Max({0, Size[TheVersion]}) = Size[TheVersion]
    BY StableFacts DEF Max
  <2> QED
    BY <2>1, <2>2, <1>3 DEF TotalChunk
<1> QED
  BY <1>2, <1>3

\* Rows for as many chunks as the file has are rows for all of them.
LEMMA AllStored ==
  ASSUME StableFile, RowTypes
  PROVE  /\ TotalChunk > 0 /\ Cardinality(Stored) = TotalChunk <=> Stored = Numbers
         /\ Stored # {} /\ Cardinality(Stored) = TotalChunk => Stored = Numbers
<1> DEFINE n == Size[TheVersion]
<1>1. n \in Nat \ {0} /\ Numbers = 0..(n - 1) /\ 0 \in Numbers
  BY StableFacts
<1>2. IsFiniteSet(Numbers) /\ Cardinality(Numbers) = n
  BY <1>1, FS_Interval
<1>3. Stored \subseteq Numbers
  BY DEF Stored
<1>4. Cardinality(Stored) = n => Stored = Numbers
  BY <1>2, <1>3, FS_Subset
<1>5. TotalChunk = IF Stored = {} THEN 0 ELSE n
  BY TotalIsSize
<1>6. ASSUME Stored = Numbers
      PROVE  TotalChunk > 0 /\ Cardinality(Stored) = TotalChunk
  <2>1. Stored # {} /\ Cardinality(Stored) = n
    BY <1>1, <1>2, <1>6
  <2> HIDE DEF n
  <2> QED
    BY <2>1, <1>1, <1>5
<1>7. ASSUME Stored # {} \/ TotalChunk > 0, Cardinality(Stored) = TotalChunk
      PROVE  Stored = Numbers
  <2> HIDE DEF n
  <2> QED
    BY <1>4, <1>5, <1>7
<1> QED
  BY <1>6, <1>7

-----------------------------------------------------------------------------
(* Types.                                                                  *)

LEMMA TypesImplyTypeOK ==
  ASSUME StoreTypes PROVE TypeOK
<1>1. \A k \in Numbers : /\ rows[k].status \in {"none", "failed", "success"}
                         /\ rows[k].retries \in Nat
                         /\ rows[k] # NoRow => rows[k].transfer \in Versions
  BY DEF StoreTypes, RowTypes, GoodRow, Row
<1>2. \A w \in Workers : worker[w].at \in Busy \cup {"idle", "lock", "wait", "giveUp"}
  BY DEF StoreTypes, WorkerTypes, WorkerRec
<1>3. sweep.at \in SweepPlaces
  BY DEF StoreTypes, SweepTypes, SweepRec
<1> QED
  BY <1>1, <1>2, <1>3 DEF StoreTypes, BaseTypes, TypeOK, SweepPlaces

\* The rows a step leaves.
LEMMA NoRowsTyped == NoRows \in [Numbers -> Row] /\ \A k \in Numbers : GoodRow(NoRows[k])
<1>1. NoRow \in Row /\ NoRow.status = "none"
  BY StoreAssumption DEF NoRow, Row
<1> QED
  BY <1>1 DEF NoRows, GoodRow

LEMMA RowReplaced ==
  ASSUME RowTypes, NEW k \in Numbers, NEW r, GoodRow(r), rows' = [rows EXCEPT ![k] = r]
  PROVE  RowTypes'
BY DEF RowTypes, GoodRow

LEMMA UpdateTyped ==
  ASSUME RowTypes, NEW k \in Numbers, NEW st, NEW n \in Nat,
         k \in Stored => st \in {"failed", "success"}, rows' = UpdateChunk(k, st, n)
  PROVE  /\ RowTypes' /\ Stored' = Stored
         /\ \A j \in Numbers : rows'[j].status = "success" =>
              rows[j].status = "success" \/ (j = k /\ st = "success")
<1>1. CASE k \in Stored
  <2> DEFINE r == [rows[k] EXCEPT !.status = st, !.retries = n]
  <2>1. rows[k] \in Row /\ rows[k].transfer \in Versions /\ rows[k].status # "none"
    BY <1>1 DEF RowTypes, GoodRow, Stored
  <2>2. GoodRow(r) /\ r.status = st /\ st # "none"
    BY <1>1, <2>1 DEF GoodRow, Row
  <2>3. rows' = [rows EXCEPT ![k] = r]
    BY <1>1 DEF UpdateChunk
  <2>4. rows'[k] = r /\ \A j \in Numbers : j # k => rows'[j] = rows[j]
    BY <2>3 DEF RowTypes
  <2> HIDE DEF r
  <2>5. Stored' = Stored
    BY <1>1, <2>2, <2>4 DEF Stored
  <2> QED
    BY <2>2, <2>3, <2>4, <2>5, RowReplaced
<1>2. CASE k \notin Stored
  <2>1. rows' = rows
    BY <1>2 DEF UpdateChunk, RowTypes
  <2> QED
    BY <2>1 DEF RowTypes, Stored
<1> QED
  BY <1>1, <1>2

\* Its retries alone, its status alone, or a write the database refused.
LEMMA ChunkTyped ==
  ASSUME RowTypes, NEW k \in Numbers, NEW st \in {"failed", "success"}, NEW n \in Nat,
         rows' \in {rows, UpdateChunk(k, st, n), updateChunkStatus(k, st),
                    updateChunkRetries(k, n)}
  PROVE  /\ RowTypes' /\ Stored' = Stored
         /\ \A j \in Numbers : rows'[j].status = "success" =>
              rows[j].status = "success" \/ (j = k /\ st = "success")
<1>1. rows[k].retries \in Nat /\ (k \in Stored => rows[k].status \in {"failed", "success"})
  BY DEF RowTypes, Row, Stored
<1>2. CASE rows' = rows
  BY <1>2 DEF RowTypes, Stored
<1>3. CASE rows' = UpdateChunk(k, st, n)
  BY <1>3, UpdateTyped
<1>4. CASE rows' = updateChunkStatus(k, st)
  BY <1>1, <1>4, UpdateTyped DEF updateChunkStatus
<1>5. CASE rows' = updateChunkRetries(k, n)
  <2>1. /\ RowTypes' /\ Stored' = Stored
        /\ \A j \in Numbers : rows'[j].status = "success" =>
              rows[j].status = "success" \/ (j = k /\ rows[k].status = "success")
    BY <1>1, <1>5, UpdateTyped DEF updateChunkRetries
  <2> QED
    BY <2>1
<1> QED
  BY <1>2, <1>3, <1>4, <1>5

LEMMA StepTyped ==
  ASSUME WorkerTypes, NEW w \in Workers, NEW r \in WorkerRec, Placed(r), Step(w, r)
  PROVE  /\ WorkerTypes' /\ worker'[w] = r
         /\ \A v \in Workers : v # w => worker'[v] = worker[v]
BY DEF WorkerTypes, Step, Placed

LEMMA IdleTyped ==
  ASSUME StableFile
  PROVE  IdleWorker \in WorkerRec /\ Placed(IdleWorker) /\ IdleWorker.at = "idle"
BY StableFacts DEF IdleWorker, WorkerRec, Placed, Busy

LEMMA GotoTyped ==
  ASSUME NEW a \in SweepPlaces \ {"send", "settle"}, Goto(a)
  PROVE  SweepTypes' /\ sweep'.at = a
<1>1. NoRow \in Row
  BY StoreAssumption DEF NoRow, Row
<1>2. sweep' = [at |-> a, todo |-> {}, size |-> 0, row |-> NoRow, k |-> 0, t |-> 1,
                retries |-> 0, exists |-> TRUE]
  BY DEF Goto, FirstSweep
<1>3. sweep' \in SweepRec /\ sweep'.at = a /\ sweep'.t = 1
  <2> HIDE DEF NoRow
  <2> QED
    BY <1>1, <1>2 DEF SweepRec
<1> QED
  BY <1>3 DEF SweepTypes

LEMMA AdvanceTyped ==
  ASSUME sweep \in SweepRec, NEW rest \in SUBSET (Numbers \X PendingRow), Advance(rest)
  PROVE  SweepTypes' /\ sweep'.at = "next"
<1>1. NoRow \in Row /\ sweep.size \in Nat
  BY DEF NoRow, Row, SweepRec
<1>2. sweep' = [at |-> "next", todo |-> rest, size |-> sweep.size, row |-> NoRow, k |-> 0,
                t |-> 1, retries |-> 0, exists |-> TRUE]
  BY DEF Advance, FirstSweep
<1>3. sweep' \in SweepRec /\ sweep'.at = "next" /\ sweep'.t = 1
  <2> HIDE DEF NoRow
  <2> QED
    BY <1>1, <1>2 DEF SweepRec, SweepPlaces
<1> QED
  BY <1>3 DEF SweepTypes

LEMMA DisturbedTyped ==
  ASSUME BaseTypes, Disturbed \/ UNCHANGED budget
  PROVE  budget' \in 0..MaxDisturbances
BY StoreAssumption DEF Disturbed, BaseTypes

\* markAsFileFailed and handleNewFile: a file that stays in processing keeps its rows,
\* and that it failed is not forgotten.
FailedFacts ==
  /\ fingerprint' = fingerprint /\ permanent' \in BOOLEAN /\ unmarked' \in BOOLEAN
  /\ status' \in {status, "failed"} /\ rows' \in {rows, NoRows} /\ RowTypes'
  /\ status' = "processing" => rows' = rows /\ (unmarked => unmarked')
  /\ attempts' \in 0..(MaxAttempts - 1) /\ budget' \in 0..MaxDisturbances

LEMMA MarkFailedFacts ==
  ASSUME BaseTypes, RowTypes, markAsFileFailed
  PROVE  FailedFacts /\ (status' = "failed" \/ unmarked')
<1>1. PICK marked \in BOOLEAN, wrote \in BOOLEAN :
        LET last   == attempts + 1 >= MaxAttempts
            logged == last /\ wrote
        IN /\ Disturbed \/ UNCHANGED budget
           /\ attempts' = IF last THEN 0 ELSE attempts + 1
           /\ status' = IF marked \/ (logged /\ status # "none") THEN "failed" ELSE status
           /\ permanent' = (permanent \/ logged)
           /\ rows' = IF logged THEN NoRows ELSE rows
           /\ unmarked' = (status' # "failed")
           /\ UNCHANGED fingerprint
  BY DEF markAsFileFailed
<1>2. rows' \in {rows, NoRows} /\ status' \in {status, "failed"}
  BY <1>1
<1>3. RowTypes'
  <2>1. CASE rows' = rows
    BY <2>1 DEF RowTypes
  <2>2. CASE rows' = NoRows
    BY <2>2, NoRowsTyped DEF RowTypes
  <2> QED
    BY <1>2, <2>1, <2>2
<1>4. attempts' \in 0..(MaxAttempts - 1)
  BY <1>1, StoreAssumption DEF BaseTypes
<1>5. status' = "processing" => rows' = rows
  BY <1>1
<1>6. /\ unmarked' \in BOOLEAN /\ permanent' \in BOOLEAN /\ fingerprint' = fingerprint
      /\ status' = "failed" \/ unmarked'
  BY <1>1
<1>7. budget' \in 0..MaxDisturbances
  BY <1>1, DisturbedTyped
<1> QED
  BY <1>2, <1>3, <1>4, <1>5, <1>6, <1>7 DEF FailedFacts

LEMMA TableKept ==
  ASSUME BaseTypes, RowTypes, UNCHANGED <<table, attempts, budget>>
  PROVE  FailedFacts
<1>1. UNCHANGED <<status, fingerprint, permanent, rows, unmarked, attempts, budget>>
  BY DEF table
<1> QED
  BY <1>1 DEF FailedFacts, BaseTypes, RowTypes

LEMMA HandleFacts ==
  ASSUME BaseTypes, RowTypes, handleNewFile
  PROVE  /\ FailedFacts
         /\ queue' \in Seq({"process", "deferred"}) /\ Len(queue') <= MaxPending
<1>1. CASE Accepts
  <2>1. queue' = Append(queue, "process") /\ UNCHANGED <<table, attempts, budget>>
    BY <1>1 DEF handleNewFile
  <2>2. queue' \in Seq({"process", "deferred"}) /\ Len(queue') = Len(queue) + 1
    BY <2>1 DEF BaseTypes
  <2>3. Len(queue') <= MaxPending
    BY <1>1, <2>2, StoreAssumption DEF Accepts, BaseTypes
  <2> QED
    BY <2>1, <2>2, <2>3, TableKept
<1>2. CASE ~Accepts
  <2>1. markAsFileFailed /\ UNCHANGED queue
    BY <1>2 DEF handleNewFile
  <2> QED
    BY <2>1, MarkFailedFacts DEF BaseTypes
<1> QED
  BY <1>1, <1>2

-----------------------------------------------------------------------------
(* What a step must do to keep the two invariants.                         *)

\* What was sent stays sent.
LEMMA SentStep ==
  ASSUME SentInv, WorkerTypes,
         \A t \in Targets : held[t] \subseteq held'[t],
         status' = "processed" => status = "processed" \/ \A t \in Targets : HoldsAll(t),
         \A k \in Numbers : rows'[k].status = "success" =>
           rows[k].status = "success" \/ \A t \in Targets : Has(t, k),
         \A w \in Workers : worker'[w] = worker[w] \/ SentBy(w)',
         sweep' = sweep \/ (SweepSent' /\ CleanupSound')
  PROVE  SentInv'
<1>1. \A t \in Targets : /\ \A k : Has(t, k) => Has(t, k)'
                         /\ HoldsAll(t) => HoldsAll(t)'
  BY DEF Has, HoldsAll
<1>2. WorkerSent'
  <2>1. ASSUME NEW w \in Workers, worker'[w] = worker[w] PROVE SentBy(w)'
    <3>1. SentBy(w)
      BY DEF SentInv, WorkerSent
    <3> QED
      BY <2>1, <3>1, <1>1 DEF SentBy
  <2> QED
    BY <2>1 DEF WorkerSent
<1>3. SweepSent' /\ CleanupSound'
  BY <1>1 DEF SentInv, SweepSent, CleanupSound
<1>4. RowsSent'
  BY <1>1 DEF SentInv, RowsSent
<1>5. ProcessedSound'
  BY <1>1 DEF SentInv, ProcessedSound
<1> QED
  BY <1>2, <1>3, <1>4, <1>5 DEF SentInv

\* A worker that is not sending, or at the first target, claims nothing.
LEMMA ClaimsNothing ==
  ASSUME NEW w \in Workers,
         worker'[w].at \notin {"send", "insert"} \/ (worker'[w].at = "send" /\ worker'[w].t = 1)
  PROVE  SentBy(w)'
<1>1. \A t \in Targets : ~(t < 1)
  BY StoreAssumption DEF Targets
<1> QED
  BY <1>1 DEF SentBy

LEMMA SweepClaimsNothing ==
  ASSUME \/ sweep'.at \notin {"send", "settle", "cleanup"}
         \/ sweep'.at = "send" /\ sweep'.t = 1
  PROVE  SweepSent' /\ CleanupSound'
<1>1. \A t \in Targets : ~(t < 1)
  BY StoreAssumption DEF Targets
<1> QED
  BY <1>1 DEF SweepSent, CleanupSound

\* Nobody enters processFile, the rows of a file in processing stay, and whoever
\* leaves it then leaves a reason: it failed unrecorded, or every target has it.
LEMMA WorkStep ==
  ASSUME WorkInv,
         \A w \in Workers : worker'[w].at \in Busy => worker[w].at \in Busy,
         \A w \in Workers : worker'[w].at \in {"send", "insert"} =>
           worker[w].at \in {"send", "insert"} /\ worker'[w].k = worker[w].k,
         \A t \in Targets : held[t] \subseteq held'[t],
         \/ status' # "processing"
         \/ /\ status' = status /\ Stored' = Stored /\ (unmarked => unmarked')
            /\ \A w \in Workers : Working(w) => Working(w)' \/ unmarked' \/ AllHold
  PROVE  WorkInv'
<1>1. OneInside'
  BY DEF WorkInv, OneInside
<1>2. RowsBehind'
  BY DEF WorkInv, RowsBehind
<1>3. AllHold => AllHold'
  BY DEF AllHold, HoldsAll, Has
<1>4. WorkOrRows'
  BY <1>3 DEF WorkInv, WorkOrRows
<1> QED
  BY <1>1, <1>2, <1>4 DEF WorkInv

\* Both, for a step that leaves the workers and the targets alone and at most marks
\* the file as failed.
LEMMA CalmStep ==
  ASSUME SentInv, WorkInv, WorkerTypes, UNCHANGED <<held, worker>>,
         \/ status' # "processing" /\ (status' = "processed" => status = "processed")
         \/ status' = status /\ Stored' = Stored /\ (unmarked => unmarked'),
         \A k \in Numbers : rows'[k].status = "success" => rows[k].status = "success",
         sweep' = sweep \/ (SweepSent' /\ CleanupSound')
  PROVE  SentInv' /\ WorkInv'
<1>1. SentInv'
  BY SentStep
<1>2. WorkInv'
  BY WorkStep DEF Working
<1> QED
  BY <1>1, <1>2

LEMMA RowsKeptOrGone ==
  ASSUME rows' \in {rows, NoRows}
  PROVE  /\ \A k \in Numbers : rows'[k].status = "success" => rows[k].status = "success"
         /\ rows' = rows => Stored' = Stored
BY DEF NoRows, NoRow, Stored

LEMMA FailedStep ==
  ASSUME FailedFacts
  PROVE  /\ \A k \in Numbers : rows'[k].status = "success" => rows[k].status = "success"
         /\ status' = "processed" => status = "processed"
         /\ \/ status' # "processing"
            \/ status' = status /\ Stored' = Stored /\ (unmarked => unmarked')
BY RowsKeptOrGone DEF FailedFacts

-----------------------------------------------------------------------------
(* The watcher, the pool and the processing of a file, action by action.   *)

LEMMA NotifyInv ==
  ASSUME StableFile, StoreInv, Notify
  PROVE  StoreInv'
<1> USE DEF StoreInv, StoreTypes
<1>1. /\ UNCHANGED <<content, held, resend, running, stopped, worker, sweep>>
      /\ notified' = FALSE
  BY DEF Notify, world
<1>2. /\ FailedFacts
      /\ queue' \in Seq({"process", "deferred"}) /\ Len(queue') <= MaxPending
  <2>1. CASE UNCHANGED <<table, queue, attempts, budget>>
    BY <2>1, TableKept DEF BaseTypes
  <2>2. CASE /\ queue' = Append(queue, "deferred") /\ Accepts
             /\ UNCHANGED <<table, attempts, budget>>
    <3>1. queue' \in Seq({"process", "deferred"}) /\ Len(queue') = Len(queue) + 1
      BY <2>2 DEF BaseTypes
    <3>2. Len(queue') <= MaxPending
      BY <2>2, <3>1, StoreAssumption DEF Accepts, BaseTypes
    <3> QED
      BY <2>2, <3>1, <3>2, TableKept
  <2>3. CASE handleNewFile
    BY <2>3, HandleFacts
  <2> QED
    BY <2>1, <2>2, <2>3 DEF Notify
<1>3. BaseTypes' /\ RowTypes'
  BY <1>1, <1>2 DEF BaseTypes, FailedFacts
<1>4. SentInv' /\ WorkInv'
  BY <1>1, <1>2, FailedStep, CalmStep
<1> QED
  BY <1>1, <1>3, <1>4 DEF WorkerTypes, SweepTypes

LEMMA TakeTaskInv ==
  ASSUME StableFile, StoreInv, NEW w \in Workers, TakeTask(w)
  PROVE  StoreInv'
<1> USE DEF StoreInv, StoreTypes
<1>1. PICK a \in {"lock", "wait"} : Step(w, [IdleWorker EXCEPT !.at = a])
  BY DEF TakeTask
<1> DEFINE r == [IdleWorker EXCEPT !.at = a]
<1>2. r \in WorkerRec /\ Placed(r) /\ r.at = a
  BY StableFacts DEF IdleWorker, WorkerRec, Placed, Busy
<1> HIDE DEF r
<1>3. /\ WorkerTypes' /\ worker'[w] = r
      /\ \A v \in Workers : v # w => worker'[v] = worker[v]
  BY <1>1, <1>2, StepTyped DEF r
<1>4. /\ UNCHANGED <<content, held, resend, budget, status, fingerprint, permanent, rows,
                     unmarked, running, notified, stopped, attempts, sweep>>
      /\ worker[w].at = "idle"
  BY DEF TakeTask, world, table
<1>5. queue' \in Seq({"process", "deferred"}) /\ Len(queue') <= MaxPending
  <2>1. queue # <<>> /\ queue \in Seq({"process", "deferred"}) /\ queue' = Tail(queue)
    BY DEF TakeTask, BaseTypes
  <2>2. queue' \in Seq({"process", "deferred"}) /\ Len(queue') = Len(queue) - 1
    BY <2>1
  <2> QED
    BY <2>1, <2>2, StoreAssumption DEF BaseTypes
<1>6. BaseTypes' /\ RowTypes' /\ SweepTypes'
  BY <1>4, <1>5 DEF BaseTypes, RowTypes, SweepTypes
<1>7. SentInv'
  BY <1>2, <1>3, <1>4, ClaimsNothing, SentStep
<1>8. WorkInv'
  <2>1. Stored' = Stored
    BY <1>4 DEF Stored
  <2> QED
    BY <2>1, <1>2, <1>3, <1>4, WorkStep DEF Busy, Working
<1> QED
  BY <1>3, <1>6, <1>7, <1>8

LEMMA DeferredInv ==
  ASSUME StableFile, StoreInv, NEW w \in Workers, Deferred(w)
  PROVE  StoreInv'
<1> USE DEF StoreInv, StoreTypes
<1>1. /\ WorkerTypes' /\ worker'[w] = IdleWorker
      /\ \A v \in Workers : v # w => worker'[v] = worker[v]
  BY IdleTyped, StepTyped DEF Deferred, Finish
<1>2. /\ UNCHANGED <<content, held, resend, running, notified, stopped, sweep>>
      /\ worker[w].at = "wait"
  BY DEF Deferred, world
<1>3. /\ FailedFacts
      /\ queue' \in Seq({"process", "deferred"}) /\ Len(queue') <= MaxPending
  <2>1. CASE UNCHANGED <<table, queue, attempts, budget>>
    BY <2>1, TableKept DEF BaseTypes
  <2>2. CASE handleNewFile
    BY <2>2, HandleFacts
  <2> QED
    BY <2>1, <2>2 DEF Deferred
<1>4. BaseTypes' /\ RowTypes' /\ SweepTypes'
  BY <1>2, <1>3 DEF BaseTypes, SweepTypes, FailedFacts
<1>5. SentInv'
  BY <1>1, <1>2, <1>3, IdleTyped, ClaimsNothing, FailedStep, SentStep
<1>6. WorkInv'
  BY <1>1, <1>2, <1>3, IdleTyped, FailedStep, WorkStep DEF Busy, Working
<1> QED
  BY <1>1, <1>4, <1>5, <1>6

LEMMA GiveUpInv ==
  ASSUME StableFile, StoreInv, NEW w \in Workers, GiveUp(w)
  PROVE  StoreInv'
<1> USE DEF StoreInv, StoreTypes
<1>1. /\ WorkerTypes' /\ worker'[w] = IdleWorker
      /\ \A v \in Workers : v # w => worker'[v] = worker[v]
  BY IdleTyped, StepTyped DEF GiveUp, Finish
<1>2. UNCHANGED <<content, held, resend, running, notified, queue, stopped, sweep>>
  BY DEF GiveUp, world, pool
<1>3. FailedFacts /\ (status' = "failed" \/ unmarked')
  BY MarkFailedFacts DEF GiveUp
<1>4. BaseTypes' /\ RowTypes' /\ SweepTypes'
  BY <1>2, <1>3 DEF BaseTypes, SweepTypes, FailedFacts
<1>5. SentInv'
  BY <1>1, <1>2, <1>3, IdleTyped, ClaimsNothing, FailedStep, SentStep
<1>6. WorkInv'
  BY <1>1, <1>2, <1>3, IdleTyped, FailedStep, WorkStep DEF Busy
<1> QED
  BY <1>1, <1>4, <1>5, <1>6

LEMMA OpenFileInv ==
  ASSUME StableFile, StoreInv, NEW w \in Workers, OpenFile(w)
  PROVE  StoreInv'
<1> USE DEF StoreInv, StoreTypes
<1>1. /\ worker[w].at = "lock" /\ \A v \in Workers : worker[v].at \notin Busy
      /\ UNCHANGED <<content, held, resend, budget, status, fingerprint, permanent, rows,
                     unmarked, running, notified, queue, stopped, attempts, sweep>>
  BY DEF OpenFile, MutexFree, world, table, pool
<1>2. worker[w] \in WorkerRec /\ worker[w].k = 0 /\ worker[w].t = 1
  BY <1>1 DEF WorkerTypes, Placed
<1>3. PICK r \in WorkerRec : Step(w, r) /\ Placed(r) /\ r.at \in {"giveUp", "mark"}
  <2>1. CASE content = None
    <3> DEFINE r == [worker[w] EXCEPT !.at = "giveUp"]
    <3>1. r \in WorkerRec /\ Placed(r) /\ r.at = "giveUp"
      BY <1>2, StableFacts DEF WorkerRec, Placed, Busy
    <3> QED
      BY <2>1, <3>1 DEF OpenFile
  <2>2. CASE content # None
    <3> DEFINE r == [worker[w] EXCEPT !.at = "mark", !.ver = content]
    <3>1. content \in Versions
      BY <2>2 DEF BaseTypes
    <3>2. r \in WorkerRec /\ Placed(r) /\ r.at = "mark"
      BY <1>2, <3>1, StableFacts DEF WorkerRec, Placed, Busy
    <3> QED
      BY <2>2, <3>2 DEF OpenFile
  <2> QED
    BY <2>1, <2>2
<1>4. /\ WorkerTypes' /\ worker'[w] = r
      /\ \A v \in Workers : v # w => worker'[v] = worker[v]
  BY <1>3, StepTyped
<1>5. BaseTypes' /\ RowTypes' /\ SweepTypes' /\ Stored' = Stored
  BY <1>1 DEF BaseTypes, RowTypes, SweepTypes, Stored
<1>6. SentInv'
  BY <1>1, <1>3, <1>4, ClaimsNothing, SentStep
<1>7. WorkInv'
  <2>1. OneInside'
    BY <1>1, <1>3, <1>4 DEF OneInside
  <2>2. RowsBehind'
    BY <1>1, <1>3, <1>4, <1>5 DEF RowsBehind, Busy
  <2>3. WorkOrRows'
    <3>1. AllHold' <=> AllHold
      BY <1>1 DEF AllHold, HoldsAll, Has
    <3> QED
      BY <1>1, <1>4, <1>5, <3>1 DEF WorkInv, WorkOrRows, Working
  <2> QED
    BY <2>1, <2>2, <2>3 DEF WorkInv
<1> QED
  BY <1>4, <1>5, <1>6, <1>7

\* A write of the database failed in processFile: the file is about to be marked.
LEMMA AbortInv ==
  ASSUME StableFile, StoreInv, NEW w \in Workers, Abort(w),
         UNCHANGED <<world, running, notified, pool, attempts, sweep>>
  PROVE  StoreInv'
<1> USE DEF StoreInv, StoreTypes
<1> DEFINE r == [IdleWorker EXCEPT !.at = "giveUp"]
<1>1. r \in WorkerRec /\ Placed(r) /\ r.at = "giveUp"
  BY StableFacts DEF IdleWorker, WorkerRec, Placed, Busy
<1> HIDE DEF r
<1>2. /\ WorkerTypes' /\ worker'[w] = r
      /\ \A v \in Workers : v # w => worker'[v] = worker[v]
  BY <1>1, StepTyped DEF Abort, r
<1>3. /\ UNCHANGED <<content, held, resend, status, fingerprint, permanent, rows, unmarked,
                     running, notified, queue, stopped, attempts, sweep>>
      /\ Stored' = Stored
  BY DEF Abort, world, table, pool, Stored
<1>4. budget' \in 0..MaxDisturbances
  BY DisturbedTyped DEF Abort
<1>5. BaseTypes' /\ RowTypes' /\ SweepTypes'
  BY <1>3, <1>4 DEF BaseTypes, RowTypes, SweepTypes
<1>6. SentInv'
  BY <1>1, <1>2, <1>3, ClaimsNothing, SentStep
<1>7. WorkInv'
  BY <1>1, <1>2, <1>3, WorkStep DEF Busy, Working
<1> QED
  BY <1>2, <1>5, <1>6, <1>7

LEMMA MarkProcessingInv ==
  ASSUME StableFile, StoreInv, NEW w \in Workers, MarkProcessing(w)
  PROVE  StoreInv'
<1> USE DEF StoreInv, StoreTypes
<1>1. /\ worker[w].at = "mark" /\ worker[w].at \in Busy
      /\ UNCHANGED <<content, held, resend, permanent, rows,
                     running, notified, queue, stopped, attempts, sweep>>
  BY DEF MarkProcessing, Abort, world, table, pool, Busy
<1>2. /\ worker[w] \in WorkerRec /\ worker[w].k = 0 /\ worker[w].t = 1
      /\ worker[w].ver \in Versions
  BY <1>1 DEF WorkerTypes, Placed
<1>3. RowTypes' /\ SweepTypes' /\ Stored' = Stored
  BY <1>1 DEF RowTypes, SweepTypes, Stored
<1>4. CASE Finish(w) /\ UNCHANGED <<table, budget>>
  <2>1. /\ WorkerTypes' /\ worker'[w] = IdleWorker
        /\ \A v \in Workers : v # w => worker'[v] = worker[v]
    BY <1>4, IdleTyped, StepTyped DEF Finish
  <2>2. BaseTypes' /\ status' = status /\ unmarked' = unmarked
    BY <1>1, <1>4 DEF BaseTypes, table
  <2>3. SentInv'
    BY <1>1, <2>1, <2>2, IdleTyped, ClaimsNothing, SentStep
  <2>4. WorkInv'
    BY <1>1, <1>3, <2>1, <2>2, IdleTyped, WorkStep DEF Busy, Working
  <2> QED
    BY <1>3, <2>1, <2>2, <2>3, <2>4
<1>5. CASE /\ status' = "processing" /\ fingerprint' \in {fingerprint, worker[w].ver}
           /\ unmarked' = FALSE /\ UNCHANGED budget
           /\ Step(w, [worker[w] EXCEPT !.at = "clear"])
  <2> DEFINE r == [worker[w] EXCEPT !.at = "clear"]
  <2>1. r \in WorkerRec /\ Placed(r) /\ r.at = "clear"
    BY <1>2, StableFacts DEF WorkerRec, Placed, Busy
  <2> HIDE DEF r
  <2>2. /\ WorkerTypes' /\ worker'[w] = r
        /\ \A v \in Workers : v # w => worker'[v] = worker[v]
    BY <1>5, <2>1, StepTyped DEF r
  <2>3. BaseTypes'
    BY <1>1, <1>2, <1>5 DEF BaseTypes
  <2>4. SentInv'
    BY <1>1, <1>5, <2>1, <2>2, ClaimsNothing, SentStep
  <2>5. ASSUME NEW v \in Workers, v # w PROVE worker'[v].at \notin Busy
    BY <1>1, <2>2, <2>5 DEF WorkInv, OneInside
  <2>6. WorkInv'
    <3>1. OneInside'
      BY <2>5 DEF OneInside
    <3>2. RowsBehind'
      BY <2>1, <2>2, <2>5 DEF RowsBehind, Busy
    <3>3. WorkOrRows'
      BY <2>1, <2>2 DEF WorkOrRows, Working
    <3> QED
      BY <3>1, <3>2, <3>3 DEF WorkInv
  <2> QED
    BY <1>3, <2>2, <2>3, <2>4, <2>6
<1>6. CASE Abort(w)
  <2>1. UNCHANGED <<world, running, notified, pool, attempts, sweep>>
    BY DEF MarkProcessing
  <2> QED
    BY <1>6, <2>1, AbortInv
<1> QED
  BY <1>4, <1>5, <1>6
    DEF MarkProcessing, markFileAsProcessingIfChanged, markFileAsProcessing

LEMMA deleteFileChunksInv ==
  ASSUME StableFile, StoreInv, NEW w \in Workers, deleteFileChunks(w)
  PROVE  StoreInv'
<1>0. CASE Abort(w)
  <2>1. UNCHANGED <<world, running, notified, pool, attempts, sweep>>
    BY DEF deleteFileChunks
  <2> QED
    BY <1>0, <2>1, AbortInv
<1> SUFFICES ASSUME ~Abort(w) PROVE StoreInv'
  BY <1>0
<1> USE DEF StoreInv, StoreTypes
<1>1. /\ worker[w].at = "clear" /\ worker[w].at \in Busy /\ rows' = NoRows
      /\ UNCHANGED <<content, held, resend, budget, status, fingerprint, permanent,
                     unmarked, running, notified, queue, stopped, attempts, sweep>>
  BY DEF deleteFileChunks, world, pool, Busy
<1>2. /\ worker[w] \in WorkerRec /\ worker[w].k = 0 /\ worker[w].t = 1
      /\ worker[w].ver \in Versions
  BY <1>1 DEF WorkerTypes, Placed
<1> DEFINE r == [worker[w] EXCEPT !.at = "send"]
<1>3. r \in WorkerRec /\ Placed(r) /\ r.at = "send" /\ r.t = 1 /\ r.k = 0
  BY <1>2, StableFacts DEF WorkerRec, Placed, Busy
<1> HIDE DEF r
<1>4. /\ WorkerTypes' /\ worker'[w] = r
      /\ \A v \in Workers : v # w => worker'[v] = worker[v]
  BY <1>3, StepTyped DEF deleteFileChunks, r
<1>5. BaseTypes' /\ RowTypes' /\ SweepTypes'
  BY <1>1, NoRowsTyped DEF BaseTypes, RowTypes, SweepTypes
<1>6. SentInv'
  BY <1>1, <1>3, <1>4, ClaimsNothing, RowsKeptOrGone, SentStep
<1>7. ASSUME NEW v \in Workers, v # w PROVE worker'[v].at \notin Busy
  BY <1>1, <1>4, <1>7 DEF WorkInv, OneInside
<1>8. WorkInv'
  <2>1. OneInside'
    BY <1>7 DEF OneInside
  <2>2. RowsBehind'
    <3>1. \A j \in Numbers : ~(j < 0)
      BY StableFacts
    <3> QED
      BY <1>3, <1>4, <1>7, <3>1 DEF RowsBehind, Busy
  <2>3. WorkOrRows'
    BY <1>3, <1>4 DEF WorkOrRows, Working
  <2> QED
    BY <2>1, <2>2, <2>3 DEF WorkInv
<1> QED
  BY <1>4, <1>5, <1>6, <1>8

-----------------------------------------------------------------------------
(* Sending.                                                                *)

\* After a send that was received target t has the chunk, and the others what they
\* had; the answer "AlreadyExists" means that it had all of them.
LEMMA ReceivesFacts ==
  ASSUME StableFile, BaseTypes, NEW t \in Targets, NEW v \in Versions, NEW k \in Numbers,
         Receives(t, v, k)
  PROVE  /\ held' \in [Targets -> SUBSET (Versions \X Numbers)]
         /\ \A u \in Targets : held[u] \subseteq held'[u]
         /\ NowHas(t, k)
         /\ Answered(t, v) = "AlreadyExists" => NowHoldsAll(t)
<1>1. v = TheVersion
  BY DEF StableFile
<1>2. Holds(t, v) <=> HoldsAll(t)
  BY <1>1, StableFacts DEF Holds, HoldsAll, Has
<1>3. held \in [Targets -> SUBSET (Versions \X Numbers)] /\ <<v, k>> \in Versions \X Numbers
  BY DEF BaseTypes
<1>4. CASE Holds(t, v)
  <2>1. held' = held
    BY <1>3, <1>4 DEF Receives
  <2> QED
    BY <2>1, <1>2, <1>3, <1>4 DEF HoldsAll, Has, NowHoldsAll, NowHas
<1>5. CASE ~Holds(t, v)
  <2>1. held' = [held EXCEPT ![t] = held[t] \cup {<<v, k>>}]
    BY <1>5 DEF Receives
  <2>2. Answered(t, v) # "AlreadyExists"
    BY <1>5 DEF Answered
  <2>3. held[t] \cup {<<v, k>>} \in SUBSET (Versions \X Numbers)
    BY <1>3
  <2>4. /\ held' \in [Targets -> SUBSET (Versions \X Numbers)]
        /\ held'[t] = held[t] \cup {<<v, k>>}
        /\ \A u \in Targets : u # t => held'[u] = held[u]
    BY <1>3, <2>1, <2>3
  <2> QED
    BY <1>1, <2>2, <2>4 DEF NowHas
<1> QED
  BY <1>4, <1>5

LEMMA SendFailsFacts ==
  ASSUME StableFile, BaseTypes, NEW t \in Targets, NEW v \in Versions, NEW k \in Numbers,
         SendFails(t, v, k)
  PROVE  /\ held' \in [Targets -> SUBSET (Versions \X Numbers)]
         /\ \A u \in Targets : held[u] \subseteq held'[u]
         /\ budget' \in 0..MaxDisturbances
<1>1. budget' \in 0..MaxDisturbances
  BY StoreAssumption DEF SendFails, Disturbed, BaseTypes
<1>2. CASE Receives(t, v, k)
  BY <1>1, <1>2, ReceivesFacts
<1>3. CASE UNCHANGED held
  BY <1>1, <1>3 DEF BaseTypes
<1> QED
  BY <1>2, <1>3 DEF SendFails

\* One target after the other: what the worker believes of those it has been to.
LEMMA SendChunkInv ==
  ASSUME StableFile, StoreInv, NEW w \in Workers, SendChunk(w)
  PROVE  StoreInv'
<1> USE DEF StoreInv, StoreTypes
<1> DEFINE me == worker[w]
           Moved(r, failed, exists) ==
             /\ r.failed = (me.failed \/ failed) /\ r.exists = (me.exists /\ exists)
             /\ r.at = IF me.t = NTargets THEN "insert" ELSE "send"
             /\ r.t = IF me.t = NTargets THEN 1 ELSE me.t + 1
             /\ r.k = me.k /\ r.ver = me.ver
<1>1. /\ me.at = "send" /\ me.at \in Busy /\ me \in WorkerRec
      /\ me.ver \in Versions /\ me.k \in Numbers /\ me.t \in Targets
      /\ UNCHANGED <<content, resend, status, fingerprint, permanent, rows,
                     unmarked, running, notified, queue, stopped, attempts, sweep>>
  BY DEF SendChunk, table, pool, Busy, WorkerTypes, Placed
<1>2. \A t \in Targets : t = NTargets \/ t + 1 \in Targets
  BY StoreAssumption DEF Targets
<1>3. /\ RowTypes' /\ SweepTypes' /\ Stored' = Stored
      /\ held' \in [Targets -> SUBSET (Versions \X Numbers)] /\ budget' \in 0..MaxDisturbances
           => BaseTypes'
  BY <1>1 DEF RowTypes, SweepTypes, Stored, BaseTypes
\* The rest, once it is known what the worker has become.
<1>4. ASSUME NEW r \in WorkerRec, Step(w, r), r.at \in {"send", "insert"},
             r.k = me.k, r.ver = me.ver, r.t \in Targets,
             held' \in [Targets -> SUBSET (Versions \X Numbers)],
             budget' \in 0..MaxDisturbances,
             \A u \in Targets : held[u] \subseteq held'[u],
             worker'[w] = r => SentBy(w)'
      PROVE  StoreInv'
  <2>1. Placed(r)
    BY <1>1, <1>4 DEF Placed
  <2>2. /\ WorkerTypes' /\ worker'[w] = r
        /\ \A v \in Workers : v # w => worker'[v] = worker[v]
    BY <1>4, <2>1, StepTyped
  <2>3. SentInv'
    BY <1>1, <1>4, <2>2, SentStep
  <2>4. WorkInv'
    BY <1>1, <1>3, <1>4, <2>2, WorkStep DEF Busy, Working
  <2> QED
    BY <1>3, <1>4, <2>2, <2>3, <2>4
<1>5. CASE ~running /\ Step(w, [me EXCEPT !.failed = TRUE, !.at = "insert", !.t = 1])
           /\ UNCHANGED <<held, budget>>
  <2> DEFINE r == [me EXCEPT !.failed = TRUE, !.at = "insert", !.t = 1]
  <2>1. /\ r \in WorkerRec /\ r.at = "insert" /\ r.k = me.k /\ r.ver = me.ver /\ r.t = 1
        /\ r.failed
    BY <1>1 DEF WorkerRec, Busy
  <2> HIDE DEF r
  <2>2. worker'[w] = r => SentBy(w)'
    BY <2>1 DEF SentBy
  <2>3. held' \in [Targets -> SUBSET (Versions \X Numbers)] /\ budget' \in 0..MaxDisturbances
    BY <1>5 DEF BaseTypes
  <2> QED
    BY <1>4, <1>5, <2>1, <2>2, <2>3, StableFacts DEF r
\* The record after a target, whatever came of it.
<1>6. ASSUME NEW failed \in BOOLEAN, NEW exists \in BOOLEAN
      PROVE  LET r == [me EXCEPT !.failed = @ \/ failed, !.exists = @ /\ exists,
                                 !.at = IF me.t = NTargets THEN "insert" ELSE "send",
                                 !.t = IF me.t = NTargets THEN 1 ELSE @ + 1]
             IN /\ r \in WorkerRec /\ Moved(r, failed, exists)
                /\ r.at \in {"send", "insert"} /\ r.t \in Targets
  <2> DEFINE f == me.failed \/ failed
             e == me.exists /\ exists
             a == IF me.t = NTargets THEN "insert" ELSE "send"
             t == IF me.t = NTargets THEN 1 ELSE me.t + 1
             r == [me EXCEPT !.failed = f, !.exists = e, !.at = a, !.t = t]
  <2>1. f \in BOOLEAN /\ e \in BOOLEAN /\ a \in {"send", "insert"}
    OBVIOUS
  <2>2. t \in Targets /\ t \in Nat
    BY <1>1, <1>2, StableFacts
  <2>3. /\ r \in WorkerRec /\ r.failed = f /\ r.exists = e /\ r.at = a /\ r.t = t
        /\ r.k = me.k /\ r.ver = me.ver
    <3> HIDE DEF f, e, a, t
    <3> QED
      BY <1>1, <2>1, <2>2 DEF WorkerRec, Busy
  <2> QED
    BY <2>1, <2>2, <2>3
<1>7. CASE \E r \in WorkerRec :
             /\ Step(w, r) /\ Receives(me.t, me.ver, me.k) /\ UNCHANGED budget
             /\ r.at \in {"send", "insert"} /\ r.t \in Targets
             /\ Moved(r, FALSE, Answered(me.t, me.ver) = "AlreadyExists")
  <2>1. PICK r \in WorkerRec :
             /\ Step(w, r) /\ Receives(me.t, me.ver, me.k) /\ UNCHANGED budget
             /\ r.at \in {"send", "insert"} /\ r.t \in Targets
             /\ Moved(r, FALSE, Answered(me.t, me.ver) = "AlreadyExists")
    BY <1>7
  <2>2. /\ held' \in [Targets -> SUBSET (Versions \X Numbers)]
        /\ \A u \in Targets : held[u] \subseteq held'[u]
        /\ NowHas(me.t, me.k)
        /\ Answered(me.t, me.ver) = "AlreadyExists" => NowHoldsAll(me.t)
    <3>1. me.t \in Targets /\ me.ver \in Versions /\ me.k \in Numbers
      BY <1>1
    <3> QED
      BY <2>1, <3>1, ReceivesFacts
  <2>3. /\ ~r.failed => ~me.failed
        /\ r.exists => me.exists /\ Answered(me.t, me.ver) = "AlreadyExists"
    BY <2>1
  <2>4. ASSUME worker'[w] = r PROVE SentBy(w)'
    <3> SUFFICES ASSUME NEW u \in Targets,
                        r.at = "insert" \/ (r.at = "send" /\ u < r.t), ~r.failed
                 PROVE  NowHas(u, r.k) /\ (r.exists => NowHoldsAll(u))
      BY <2>4 DEF SentBy, Has, HoldsAll, NowHas, NowHoldsAll
    <3>1. u = me.t \/ u < me.t
      BY <1>1, <2>1, StoreAssumption DEF Targets
    <3>2. CASE u = me.t
      BY <2>1, <2>2, <2>3, <3>2
    <3>3. CASE u < me.t
      <4>1. SentBy(w)
        BY DEF SentInv, WorkerSent
      <4>2. Has(u, me.k) /\ (me.exists => HoldsAll(u))
        BY <1>1, <2>3, <3>3, <4>1 DEF SentBy
      <4>3. NowHas(u, me.k) /\ (me.exists => NowHoldsAll(u))
        BY <2>2, <4>2 DEF Has, HoldsAll, NowHas, NowHoldsAll
      <4> QED
        BY <2>1, <2>3, <4>3
    <3> QED
      BY <3>1, <3>2, <3>3
  <2>5. r.k = me.k /\ r.ver = me.ver /\ budget' \in 0..MaxDisturbances
    BY <2>1 DEF BaseTypes
  <2> QED
    BY <1>4, <2>1, <2>2, <2>4, <2>5
<1>8. CASE \E r \in WorkerRec :
             /\ Step(w, r) /\ SendFails(me.t, me.ver, me.k)
             /\ r.at \in {"send", "insert"} /\ r.t \in Targets
             /\ Moved(r, TRUE, FALSE)
  <2>1. PICK r \in WorkerRec :
             /\ Step(w, r) /\ SendFails(me.t, me.ver, me.k)
             /\ r.at \in {"send", "insert"} /\ r.t \in Targets
             /\ Moved(r, TRUE, FALSE)
    BY <1>8
  <2>2. /\ held' \in [Targets -> SUBSET (Versions \X Numbers)]
        /\ \A u \in Targets : held[u] \subseteq held'[u]
        /\ budget' \in 0..MaxDisturbances
    <3>1. me.t \in Targets /\ me.ver \in Versions /\ me.k \in Numbers
      BY <1>1
    <3> QED
      BY <2>1, <3>1, SendFailsFacts
  <2>3. r.failed /\ r.k = me.k /\ r.ver = me.ver
    BY <2>1
  <2>4. worker'[w] = r => SentBy(w)'
    BY <2>3 DEF SentBy
  <2> QED
    BY <1>4, <2>1, <2>2, <2>3, <2>4
<1> HIDE DEF Moved
<1> QED
  BY <1>5, <1>6, <1>7, <1>8 DEF SendChunk

LEMMA insertChunkInv ==
  ASSUME StableFile, StoreInv, NEW w \in Workers, insertChunk(w)
  PROVE  StoreInv'
<1> USE DEF StoreInv, StoreTypes
<1> DEFINE me == worker[w]
<1>1. /\ me.at = "insert" /\ me.at \in Busy /\ me \in WorkerRec
      /\ me.ver \in Versions /\ me.k \in Numbers /\ me.t \in Targets
      /\ UNCHANGED <<content, held, resend, running, notified, queue, stopped, attempts,
                     sweep>>
  BY DEF insertChunk, world, pool, Busy, WorkerTypes, Placed
<1>2. \A t \in Targets : /\ ~me.failed => Has(t, me.k)
                         /\ ~me.failed /\ me.exists => HoldsAll(t)
  BY <1>1 DEF SentInv, WorkerSent, SentBy
<1>3. SweepTypes'
  BY <1>1 DEF SweepTypes
<1>4. CASE /\ ~me.failed /\ me.exists
           /\ addProcessedFileAndCleanupChunks /\ Finish(w) /\ UNCHANGED budget
  <2>1. /\ WorkerTypes' /\ worker'[w] = IdleWorker
        /\ \A v \in Workers : v # w => worker'[v] = worker[v]
    BY <1>4, IdleTyped, StepTyped DEF Finish
  <2>2. /\ status' = "processed" /\ rows' = NoRows
        /\ unmarked' = FALSE /\ UNCHANGED <<fingerprint, permanent, budget>>
    BY <1>4 DEF addProcessedFileAndCleanupChunks
  <2>3. BaseTypes' /\ RowTypes'
    BY <1>1, <2>2, NoRowsTyped DEF BaseTypes, RowTypes
  <2>4. SentInv'
    BY <1>1, <1>2, <1>4, <2>1, <2>2, IdleTyped, ClaimsNothing, RowsKeptOrGone, SentStep
  <2>5. WorkInv'
    BY <1>1, <2>1, <2>2, IdleTyped, WorkStep DEF Busy
  <2> QED
    BY <1>3, <2>1, <2>3, <2>4, <2>5
<1>5. CASE /\ rows' = [rows EXCEPT ![me.k] =
                         [status |-> IF Sent(w) THEN "success" ELSE "failed",
                          retries |-> 0, transfer |-> me.ver]]
           /\ NextChunk(w)
           /\ UNCHANGED <<status, fingerprint, permanent, unmarked, budget>>
  <2> DEFINE row == [status |-> IF Sent(w) THEN "success" ELSE "failed",
                     retries |-> 0, transfer |-> me.ver]
             n == Size[TheVersion]
  <2>1. /\ GoodRow(row) /\ row.status \in {"success", "failed"}
        /\ row.status = "success" => ~me.failed
    BY <1>1, StoreAssumption DEF GoodRow, Row, Sent
  <2> HIDE DEF row
  <2>2. RowTypes'
    BY <1>1, <1>5, <2>1, RowReplaced DEF row
  <2>3. rows'[me.k] = row /\ \A j \in Numbers : j # me.k => rows'[j] = rows[j]
    BY <1>1, <1>5 DEF RowTypes, row
  <2>4. me.k \in Stored' /\ Stored \subseteq Stored'
    BY <1>1, <2>1, <2>3 DEF Stored
  <2>5. \A k \in Numbers : rows'[k].status = "success" =>
           rows[k].status = "success" \/ \A t \in Targets : Has(t, k)
    BY <1>2, <2>1, <2>3
  <2>6. /\ n \in Nat \ {0} /\ Numbers = 0..(n - 1) /\ me.ver = TheVersion
        /\ content # None => content = TheVersion
    BY <1>1, StableFacts DEF StableFile, BaseTypes
  <2>7. CASE me.k + 1 < n
    <3> DEFINE r == [IdleWorker EXCEPT !.at = "send", !.ver = me.ver, !.k = me.k + 1]
    <3>1. Step(w, r)
      BY <1>5, <2>6, <2>7 DEF NextChunk
    <3>2. /\ r \in WorkerRec /\ Placed(r)
          /\ r.at = "send" /\ r.t = 1 /\ r.k = me.k + 1
      <4>1. me.k + 1 \in Numbers /\ me.k + 1 \in Nat
        BY <1>1, <2>6, <2>7
      <4> QED
        BY <1>1, <4>1, StableFacts DEF IdleWorker, WorkerRec, Placed, Busy
    <3> HIDE DEF r
    <3>3. /\ WorkerTypes' /\ worker'[w] = r
          /\ \A v \in Workers : v # w => worker'[v] = worker[v]
      BY <3>1, <3>2, StepTyped
    <3>4. BaseTypes'
      BY <1>1, <1>5 DEF BaseTypes
    <3>5. SentInv'
      BY <1>1, <1>5, <2>5, <3>2, <3>3, ClaimsNothing, SentStep
    <3>6. ASSUME NEW v \in Workers, v # w PROVE worker'[v].at \notin Busy
      BY <1>1, <3>3, <3>6 DEF WorkInv, OneInside
    <3>7. OneInside'
      BY <3>6 DEF OneInside
    <3>8. RowsBehind'
      <4> SUFFICES ASSUME status = "processing", NEW j \in Numbers, j < me.k + 1
                   PROVE  j \in Stored'
        BY <1>5, <3>2, <3>3, <3>6 DEF RowsBehind, Busy
      <4>1. j < me.k \/ j = me.k
        BY <1>1, StableFacts
      <4> QED
        BY <4>1, <1>1, <2>4 DEF WorkInv, RowsBehind
    <3>9. WorkOrRows'
      BY <3>2, <3>3 DEF WorkOrRows, Working
    <3> QED
      BY <1>3, <2>2, <3>3, <3>4, <3>5, <3>7, <3>8, <3>9 DEF WorkInv
  <2>8. CASE ~(me.k + 1 < n)
    <3>1. Finish(w)
      BY <1>5, <2>6, <2>8 DEF NextChunk
    <3>2. /\ WorkerTypes' /\ worker'[w] = IdleWorker
          /\ \A v \in Workers : v # w => worker'[v] = worker[v]
      BY <3>1, IdleTyped, StepTyped DEF Finish
    <3>3. BaseTypes'
      BY <1>1, <1>5 DEF BaseTypes
    <3>4. SentInv'
      BY <1>1, <1>5, <2>5, <3>2, IdleTyped, ClaimsNothing, SentStep
    <3>5. ASSUME NEW v \in Workers PROVE worker'[v].at \notin Busy
      BY <1>1, <3>2, <3>5, IdleTyped DEF WorkInv, OneInside, Busy
    <3>6. OneInside' /\ RowsBehind'
      BY <3>5 DEF OneInside, RowsBehind, Busy
    <3>7. ASSUME status = "processing" PROVE Stored' = Numbers
      <4>1. ASSUME NEW j \in Numbers PROVE j \in Stored'
        <5>1. j < me.k \/ j = me.k
          BY <1>1, <2>6, <2>8
        <5> QED
          BY <5>1, <1>1, <2>4, <3>7 DEF WorkInv, RowsBehind
      <4> QED
        BY <4>1 DEF Stored
    <3>8. WorkOrRows'
      BY <1>5, <3>7 DEF WorkOrRows
    <3> QED
      BY <1>3, <2>2, <3>2, <3>3, <3>4, <3>6, <3>8 DEF WorkInv
  <2> QED
    BY <2>7, <2>8
\* Every target has the file, and the record of that was lost.
<1>6. CASE ~me.failed /\ me.exists /\ Disturbed /\ UNCHANGED table /\ Finish(w)
  <2>1. /\ WorkerTypes' /\ worker'[w] = IdleWorker
        /\ \A v \in Workers : v # w => worker'[v] = worker[v]
    BY <1>6, IdleTyped, StepTyped DEF Finish
  <2>2. UNCHANGED <<status, fingerprint, permanent, rows, unmarked>> /\ Stored' = Stored
    BY <1>6 DEF table, Stored
  <2>3. budget' \in 0..MaxDisturbances
    BY <1>6, DisturbedTyped
  <2>4. BaseTypes' /\ RowTypes'
    BY <1>1, <2>2, <2>3 DEF BaseTypes, RowTypes
  <2>5. SentInv'
    BY <1>1, <2>1, <2>2, IdleTyped, ClaimsNothing, SentStep
  <2>6. AllHold
    BY <1>2, <1>6 DEF AllHold
  <2>7. WorkInv'
    BY <1>1, <2>1, <2>2, <2>6, IdleTyped, WorkStep DEF Busy
  <2> QED
    BY <1>3, <2>1, <2>4, <2>5, <2>7
<1>7. CASE Abort(w)
  <2>1. UNCHANGED <<world, running, notified, pool, attempts, sweep>>
    BY DEF insertChunk
  <2> QED
    BY <1>7, <2>1, AbortInv
<1> QED
  BY <1>4, <1>5, <1>6, <1>7 DEF insertChunk, RecordDelivered

-----------------------------------------------------------------------------
(* The pending-chunks thread, action by action.                            *)

LEMMA FilesToRetryInv ==
  ASSUME StableFile, StoreInv, FilesToRetry
  PROVE  StoreInv'
<1> USE DEF StoreInv, StoreTypes
<1>1. UNCHANGED <<content, held, resend, budget, status, fingerprint, permanent, rows,
                  unmarked, running, notified, queue, stopped, attempts, worker>>
  BY DEF FilesToRetry, world, table, pool
<1>2. SweepTypes' /\ sweep'.at \in {"done", "retry", "backlog"}
  BY GotoTyped DEF FilesToRetry, SweepPlaces
<1>3. BaseTypes' /\ RowTypes' /\ WorkerTypes' /\ Stored' = Stored
  BY <1>1 DEF BaseTypes, RowTypes, WorkerTypes, Stored
<1>4. SentInv' /\ WorkInv'
  BY <1>1, <1>2, <1>3, SweepClaimsNothing, CalmStep
<1> QED
  BY <1>2, <1>3, <1>4

LEMMA RetryFileInv ==
  ASSUME StableFile, StoreInv, RetryFile
  PROVE  StoreInv'
<1> USE DEF StoreInv, StoreTypes
<1>1. UNCHANGED <<content, held, resend, running, notified, stopped, worker>>
  BY DEF RetryFile, world
<1>2. SweepTypes' /\ sweep'.at = "backlog"
  BY GotoTyped DEF RetryFile, SweepPlaces
<1>3. /\ FailedFacts
      /\ queue' \in Seq({"process", "deferred"}) /\ Len(queue') <= MaxPending
  <2>1. CASE UNCHANGED <<table, queue, attempts, budget>>
    BY <2>1, TableKept DEF BaseTypes
  <2>2. CASE removeFileFromRetry /\ UNCHANGED <<table, queue, budget>>
    <3>1. attempts' \in 0..(MaxAttempts - 1)
      BY <2>2, StoreAssumption DEF removeFileFromRetry
    <3> QED
      BY <2>2, <3>1 DEF table, FailedFacts, BaseTypes, RowTypes
  <2>3. CASE handleNewFile
    BY <2>3, HandleFacts
  <2> QED
    BY <2>1, <2>2, <2>3 DEF RetryFile
<1>4. BaseTypes' /\ RowTypes' /\ WorkerTypes'
  BY <1>1, <1>3 DEF BaseTypes, WorkerTypes, FailedFacts
<1>5. SentInv' /\ WorkInv'
  BY <1>1, <1>2, <1>3, SweepClaimsNothing, FailedStep, CalmStep
<1> QED
  BY <1>2, <1>4, <1>5

LEMMA ReadBacklogInv ==
  ASSUME StableFile, StoreInv, ReadBacklog
  PROVE  StoreInv'
<1> USE DEF StoreInv, StoreTypes
<1>1. UNCHANGED <<content, held, resend, running, notified, queue, stopped, attempts, worker>>
  BY DEF ReadBacklog, world, pool
<1>2. WorkerTypes'
  BY <1>1 DEF WorkerTypes
<1>3. \A k \in getPendingChunks :
        /\ k \in Numbers /\ rows[k] \in PendingRow /\ rows[k].status = "failed"
        /\ rows[k].transfer \in Versions /\ rows[k] \in Row /\ rows[k].retries + 1 \in Nat
  BY DEF getPendingChunks, Stored, RowTypes, GoodRow, Row, PendingRow
<1>4. CASE Goto("list") /\ UNCHANGED <<table, budget>>
  <2>1. SweepTypes' /\ sweep'.at = "list"
    BY <1>4, GotoTyped DEF SweepPlaces
  <2>2. UNCHANGED <<status, fingerprint, permanent, rows, unmarked, budget>>
    BY <1>4 DEF table
  <2>3. BaseTypes' /\ RowTypes' /\ Stored' = Stored
    BY <1>1, <2>2 DEF BaseTypes, RowTypes, Stored
  <2>4. SentInv' /\ WorkInv'
    BY <1>1, <2>1, <2>2, <2>3, SweepClaimsNothing, CalmStep
  <2> QED
    BY <1>2, <2>1, <2>3, <2>4
\* The file cannot be opened: some of the writes reach the database.
<1>5. ASSUME NEW marked \in BOOLEAN, NEW written \in SUBSET getPendingChunks,
             Disturbed \/ UNCHANGED budget,
             status' = IF marked THEN "failed" ELSE status,
             unmarked' = (unmarked /\ ~marked),
             rows' = [k \in Numbers |->
                        IF k \in written THEN [rows[k] EXCEPT !.retries = @ + 1]
                                         ELSE rows[k]],
             Goto("list"), UNCHANGED <<fingerprint, permanent>>
      PROVE  StoreInv'
  <2>1. SweepTypes' /\ sweep'.at = "list"
    BY <1>5, GotoTyped DEF SweepPlaces
  <2>2. budget' \in 0..MaxDisturbances
    BY <1>5, DisturbedTyped
  <2>3. ASSUME NEW k \in Numbers
        PROVE  GoodRow(rows'[k]) /\ rows'[k].status = rows[k].status
    <3>1. CASE k \in written
      <4> DEFINE r == [rows[k] EXCEPT !.retries = rows[k].retries + 1]
      <4>1. rows'[k] = r /\ k \in getPendingChunks
        BY <1>5, <3>1
      <4>2. GoodRow(r) /\ r.status = rows[k].status
        BY <1>3, <4>1 DEF GoodRow, Row
      <4> QED
        BY <4>1, <4>2
    <3>2. CASE k \notin written
      BY <1>5, <3>2 DEF RowTypes
    <3> QED
      BY <3>1, <3>2
  <2>4. RowTypes' /\ Stored' = Stored
    <3>1. \A k \in Numbers : rows'[k] \in Row
      BY <2>3 DEF GoodRow
    <3>2. DOMAIN rows' = Numbers /\ rows' = [k \in Numbers |-> rows'[k]]
      BY <1>5
    <3> QED
      BY <2>3, <3>1, <3>2 DEF RowTypes, GoodRow, Stored
  <2>5. BaseTypes'
    BY <1>1, <1>5, <2>2 DEF BaseTypes
  <2>6. \/ status' = "failed"
        \/ status' = status /\ (unmarked => unmarked')
    BY <1>5
  <2>7. SentInv' /\ WorkInv'
    BY <1>1, <2>1, <2>3, <2>4, <2>6, SweepClaimsNothing, CalmStep
  <2> QED
    BY <1>2, <2>1, <2>4, <2>5, <2>7
<1>6. CASE /\ content # None
           /\ sweep' = [FirstSweep EXCEPT !.at = "next", !.size = Size[content],
                                     !.todo = {<<k, rows[k]>> : k \in getPendingChunks}]
           /\ UNCHANGED <<table, budget>>
  <2> DEFINE todo == {<<k, rows[k]>> : k \in getPendingChunks}
  <2>1. todo \in SUBSET (Numbers \X PendingRow)
    BY <1>3
  <2>2. NoRow \in Row /\ Size[content] \in Nat
    BY <1>6, StoreAssumption DEF NoRow, Row, BaseTypes
  <2>3. sweep' = [at |-> "next", todo |-> todo, size |-> Size[content], row |-> NoRow,
                  k |-> 0, t |-> 1, retries |-> 0, exists |-> TRUE]
    BY <1>6 DEF FirstSweep
  <2>4. sweep' \in SweepRec /\ sweep'.at = "next" /\ sweep'.t = 1
    <3> HIDE DEF todo, NoRow
    <3> QED
      BY <2>1, <2>2, <2>3 DEF SweepRec, SweepPlaces
  <2>5. SweepTypes'
    BY <2>4 DEF SweepTypes
  <2>6. UNCHANGED <<status, fingerprint, permanent, rows, unmarked, budget>>
    BY <1>6 DEF table
  <2>7. BaseTypes' /\ RowTypes' /\ Stored' = Stored
    BY <1>1, <2>6 DEF BaseTypes, RowTypes, Stored
  <2>8. SentInv' /\ WorkInv'
    BY <1>1, <2>4, <2>6, <2>7, SweepClaimsNothing, CalmStep
  <2> QED
    BY <1>2, <2>5, <2>7, <2>8
<1>7. ASSUME Goto("list"), UNCHANGED <<fingerprint, permanent>>,
             \E marked \in BOOLEAN, written \in SUBSET getPendingChunks :
                /\ IF marked /\ written = getPendingChunks THEN UNCHANGED budget
                                                           ELSE Disturbed
                /\ status' = IF marked THEN "failed" ELSE status
                /\ unmarked' = (unmarked /\ ~marked)
                /\ rows' = [k \in Numbers |->
                              IF k \in written THEN [rows[k] EXCEPT !.retries = @ + 1]
                                               ELSE rows[k]]
      PROVE  StoreInv'
  BY <1>5, <1>7
<1> QED
  BY <1>4, <1>6, <1>7 DEF ReadBacklog

\* The next chunk of the backlog, with its row as it was read.
LEMMA NextPendingInv ==
  ASSUME StableFile, StoreInv, NextPending
  PROVE  StoreInv'
<1> USE DEF StoreInv, StoreTypes
<1>1. /\ sweep.at = "next" /\ sweep \in SweepRec /\ sweep.t = 1
      /\ UNCHANGED <<content, held, resend, budget, status, fingerprint, permanent, unmarked,
                     running, notified, queue, stopped, attempts, worker>>
  BY DEF NextPending, world, pool, SweepTypes
<1>2. BaseTypes' /\ WorkerTypes'
  BY <1>1 DEF BaseTypes, WorkerTypes
<1>3. CASE Goto("list") /\ UNCHANGED rows
  <2>1. SweepTypes' /\ sweep'.at = "list"
    BY <1>3, GotoTyped DEF SweepPlaces
  <2>2. RowTypes' /\ Stored' = Stored
    BY <1>3 DEF RowTypes, Stored
  <2>3. SentInv' /\ WorkInv'
    BY <1>1, <1>3, <2>1, <2>2, SweepClaimsNothing, CalmStep
  <2> QED
    BY <1>2, <2>1, <2>2, <2>3
<1>4. ASSUME NEW c \in sweep.todo
      PROVE  /\ c[1] \in Numbers /\ c[1] \in Nat /\ c[2] \in PendingRow /\ c[2] \in Row
             /\ c[2].retries \in Nat /\ c[2].retries + 1 \in Nat
             /\ sweep.todo \ {c} \in SUBSET (Numbers \X PendingRow)
  <2>1. c \in Numbers \X PendingRow /\ sweep.todo \in SUBSET (Numbers \X PendingRow)
    BY <1>1 DEF SweepRec
  <2>2. c[1] \in Numbers /\ c[2] \in PendingRow
    BY <2>1
  <2>3. c[2].retries \in Nat /\ c[2] \in Row
    BY <2>2 DEF PendingRow, Row
  <2> QED
    BY <2>1, <2>2, <2>3, StableFacts
<1>5. ASSUME NEW c \in sweep.todo,
             rows' = UpdateChunk(c[1], "failed", c[2].retries + 1),
             Advance(sweep.todo \ {c})
      PROVE  StoreInv'
  <2>1. SweepTypes' /\ sweep'.at = "next"
    BY <1>1, <1>4, <1>5, AdvanceTyped
  <2>3. /\ RowTypes' /\ Stored' = Stored
        /\ \A k \in Numbers : rows'[k].status = "success" => rows[k].status = "success"
    BY <1>4, <1>5, ChunkTyped
  <2>4. SentInv' /\ WorkInv'
    BY <1>1, <2>1, <2>3, SweepClaimsNothing, CalmStep
  <2> QED
    BY <1>2, <2>1, <2>3, <2>4
<1>6. ASSUME NEW c \in sweep.todo, UNCHANGED rows,
             sweep' = [sweep EXCEPT !.at = "send", !.todo = @ \ {c}, !.k = c[1],
                                    !.row = c[2], !.retries = c[2].retries]
      PROVE  StoreInv'
  <2>1. /\ sweep' \in SweepRec /\ sweep'.at = "send" /\ sweep'.k = c[1]
        /\ sweep'.row = c[2] /\ sweep'.t = 1
    BY <1>1, <1>4, <1>6 DEF SweepRec, SweepPlaces
  <2>2. SweepTypes'
    BY <1>4, <2>1, StableFacts DEF SweepTypes
  <2>3. RowTypes' /\ Stored' = Stored
    BY <1>6 DEF RowTypes, Stored
  <2>4. SentInv' /\ WorkInv'
    BY <1>1, <1>6, <2>1, <2>3, SweepClaimsNothing, CalmStep
  <2> QED
    BY <1>2, <2>2, <2>3, <2>4
<1> QED
  BY <1>3, <1>5, <1>6 DEF NextPending

\* A pending chunk goes to one target after the other; a failed attempt is
\* repeated at the same target or ends the chunk.
LEMMA SendPendingInv ==
  ASSUME StableFile, StoreInv, SendPending
  PROVE  StoreInv'
<1> USE DEF StoreInv, StoreTypes
<1> DEFINE v == sweep.row.transfer
           t == sweep.t
           k == sweep.k
           AllHave == [Targets -> SUBSET (Versions \X Numbers)]
<1>1. /\ sweep.at = "send" /\ sweep \in SweepRec /\ t \in Targets /\ k \in Numbers
      /\ v \in Versions /\ sweep.row \in PendingRow /\ sweep.retries + 1 \in Nat
      /\ sweep.todo \in SUBSET (Numbers \X PendingRow)
      /\ UNCHANGED <<content, resend, status, fingerprint, permanent, unmarked, running,
                     notified, queue, stopped, attempts, worker>>
  <2>1. sweep.at = "send" /\ sweep.row \in PendingRow
    BY DEF SendPending, SweepTypes
  <2>2. v \in Versions
    BY <2>1 DEF PendingRow
  <2>3. sweep.retries + 1 \in Nat /\ sweep.todo \in SUBSET (Numbers \X PendingRow)
    BY DEF SweepTypes, SweepRec
  <2> QED
    BY <2>1, <2>2, <2>3 DEF SendPending, pool, SweepTypes
<1>2. WorkerTypes' /\ (held' \in AllHave /\ budget' \in 0..MaxDisturbances => BaseTypes')
  BY <1>1 DEF BaseTypes, WorkerTypes
\* The rest, once it is known what has become of the rows and of the sweep.
<1>3. ASSUME held' \in AllHave, budget' \in 0..MaxDisturbances, RowTypes', Stored' = Stored,
             \A u \in Targets : held[u] \subseteq held'[u],
             \A j \in Numbers : rows'[j].status = "success" => rows[j].status = "success",
             SweepTypes', SweepSent', CleanupSound'
      PROVE  StoreInv'
  <2>1. SentInv'
    BY <1>1, <1>3, SentStep
  <2>2. WorkInv'
    BY <1>1, <1>3, WorkStep DEF Working
  <2> QED
    BY <1>2, <1>3, <2>1, <2>2
<1>4. CASE Goto("list") /\ UNCHANGED <<held, budget, rows>>
  <2>1. SweepTypes' /\ sweep'.at = "list"
    BY <1>4, GotoTyped DEF SweepPlaces
  <2>2. RowTypes' /\ Stored' = Stored /\ held' \in AllHave /\ budget' \in 0..MaxDisturbances
    BY <1>4 DEF RowTypes, Stored, BaseTypes
  <2> QED
    BY <1>3, <1>4, <2>1, <2>2, SweepClaimsNothing
<1>5. CASE /\ Receives(t, v, k)
           /\ sweep' = [sweep EXCEPT
                          !.exists = @ /\ Answered(sweep.t, v) = "AlreadyExists",
                          !.at = IF sweep.t = NTargets THEN "settle" ELSE "send",
                          !.t = IF sweep.t = NTargets THEN 1 ELSE @ + 1]
           /\ UNCHANGED <<budget, rows>>
  <2> DEFINE e == sweep.exists /\ Answered(t, v) = "AlreadyExists"
             a == IF t = NTargets THEN "settle" ELSE "send"
             n == IF t = NTargets THEN 1 ELSE t + 1
  <2>1. /\ held' \in AllHave
        /\ \A u \in Targets : held[u] \subseteq held'[u]
        /\ NowHas(t, k)
        /\ Answered(t, v) = "AlreadyExists" => NowHoldsAll(t)
    <3>1. t \in Targets /\ v \in Versions /\ k \in Numbers
      BY <1>1
    <3> HIDE DEF t, v, k
    <3> QED
      BY <1>5, <3>1, ReceivesFacts
  <2>2. e \in BOOLEAN /\ a \in {"settle", "send"} /\ n \in Targets /\ n \in Nat
    BY <1>1, StoreAssumption DEF Targets
  <2>3. sweep' = [sweep EXCEPT !.exists = e, !.at = a, !.t = n]
    BY <1>5
  <2>4. /\ sweep' \in SweepRec /\ sweep'.exists = e /\ sweep'.at = a /\ sweep'.t = n
        /\ sweep'.k = sweep.k /\ sweep'.row = sweep.row
    <3> HIDE DEF e, a, n, t, v, k
    <3> QED
      BY <1>1, <2>2, <2>3 DEF SweepRec, SweepPlaces
  <2>5. SweepTypes'
    BY <1>1, <2>2, <2>4 DEF SweepTypes
  <2>6. SweepSent'
    <3> SUFFICES ASSUME NEW u \in Targets, a = "settle" \/ (a = "send" /\ u < n)
                 PROVE  NowHas(u, k) /\ (e => NowHoldsAll(u))
      BY <2>4 DEF SweepSent, Has, HoldsAll, NowHas, NowHoldsAll
    <3>1. u = t \/ u < t
      BY <1>1, StoreAssumption DEF Targets
    <3>2. CASE u = t
      BY <2>1, <3>2
    <3>3. CASE u < t
      <4>1. Has(u, k) /\ (sweep.exists => HoldsAll(u))
        BY <1>1, <3>3 DEF SentInv, SweepSent
      <4> QED
        BY <2>1, <4>1 DEF Has, HoldsAll, NowHas, NowHoldsAll
    <3> QED
      BY <3>1, <3>2, <3>3
  <2>7. CleanupSound'
    BY <2>4 DEF CleanupSound
  <2>8. RowTypes' /\ Stored' = Stored /\ budget' \in 0..MaxDisturbances
    BY <1>5 DEF RowTypes, Stored, BaseTypes
  <2> QED
    BY <1>3, <1>5, <2>1, <2>5, <2>6, <2>7, <2>8
<1>6. ASSUME Advance(sweep.todo) PROVE SweepTypes' /\ SweepSent' /\ CleanupSound'
  <2>1. SweepTypes' /\ sweep'.at = "next"
    BY <1>1, <1>6, AdvanceTyped
  <2> QED
    BY <2>1, SweepClaimsNothing
<1>7. ASSUME rows' \in {rows, UpdateChunk(k, "failed", sweep.retries + 1),
                        updateChunkStatus(k, "failed"),
                        updateChunkRetries(k, sweep.retries + 1)}
      PROVE  /\ RowTypes' /\ Stored' = Stored
             /\ \A j \in Numbers : rows'[j].status = "success" => rows[j].status = "success"
  <2> DEFINE n == sweep.retries + 1
  <2>1. n \in Nat /\ k \in Numbers
    BY <1>1
  <2>2. rows' \in {rows, UpdateChunk(k, "failed", n), updateChunkStatus(k, "failed"),
                   updateChunkRetries(k, n)}
    BY <1>7
  <2> HIDE DEF n, k
  <2> QED
    BY <2>1, <2>2, ChunkTyped
<1>8. ASSUME SendFails(t, v, k)
      PROVE  /\ held' \in AllHave /\ budget' \in 0..MaxDisturbances
             /\ \A u \in Targets : held[u] \subseteq held'[u]
  <2>1. t \in Targets /\ v \in Versions /\ k \in Numbers
    BY <1>1
  <2> HIDE DEF t, v, k
  <2> QED
    BY <1>8, <2>1, SendFailsFacts
<1>9. CASE /\ SendFails(t, v, k)
           /\ rows' \in {rows, updateChunkRetries(sweep.k, sweep.retries + 1)}
           /\ sweep' = [sweep EXCEPT !.retries = @ + 1]
  <2>1. /\ sweep' \in SweepRec /\ sweep'.at = "send" /\ sweep'.t = t /\ sweep'.k = k
        /\ sweep'.row = sweep.row /\ sweep'.exists = sweep.exists
    BY <1>1, <1>9 DEF SweepRec
  <2>2. SweepTypes' /\ CleanupSound'
    BY <1>1, <2>1 DEF SweepTypes, CleanupSound
  <2>3. SweepSent'
    BY <1>1, <1>8, <1>9, <2>1 DEF SentInv, SweepSent, HoldsAll, Has
  <2> QED
    BY <1>3, <1>7, <1>8, <1>9, <2>2, <2>3
<1>10. CASE /\ SendFails(t, v, k)
            /\ rows' \in {rows, UpdateChunk(sweep.k, "failed", sweep.retries + 1)}
            /\ Advance(sweep.todo)
  BY <1>3, <1>6, <1>7, <1>8, <1>10
<1>11. CASE /\ Disturbed
            /\ rows' \in {rows, updateChunkStatus(sweep.k, "failed")}
            /\ Advance(sweep.todo)
            /\ UNCHANGED held
  <2>1. held' \in AllHave /\ budget' \in 0..MaxDisturbances
    BY <1>11, DisturbedTyped DEF BaseTypes
  <2> QED
    BY <1>3, <1>6, <1>7, <1>11, <2>1
<1> QED
  BY <1>4, <1>5, <1>9, <1>10, <1>11 DEF SendPending

LEMMA SettlePendingInv ==
  ASSUME StableFile, StoreInv, SettlePending
  PROVE  StoreInv'
<1> USE DEF StoreInv, StoreTypes
<1>1. /\ sweep.at = "settle" /\ sweep \in SweepRec /\ sweep.k \in Numbers
      /\ sweep.todo \in SUBSET (Numbers \X PendingRow)
      /\ UNCHANGED <<content, held, resend, running, notified, queue, stopped, attempts,
                     worker>>
  BY DEF SettlePending, world, pool, SweepTypes, SweepRec
<1>2. \A t \in Targets : Has(t, sweep.k) /\ (sweep.exists => HoldsAll(t))
  BY <1>1 DEF SentInv, SweepSent
<1>3. WorkerTypes' /\ budget' \in 0..MaxDisturbances
  <2>1. Disturbed \/ UNCHANGED budget
    BY DEF SettlePending, RecordDelivered
  <2> QED
    BY <1>1, <2>1, DisturbedTyped DEF WorkerTypes
<1>4. CASE sweep.exists /\ addProcessedFileAndCleanupChunks /\ Goto("list")
  <2>1. SweepTypes' /\ sweep'.at = "list"
    BY <1>4, GotoTyped DEF SweepPlaces
  <2>2. /\ status' = "processed" /\ rows' = NoRows /\ unmarked' = FALSE
        /\ UNCHANGED <<fingerprint, permanent>>
    BY <1>4 DEF addProcessedFileAndCleanupChunks
  <2>3. BaseTypes' /\ RowTypes'
    BY <1>1, <1>3, <2>2, NoRowsTyped DEF BaseTypes, RowTypes
  <2>4. SentInv'
    BY <1>1, <1>2, <1>4, <2>1, <2>2, SweepClaimsNothing, RowsKeptOrGone, SentStep
  <2>5. WorkInv'
    BY <1>1, <2>2, WorkStep
  <2> QED
    BY <1>3, <2>1, <2>3, <2>4, <2>5
<1>5. CASE UNCHANGED table /\ Goto("list")
  <2>1. SweepTypes' /\ sweep'.at = "list"
    BY <1>5, GotoTyped DEF SweepPlaces
  <2>2. UNCHANGED <<status, fingerprint, permanent, rows, unmarked>> /\ Stored' = Stored
    BY <1>5 DEF table, Stored
  <2>3. BaseTypes' /\ RowTypes'
    BY <1>1, <1>3, <2>2 DEF BaseTypes, RowTypes
  <2>4. SentInv' /\ WorkInv'
    BY <1>1, <2>1, <2>2, SweepClaimsNothing, CalmStep
  <2> QED
    BY <1>3, <2>1, <2>3, <2>4
<1>6. CASE /\ rows' \in {rows, updateChunkStatus(sweep.k, "success")}
           /\ Advance(sweep.todo)
           /\ UNCHANGED <<status, fingerprint, permanent, unmarked>>
  <2>1. SweepTypes' /\ sweep'.at = "next"
    BY <1>1, <1>6, AdvanceTyped
  <2>2. /\ RowTypes' /\ Stored' = Stored
        /\ \A j \in Numbers : rows'[j].status = "success" =>
             rows[j].status = "success" \/ j = sweep.k
    <3>1. rows' \in {rows, UpdateChunk(sweep.k, "success", 0),
                     updateChunkStatus(sweep.k, "success"), updateChunkRetries(sweep.k, 0)}
      BY <1>6
    <3> QED
      BY <1>1, <3>1, ChunkTyped
  <2>3. BaseTypes'
    BY <1>1, <1>3, <1>6 DEF BaseTypes
  <2>4. SentInv'
    BY <1>1, <1>2, <1>6, <2>1, <2>2, SweepClaimsNothing, SentStep
  <2>5. WorkInv'
    BY <1>1, <1>6, <2>2, WorkStep DEF Working
  <2> QED
    BY <1>3, <2>1, <2>2, <2>3, <2>4, <2>5
<1> QED
  BY <1>4, <1>5, <1>6 DEF SettlePending, RecordDelivered

\* A file is listed as sent in full when there is a successful row for each chunk.
LEMMA ListSentInv ==
  ASSUME StableFile, StoreInv, ListSent
  PROVE  StoreInv'
<1> USE DEF StoreInv, StoreTypes
<1>1. UNCHANGED <<content, held, resend, budget, status, fingerprint, permanent, rows,
                  unmarked, running, notified, queue, stopped, attempts, worker>>
  BY DEF ListSent, world, table, pool
<1>2. /\ SweepTypes' /\ sweep'.at \in {"cleanup", "files"}
      /\ sweep'.at = "cleanup" => getFullySentFiles
  BY GotoTyped DEF ListSent, SweepPlaces
<1>3. BaseTypes' /\ RowTypes' /\ WorkerTypes' /\ Stored' = Stored
  BY <1>1 DEF BaseTypes, RowTypes, WorkerTypes, Stored
<1>4. ASSUME getFullySentFiles, NEW t \in Targets PROVE HoldsAll(t)
  <2>1. Stored = Numbers /\ Stored = Successful
    BY <1>4, AllStored DEF getFullySentFiles
  <2> QED
    BY <2>1 DEF Successful, SentInv, RowsSent, HoldsAll
<1>5. SweepSent' /\ CleanupSound'
  BY <1>1, <1>2, <1>4 DEF SweepSent, CleanupSound, HoldsAll, Has
<1>6. SentInv' /\ WorkInv'
  BY <1>1, <1>3, <1>5, CalmStep
<1> QED
  BY <1>2, <1>3, <1>6

LEMMA CleanupSentInv ==
  ASSUME StableFile, StoreInv, CleanupSent
  PROVE  StoreInv'
<1> USE DEF StoreInv, StoreTypes
<1>1. UNCHANGED <<content, held, resend, running, notified, queue, stopped, attempts, worker>>
  BY DEF CleanupSent, world, pool
<1>2. \A t \in Targets : HoldsAll(t)
  BY DEF CleanupSent, SentInv, CleanupSound
<1>3. SweepTypes' /\ sweep'.at = "files"
  BY GotoTyped DEF CleanupSent, SweepPlaces
<1>4. budget' \in 0..MaxDisturbances
  BY DisturbedTyped DEF CleanupSent, RecordDelivered
<1>5. CASE addProcessedFileAndCleanupChunks
  <2>1. /\ status' = "processed" /\ rows' = NoRows /\ unmarked' = FALSE
        /\ UNCHANGED <<fingerprint, permanent>>
    BY <1>5 DEF addProcessedFileAndCleanupChunks
  <2>2. BaseTypes' /\ RowTypes' /\ WorkerTypes'
    BY <1>1, <1>4, <2>1, NoRowsTyped DEF BaseTypes, RowTypes, WorkerTypes
  <2>3. SentInv'
    BY <1>1, <1>2, <1>3, <2>1, SweepClaimsNothing, RowsKeptOrGone, SentStep
  <2>4. WorkInv'
    BY <1>1, <2>1, WorkStep
  <2> QED
    BY <1>3, <2>2, <2>3, <2>4
<1>6. CASE UNCHANGED table
  <2>1. UNCHANGED <<status, fingerprint, permanent, rows, unmarked>> /\ Stored' = Stored
    BY <1>6 DEF table, Stored
  <2>2. BaseTypes' /\ RowTypes' /\ WorkerTypes'
    BY <1>1, <1>4, <2>1 DEF BaseTypes, RowTypes, WorkerTypes
  <2>3. SentInv' /\ WorkInv'
    BY <1>1, <1>3, <2>1, SweepClaimsNothing, CalmStep
  <2> QED
    BY <1>3, <2>2, <2>3
<1> QED
  BY <1>5, <1>6 DEF CleanupSent, RecordDelivered

-----------------------------------------------------------------------------
(* The invariant is inductive.                                             *)

\* After a crash nobody works on the file, and nothing is in processing.
LEMMA RestartInv ==
  ASSUME StableFile, StoreInv, Restart
  PROVE  StoreInv'
<1> USE DEF StoreInv, StoreTypes
<1>1. /\ UNCHANGED <<content, held, resend, fingerprint, permanent, rows>>
      /\ unmarked' = FALSE /\ running' = TRUE /\ stopped' = FALSE /\ notified' = TRUE
      /\ queue' = <<>> /\ attempts' = 0 /\ sweep' = FirstSweep
      /\ worker' = [w \in Workers |-> IdleWorker]
      /\ status' = IF status = "processing" THEN "failed" ELSE status
  BY DEF Restart, world
<1>2. budget' \in 0..MaxDisturbances
  BY StoreAssumption DEF Restart, Disturbed, BaseTypes
<1>3. BaseTypes'
  <2>1. queue' \in Seq({"process", "deferred"}) /\ Len(queue') <= MaxPending
    BY <1>1, StoreAssumption
  <2>2. attempts' \in 0..(MaxAttempts - 1)
    BY <1>1, StoreAssumption
  <2> QED
    BY <1>1, <1>2, <2>1, <2>2 DEF BaseTypes
<1>4. WorkerTypes' /\ RowTypes'
  BY <1>1, IdleTyped DEF WorkerTypes, RowTypes
<1>5. SweepTypes' /\ sweep'.at = "files"
  <2>1. NoRow \in Row
    BY DEF NoRow, Row
  <2>2. sweep' \in SweepRec /\ sweep'.at = "files" /\ sweep'.t = 1
    BY <1>1, <2>1 DEF FirstSweep, SweepRec, SweepPlaces
  <2> QED
    BY <2>2 DEF SweepTypes
<1>6. SentInv'
  BY <1>1, <1>5, IdleTyped, ClaimsNothing, SweepClaimsNothing, SentStep
<1>7. WorkInv'
  BY <1>1, IdleTyped, WorkStep DEF Busy
<1> QED
  BY <1>3, <1>4, <1>5, <1>6, <1>7

\* Stopping, and what happens to the file on disk.
LEMMA OutsideInv ==
  ASSUME StableFile, StoreInv,
         Stop \/ StopPool \/ NotifyAgain \/ Change \/ UNCHANGED vars
  PROVE  StoreInv'
<1> USE DEF StoreInv, StoreTypes
<1>1. UNCHANGED <<held, resend, status, fingerprint, permanent, rows, unmarked, queue,
                  attempts, worker, sweep>>
  BY DEF Stop, StopPool, NotifyAgain, Change, vars, world, table, pool
<1>2. budget' \in 0..MaxDisturbances
  BY StoreAssumption
    DEF Stop, StopPool, NotifyAgain, Change, vars, Disturbed, BaseTypes
<1>3. /\ content' \in Versions \cup {None}
      /\ running' \in BOOLEAN /\ stopped' \in BOOLEAN /\ notified' \in BOOLEAN
  BY DEF Stop, StopPool, NotifyAgain, Change, vars, world, pool, BaseTypes
<1>4. BaseTypes' /\ WorkerTypes' /\ RowTypes' /\ SweepTypes' /\ Stored' = Stored
  BY <1>1, <1>2, <1>3 DEF BaseTypes, WorkerTypes, RowTypes, SweepTypes, Stored
<1>5. SentInv' /\ WorkInv'
  BY <1>1, <1>4, CalmStep
<1> QED
  BY <1>4, <1>5

LEMMA StoreInit ==
  ASSUME StableFile, Init
  PROVE  StoreInv
<1>1. BaseTypes
  <2>1. queue \in Seq({"process", "deferred"}) /\ Len(queue) <= MaxPending
    BY StoreAssumption DEF Init
  <2>2. attempts \in 0..(MaxAttempts - 1) /\ budget \in 0..MaxDisturbances
    BY StoreAssumption DEF Init
  <2>3. held \in [Targets -> SUBSET (Versions \X Numbers)]
    BY DEF Init
  <2> QED
    BY <2>1, <2>2, <2>3 DEF Init, BaseTypes
<1>2. WorkerTypes /\ \A w \in Workers : worker[w].at = "idle"
  BY IdleTyped DEF Init, WorkerTypes
<1>3. RowTypes /\ \A k \in Numbers : rows[k].status = "none"
  BY NoRowsTyped DEF Init, NoRows, RowTypes, NoRow
<1>4. SweepTypes /\ sweep.at = "files"
  <2>1. NoRow \in Row
    BY DEF NoRow, Row
  <2>2. sweep \in SweepRec /\ sweep.at = "files" /\ sweep.t = 1
    BY <2>1 DEF Init, FirstSweep, SweepRec, SweepPlaces
  <2> QED
    BY <2>2 DEF SweepTypes
<1>5. SentInv
  BY <1>2, <1>3, <1>4 DEF Init, SentInv, WorkerSent, SentBy, SweepSent, RowsSent,
                          CleanupSound, ProcessedSound
<1>6. WorkInv
  BY <1>2 DEF Init, WorkInv, OneInside, RowsBehind, WorkOrRows, Busy
<1> QED
  BY <1>1, <1>2, <1>3, <1>4, <1>5, <1>6 DEF StoreInv, StoreTypes

LEMMA StoreStep ==
  ASSUME StableFile, StoreInv, [Next]_vars
  PROVE  StoreInv'
<1>1. ASSUME NEW w \in Workers, WorkerStep(w) PROVE StoreInv'
  BY <1>1, TakeTaskInv, DeferredInv, OpenFileInv, GiveUpInv, MarkProcessingInv,
     deleteFileChunksInv, SendChunkInv, insertChunkInv DEF WorkerStep
<1>2. CASE SweepStep
  BY <1>2, FilesToRetryInv, RetryFileInv, ReadBacklogInv, NextPendingInv, SendPendingInv,
     SettlePendingInv, ListSentInv, CleanupSentInv DEF SweepStep
<1> QED
  BY <1>1, <1>2, NotifyInv, RestartInv, OutsideInv DEF Next

LEMMA StoreInductive ==
  ASSUME StableFile
  PROVE  Spec => []StoreInv
<1>1. Init => StoreInv
  BY StoreInit
<1>2. StoreInv /\ [Next]_vars => StoreInv'
  BY StoreStep
<1> QED
  BY <1>1, <1>2, PTL DEF Spec

-----------------------------------------------------------------------------
(* Theorems.                                                               *)

\* Types of the agent's tables, queue and threads; the queue and a file's attempts stay
\* within their limits (Database, FileProcessor, RadarAgent).
THEOREM StoreTypeCorrect ==
  ASSUME StableFile
  PROVE  Spec => []TypeOK
<1>1. StoreInv => TypeOK
  BY TypesImplyTypeOK DEF StoreInv
<1> QED
  BY <1>1, StoreInductive, PTL

\* A chunk recorded as sent is held by every target, for any number of workers next
\* to the pending-chunks thread, with lost answers, crashes and rows rewritten in
\* between (splitFile, insertChunk, sendPendingFailedChunks).
THEOREM RecordedChunksAreHeld ==
  ASSUME StableFile
  PROVE  Spec => []SuccessRowsHeld
<1>1. StoreInv => SuccessRowsHeld
  <2> SUFFICES ASSUME StoreInv, NEW k \in Successful, NEW t \in Targets
               PROVE  <<rows[k].transfer, k>> \in held[t]
    BY DEF SuccessRowsHeld
  <2>1. k \in Numbers /\ rows[k].status = "success" /\ rows[k].transfer = TheVersion
    BY DEF Successful, StoreInv, StoreTypes, RowTypes, GoodRow, StableFile
  <2> QED
    BY <2>1 DEF StoreInv, SentInv, RowsSent, Has
<1> QED
  BY <1>1, StoreInductive, PTL

\* The finding about a clean-up that races with a changed file needs the change: a
\* file that keeps one content, once recorded as processed, is held by every target
\* (cleanupSentFiles).
THEOREM ProcessedMeansHeld ==
  ASSUME StableFile
  PROVE  Spec => []ProcessedIsHeld
<1>1. StoreInv => ProcessedIsHeld
  <2> SUFFICES ASSUME StoreInv, status = "processed", content # None,
                      NEW t \in Targets
               PROVE  Holds(t, content)
    BY DEF ProcessedIsHeld
  <2>1. content = TheVersion
    BY DEF StoreInv, StoreTypes, BaseTypes, StableFile
  <2>2. HoldsAll(t)
    BY DEF StoreInv, SentInv, ProcessedSound
  <2> QED
    BY <2>1, <2>2, StableFacts DEF HoldsAll, Has, Holds
<1> QED
  BY <1>1, StoreInductive, PTL

LEMMA HoldsAllOrNot ==
  ASSUME StableFile, NEW t \in Targets
  PROVE  Holds(t, TheVersion) <=> HoldsAll(t)
BY StableFacts DEF Holds, HoldsAll, Has

\* A file in processing is never forgotten with something left to send: somebody works
\* on it, or it has a row for each chunk, from which the backlog goes on; otherwise all
\* targets hold all of it, or the write that it failed was lost (isFileProcessing,
\* splitFile, sendChunk, markAsFileFailed and the restart).
THEOREM ProcessingIsWorkedOn ==
  ASSUME StableFile
  PROVE  Spec => []ProcessingHasWork
<1>1. StoreInv => ProcessingHasWork
  <2> SUFFICES ASSUME StoreInv, status = "processing"
               PROVE  \/ \E w \in Workers : worker[w].at \in Busy \cup {"giveUp"}
                      \/ TotalChunk > 0 /\ Cardinality(Stored) = TotalChunk
                      \/ EverywhereHeld \/ unmarked
    BY DEF ProcessingHasWork
  <2>1. Stored = Numbers => TotalChunk > 0 /\ Cardinality(Stored) = TotalChunk
    BY AllStored DEF StoreInv, StoreTypes
  <2>2. AllHold => EverywhereHeld
    BY HoldsAllOrNot DEF AllHold, EverywhereHeld
  <2> QED
    BY <2>1, <2>2 DEF StoreInv, WorkInv, WorkOrRows, Working, Busy
<1> QED
  BY <1>1, StoreInductive, PTL

\* What every step does to the record and to the targets: while the record stays,
\* targets may gain chunks; the record becomes "processed" only when all hold it.
LEMMA RecordStep ==
  ASSUME StableFile, StoreInv, [Next]_vars
  PROVE  \/ /\ UNCHANGED <<status, permanent>>
            /\ \A t \in Targets : held[t] \subseteq held'[t]
         \/ /\ UNCHANGED held
            /\ status' = "processed" => status = "processed" \/ \A t \in Targets : HoldsAll(t)
<1> USE DEF StoreInv, StoreTypes
<1>0. StoreInv'
  BY StoreStep
\* Only these move a chunk.
<1>1. ASSUME NEW w \in Workers, SendChunk(w)
      PROVE  /\ UNCHANGED <<status, permanent>>
             /\ \A t \in Targets : held[t] \subseteq held'[t]
  <2>1. /\ worker[w].ver \in Versions /\ worker[w].k \in Numbers /\ worker[w].t \in Targets
        /\ UNCHANGED <<status, permanent>>
    BY <1>1 DEF SendChunk, table, Busy, WorkerTypes, Placed
  <2>2. \/ UNCHANGED held
        \/ Receives(worker[w].t, worker[w].ver, worker[w].k)
        \/ SendFails(worker[w].t, worker[w].ver, worker[w].k)
    BY <1>1 DEF SendChunk
  <2> QED
    BY <2>1, <2>2, ReceivesFacts, SendFailsFacts
<1>2. ASSUME SendPending
      PROVE  /\ UNCHANGED <<status, permanent>>
             /\ \A t \in Targets : held[t] \subseteq held'[t]
  <2>1. /\ sweep.row.transfer \in Versions /\ sweep.k \in Numbers /\ sweep.t \in Targets
        /\ UNCHANGED <<status, permanent>>
    BY <1>2 DEF SendPending, SweepTypes, PendingRow
  <2>2. \/ UNCHANGED held
        \/ Receives(sweep.t, sweep.row.transfer, sweep.k)
        \/ SendFails(sweep.t, sweep.row.transfer, sweep.k)
    BY <1>2 DEF SendPending
  <2> QED
    BY <2>1, <2>2, ReceivesFacts, SendFailsFacts
\* In every other step the targets stay, and the invariant of the next state is
\* about the same chunks.
<1>3. ASSUME UNCHANGED held
      PROVE  status' = "processed" => \A t \in Targets : HoldsAll(t)
  BY <1>0, <1>3 DEF SentInv, ProcessedSound, HoldsAll, Has
<1>4. ASSUME NEW w \in Workers, WorkerStep(w), ~SendChunk(w) PROVE UNCHANGED held
  BY <1>4 DEF WorkerStep, TakeTask, Deferred, OpenFile, GiveUp, MarkProcessing,
       deleteFileChunks, insertChunk, world
<1>5. ASSUME SweepStep, ~SendPending PROVE UNCHANGED held
  BY <1>5 DEF SweepStep, FilesToRetry, RetryFile, ReadBacklog, NextPending, SettlePending,
       ListSent, CleanupSent, world
<1>6. ASSUME Notify \/ Stop \/ StopPool \/ Restart \/ NotifyAgain \/ Change \/ UNCHANGED vars
      PROVE  UNCHANGED held
  BY <1>6 DEF Notify, Stop, StopPool, Restart, NotifyAgain, Change, vars, world
<1> QED
  BY <1>1, <1>2, <1>3, <1>4, <1>5, <1>6 DEF Next

\* Across retries, restarts, repeated notifications and lost answers the agent
\* implements Delivery: a file is recorded as processed only when every target holds
\* all of it, and no target loses what it held.
THEOREM AgentImplementsDelivery ==
  ASSUME StableFile
  PROVE  Spec => ImplementsDelivery
<1>1. Init => D!Init
  BY DEF Init, D!Init
<1>2. StoreInv /\ [Next]_vars => [D!Next]_D!vars
  <2> SUFFICES ASSUME StoreInv, [Next]_vars PROVE [D!Next]_D!vars
    OBVIOUS
  <2> DEFINE H == {t \in Targets : Holds(t, TheVersion)}
             Ph == IF status = "processed" THEN "delivered"
                   ELSE IF permanent THEN "givenUp" ELSE "pending"
  <2>1. CASE /\ UNCHANGED <<status, permanent>>
             /\ \A t \in Targets : held[t] \subseteq held'[t]
    <3>1. H \subseteq H'
      BY <2>1 DEF Holds
    <3>2. Ph' = Ph /\ H' \in SUBSET Targets
      BY <2>1
    <3> QED
      BY <3>1, <3>2 DEF D!Next, D!Receive, D!vars
  <2>2. CASE /\ UNCHANGED held
             /\ status' = "processed" => status = "processed"
                                          \/ \A t \in Targets : HoldsAll(t)
    <3>1. H' = H
      BY <2>2 DEF Holds
    <3>2. Ph' = "delivered" => Ph = "delivered" \/ H = Targets
      BY <2>2, HoldsAllOrNot
    <3>3. Ph \in {"pending", "delivered", "givenUp"} /\ Ph' \in {"pending", "delivered", "givenUp"}
      OBVIOUS
    <3> QED
      BY <3>1, <3>2, <3>3 DEF D!Next, D!Deliver, D!GiveUp, D!Retry, D!vars
  <2> QED
    BY <2>1, <2>2, RecordStep
<1> QED
  BY <1>1, <1>2, StoreInductive, PTL DEF Spec, ImplementsDelivery, D!Spec

=============================================================================
