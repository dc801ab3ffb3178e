----------------------------- MODULE ChunkSplit -----------------------------
(***************************************************************************)
(* How the agent cuts a file into chunks: the configured limits, the       *)
(* memory-based chunk size, the adaptive controllers that other threads    *)
(* move while the file is being read, splitFile itself, and the checks of  *)
(* ChunkPacketParser that each packet meets at the server.                 *)
(*                                                                         *)
(* Names, hashes and the byte layout of a packet are left out: they are    *)
(* taken as well formed.                                                   *)
(***************************************************************************)
EXTENDS Integers, Sequences

CONSTANTS
  MinChunk, MaxChunk,  \* 32 KiB and 4 MiB, in splitFile, MemoryManager and Parse
  Step,                \* kMinimumIncreaseStepBytes
  MaxTotal,            \* kMaxTotalChunks
  MaxFile,             \* kMaxFileSizeBytes
  Targets,             \* configured targets, a controller for each
  FileSizes,           \* sizes the file may have when it is opened
  Memory,              \* what getAvailablePhysicalMemory may say, 0: unknown
  Defaults,            \* values of the configured chunk size
  Adaptive,            \* values of chunk.adaptive.*: records [min, max, initial]
  MaxSamples           \* bound on acknowledgements and failures recorded

ASSUME SplitAssumption ==
  /\ MinChunk \in Nat \ {0} /\ MaxChunk \in Nat /\ MinChunk <= MaxChunk
  /\ Step \in Nat /\ MaxTotal \in Nat /\ MaxFile \in Nat
  /\ FileSizes \subseteq Nat \ {0}
  /\ Memory \subseteq Nat /\ Defaults \subseteq Nat
  /\ Adaptive \subseteq [min : Nat \ {0}, max : Nat \ {0}, initial : Nat \ {0}]
  /\ MaxSamples \in Nat

VARIABLES
  dynamic,     \* chunk.adaptive.enabled: sizes come from the controllers
  settings,    \* the controllers' settings
  current,     \* currentChunkSizeBytes_ of each target's controller
  samples,     \* samples still to be recorded
  fileSize,    \* the size when the file was opened
  onDisk,      \* its size now
  chunkSize,   \* the size calculateOptimalChunkSize chose
  offset,      \* currentOffset
  packets,     \* the chunks handed on so far
  at           \* "reading" or "done"

control == <<dynamic, settings, fileSize, chunkSize>>
vars == <<control, current, samples, onDisk, offset, packets, at>>

Lesser(a, b)  == IF a <= b THEN a ELSE b
Greater(a, b) == IF a >= b THEN a ELSE b

-----------------------------------------------------------------------------
(* Settings, and the chunk size a file starts with.                        *)

\* RadarConfig: chunk.adaptive.* is brought within the limits of a chunk.
LoadAdaptive(raw) ==
  LET max == Lesser(raw.max, MaxChunk)
      min == Lesser(raw.min, max)
  IN [min |-> min, max |-> max, initial |-> Lesser(Greater(raw.initial, min), max)]

\* AdaptiveChunkController::normalizeSettings.
normalizeSettings(s) ==
  LET min == IF s.min = 0 THEN MinChunk ELSE s.min
  IN [min |-> min, max |-> Greater(s.max, min),
      initial |-> IF s.initial = 0 THEN min ELSE s.initial]

\* Mutant of clamp: the lower bound is forgotten.
ClampAbove(value, s) == Lesser(value, s.max)

clamp(value, s) == Greater(s.min, Lesser(value, s.max))

\* MemoryManager::calculateOptimalChunkSize, with 70 percent of the memory.
calculateOptimalChunkSize(size, default, available) ==
  LET optimal == IF available > size
                 THEN IF default = 0 \/ default > size THEN size ELSE default
                 ELSE IF available > 0 THEN (available * 70 + 50) \div 100
                 ELSE default
  IN Greater(Lesser(optimal, MaxChunk), MinChunk)

Init ==
  /\ dynamic \in BOOLEAN
  /\ \E raw \in Adaptive : settings = normalizeSettings(LoadAdaptive(raw))
  /\ current = [t \in Targets |-> clamp(settings.initial, settings)]
  /\ samples = MaxSamples
  /\ fileSize \in FileSizes
  /\ onDisk = fileSize
  /\ \E default \in Defaults, available \in Memory :
       chunkSize = calculateOptimalChunkSize(fileSize, default, available)
  /\ offset = 0 /\ packets = <<>> /\ at = "reading"

-----------------------------------------------------------------------------
(* AdaptiveChunkController.                                                *)

suggestedChunkSize(t, remaining) ==
  IF remaining < settings.min THEN remaining
  ELSE clamp(Lesser(current[t], remaining), settings)

\* A sample: an answer in time, a slow one, a late one, or a failure.
Adapted(size, outcome) ==
  CASE outcome = "inTime"  -> size + Greater(Step, size \div 8)
    [] outcome = "slow"    -> (size * 7) \div 8
    [] outcome = "late"    -> size \div 2
    [] outcome = "failure" -> size \div 2

\* recordSuccess and recordFailure, from whichever thread has sent a chunk.
Record(t) ==
  /\ dynamic /\ samples > 0
  /\ samples' = samples - 1
  /\ \E outcome \in {"inTime", "slow", "late", "failure"} :
       current' = [current EXCEPT ![t] = clamp(Adapted(@, outcome), settings)]
  /\ UNCHANGED <<control, onDisk, offset, packets, at>>

\* NetworkManager::getRecommendedChunkSize: the smallest of the suggestions.
Suggestions(remaining) == {suggestedChunkSize(t, remaining) : t \in Targets} \ {0}
Recommended(remaining) ==
  {m \in Suggestions(remaining) : \A n \in Suggestions(remaining) : m <= n}

-----------------------------------------------------------------------------
(* splitFile.                                                              *)

\* The number of chunks declared in fixed mode.
TotalChunks == fileSize \div chunkSize + (IF fileSize % chunkSize # 0 THEN 1 ELSE 0)

\* The sizes a chunk may be asked to have: the provider's, or the fixed one.
Wanted(remaining) ==
  IF dynamic /\ Suggestions(remaining) # {} THEN Recommended(remaining) ELSE {chunkSize}

ReadSize(want, remaining) ==
  Lesser(Greater(MinChunk, Lesser(want, MaxChunk)), remaining)

\* Mutant of Declared: the number of the last chunk instead of the count.
DeclaredLast(number, end) ==
  IF dynamic THEN (IF end >= fileSize THEN number ELSE 0) ELSE TotalChunks

Declared(number, end) ==
  IF dynamic THEN (IF end >= fileSize THEN number + 1 ELSE 0) ELSE TotalChunks

\* Mutant of NextOffset: it advances by what was asked for.
OffsetAsAsked(size, read) == offset + size

NextOffset(size, read) == offset + read

\* The packet; the size the file was opened with goes with it.
serializeChunkMessage(number, start, len, total) ==
  [number |-> number, offset |-> start, len |-> len, total |-> total]

\* The file is read, with less than was asked for if it has become shorter; the
\* chunk is sent and recorded, whatever became of it.
ReadChunk ==
  /\ at = "reading" /\ offset < fileSize
  /\ \E want \in Wanted(fileSize - offset) :
       LET size == ReadSize(want, fileSize - offset)
           read == Lesser(size, onDisk - offset)
           end  == NextOffset(size, read)
       IN /\ read > 0
          /\ packets' = Append(packets,
                               serializeChunkMessage(Len(packets), offset, read,
                                                     Declared(Len(packets), end)))
          /\ offset' = end
          /\ at' = IF read < size THEN "done" ELSE "reading"
  /\ UNCHANGED <<control, current, samples, onDisk>>

\* Nothing is left to read.
EndOfFile ==
  /\ at = "reading" /\ (offset >= fileSize \/ onDisk <= offset)
  /\ at' = "done"
  /\ UNCHANGED <<control, current, samples, onDisk, offset, packets>>

\* A chunk is not recorded, or every target has the file already.
BreakOff ==
  /\ at = "reading" /\ packets # <<>>
  /\ at' = "done"
  /\ UNCHANGED <<control, current, samples, onDisk, offset, packets>>

\* The file is truncated while it is being read.
Truncate ==
  /\ onDisk = fileSize
  /\ onDisk' \in 0..(fileSize - 1)
  /\ UNCHANGED <<control, current, samples, offset, packets, at>>

Next == ReadChunk \/ EndOfFile \/ BreakOff \/ Truncate \/ \E t \in Targets : Record(t)

Spec == Init /\ [][Next]_vars

-----------------------------------------------------------------------------
(* The server's side: ChunkPacketParser::Parse.                            *)

\* Mutant of Parse: the last byte of the file is out of range.
ParseShort(p) ==
  /\ p.total <= MaxTotal
  /\ p.total > 0 => p.number < p.total
  /\ fileSize > 0 /\ fileSize <= MaxFile
  /\ p.len > 0 /\ p.len <= MaxChunk
  /\ p.offset < fileSize /\ p.len < fileSize - p.offset

Parse(p) ==
  /\ p.total <= MaxTotal
  /\ p.total > 0 => p.number < p.total
  /\ fileSize > 0 /\ fileSize <= MaxFile
  /\ p.len > 0 /\ p.len <= MaxChunk
  /\ p.offset < fileSize /\ p.len <= fileSize - p.offset

-----------------------------------------------------------------------------
(* Properties.                                                             *)

\* Every variable stays in its type; a controller never leaves the configured
\* sizes, whatever it is told (recordSuccess, recordFailure).
TypeOK ==
  /\ dynamic \in BOOLEAN
  /\ settings \in [min : Nat, max : Nat, initial : Nat]
  /\ current \in [Targets -> settings.min..settings.max]
  /\ samples \in 0..MaxSamples
  /\ fileSize \in FileSizes /\ onDisk \in 0..fileSize
  /\ chunkSize \in MinChunk..MaxChunk
  /\ offset \in 0..fileSize
  /\ packets \in Seq([number : Nat, offset : Nat, len : Nat, total : Nat])
  /\ at \in {"reading", "done"}

End(p) == p.offset + p.len

\* The chunks are numbered one after the other and cut what was read of the file
\* without gap or overlap, however the sizes change between them (splitFile).
Partition ==
  /\ \A i \in DOMAIN packets :
       /\ packets[i].number = i - 1
       /\ packets[i].offset = IF i = 1 THEN 0 ELSE End(packets[i - 1])
  /\ offset = IF packets = <<>> THEN 0 ELSE End(packets[Len(packets)])

\* When the whole file was read the declared totals are the number of chunks, in
\* fixed mode in every packet and in dynamic mode in the last; before that no
\* packet of a dynamic split declares one.
TotalsAgree ==
  /\ offset = fileSize => /\ packets[Len(packets)].total = Len(packets)
                          /\ \A i \in DOMAIN packets :
                               packets[i].total \in {0, Len(packets)}
  /\ offset < fileSize /\ dynamic => \A i \in DOMAIN packets : packets[i].total = 0

\* The server's parser refuses a packet of the agent only for the limits on a
\* file's size and number of chunks, which the agent does not check.
RefusedOnlyForLimits ==
  \A i \in DOMAIN packets :
    Parse(packets[i]) \/ fileSize > MaxFile \/ packets[i].total > MaxTotal

=============================================================================
