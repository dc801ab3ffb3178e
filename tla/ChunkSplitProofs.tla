-------------------------- MODULE ChunkSplitProofs --------------------------
(***************************************************************************)
(* For any limits, settings, memory, file sizes and targets: the types and *)
(* bounds of a split, that its chunks partition what was read, that the    *)
(* declared totals are the number of chunks, and what the server's parser  *)
(* can hold against a packet.                                              *)
(***************************************************************************)
EXTENDS ChunkSplit, TLAPS

\* What the choice of two numbers returns.
LEMMA LesserFacts ==
  ASSUME NEW a \in Int, NEW b \in Int
  PROVE  /\ Lesser(a, b) \in Int /\ Lesser(a, b) \in {a, b}
         /\ Lesser(a, b) <= a /\ Lesser(a, b) <= b
BY DEF Lesser

LEMMA GreaterFacts ==
  ASSUME NEW a \in Int, NEW b \in Int
  PROVE  /\ Greater(a, b) \in Int /\ Greater(a, b) \in {a, b}
         /\ Greater(a, b) >= a /\ Greater(a, b) >= b
BY DEF Greater

Settings == [min : Nat, max : Nat, initial : Nat]

\* clamp returns a size within settings whose minimum is not above its maximum.
LEMMA ClampInBounds ==
  ASSUME NEW s \in Settings, s.min <= s.max, NEW value \in Nat
  PROVE  clamp(value, s) \in s.min..s.max
BY DEF clamp, Greater, Lesser, Settings

\* Whatever is configured, a controller gets a minimum and a maximum in order.
LEMMA SettingsInOrder ==
  ASSUME NEW raw \in Adaptive
  PROVE  LET s == normalizeSettings(LoadAdaptive(raw))
         IN s \in Settings /\ s.min <= s.max
<1> raw \in [min : Nat \ {0}, max : Nat \ {0}, initial : Nat \ {0}]
  BY SplitAssumption
<1> raw.min \in Nat /\ raw.max \in Nat /\ raw.initial \in Nat
  OBVIOUS
<1> DEFINE l == LoadAdaptive(raw)
<1>1. l.max \in Nat /\ l.min \in Nat /\ l.initial \in Nat
  BY SplitAssumption DEF LoadAdaptive, Lesser, Greater
<1> QED
  BY <1>1, SplitAssumption DEF normalizeSettings, Settings, Greater

\* The fixed chunk size is within the limits.
LEMMA OptimalInBounds ==
  ASSUME NEW size \in Nat, NEW default \in Nat, NEW available \in Nat
  PROVE  calculateOptimalChunkSize(size, default, available) \in MinChunk..MaxChunk
<1>1. (available * 70 + 50) \div 100 \in Nat
  OBVIOUS
<1> QED
  BY <1>1, SplitAssumption DEF calculateOptimalChunkSize, Greater, Lesser

\* A sample leaves a natural number to be clamped.
LEMMA AdaptedIsNat ==
  ASSUME NEW size \in Nat, NEW outcome \in {"inTime", "slow", "late", "failure"}
  PROVE  Adapted(size, outcome) \in Nat
BY SplitAssumption DEF Adapted, Greater

\* What the provider or the fixed mode asks for is a natural number.
LEMMA WantedIsNat ==
  ASSUME TypeOK, NEW remaining \in Nat, NEW want \in Wanted(remaining)
  PROVE  want \in Nat
<1>1. ASSUME NEW t \in Targets
      PROVE  suggestedChunkSize(t, remaining) \in Nat
  <2>1. /\ settings.min \in Nat /\ settings.max \in Nat
        /\ current[t] \in settings.min..settings.max
    BY DEF TypeOK
  <2> QED
    BY <2>1 DEF suggestedChunkSize, clamp, Greater, Lesser
<1>2. chunkSize \in Nat
  BY SplitAssumption DEF TypeOK
<1> QED
  BY <1>1, <1>2 DEF Wanted, Recommended, Suggestions

\* The total a packet declares is a natural number.
LEMMA DeclaredIsNat ==
  ASSUME TypeOK, NEW number \in Nat, NEW end \in Nat
  PROVE  Declared(number, end) \in Nat
<1>1. fileSize \in Nat /\ chunkSize \in Nat /\ chunkSize > 0
  BY SplitAssumption DEF TypeOK
<1>2. fileSize \div chunkSize \in Nat
  BY <1>1
<1> QED
  BY <1>2 DEF Declared, TotalChunks

\* A step of reading in full: the total is the declared one, a chunk is no larger
\* than the limit, and a fixed split takes chunkSize or all that is left, unless
\* the file has become shorter.
LEMMA ReadStepInFull ==
  ASSUME TypeOK, ReadChunk
  PROVE  \E read \in Nat :
           /\ at = "reading" /\ offset < fileSize
           /\ read > 0 /\ read <= MaxChunk /\ offset + read <= fileSize
           /\ offset' = offset + read
           /\ packets' = Append(packets, [number |-> Len(packets), offset |-> offset,
                                          len |-> read,
                                          total |-> Declared(Len(packets), offset + read)])
           /\ at' \in {"reading", "done"}
           /\ ~dynamic /\ (at' = "reading" \/ offset' = fileSize)
                => read = Lesser(chunkSize, fileSize - offset)
<1>1. /\ fileSize \in Nat /\ offset \in Nat /\ onDisk \in Nat
      /\ at = "reading" /\ offset < fileSize
      /\ chunkSize \in Nat /\ MinChunk <= chunkSize /\ chunkSize <= MaxChunk
      /\ MinChunk \in Nat \ {0} /\ MaxChunk \in Nat
  BY SplitAssumption DEF TypeOK, ReadChunk
<1> DEFINE remaining == fileSize - offset
<1>2. remaining \in Nat /\ remaining > 0
  BY <1>1
<1>3. PICK want \in Wanted(remaining) :
        LET size == ReadSize(want, remaining)
            read == Lesser(size, onDisk - offset)
            end  == NextOffset(size, read)
        IN /\ read > 0
           /\ packets' = Append(packets,
                                [number |-> Len(packets), offset |-> offset, len |-> read,
                                 total |-> Declared(Len(packets), end)])
           /\ offset' = end
           /\ at' = IF read < size THEN "done" ELSE "reading"
  BY DEF ReadChunk, serializeChunkMessage
<1> DEFINE size == ReadSize(want, remaining)
           read == Lesser(size, onDisk - offset)
<1>4. want \in Nat
  BY <1>2, WantedIsNat
<1>5. size \in Nat /\ size <= remaining /\ size <= MaxChunk
  BY <1>1, <1>2, <1>4 DEF ReadSize, Greater, Lesser
<1>6. read \in Nat /\ read > 0 /\ read <= size
  BY <1>1, <1>3, <1>5 DEF Lesser
<1>7. ASSUME ~dynamic
      PROVE  size = Lesser(chunkSize, remaining)
  <2>1. want = chunkSize
    BY <1>7, <1>3 DEF Wanted
  <2> QED
    BY <2>1, <1>1, <1>2 DEF ReadSize, Greater, Lesser
<1>8. ASSUME at' = "reading" \/ offset' = fileSize
      PROVE  read = size
  <2>1. CASE at' = "reading"
    BY <2>1, <1>3, <1>5, <1>6
  <2>2. CASE offset' = fileSize
    <3>1. offset + read = fileSize
      BY <2>2, <1>3 DEF NextOffset
    <3> HIDE DEF size, read
    <3> QED
      BY <3>1, <1>1, <1>5, <1>6
  <2> QED
    BY <1>8, <2>1, <2>2
<1>9. /\ offset' = offset + read
      /\ packets' = Append(packets, [number |-> Len(packets), offset |-> offset,
                                     len |-> read,
                                     total |-> Declared(Len(packets), offset + read)])
  BY <1>3 DEF NextOffset
<1>10. read <= MaxChunk /\ offset + read <= fileSize
  <2> HIDE DEF size, read
  <2> QED
    BY <1>1, <1>5, <1>6
<1>11. at' \in {"reading", "done"}
  BY <1>3
<1> HIDE DEF size, read
<1> QED
  BY <1>1, <1>6, <1>7, <1>8, <1>9, <1>10, <1>11

\* What the types need of it.
LEMMA ReadStep ==
  ASSUME TypeOK, ReadChunk
  PROVE  \E read, total \in Nat :
           /\ read > 0 /\ offset + read <= fileSize
           /\ offset' = offset + read
           /\ packets' = Append(packets, [number |-> Len(packets), offset |-> offset,
                                          len |-> read, total |-> total])
           /\ at' \in {"reading", "done"}
<1>1. Len(packets) \in Nat /\ offset \in Nat
  BY SplitAssumption DEF TypeOK
<1>2. ASSUME NEW read \in Nat
      PROVE  Declared(Len(packets), offset + read) \in Nat
  <2>1. offset + read \in Nat
    BY <1>1
  <2> QED
    BY <1>1, <2>1, DeclaredIsNat
<1> QED
  BY <1>2, ReadStepInFull

-----------------------------------------------------------------------------

LEMMA TypeInit == Init => TypeOK
<1> SUFFICES ASSUME Init PROVE TypeOK
  OBVIOUS
<1>1. settings \in Settings /\ settings.min <= settings.max
  BY SettingsInOrder DEF Init
<1>2. current \in [Targets -> settings.min..settings.max]
  <2>1. settings.initial \in Nat
    BY <1>1 DEF Settings
  <2>2. clamp(settings.initial, settings) \in settings.min..settings.max
    BY <1>1, <2>1, ClampInBounds
  <2> QED
    BY <2>2 DEF Init
<1>3. fileSize \in FileSizes /\ fileSize \in Nat
  BY SplitAssumption DEF Init
<1>4. chunkSize \in MinChunk..MaxChunk
  BY <1>3, OptimalInBounds, SplitAssumption DEF Init
<1> QED
  BY <1>1, <1>2, <1>3, <1>4, SplitAssumption DEF Init, TypeOK, Settings

LEMMA TypeStep == TypeOK /\ [Next]_vars => TypeOK'
<1> SUFFICES ASSUME TypeOK, [Next]_vars PROVE TypeOK'
  OBVIOUS
<1> DEFINE P == [number : Nat, offset : Nat, len : Nat, total : Nat]
<1>0. fileSize \in Nat /\ offset \in Nat /\ Len(packets) \in Nat /\ packets \in Seq(P)
  BY SplitAssumption DEF TypeOK
<1>1. CASE ReadChunk
  <2>1. PICK read \in Nat, total \in Nat :
          /\ read > 0 /\ offset + read <= fileSize
          /\ offset' = offset + read
          /\ packets' = Append(packets, [number |-> Len(packets), offset |-> offset,
                                         len |-> read, total |-> total])
          /\ at' \in {"reading", "done"}
    BY <1>1, ReadStep
  <2>2. packets' \in Seq(P)
    <3>1. [number |-> Len(packets), offset |-> offset, len |-> read, total |-> total]
            \in P
      BY <1>0
    <3> HIDE DEF P
    <3> QED
      BY <2>1, <3>1, <1>0
  <2>3. offset' \in 0..fileSize
    BY <1>0, <2>1
  <2>4. UNCHANGED <<dynamic, settings, fileSize, chunkSize, current, samples, onDisk>>
    BY <1>1 DEF ReadChunk, control
  <2> QED
    BY <2>1, <2>2, <2>3, <2>4 DEF TypeOK
<1>2. CASE EndOfFile
  BY <1>2 DEF EndOfFile, TypeOK, control
<1>3. CASE BreakOff
  BY <1>3 DEF BreakOff, TypeOK, control
<1>4. CASE Truncate
  <2>1. onDisk' \in 0..fileSize
    BY <1>4, <1>0 DEF Truncate
  <2> QED
    BY <2>1, <1>4 DEF Truncate, TypeOK, control
<1>5. ASSUME NEW t \in Targets, Record(t) PROVE TypeOK'
  <2>1. PICK outcome \in {"inTime", "slow", "late", "failure"} :
          current' = [current EXCEPT ![t] = clamp(Adapted(current[t], outcome), settings)]
    BY <1>5 DEF Record
  <2>2. /\ settings \in Settings
        /\ current[t] \in settings.min..settings.max
        /\ settings.min \in Nat /\ settings.max \in Nat
    BY DEF TypeOK, Settings
  <2>3. settings.min <= settings.max /\ current[t] \in Nat
    BY <2>2
  <2>4. Adapted(current[t], outcome) \in Nat
    BY <2>3, AdaptedIsNat
  <2>5. clamp(Adapted(current[t], outcome), settings) \in settings.min..settings.max
    BY <2>2, <2>3, <2>4, ClampInBounds
  <2>6. current' \in [Targets -> settings.min..settings.max]
    BY <2>1, <2>5 DEF TypeOK
  <2>7. samples' \in 0..MaxSamples
    BY <1>5, SplitAssumption DEF Record, TypeOK
  <2> QED
    BY <1>5, <2>6, <2>7 DEF Record, TypeOK, control
<1>6. CASE UNCHANGED vars
  BY <1>6 DEF vars, control, TypeOK
<1> QED
  BY <1>1, <1>2, <1>3, <1>4, <1>5, <1>6 DEF Next

\* Types and bounds of a split: the controllers stay within their settings and
\* the fixed size within the limits of a chunk, for any configuration
\* (AdaptiveChunkController, MemoryManager::calculateOptimalChunkSize, splitFile).
THEOREM SplitTypeCorrect == Spec => []TypeOK
BY TypeInit, TypeStep, PTL DEF Spec

-----------------------------------------------------------------------------

LEMMA PartitionStep == TypeOK /\ Partition /\ [Next]_vars => Partition'
<1> SUFFICES ASSUME TypeOK, Partition, [Next]_vars PROVE Partition'
  OBVIOUS
<1> DEFINE P == [number : Nat, offset : Nat, len : Nat, total : Nat]
<1>0. packets \in Seq(P) /\ Len(packets) \in Nat
  BY DEF TypeOK
<1>1. CASE ReadChunk
  <2>1. PICK read \in Nat, total \in Nat :
          /\ offset' = offset + read
          /\ packets' = Append(packets, [number |-> Len(packets), offset |-> offset,
                                         len |-> read, total |-> total])
    BY <1>1, ReadStep
  <2> DEFINE p == [number |-> Len(packets), offset |-> offset, len |-> read,
                   total |-> total]
             n == Len(packets)
  <2>2. /\ Len(packets') = n + 1 /\ packets'[n + 1] = p
        /\ \A i \in 1..n : packets'[i] = packets[i]
    BY <1>0, <2>1
  <2>3. DOMAIN packets' = 1..(n + 1) /\ DOMAIN packets = 1..n
    BY <1>0, <2>1
  <2>4. packets' # <<>> /\ End(p) = offset'
    BY <2>1, <2>2, <1>0 DEF End
  <2>5. ASSUME NEW i \in 1..(n + 1)
        PROVE  /\ packets'[i].number = i - 1
               /\ packets'[i].offset = IF i = 1 THEN 0 ELSE End(packets'[i - 1])
    <3>1. CASE i \in 1..n
      <4> HIDE DEF p
      <4>1. packets'[i] = packets[i]
        BY <3>1, <2>2
      <4>2. ASSUME i # 1 PROVE packets'[i - 1] = packets[i - 1]
        <5>1. i - 1 \in 1..n
          BY <3>1, <4>2, <1>0
        <5> QED
          BY <5>1, <2>2
      <4>3. /\ packets[i].number = i - 1
            /\ packets[i].offset = IF i = 1 THEN 0 ELSE End(packets[i - 1])
        BY <3>1, <2>3 DEF Partition
      <4> QED
        BY <4>1, <4>2, <4>3
    <3>2. CASE i = n + 1 /\ n = 0
      <4>1. packets = <<>>
        BY <3>2, <1>0
      <4> QED
        BY <4>1, <3>2, <2>2 DEF Partition
    <3>3. CASE i = n + 1 /\ n > 0
      <4>1. packets # <<>> /\ packets'[i - 1] = packets[n]
        BY <3>3, <2>2, <1>0
      <4> QED
        BY <4>1, <3>3, <2>2, <1>0 DEF Partition
    <3> QED
      BY <3>1, <3>2, <3>3, <1>0
  <2> QED
    BY <2>2, <2>3, <2>4, <2>5 DEF Partition, End
<1>2. CASE UNCHANGED <<packets, offset>>
  BY <1>2 DEF Partition
<1> QED
  BY <1>1, <1>2 DEF Next, EndOfFile, BreakOff, Truncate, Record, vars

\* The chunks of a split are numbered in order and leave no gap and no overlap,
\* for every sequence of sizes the controllers come up with (splitFile).
THEOREM SplitPartitions == Spec => []Partition
<1>1. Init => Partition
  BY DEF Init, Partition
<1> QED
  BY <1>1, SplitTypeCorrect, PartitionStep, PTL DEF Spec

-----------------------------------------------------------------------------
(* The declared totals, and the parser.                                    *)

\* What division returns.
LEMMA DivisionFacts ==
  ASSUME NEW f \in Nat, NEW c \in Nat \ {0}
  PROVE  /\ f \div c \in Nat /\ f % c \in 0..(c - 1)
         /\ f = c * (f \div c) + (f % c)
OBVIOUS

LEMMA ProductGrows ==
  ASSUME NEW a \in Nat, NEW b \in Nat, NEW c \in Nat, a < b
  PROVE  c * a + c <= c * b
<1>1. PICK d \in Nat : b = a + 1 + d
  <2> b - a - 1 \in Nat /\ b = a + 1 + (b - a - 1)
    OBVIOUS
  <2> QED
    OBVIOUS
<1>2. c * b = c * a + c + c * d
  BY <1>1
<1>3. c * d \in Nat /\ c * a \in Nat
  OBVIOUS
<1> QED
  BY <1>2, <1>3

\* The number of chunks of a fixed split: n whole chunks and one that is whole or
\* a remainder make n + 1.
LEMMA CountsChunks ==
  ASSUME NEW n \in Nat, fileSize \in Nat, chunkSize \in Nat \ {0},
         n * chunkSize < fileSize
  PROVE  /\ TotalChunks \in Nat /\ n < TotalChunks
         /\ fileSize - n * chunkSize <= chunkSize => TotalChunks = n + 1
<1> DEFINE q == fileSize \div chunkSize
           r == fileSize % chunkSize
<1>1. q \in Nat /\ r \in 0..(chunkSize - 1) /\ fileSize = chunkSize * q + r
  BY DivisionFacts
<1>2. TotalChunks = IF r # 0 THEN q + 1 ELSE q
  BY <1>1 DEF TotalChunks
<1> HIDE DEF q, r
<1>3. n * chunkSize = chunkSize * n /\ chunkSize * n \in Nat /\ chunkSize * q \in Nat
  BY <1>1
<1>4. ~(q < n)
  <2> SUFFICES ASSUME q < n PROVE FALSE
    OBVIOUS
  <2>1. chunkSize * q + chunkSize <= chunkSize * n
    BY <1>1, ProductGrows
  <2> QED
    BY <2>1, <1>1, <1>3
<1>5. q = n => r # 0
  BY <1>1, <1>3
<1>6. ASSUME fileSize - n * chunkSize <= chunkSize PROVE TotalChunks = n + 1
  <2>1. ~(n + 1 < q)
    <3> SUFFICES ASSUME n + 1 < q PROVE FALSE
      OBVIOUS
    <3>1. chunkSize * (n + 1) + chunkSize <= chunkSize * q
      BY <1>1, ProductGrows
    <3>2. chunkSize * (n + 1) = chunkSize * n + chunkSize
      OBVIOUS
    <3> QED
      BY <3>1, <3>2, <1>6, <1>1, <1>3
  <2>2. ASSUME q = n + 1 PROVE r = 0
    <3>1. chunkSize * q = chunkSize * n + chunkSize
      BY <2>2
    <3> QED
      BY <3>1, <1>6, <1>1, <1>3
  <2> QED
    BY <1>1, <1>2, <1>4, <1>5, <2>1, <2>2
<1> QED
  BY <1>1, <1>2, <1>4, <1>5, <1>6

\* A fixed split has cut whole chunks only while there is something left to read,
\* and has declared the same total in all of them.
FixedInv ==
  ~dynamic =>
    /\ at = "reading" /\ offset < fileSize => offset = Len(packets) * chunkSize
    /\ offset = fileSize => Len(packets) = TotalChunks
    /\ \A i \in DOMAIN packets : packets[i].total = TotalChunks

\* A dynamic split declares a total in its last chunk only.
DynamicInv ==
  dynamic =>
    \A i \in DOMAIN packets :
      packets[i].total = IF offset = fileSize /\ i = Len(packets) THEN i ELSE 0

\* Every packet is a piece of the file no larger than the limit, with a number
\* below the total it declares.
PacketsInv ==
  \A i \in DOMAIN packets :
    /\ packets[i].len > 0 /\ packets[i].len <= MaxChunk
    /\ packets[i].offset + packets[i].len <= fileSize
    /\ packets[i].total > 0 => packets[i].number < packets[i].total

CutInv == FixedInv /\ DynamicInv /\ PacketsInv

LEMMA CutInit == Init => CutInv
<1> SUFFICES ASSUME Init PROVE CutInv
  OBVIOUS
<1>1. fileSize \in Nat \ {0} /\ offset = 0 /\ packets = <<>>
  BY SplitAssumption DEF Init
<1>2. Len(packets) = 0 /\ DOMAIN packets = {}
  BY <1>1
<1>3. chunkSize \in Nat
  BY TypeInit, SplitAssumption DEF TypeOK
<1>4. FixedInv
  BY <1>1, <1>2, <1>3 DEF FixedInv
<1> QED
  BY <1>2, <1>4 DEF CutInv, DynamicInv, PacketsInv

LEMMA CutStep == TypeOK /\ CutInv /\ [Next]_vars => CutInv'
<1> SUFFICES ASSUME TypeOK, CutInv, [Next]_vars PROVE CutInv'
  OBVIOUS
<1> DEFINE n == Len(packets)
<1>0. /\ packets \in Seq([number : Nat, offset : Nat, len : Nat, total : Nat])
      /\ n \in Nat /\ DOMAIN packets = 1..n
      /\ fileSize \in Nat /\ offset \in Nat /\ dynamic \in BOOLEAN
      /\ chunkSize \in Nat \ {0} /\ MaxChunk \in Nat
  BY SplitAssumption DEF TypeOK
<1>1. CASE ReadChunk
  <2>1. PICK read \in Nat :
           /\ at = "reading" /\ offset < fileSize
           /\ read > 0 /\ read <= MaxChunk /\ offset + read <= fileSize
           /\ offset' = offset + read
           /\ packets' = Append(packets, [number |-> n, offset |-> offset,
                                          len |-> read,
                                          total |-> Declared(n, offset + read)])
           /\ ~dynamic /\ (at' = "reading" \/ offset' = fileSize)
                => read = Lesser(chunkSize, fileSize - offset)
    BY <1>1, ReadStepInFull
  <2> DEFINE p == [number |-> n, offset |-> offset, len |-> read,
                   total |-> Declared(n, offset + read)]
  <2>2. /\ Len(packets') = n + 1 /\ packets'[n + 1] = p
        /\ \A i \in 1..n : packets'[i] = packets[i]
        /\ DOMAIN packets' = 1..(n + 1)
    BY <1>0, <2>1
  <2>3. UNCHANGED <<dynamic, fileSize, chunkSize>> /\ TotalChunks' = TotalChunks
    BY <1>1 DEF ReadChunk, control, TotalChunks
  <2>4. /\ p.number = n /\ p.offset = offset /\ p.len = read
        /\ p.total = Declared(n, offset + read)
    OBVIOUS
  <2> HIDE DEF p, n
  <2>5. ASSUME dynamic
        PROVE  FixedInv' /\ DynamicInv' /\ (p.total > 0 => p.number < p.total)
    <3>1. p.total = IF offset' = fileSize THEN n + 1 ELSE 0
      BY <2>1, <2>4, <2>5, <1>0 DEF Declared
    <3>2. \A i \in 1..n : packets[i].total = 0
      <4>1. offset # fileSize
        BY <2>1, <1>0
      <4> QED
        BY <4>1, <2>5, <1>0 DEF CutInv, DynamicInv
    <3>3. DynamicInv'
      <4> SUFFICES ASSUME NEW i \in 1..(n + 1)
                   PROVE  packets'[i].total =
                            IF offset' = fileSize /\ i = n + 1 THEN i ELSE 0
        BY <2>2, <2>3 DEF DynamicInv
      <4>1. CASE i = n + 1
        BY <4>1, <3>1, <2>2, <1>0
      <4>2. CASE i \in 1..n
        BY <4>2, <3>2, <2>2, <1>0
      <4> QED
        BY <4>1, <4>2, <1>0
    <3>4. p.total > 0 => p.number < p.total
      BY <3>1, <2>4, <1>0
    <3> QED
      BY <3>3, <3>4, <2>3, <2>5 DEF FixedInv
  <2>6. ASSUME ~dynamic
        PROVE  FixedInv' /\ DynamicInv' /\ (p.total > 0 => p.number < p.total)
    <3>1. p.total = TotalChunks
      BY <2>4, <2>6 DEF Declared
    <3>2. offset = n * chunkSize
      BY <2>1, <2>6 DEF CutInv, FixedInv, n
    <3>3. /\ TotalChunks \in Nat /\ n < TotalChunks
          /\ fileSize - n * chunkSize <= chunkSize => TotalChunks = n + 1
      BY <3>2, <2>1, <1>0, CountsChunks
    <3>4. ASSUME at' = "reading", offset' < fileSize
          PROVE  offset' = (n + 1) * chunkSize
      <4>1. read = Lesser(chunkSize, fileSize - offset)
        BY <2>1, <2>6, <3>4
      <4>2. read = chunkSize
        BY <4>1, <3>4, <2>1, <1>0 DEF Lesser
      <4>3. (n + 1) * chunkSize = n * chunkSize + chunkSize
        BY <1>0
      <4> QED
        BY <4>2, <4>3, <3>2, <2>1
    <3>5. ASSUME offset' = fileSize PROVE n + 1 = TotalChunks
      <4>1. read = Lesser(chunkSize, fileSize - offset)
        BY <2>1, <2>6, <3>5
      <4>2. fileSize - offset <= chunkSize
        BY <4>1, <3>5, <2>1, <1>0 DEF Lesser
      <4> QED
        BY <4>2, <3>2, <3>3
    <3>6. \A i \in 1..(n + 1) : packets'[i].total = TotalChunks
      <4> SUFFICES ASSUME NEW i \in 1..(n + 1) PROVE packets'[i].total = TotalChunks
        OBVIOUS
      <4>1. CASE i = n + 1
        BY <4>1, <3>1, <2>2
      <4>2. CASE i \in 1..n
        BY <4>2, <2>2, <2>6, <1>0 DEF CutInv, FixedInv
      <4> QED
        BY <4>1, <4>2, <1>0
    <3>7. FixedInv'
      BY <3>4, <3>5, <3>6, <2>2, <2>3, <2>6 DEF FixedInv
    <3>8. p.total > 0 => p.number < p.total
      BY <3>1, <3>3, <2>4
    <3> QED
      BY <3>7, <3>8, <2>3, <2>6 DEF DynamicInv
  <2>7. FixedInv' /\ DynamicInv' /\ (p.total > 0 => p.number < p.total)
    BY <2>5, <2>6, <1>0
  <2>8. PacketsInv'
    <3> SUFFICES ASSUME NEW i \in 1..(n + 1)
                 PROVE  /\ packets'[i].len > 0 /\ packets'[i].len <= MaxChunk
                        /\ packets'[i].offset + packets'[i].len <= fileSize
                        /\ packets'[i].total > 0
                             => packets'[i].number < packets'[i].total
      BY <2>2, <2>3 DEF PacketsInv
    <3>1. CASE i = n + 1
      BY <3>1, <2>1, <2>2, <2>4, <2>7
    <3>2. CASE i \in 1..n
      BY <3>2, <2>2, <1>0 DEF CutInv, PacketsInv
    <3> QED
      BY <3>1, <3>2, <1>0
  <2> QED
    BY <2>7, <2>8 DEF CutInv
<1>2. CASE UNCHANGED <<control, packets, offset>> /\ (at' = "reading" => at = "reading")
  <2>1. TotalChunks' = TotalChunks
    BY <1>2 DEF TotalChunks, control
  <2> QED
    BY <1>2, <2>1 DEF CutInv, FixedInv, DynamicInv, PacketsInv, control
<1> QED
  BY <1>1, <1>2 DEF Next, EndOfFile, BreakOff, Truncate, Record, vars

\* Where the whole file was read, the totals its packets declare are the number
\* of packets: in every one in fixed mode, in the last in dynamic mode, for every
\* file size, chunk size and sequence of suggestions (splitFile).
THEOREM SplitTotalsAgree == Spec => []TotalsAgree
<1>1. TypeOK /\ Partition /\ CutInv => TotalsAgree
  <2> SUFFICES ASSUME TypeOK, Partition, CutInv PROVE TotalsAgree
    OBVIOUS
  <2>1. /\ Len(packets) \in Nat /\ DOMAIN packets = 1..Len(packets)
        /\ fileSize \in Nat \ {0} /\ chunkSize \in Nat \ {0}
    BY SplitAssumption DEF TypeOK
  <2>2. ASSUME offset = fileSize PROVE Len(packets) > 0
    <3>1. packets # <<>>
      BY <2>1, <2>2 DEF Partition
    <3> QED
      BY <3>1, <2>1 DEF TypeOK
  <2> QED
    BY <2>1, <2>2 DEF CutInv, FixedInv, DynamicInv, TotalsAgree
<1> QED
  BY <1>1, CutInit, CutStep, SplitTypeCorrect, SplitPartitions, PTL DEF Spec

\* The server's parser finds nothing wrong with a packet of the agent except the
\* file's size and the number of chunks (ChunkPacketParser::Parse).
THEOREM SplitIsParsed == Spec => []RefusedOnlyForLimits
<1>1. TypeOK /\ CutInv => RefusedOnlyForLimits
  <2> SUFFICES ASSUME TypeOK, CutInv, NEW i \in DOMAIN packets,
                      ~(fileSize > MaxFile), ~(packets[i].total > MaxTotal)
               PROVE  Parse(packets[i])
    BY DEF RefusedOnlyForLimits
  <2> DEFINE P == [number : Nat, offset : Nat, len : Nat, total : Nat]
  <2>1. fileSize \in Nat \ {0} /\ packets \in Seq(P)
    BY SplitAssumption DEF TypeOK
  <2>2. packets[i] \in P
    <3> HIDE DEF P
    <3> QED
      BY <2>1
  <2>3. /\ packets[i].number \in Nat /\ packets[i].offset \in Nat
        /\ packets[i].len \in Nat /\ packets[i].total \in Nat
    BY <2>2
  <2>4. /\ packets[i].len > 0 /\ packets[i].len <= MaxChunk
        /\ packets[i].offset + packets[i].len <= fileSize
        /\ packets[i].total > 0 => packets[i].number < packets[i].total
    BY DEF CutInv, PacketsInv
  <2>5. packets[i].total <= MaxTotal /\ fileSize > 0 /\ fileSize <= MaxFile
    BY <2>1, <2>3, SplitAssumption
  <2>6. packets[i].offset < fileSize /\ packets[i].len <= fileSize - packets[i].offset
    <3> DEFINE o == packets[i].offset
               l == packets[i].len
    <3>1. o \in Nat /\ l \in Nat /\ l > 0 /\ o + l <= fileSize /\ fileSize \in Nat
      BY <2>1, <2>3, <2>4
    <3> HIDE DEF o, l
    <3>2. o < fileSize /\ l <= fileSize - o
      BY <3>1
    <3> QED
      BY <3>2 DEF o, l
  <2> QED
    BY <2>4, <2>5, <2>6 DEF Parse
<1> QED
  BY <1>1, CutInit, CutStep, SplitTypeCorrect, PTL DEF Spec

=============================================================================
