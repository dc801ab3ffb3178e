--------------------------- MODULE MCFileReceiver ---------------------------
(***************************************************************************)
(* Small instances of FileReceiver for TLC.                                *)
(***************************************************************************)
EXTENDS FileReceiver, Sequences, TLC

CONSTANTS t1, t2

\* The packets of transfer t when it is split at the given chunk ends; an
\* adaptive transfer declares its chunk count only on the last packet.
Split(t, ends, adaptive) ==
  {[tid   |-> t,
    num   |-> i - 1,
    slots |-> (IF i = 1 THEN 0 ELSE ends[i - 1]) .. ends[i] - 1,
    total |-> IF adaptive /\ i # Len(ends) THEN 0 ELSE Len(ends)]
   : i \in 1..Len(ends)}

OneTransfer      == Split(t1, <<1, 2>>, FALSE)
OneAdaptive      == Split(t1, <<1, 2, 3>>, TRUE)
TwoOfSameLength  == Split(t1, <<1, 2>>, FALSE) \cup Split(t2, <<1, 2>>, FALSE)
\* The same file sent again with larger adaptive chunks.
Resplit          == Split(t1, <<1, 3>>, TRUE) \cup Split(t1, <<2, 3>>, TRUE)

HandlerSymmetry == Permutations(Handlers)

=============================================================================
