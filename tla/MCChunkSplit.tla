---------------------------- MODULE MCChunkSplit ----------------------------
(***************************************************************************)
(* Small instances of ChunkSplit for TLC.                                  *)
(***************************************************************************)
EXTENDS ChunkSplit, TLC

CONSTANTS t1, t2

\* Below, within and beyond the limits of a chunk, and with minimum and maximum
\* exchanged.
Settings == {[min |-> 1, max |-> 16, initial |-> 6],
             [min |-> 5, max |-> 30, initial |-> 30],
             [min |-> 12, max |-> 7, initial |-> 1],
             [min |-> 20, max |-> 20, initial |-> 20]}

=============================================================================
