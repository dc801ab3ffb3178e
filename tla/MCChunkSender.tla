---------------------------- MODULE MCChunkSender ----------------------------
(***************************************************************************)
(* Small instances of ChunkSender for TLC.                                 *)
(***************************************************************************)
EXTENDS ChunkSender, TLC

=============================================================================
