---------------------------- MODULE MCServerLoop ----------------------------
(***************************************************************************)
(* Small instances of ServerLoop for TLC.                                  *)
(***************************************************************************)
EXTENDS ServerLoop, TLC

CONSTANTS c1, c2, w1, w2, l1

=============================================================================
