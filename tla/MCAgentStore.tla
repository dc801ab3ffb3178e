---------------------------- MODULE MCAgentStore ----------------------------
(***************************************************************************)
(* Small instances of AgentStore for TLC.                                  *)
(***************************************************************************)
EXTENDS AgentStore, TLC

CONSTANTS w1, w2, v1, v2

OneVersion  == v1 :> 2
TwoVersions == v1 :> 2 @@ v2 :> 2

=============================================================================
