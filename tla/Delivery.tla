------------------------------ MODULE Delivery ------------------------------
(***************************************************************************)
(* What the agent promises of one file: it is recorded as delivered only   *)
(* when every target holds all of it.  Delivery is at least once: a file   *)
(* may be sent, and recorded, again; one that was given up may come back.  *)
(***************************************************************************)
CONSTANT Targets

VARIABLES
  has,    \* the targets that hold the whole file
  phase   \* "pending", "delivered" or "givenUp"

vars == <<has, phase>>

Init == has \in SUBSET Targets /\ phase = "pending"

Receive == /\ has' \in SUBSET Targets /\ has \subseteq has'
           /\ UNCHANGED phase

Deliver == /\ phase # "delivered" /\ has = Targets
           /\ phase' = "delivered"
           /\ UNCHANGED has

GiveUp == /\ phase # "givenUp"
          /\ phase' = "givenUp"
          /\ UNCHANGED has

Retry == /\ phase # "pending"
         /\ phase' = "pending"
         /\ UNCHANGED has

Next == Receive \/ Deliver \/ GiveUp \/ Retry

Spec == Init /\ [][Next]_vars

=============================================================================
