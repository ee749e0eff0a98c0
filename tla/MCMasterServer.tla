--------------------------- MODULE MCMasterServer ---------------------------
(* Values for model checking MasterServer: three nodes, and for each block *)
(* the order in which a walk along the ring meets them.                    *)
EXTENDS MasterServer

CONSTANTS k1

TwoBlockRing ==
  [k \in Keys |-> [b \in 0 .. 1 |-> IF b = 0 THEN <<1, 1, 2, 3>> ELSE <<2, 3, 2, 1>>]]

TwoNodeRing ==
  [k \in Keys |-> [b \in 0 .. 1 |-> IF b = 0 THEN <<1, 1, 2>> ELSE <<2, 1>>]]
=============================================================================
