----------------------------- MODULE MCCluster -----------------------------
(***************************************************************************)
(* Values for model checking Cluster.  With keys of three bytes, the names *)
(* are one that fits a table entry, the one character longer name that     *)
(* fills the key, and a name that is cut off to it.                        *)
(***************************************************************************)
EXTENDS Cluster

MCNames == {<<97, 98>>, <<97, 98, 97>>, <<97, 98, 97, 98>>}

(* The ring begins at a different node for every block. *)
MCRingOrder ==
  [p \in Keys \X (0 .. 1) |-> IF p[2] = 0 THEN <<1, 1, 2, 3>> ELSE <<3, 2, 3, 1>>]
=============================================================================
