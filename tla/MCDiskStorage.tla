--------------------------- MODULE MCDiskStorage ---------------------------
(* Values for model checking DiskStorage: hashes are small numbers. *)
EXTENDS DiskStorage, TLC

CONSTANTS k1, k2, k3

HashInjective == (k1 :> 1) @@ (k2 :> 2)
HashThree == (k1 :> 1) @@ (k2 :> 2) @@ (k3 :> 3)
HashCollides == (k1 :> 1) @@ (k2 :> 1)
=============================================================================
