----------------------------- MODULE MCHashRing -----------------------------
(* Values for model checking HashRing: three nodes with two virtual nodes  *)
(* each, at the lowest and the greatest hash among others; the virtual     *)
(* nodes <<1, 1>> and <<2, 0>> collide.                                    *)
EXTENDS HashRing, TLC

SmallHash ==
  (<<1, 0>> :> 0) @@ (<<1, 1>> :> 3) @@ (<<2, 0>> :> 3) @@ (<<2, 1>> :> 5)
    @@ (<<3, 0>> :> 6) @@ (<<3, 1>> :> 2)
=============================================================================
