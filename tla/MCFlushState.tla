---------------------------- MODULE MCFlushState ----------------------------
(* FlushState on a chain b1 - b2 - b3 with a branch b4 from b2. *)
EXTENDS FlushState, TLC

CONSTANTS b1, b2, b3, b4

MCParent == (b1 :> NoBlock) @@ (b2 :> b1) @@ (b3 :> b2) @@ (b4 :> b2)
MCPath == (b1 :> {b1}) @@ (b2 :> {b1, b2}) @@ (b3 :> {b1, b2, b3}) @@ (b4 :> {b1, b2, b4})
Branches == Permutations({b3, b4})
=============================================================================
