---------------------------- MODULE MCChainState ----------------------------
(***************************************************************************)
(* An instance of ChainState: genesis 1 with the chain 2-3, the branch 4-5 *)
(* from 2, and a single block 6 with the work of a chain of two.           *)
(*                                                                         *)
(*            3            (work 2)                                        *)
(*           /                                                             *)
(*      1 - 2 - 4 - 5      (work 3)                                        *)
(*       \                                                                 *)
(*        6                (work 2)                                        *)
(***************************************************************************)
EXTENDS ChainState

MCBlocks == 1 .. 6
MCParent == <<NoBlock, 1, 2, 2, 4, 1>>
MCPath   == <<{1}, {1, 2}, {1, 2, 3}, {1, 2, 4}, {1, 2, 4, 5}, {1, 6}>>
MCWork   == <<0, 1, 2, 2, 3, 2>>
=============================================================================
