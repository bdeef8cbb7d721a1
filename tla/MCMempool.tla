----------------------------- MODULE MCMempool -----------------------------
(***************************************************************************)
(* Transactions for Mempool: coinbases of heights 1 to 4; the coinstake s  *)
(* and a spend the same coinbase; b and the large c spend the same output  *)
(* of a; x spends another one and is invalid; d has a parent that is a     *)
(* transaction and one that is a coinbase.                                 *)
(***************************************************************************)
EXTENDS Mempool

MCInputs ==
    [cb1 |-> <<>>, cb2 |-> <<>>, cb3 |-> <<>>, cb4 |-> <<>>,
     s |-> <<<<"cb1", 0>>>>,
     a |-> <<<<"cb1", 0>>>>,
     b |-> <<<<"a", 0>>>>,
     c |-> <<<<"a", 0>>>>,
     d |-> <<<<"b", 0>>, <<"cb2", 0>>>>,
     x |-> <<<<"a", 1>>>>]

MCOuts == [t \in DOMAIN MCInputs |-> IF t \in {"a", "s"} THEN {0, 1} ELSE {0}]

MCKind ==
    [t \in DOMAIN MCInputs |->
        IF MCInputs[t] = <<>> THEN "coinbase" ELSE IF t = "s" THEN "coinstake" ELSE "normal"]

MCCoinbaseHeight ==
    [t \in DOMAIN MCInputs |->
        CASE t = "cb1" -> 1 [] t = "cb2" -> 2 [] t = "cb3" -> 3 [] t = "cb4" -> 4 [] OTHER -> 0]

MCTx == DOMAIN MCInputs

Peers == Permutations(Peer)
=============================================================================
