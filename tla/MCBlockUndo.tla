---------------------------- MODULE MCBlockUndo ----------------------------
(***************************************************************************)
(* Transactions for BlockUndo: coinbases of heights 1 to 6, the first with *)
(* two outputs; coinstakes s and s2 whose first output is the empty marker *)
(* output; transactions that conflict, that spend two outputs of one       *)
(* transaction, that chain within a block, and one (e) whose only output   *)
(* cannot be spent.                                                        *)
(***************************************************************************)
EXTENDS BlockUndo

MCInputs ==
    [cb1 |-> <<>>, cb2 |-> <<>>, cb3 |-> <<>>, cb4 |-> <<>>, cb5 |-> <<>>, cb6 |-> <<>>,
     s |-> <<<<"cb1", 0>>>>,
     a |-> <<<<"cb1", 1>>>>,
     b |-> <<<<"cb1", 1>>, <<"cb1", 0>>>>,
     c |-> <<<<"a", 0>>, <<"a", 1>>>>,
     d |-> <<<<"s", 1>>, <<"cb3", 0>>>>,
     s2 |-> <<<<"cb2", 0>>>>,
     e |-> <<<<"s2", 1>>, <<"c", 0>>>>]

MCOuts ==
    [cb1 |-> {0, 1}, cb2 |-> {0}, cb3 |-> {0}, cb4 |-> {0}, cb5 |-> {0}, cb6 |-> {0},
     s |-> {0, 1}, a |-> {0, 1}, b |-> {0}, c |-> {0}, d |-> {0}, s2 |-> {0, 1}, e |-> {}]

MCKind ==
    [t \in DOMAIN MCInputs |->
        IF MCInputs[t] = <<>> THEN "coinbase" ELSE IF t \in {"s", "s2"} THEN "coinstake" ELSE "normal"]

MCCoinbaseHeight ==
    [t \in DOMAIN MCInputs |->
        CASE t = "cb1" -> 1 [] t = "cb2" -> 2 [] t = "cb3" -> 3
          [] t = "cb4" -> 4 [] t = "cb5" -> 5 [] t = "cb6" -> 6
          [] OTHER -> 0]

MCTx == DOMAIN MCInputs
=============================================================================
