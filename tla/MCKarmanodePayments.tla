------------------------ MODULE MCKarmanodePayments ------------------------
(* Two karmanodes, one of them this node's, vote for a payee and for the     *)
(* empty script, at the height 2 or without a height; two votes make a payee *)
(* binding.                                                                  *)
EXTENDS KarmanodePayments

CONSTANTS k1, k2

MCHeight == {0, 2}
MCTop == [h \in MCHeight |-> Karmanode]
============================================================================
