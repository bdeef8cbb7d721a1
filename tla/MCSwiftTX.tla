----------------------------- MODULE MCSwiftTX -----------------------------
(***************************************************************************)
(* Two transactions that conflict on the input j; two karmanodes, both of  *)
(* which must vote at height 5: this node's own, k2, and k1, which is in   *)
(* the quorum of the wrong height 4 too.                                   *)
(***************************************************************************)
EXTENDS SwiftTX, TLC

MCVin == [t |-> {"j"}, u |-> {"j", "k"}]
MCLockHeight == [t |-> 5, u |-> 5]
MCTop == [h \in Height |-> IF h = 5 THEN Karmanode ELSE {"k1"}]
=============================================================================
