----------------------------- MODULE MCAddrMan -----------------------------
(* Three addresses and three sources: a and b collide in bucket 1 and in    *)
(* the tried table, a and c in bucket 2; a has a third bucket of its own,   *)
(* one more than it may lie in.                                             *)
EXTENDS AddrMan

MCNewBucket ==
    [a |-> [s |-> 1, t |-> 2, u |-> 3], b |-> [s |-> 1, t |-> 2, u |-> 1],
     c |-> [s |-> 1, t |-> 2, u |-> 2]]
MCNewPos == [a |-> <<1, 1, 1>>, b |-> <<1, 2, 1>>, c |-> <<2, 1, 1>>]
MCTriedSlot == [a |-> 1, b |-> 1, c |-> 2]
============================================================================
