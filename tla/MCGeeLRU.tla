------------------------------ MODULE MCGeeLRU ------------------------------
(* Three keys of one and two bytes, values of 0, 1 or 5 bytes, a budget of *)
(* 6 bytes: three small entries fit, a 5-byte value evicts the others, and *)
(* "cc" with 5 bytes alone exceeds the budget and is evicted at once.     *)
EXTENDS GeeLRU

MCKeys == {"a", "b", "cc"}
MCKeyLen == [k \in MCKeys |-> IF k = "cc" THEN 2 ELSE 1]
MCSizes == {0, 1, 5}
=============================================================================
