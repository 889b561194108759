--------------------------- MODULE MCConsistentHash ---------------------------
(* Three peers with two virtual nodes each hashed into 0..4: six virtual   *)
(* nodes in five slots, so a ring of all three peers always has a          *)
(* collision, while rings of one or two peers may have none; the hash      *)
(* functions cover every order and wrap-around of the virtual keys.  Peer  *)
(* names are model values and interchangeable.                             *)
EXTENDS ConsistentHash

CONSTANTS A, B, C

MCPeers == {A, B, C}
MCHashSpace == 0 .. 4
MCSymmetry == Permutations(MCPeers)
=============================================================================
