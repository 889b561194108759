----------------------------- MODULE MCGeeGroup -----------------------------
(* Three goroutines call Group.Get on a node "self" with one peer.  Key k1 *)
(* is owned by the peer, k2 by this node; the Getter has no value for k2   *)
(* in the main run.                                                         *)
EXTENDS GeeGroup

MCCallers == {"p1", "p2", "p3"}
MCKeys == {"", "k1", "k2"}
MCOwner == [k \in MCKeys |-> IF k = "k1" THEN "peer" ELSE "self"]
MCMissing == {"k2"}
MCNoMissing == {}
=============================================================================
