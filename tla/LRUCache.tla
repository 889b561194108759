------------------------------ MODULE LRUCache ------------------------------
(***************************************************************************)
(* What the LRU of geecache promises, without its list or dictionary: a    *)
(* set of keys with the sizes of their values, kept in order of use, most  *)
(* recent first.  A Get of a present key makes it the most recent; an Add  *)
(* stores the key as the most recent and then keeps the longest run of the *)
(* most recent keys whose cost fits the budget; RemoveOldest forgets the   *)
(* least recent key.  A key and its value cost KeyLen[k] + its size.       *)
(***************************************************************************)
EXTENDS Naturals, Sequences, SequencesExt, FiniteSets

CONSTANTS Keys, KeyLen, Sizes, MaxBytes

VARIABLES
    order,      \* the cached keys, most recently used first
    size,       \* size[k]: the size of k's value, for the keys in order
    touched     \* {k} for the key of the last Get hit or Add, or {}

Cached(o) == {o[i] : i \in DOMAIN o}

Total(o, sz) == FoldLeft(LAMBDA acc, k : acc + KeyLen[k] + sz[k], 0, o)

Fits(o, sz) == MaxBytes = 0 \/ Total(o, sz) <= MaxBytes

\* The longest prefix of o that fits the budget (costs are never negative,
\* so every shorter prefix fits too).
Keep(o, sz) ==
    SubSeq(o, 1, Max({n \in 0 .. Len(o) : Fits(SubSeq(o, 1, n), sz)}))

Init == order = <<>> /\ size = <<>> /\ touched = {}

Get(k) ==
    /\ k \in Cached(order)
    /\ order' = <<k>> \o Remove(order, k)
    /\ touched' = {k}
    /\ UNCHANGED size

Add(k, s) ==
    LET o  == <<k>> \o Remove(order, k)
        sz == (k :> s) @@ size
    IN  /\ order' = Keep(o, sz)
        /\ size' = [x \in Cached(Keep(o, sz)) |-> sz[x]]
        /\ touched' = {k}

RemoveOldest ==
    /\ order # <<>>
    /\ order' = Front(order)
    /\ size' = [x \in Cached(Front(order)) |-> size[x]]
    /\ UNCHANGED touched

Next ==
    \/ \E k \in Keys : Get(k)
    \/ \E k \in Keys, s \in Sizes : Add(k, s)
    \/ RemoveOldest

Spec == Init /\ [][Next]_<<order, size, touched>>
=============================================================================
