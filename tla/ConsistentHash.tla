--------------------------- MODULE ConsistentHash ---------------------------
(***************************************************************************)
(* The consistent hash ring of geecache                                    *)
(* (src/geecache/geecache/consistenthash/consistenthash.go) and the        *)
(* HTTPPool.Set that rebuilds it (src/geecache/geecache/http.go).          *)
(*                                                                         *)
(* The hash function is a constant of the run chosen by Init from every    *)
(* function of the virtual node names into a small hash space, so virtual  *)
(* nodes of different peers may collide.  Map.Get is the operator Lookup,  *)
(* with sort.Search written out as the binary search the standard library *)
(* performs; it is checked against a reference definition for every hash. *)
(***************************************************************************)
EXTENDS Naturals, Sequences, SequencesExt, FiniteSets, TLC

CONSTANTS
    Peers,      \* the real peer names
    Replicas,   \* m.replicas (defaultReplicas)
    HashSpace   \* the values m.hash may return

ASSUME Replicas \in Nat \ {0} /\ HashSpace \subseteq Nat

\* Virtual node i of peer p is hashed from strconv.Itoa(i) + p.
VNames == Peers \X (0 .. Replicas - 1)

VARIABLES
    hash,       \* m.hash on the virtual node names
    keys,       \* m.keys
    hashmap,    \* m.hashmap: virtual key -> peer
    members     \* the peers of the last HTTPPool.Set, in argument order

vars == <<hash, keys, hashmap, members>>

\* The loop of Map.Add over its arguments ks: the virtual node names in the
\* order they are appended.
VNodes(ks) ==
    FlattenSeq([j \in 1 .. Len(ks) |->
                   [i \in 1 .. Replicas |-> <<ks[j], i - 1>>]])

\* Mutant: hashmap maps the virtual key to the virtual node's name
\* strconv.Itoa(i) + key instead of to the real peer.
AddMapsVirtualName(ks) ==
    LET step(r, v) == [keys |-> Append(r.keys, hash[v]),
                       map  |-> (hash[v] :> v) @@ r.map]
        r == FoldLeft(step, [keys |-> <<>>, map |-> <<>>], VNodes(ks))
    IN  [r EXCEPT !.keys = SortSeq(@, LAMBDA a, b : a < b)]

\* Mutant: m.keys is left in insertion order (sort.Ints is missing).
AddUnsorted(ks) ==
    LET step(r, v) == [keys |-> Append(r.keys, hash[v]),
                       map  |-> (hash[v] :> v[1]) @@ r.map]
        r == FoldLeft(step, [keys |-> <<>>, map |-> <<>>], VNodes(ks))
    IN  r

\* New followed by Add(ks...): append every virtual key, let a later
\* virtual node overwrite an earlier one with the same hash in hashmap,
\* then sort m.keys.
Add(ks) ==
    LET step(r, v) == [keys |-> Append(r.keys, hash[v]),
                       map  |-> (hash[v] :> v[1]) @@ r.map]
        r == FoldLeft(step, [keys |-> <<>>, map |-> <<>>], VNodes(ks))
    IN  [r EXCEPT !.keys = SortSeq(@, LAMBDA a, b : a < b)]

RECURSIVE Search(_, _, _, _)

\* Mutant: the predicate of sort.Search is m.keys[i] > hash.
SearchStrict(ks, hv, i, j) ==
    IF i < j
    THEN LET mid == (i + j) \div 2
         IN  IF ~(ks[mid + 1] > hv) THEN Search(ks, hv, mid + 1, j)
                                     ELSE Search(ks, hv, i, mid)
    ELSE i

\* sort.Search(len(m.keys), func(i) bool { return m.keys[i] >= hash }):
\* the smallest 0-based index in i..j whose key is >= hv, by bisection.
Search(ks, hv, i, j) ==
    IF i < j
    THEN LET mid == (i + j) \div 2
         IN  IF ~(ks[mid + 1] >= hv) THEN Search(ks, hv, mid + 1, j)
                                      ELSE Search(ks, hv, i, mid)
    ELSE i

\* Map.Get for a key whose hash is hv: "" on an empty ring, else the peer of
\* the virtual key at the search index, wrapping around to the first.
Lookup(ring, hv) ==
    IF Len(ring.keys) = 0 THEN ""
    ELSE LET idx == Search(ring.keys, hv, 0, Len(ring.keys))
         IN  ring.map[ring.keys[(idx % Len(ring.keys)) + 1]]

Init ==
    /\ hash \in [VNames -> HashSpace]
    /\ keys = <<>>
    /\ hashmap = <<>>
    /\ members = <<>>

\* HTTPPool.Set(peers...): under p.mu, a new ring with defaultReplicas to
\* which all the peers are added; the httpGetters are rebuilt for them.
Set(ps) ==
    /\ keys' = Add(ps).keys
    /\ hashmap' = Add(ps).map
    /\ members' = ps
    /\ UNCHANGED hash

\* Set is called with one or more distinct peer addresses.
PeerLists == {ps \in BoundedSeq(Peers, Cardinality(Peers)) :
                 ps # <<>> /\ IsInjective(ps)}

Next == \E ps \in PeerLists : Set(ps)

Spec == Init /\ [][Next]_vars

-----------------------------------------------------------------------------
TypeOK ==
    /\ hash \in [VNames -> HashSpace]
    /\ keys \in Seq(HashSpace)
    /\ DOMAIN hashmap \subseteq HashSpace
    /\ \A v \in DOMAIN hashmap : hashmap[v] \in Peers
    /\ members \in Seq(Peers)

Ring == [keys |-> keys, map |-> hashmap]

\* The first virtual key clockwise from hv: the least key >= hv, or the
\* least key of all when there is none.
Clockwise(ring, hv) ==
    LET all == ToSet(ring.keys)
        up  == {v \in all : v >= hv}
        min(S) == CHOOSE v \in S : \A w \in S : v <= w
    IN  IF up # {} THEN min(up) ELSE min(all)

\* Map.Get returns the owner of the first virtual node clockwise from the
\* key's hash, with wrap-around, for every possible hash of the key: the
\* binary search over the sorted keys and the modulo agree with the ring.
GetIsFirstClockwise ==
    Len(keys) > 0 =>
        \A hv \in HashSpace : Lookup(Ring, hv) = hashmap[Clockwise(Ring, hv)]

\* Adding one more peer q to a Set only moves keys to q: every key keeps
\* its owner or now belongs to q (the point of consistent hashing).
AddingPeerMovesKeysOnlyToIt ==
    \A q \in Peers \ ToSet(members) :
        \A hv \in HashSpace :
            Lookup(Add(members \o <<q>>), hv) \in {Lookup(Ring, hv), q}
=============================================================================
