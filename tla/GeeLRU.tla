------------------------------- MODULE GeeLRU -------------------------------
(***************************************************************************)
(* The byte-budgeted LRU of geecache (src/geecache/geecache/lru/lru.go).   *)
(* The doubly linked list ll is a sequence of entries, front first; the    *)
(* dictionary c.cache is the set of keys it indexes (an element pointer is *)
(* named by its key).  An entry costs len(key) + value.Len() bytes.  The   *)
(* cache wrapper serialises all calls under its mutex, so each method is   *)
(* one atomic step, Add's eviction loop included.                          *)
(***************************************************************************)
EXTENDS Naturals, Sequences, SequencesExt, FiniteSets

CONSTANTS
    Keys,       \* the keys
    KeyLen,     \* KeyLen[k]: len(k)
    Sizes,      \* the value.Len() of the values callers add
    MaxBytes,   \* c.maxBytes; 0 means unbounded
    MaxOps      \* bound on the uses the recency clock counts

ASSUME KeyLen \in [Keys -> Nat] /\ Sizes \subseteq Nat
       /\ MaxBytes \in Nat /\ MaxOps \in Nat

VARIABLES
    ll,         \* the list: entries [key, size], ll[1] is the front
    index,      \* the keys present in the dictionary c.cache
    nbytes,     \* c.nbytes
    clock,      \* the number of Get hits and Adds so far, bounded by MaxOps
    last        \* ghost: {k} for the key of the last Get hit or Add, or {}

vars == <<ll, index, nbytes, clock, last>>

Entry == [key : Keys, size : Sizes]

Cost(e) == KeyLen[e.key] + e.size

\* Position of key k in the list.
Pos(l, k) == SelectInSeq(l, LAMBDA e : e.key = k)

Init ==
    /\ ll = <<>>
    /\ index = {}
    /\ nbytes = 0
    /\ clock = 0
    /\ last = {}

Use(k) == clock' = clock + 1 /\ last' = {k}

-----------------------------------------------------------------------------
\* Mutant: Get returns the value without MoveToFront.
GetNoMove(k) ==
    \/ /\ k \notin index
       /\ UNCHANGED vars
    \/ /\ k \in index /\ clock < MaxOps
       /\ Use(k)
       /\ UNCHANGED <<ll, index, nbytes>>

\* Cache.Get: a hit moves the element to the front; a miss changes nothing.
Get(k) ==
    \/ /\ k \notin index
       /\ UNCHANGED vars
    \/ /\ k \in index /\ clock < MaxOps
       /\ ll' = Cons(ll[Pos(ll, k)], RemoveAt(ll, Pos(ll, k)))
       /\ Use(k)
       /\ UNCHANGED <<index, nbytes>>

\* Mutant: RemoveOldest unlinks the element but leaves it in the dictionary.
RemoveOldestKeepsIndex ==
    IF ll = <<>> THEN UNCHANGED vars
    ELSE /\ ll' = Front(ll)
         /\ nbytes' = nbytes - Cost(Last(ll))
         /\ UNCHANGED <<index, clock, last>>

\* Cache.RemoveOldest: unlink the back element, delete its key from the
\* dictionary and subtract its cost.  OnEvicted has no effect on the cache.
RemoveOldest ==
    IF ll = <<>> THEN UNCHANGED vars
    ELSE /\ ll' = Front(ll)
         /\ index' = index \ {Last(ll).key}
         /\ nbytes' = nbytes - Cost(Last(ll))
         /\ UNCHANGED <<clock, last>>

\* The keys of the entries RemoveOldest unlinked from the back of l to leave
\* the prefix rest; each call deletes its key from the dictionary.
Dropped(l, rest) == {l[i].key : i \in Len(rest) + 1 .. Len(l)}

\* Mutant: the loop is an `if`: at most one entry is evicted.
EvictOnce(l, n) ==
    IF MaxBytes # 0 /\ MaxBytes < n /\ l # <<>>
    THEN [list |-> Front(l), nbytes |-> n - Cost(Last(l))]
    ELSE [list |-> l, nbytes |-> n]

\* Add's loop `for c.maxBytes != 0 && c.maxBytes < c.nbytes { RemoveOldest }`
\* applied to a list l with byte count n: the list left and its count.
\* (On an empty list RemoveOldest does nothing and the Go loop would spin.)
RECURSIVE Evict(_, _)
Evict(l, n) ==
    IF MaxBytes # 0 /\ MaxBytes < n /\ l # <<>>
    THEN Evict(Front(l), n - Cost(Last(l)))
    ELSE [list |-> l, nbytes |-> n]

\* Mutant: the update branch adds the new size without subtracting the old.
AddUpdateNoSub(k, s) ==
    /\ clock < MaxOps
    /\ LET new == IF k \in index
                  THEN [list |-> Cons([key |-> k, size |-> s],
                                      RemoveAt(ll, Pos(ll, k))),
                        nbytes |-> nbytes + s]
                  ELSE [list |-> Cons([key |-> k, size |-> s], ll),
                        nbytes |-> nbytes + KeyLen[k] + s]
           after == Evict(new.list, new.nbytes)
       IN  /\ ll' = after.list
           /\ nbytes' = after.nbytes
           /\ index' = (index \cup {k}) \ Dropped(new.list, after.list)
    /\ Use(k)

\* Mutant: a new entry is pushed without looking the key up first.
AddAlwaysPush(k, s) ==
    /\ clock < MaxOps
    /\ LET after == Evict(Cons([key |-> k, size |-> s], ll),
                          nbytes + KeyLen[k] + s)
       IN  /\ ll' = after.list
           /\ nbytes' = after.nbytes
           /\ index' = (index \cup {k}) \ Dropped(Cons([key |-> k, size |-> s], ll),
                                                  after.list)
    /\ Use(k)

\* Cache.Add: an existing key is moved to the front and its value replaced
\* (nbytes changes by the size difference); a new key is pushed to the
\* front and indexed.  Then entries are evicted from the back while over
\* budget; every evicted key leaves the dictionary.
Add(k, s) ==
    /\ clock < MaxOps
    /\ LET new == IF k \in index
                  THEN [list |-> Cons([key |-> k, size |-> s],
                                      RemoveAt(ll, Pos(ll, k))),
                        nbytes |-> nbytes + s - ll[Pos(ll, k)].size]
                  ELSE [list |-> Cons([key |-> k, size |-> s], ll),
                        nbytes |-> nbytes + KeyLen[k] + s]
           after == Evict(new.list, new.nbytes)
       IN  /\ ll' = after.list
           /\ nbytes' = after.nbytes
           /\ index' = (index \cup {k}) \ Dropped(new.list, after.list)
    /\ Use(k)

-----------------------------------------------------------------------------
Next ==
    \/ \E k \in Keys : Get(k)
    \/ \E k \in Keys, s \in Sizes : Add(k, s)
    \/ RemoveOldest

Spec == Init /\ [][Next]_vars

-----------------------------------------------------------------------------
TypeOK ==
    /\ ll \in Seq(Entry) /\ Len(ll) <= Cardinality(Keys)
    /\ index \subseteq Keys
    /\ nbytes \in Int
    /\ clock \in 0..MaxOps
    /\ last \subseteq Keys /\ Cardinality(last) <= 1

\* The dictionary indexes exactly the keys on the list, each once: every
\* Get/Add lookup finds the element that is really in the list.
IndexMatchesList ==
    /\ index = {ll[i].key : i \in DOMAIN ll}
    /\ \A i, j \in DOMAIN ll : ll[i].key = ll[j].key => i = j

\* c.nbytes is the total cost of the entries on the list, across updates
\* that change a value's size and evictions.
NBytesAccurate ==
    nbytes = FoldLeft(LAMBDA acc, e : acc + Cost(e), 0, ll)

\* After every operation a bounded cache is within its byte budget
\* (spec 3: nbytes <= maxBytes after every Add).
WithinBudget == MaxBytes # 0 => nbytes <= MaxBytes

\* The keys on the list, front first, and the sizes of their values.
LRU == INSTANCE LRUCache
           WITH order <- [i \in DOMAIN ll |-> ll[i].key],
                size  <- [k \in {e.key : e \in ToSet(ll)} |-> ll[Pos(ll, k)].size],
                touched <- last

\* The list, the dictionary and the byte count implement the abstract LRU:
\* Get moves the key to the most recent place, Add's eviction loop keeps
\* exactly the longest most-recent run that fits the budget, and
\* RemoveOldest drops the least recently used key.
RefinesLRUCache == LRU!Spec
=============================================================================
