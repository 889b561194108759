------------------------------ MODULE GeeGroup ------------------------------
(***************************************************************************)
(* Concurrent Group.Get calls on one cache Group of geecache               *)
(* (src/geecache/geecache/geecache.go) and its single-flight coalescer     *)
(* (src/geecache/geecache/singleflight/singleflight.go).                   *)
(*                                                                         *)
(* Each caller goroutine looks the key up in mainCache, and on a miss      *)
(* enters loader.Do.  The first caller for a key registers a call in g.m   *)
(* and runs the load function: ask the peer that PickPeer names, falling   *)
(* back to the local getter, which fills the cache.  Later callers for the *)
(* key wait on the call's WaitGroup and share its result.  The call is     *)
(* removed from g.m after it completes.                                    *)
(*                                                                         *)
(* The cache is the set of cached keys; LRU pressure from other keys is    *)
(* an Evict step (the byte budget itself is modelled in GeeLRU).  A call   *)
(* object is named by the caller that created it.                          *)
(***************************************************************************)
EXTENDS Naturals, FiniteSets, TLC

CONSTANTS
    Callers,    \* goroutines calling Group.Get
    Keys,       \* keys they ask for; EmptyKey is the key ""
    EmptyKey,
    Missing,    \* keys the user's Getter has no value for
    Owner,      \* Owner[k]: the peer the hash ring picks for k
    Self,       \* this node's address (HTTPPool.self)
    HasPeers,   \* RegisterPeers was called
    AllowEvict, \* other keys may push entries out of the LRU
    None        \* model value: no call

ASSUME /\ EmptyKey \in Keys /\ Missing \subseteq Keys
       /\ HasPeers \in BOOLEAN /\ AllowEvict \in BOOLEAN
       /\ None \notin Callers

VARIABLES
    pc,         \* per caller: where its goroutine is
    key,        \* per caller: the key it asked for
    cache,      \* keys present in mainCache
    m,          \* singleflight g.m: key -> the call registered for it
    val,        \* per call: c.val/c.err, "none" until fn returns
    wgDone,     \* per call: c.wg.Done() has run
    joined,     \* per caller: the call whose result it returns
    result,     \* per caller: what Group.Get returned
    loads,      \* per key: how many times the Getter was invoked
    peerCache   \* keys present in the mainCache of the owning peer

vars == <<pc, key, cache, m, val, wgDone, joined, result, loads, peerCache>>

Results == {"none", "empty", "hit", "peer", "local", "err"}

Init ==
    /\ pc = [p \in Callers |-> "idle"]
    /\ key = [p \in Callers |-> EmptyKey]
    /\ cache = {}
    /\ m = <<>>
    /\ val = [p \in Callers |-> "none"]
    /\ wgDone = [p \in Callers |-> FALSE]
    /\ joined = [p \in Callers |-> None]
    /\ result = [p \in Callers |-> "none"]
    /\ loads = [k \in Keys |-> 0]
    /\ peerCache = {}

\* g.peers != nil and HTTPPool.PickPeer: a peer is picked when the ring
\* names one ("" when the ring is empty) and it is not self.
PickPeer(k) == HasPeers /\ Owner[k] \notin {"", Self}

-----------------------------------------------------------------------------
\* Mutant: the empty-key early return is missing.
GetNoEmptyCheck(p, k) ==
    /\ pc[p] = "idle"
    /\ key' = [key EXCEPT ![p] = k]
    /\ CASE k \in cache  -> /\ result' = [result EXCEPT ![p] = "hit"]
                            /\ pc' = [pc EXCEPT ![p] = "done"]
         [] OTHER        -> /\ pc' = [pc EXCEPT ![p] = "do"]
                            /\ UNCHANGED result
    /\ UNCHANGED <<cache, m, val, wgDone, joined, loads, peerCache>>

\* Group.Get: the empty key returns an empty ByteView at once; otherwise a
\* hit in mainCache returns the cached value, and a miss goes to load.
Get(p, k) ==
    /\ pc[p] = "idle"
    /\ key' = [key EXCEPT ![p] = k]
    /\ CASE k = EmptyKey -> /\ result' = [result EXCEPT ![p] = "empty"]
                            /\ pc' = [pc EXCEPT ![p] = "done"]
         [] k \in cache  -> /\ result' = [result EXCEPT ![p] = "hit"]
                            /\ pc' = [pc EXCEPT ![p] = "done"]
         [] OTHER        -> /\ pc' = [pc EXCEPT ![p] = "do"]
                            /\ UNCHANGED result
    /\ UNCHANGED <<cache, m, val, wgDone, joined, loads, peerCache>>

\* Mutant: Do creates the call but never stores it in g.m.
DoUnregistered(p) ==
    /\ pc[p] = "do"
    /\ IF key[p] \in DOMAIN m
       THEN /\ joined' = [joined EXCEPT ![p] = m[key[p]]]
            /\ pc' = [pc EXCEPT ![p] = "wait"]
       ELSE /\ joined' = [joined EXCEPT ![p] = p]
            /\ pc' = [pc EXCEPT ![p] = "fn"]
    /\ UNCHANGED <<key, cache, m, val, wgDone, result, loads, peerCache>>

\* singleflight.Do, the first critical section: join the call registered
\* for the key, or register a new one (wg.Add(1)) and go on to run fn.
Do(p) ==
    /\ pc[p] = "do"
    /\ IF key[p] \in DOMAIN m
       THEN /\ joined' = [joined EXCEPT ![p] = m[key[p]]]
            /\ pc' = [pc EXCEPT ![p] = "wait"]
            /\ UNCHANGED m
       ELSE /\ joined' = [joined EXCEPT ![p] = p]
            /\ m' = (key[p] :> p) @@ m
            /\ pc' = [pc EXCEPT ![p] = "fn"]
    /\ UNCHANGED <<key, cache, val, wgDone, result, loads, peerCache>>

\* Mutant: the waiter reads c.val without waiting on c.wg.
WaitNoBarrier(p) ==
    /\ pc[p] = "wait"
    /\ result' = [result EXCEPT ![p] = val[joined[p]]]
    /\ pc' = [pc EXCEPT ![p] = "done"]
    /\ UNCHANGED <<key, cache, m, val, wgDone, joined, loads, peerCache>>

\* c.wg.Wait(), then return c.val, c.err.
Wait(p) ==
    /\ pc[p] = "wait"
    /\ wgDone[joined[p]]
    /\ result' = [result EXCEPT ![p] = val[joined[p]]]
    /\ pc' = [pc EXCEPT ![p] = "done"]
    /\ UNCHANGED <<key, cache, m, val, wgDone, joined, loads, peerCache>>

\* The load function: ask the picked peer, or go straight to the getter.
Load(p) ==
    /\ pc[p] = "fn"
    /\ pc' = [pc EXCEPT ![p] = IF PickPeer(key[p]) THEN "peer" ELSE "local"]
    /\ UNCHANGED <<key, cache, m, val, wgDone, joined, result, loads, peerCache>>

\* The owning peer's HTTPPool.ServeHTTP for /_geecache/<group>/<key>: its
\* group.Get answers from the peer's mainCache, or loads with the peer's
\* Getter, which fills that cache or fails (500).  Every node's ring is set
\* from the same list, so the owner loads the key itself.
PeerServeHTTP(k) ==
    IF k \in peerCache
    THEN {[code |-> 200, cached |-> peerCache]}
    ELSE {[code |-> 200, cached |-> peerCache \cup {k}],
          [code |-> 500, cached |-> peerCache]}

\* httpGetter.Get: http.Get fails before the peer sees the request, or the
\* peer answers; a status other than 200, and a body that cannot be read or
\* decoded, are errors.
HTTPGet(k) ==
    {[ok |-> FALSE, cached |-> peerCache]} \cup
    UNION {{[ok |-> r.code = 200, cached |-> r.cached],
            [ok |-> FALSE, cached |-> r.cached]} : r \in PeerServeHTTP(k)}

\* getFromPeer: on success fn returns the peer's value, which is not put in
\* the local cache; c.val is set and wg.Done runs.  On an error the load
\* falls back to getLocally.
GetFromPeer(p) ==
    /\ pc[p] = "peer"
    /\ \E res \in HTTPGet(key[p]) :
          /\ peerCache' = res.cached
          /\ IF res.ok
             THEN /\ val' = [val EXCEPT ![p] = "peer"]
                  /\ wgDone' = [wgDone EXCEPT ![p] = TRUE]
                  /\ pc' = [pc EXCEPT ![p] = "delete"]
             ELSE /\ pc' = [pc EXCEPT ![p] = "local"]
                  /\ UNCHANGED <<val, wgDone>>
    /\ UNCHANGED <<key, cache, m, joined, result, loads>>

\* Mutant: fn returns but c.wg.Done() is never called.
GetLocallyNoDone(p) ==
    /\ pc[p] = "local"
    /\ loads' = [loads EXCEPT ![key[p]] = @ + 1]
    /\ IF key[p] \in Missing
       THEN /\ val' = [val EXCEPT ![p] = "err"]
            /\ UNCHANGED cache
       ELSE /\ val' = [val EXCEPT ![p] = "local"]
            /\ cache' = cache \cup {key[p]}
    /\ pc' = [pc EXCEPT ![p] = "delete"]
    /\ UNCHANGED <<key, m, wgDone, joined, result, peerCache>>

\* getLocally: call the Getter; on success populateCache; fn returns,
\* c.val/c.err are set and wg.Done runs.
GetLocally(p) ==
    /\ pc[p] = "local"
    /\ loads' = [loads EXCEPT ![key[p]] = @ + 1]
    /\ IF key[p] \in Missing
       THEN /\ val' = [val EXCEPT ![p] = "err"]
            /\ UNCHANGED cache
       ELSE /\ val' = [val EXCEPT ![p] = "local"]
            /\ cache' = cache \cup {key[p]}
    /\ wgDone' = [wgDone EXCEPT ![p] = TRUE]
    /\ pc' = [pc EXCEPT ![p] = "delete"]
    /\ UNCHANGED <<key, m, joined, result, peerCache>>

\* Do's second critical section: delete(g.m, key); then load returns.
Forget(p) ==
    /\ pc[p] = "delete"
    /\ m' = [k \in DOMAIN m \ {key[p]} |-> m[k]]
    /\ result' = [result EXCEPT ![p] = val[p]]
    /\ pc' = [pc EXCEPT ![p] = "done"]
    /\ UNCHANGED <<key, cache, val, wgDone, joined, loads, peerCache>>

\* The LRU evicts a cached key to make room for other data.
Evict(k) ==
    /\ AllowEvict
    /\ k \in cache
    /\ cache' = cache \ {k}
    /\ UNCHANGED <<pc, key, m, val, wgDone, joined, result, loads, peerCache>>

\* The peer's LRU evicts the key for other data.
PeerEvict(k) ==
    /\ AllowEvict
    /\ k \in peerCache
    /\ peerCache' = peerCache \ {k}
    /\ UNCHANGED <<pc, key, cache, m, val, wgDone, joined, result, loads>>

-----------------------------------------------------------------------------
Next ==
    \/ \E p \in Callers :
          \/ \E k \in Keys : Get(p, k)
          \/ Do(p) \/ Wait(p) \/ Load(p) \/ GetFromPeer(p) \/ GetLocally(p)
          \/ Forget(p)
    \/ \E k \in Keys : Evict(k) \/ PeerEvict(k)

\* Goroutines are scheduled fairly; the getter and the peer call return.
Fairness ==
    \A p \in Callers :
        /\ WF_vars(Do(p)) /\ WF_vars(Wait(p)) /\ WF_vars(Load(p))
        /\ WF_vars(GetFromPeer(p)) /\ WF_vars(GetLocally(p))
        /\ WF_vars(Forget(p))

Spec == Init /\ [][Next]_vars /\ Fairness

-----------------------------------------------------------------------------
TypeOK ==
    /\ pc \in [Callers -> {"idle", "do", "wait", "fn", "peer", "local",
                           "delete", "done"}]
    /\ key \in [Callers -> Keys]
    /\ cache \subseteq Keys \ {EmptyKey}
    /\ DOMAIN m \subseteq Keys /\ \A k \in DOMAIN m : m[k] \in Callers
    /\ val \in [Callers -> Results]
    /\ wgDone \in [Callers -> BOOLEAN]
    /\ joined \in [Callers -> Callers \cup {None}]
    /\ result \in [Callers -> Results]
    /\ loads \in [Keys -> 0..Cardinality(Callers)]
    /\ peerCache \subseteq Keys \ {EmptyKey}

Loading(p) == pc[p] \in {"fn", "peer", "local"}

\* At any instant at most one load function runs per key: concurrent
\* misses for a key share one call.
OneLoadInFlight ==
    \A p, q \in Callers :
        Loading(p) /\ Loading(q) /\ key[p] = key[q] => p = q

\* A caller that joined another caller's call returns exactly the value or
\* error that call's load function produced.
WaitersShareResult ==
    \A p \in Callers :
        pc[p] = "done" /\ joined[p] \notin {p, None} =>
            /\ val[joined[p]] # "none"
            /\ result[p] = val[joined[p]]

\* Every Group.Get that misses the cache returns, the callers that joined
\* another caller's load included.
GetsReturn == \A p \in Callers : pc[p] = "do" ~> pc[p] = "done"

\* The Getter is invoked at most once per key while nothing is evicted
\* (spec 4.4: concurrent misses for the same key collapse to one loader
\* call; scenario 1: the load count stays 1).
LoadedOncePerKey == \A k \in Keys : loads[k] <= 1
=============================================================================
