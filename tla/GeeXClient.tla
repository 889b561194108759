----------------------------- MODULE GeeXClient -----------------------------
(***************************************************************************)
(* The discovery-backed client of geerpc (src/geerpc/xclient): a          *)
(* GeeRegistryDiscovery (discovery_gee.go over discovery.go) that refreshes *)
(* its server list from the registry when it is stale, and an XClient       *)
(* (xclient.go) that caches one Client per address.  One goroutine runs     *)
(* Broadcast, whose workers dial and call every listed server in parallel;  *)
(* another makes XClient.Call with RoundRobinSelect.  Both share the        *)
(* discovery and the client cache.                                          *)
(*                                                                          *)
(* dial holds xc.mu for its whole body, XDial included, so it is one step.  *)
(* client.Call is abstract: the server answers with a reply or an error,    *)
(* or never (a server in slow); the call also ends when its context is     *)
(* cancelled.  A worker's call and its section under Broadcast's mu are one *)
(* step, since nothing else sees the call's result in between.             *)
(***************************************************************************)
EXTENDS Naturals, Sequences, SequencesExt, FiniteSets

CONSTANTS
    Addrs,      \* server addresses, as numbers so the registry can sort them
    MayHang,    \* servers that may never answer (a slow method)
    Deadline,   \* Broadcast's context has a deadline (context.WithTimeout)
    MaxCalls    \* bound on the round-robin caller's XClient.Call

ASSUME Addrs \subseteq Nat /\ MayHang \subseteq Addrs /\ Deadline \in BOOLEAN
       /\ MaxCalls \in Nat

VARIABLES
    servers,    \* d.servers
    index,      \* d.index
    fresh,      \* lastUpdate + timeout is after now
    clients,    \* xc.clients: per address "none", "up" or "broken"
    bpc,        \* Broadcast: "refresh", "getall", "wait", "returned"
    targets,    \* the addresses GetAll returned to Broadcast
    w,          \* per address: Broadcast's worker, "none", "dial", "call", "done"
    e,          \* Broadcast's e: "none" or "err"
    replyDone,  \* Broadcast's replyDone
    failed,     \* ghost: the workers whose call failed
    held,       \* workers in client.Call on a client whose connection broke
    cancelled,  \* Broadcast's ctx is done (cancel or deadline)
    rpc,        \* the round-robin caller: "idle", "pick", "dial", and
                \* "closed" once it has called XClient.Close
    rrAddr,     \* the address it picked
    calls,      \* the number of XClient.Call it has made
    picks,      \* ghost: its picks since the server list last changed
    slow        \* the servers that never answer in this run

vars == <<servers, index, fresh, clients, bpc, targets, w, e, replyDone,
          failed, held, cancelled, rpc, rrAddr, calls, picks, slow>>

\* The list the registry returns: its live servers, sorted.
RegistryLists == {SetToSortSeq(S, LAMBDA x, y : x < y) : S \in SUBSET Addrs}

Init ==
    /\ servers = <<>>
    \* NewMultiServerDiscovery: d.r.Intn(math.MaxInt32 - 1); only its
    \* residues modulo the list lengths matter
    /\ index \in 0 .. 5
    /\ fresh = FALSE
    /\ clients = [a \in Addrs |-> "none"]
    /\ bpc = "refresh"
    /\ targets = <<>>
    /\ w = [a \in Addrs |-> "none"]
    /\ e = "none"
    /\ replyDone = FALSE
    /\ failed = {}
    /\ held = {}
    /\ cancelled = FALSE
    /\ rpc = "idle"
    /\ rrAddr = 0
    /\ calls = 0
    /\ picks = <<>>
    /\ slow \in SUBSET MayHang

-----------------------------------------------------------------------------
(* GeeRegistryDiscovery.Refresh, inlined in its callers as Refreshed.      *)

\* The list is stale and http.Get of the registry succeeds: d.servers is
\* replaced, lastUpdate is now.  (Fresh: Refresh returns nil at once.)
Refreshed(l) ==
    /\ servers' = l
    /\ fresh' = TRUE
    /\ picks' = IF l = servers THEN picks ELSE <<>>

\* Time passes beyond lastUpdate + timeout.
Expire ==
    /\ fresh
    /\ fresh' = FALSE
    /\ UNCHANGED <<servers, index, clients, bpc, targets, w, e, replyDone,
                   failed, held, cancelled, rpc, rrAddr, calls, picks, slow>>

-----------------------------------------------------------------------------
(* XClient.dial, one step under xc.mu: reuse an available cached client;  *)
(* close and delete a cached one that is not available; XDial a new one.   *)

DialOk(a) ==
    clients' = [clients EXCEPT ![a] = "up"]

\* XDial fails: nothing is cached for a (a dead client was deleted).
DialFail(a) ==
    /\ clients[a] # "up"
    /\ clients' = [clients EXCEPT ![a] = "none"]

\* The connection of a cached client breaks (its receive loop ends).  A
\* worker in client.Call holds that same client: a cached client is only
\* replaced once it is unavailable.
Break(a) ==
    /\ clients[a] = "up"
    /\ clients' = [clients EXCEPT ![a] = "broken"]
    /\ held' = IF w[a] = "call" THEN held \cup {a} ELSE held
    /\ UNCHANGED <<servers, index, fresh, bpc, targets, w, e, replyDone,
                   failed, cancelled, rpc, rrAddr, calls, picks, slow>>

-----------------------------------------------------------------------------
(* Broadcast.                                                              *)

\* GetAll calls Refresh: a stale list is fetched again; a failed fetch makes
\* Broadcast return the error before starting any worker.
BroadcastRefresh ==
    /\ bpc = "refresh"
    /\ \/ /\ fresh
          /\ bpc' = "getall"
          /\ UNCHANGED <<servers, fresh, picks, e>>
       \/ /\ ~fresh
          /\ \E l \in RegistryLists : Refreshed(l)
          /\ bpc' = "getall"
          /\ UNCHANGED e
       \/ /\ ~fresh
          /\ bpc' = "returned"
          /\ e' = "err"
          /\ UNCHANGED <<servers, fresh, picks>>
    /\ UNCHANGED <<index, clients, targets, w, replyDone, failed,
                   held, cancelled, rpc, rrAddr, calls, slow>>

\* GetAll copies d.servers; one worker goroutine per address (wg.Add(1)).
Spawn ==
    /\ bpc = "getall"
    /\ targets' = servers
    /\ w' = [a \in Addrs |-> IF a \in ToSet(servers) THEN "dial" ELSE "none"]
    /\ bpc' = "wait"
    /\ UNCHANGED <<servers, index, fresh, clients, e, replyDone,
                   failed, held, cancelled, rpc, rrAddr, calls, picks, slow>>

\* The worker's section under mu: the first error is kept in e and cancels
\* the other calls; the first success is copied into reply.
Record(a, ok) ==
    /\ w' = [w EXCEPT ![a] = "done"]
    /\ e' = IF ~ok /\ e = "none" THEN "err" ELSE e
    /\ cancelled' = (cancelled \/ (~ok /\ e = "none"))
    /\ replyDone' = (replyDone \/ ok)
    /\ failed' = IF ok THEN failed ELSE failed \cup {a}

\* The worker's xc.call starts with dial; its error is the call's error.
WorkerDial(a) ==
    /\ w[a] = "dial"
    /\ \/ /\ clients[a] = "up"
          /\ w' = [w EXCEPT ![a] = "call"]
          /\ UNCHANGED <<clients, e, cancelled, replyDone, failed>>
       \/ /\ clients[a] # "up"
          /\ DialOk(a)
          /\ w' = [w EXCEPT ![a] = "call"]
          /\ UNCHANGED <<e, cancelled, replyDone, failed>>
       \/ /\ DialFail(a)
          /\ Record(a, FALSE)
    /\ UNCHANGED <<servers, index, fresh, bpc, targets, held, rpc, rrAddr,
                   calls, picks, slow>>

\* Mutant: client.Call does not select on ctx.Done().
WorkerCallIgnoresCtx(a) ==
    /\ w[a] = "call"
    /\ \/ /\ a \in held
          /\ Record(a, FALSE)
       \/ /\ a \notin held /\ a \notin slow
          /\ \E ok \in BOOLEAN : Record(a, ok)
    /\ UNCHANGED <<servers, index, fresh, clients, bpc, targets, held, rpc,
                   rrAddr, calls, picks, slow>>

\* client.Call: a closed client fails at once (ErrShutdown); otherwise the
\* server's reply or error arrives, or the cancelled context wins the select.
WorkerCall(a) ==
    /\ w[a] = "call"
    /\ \/ /\ a \in held
          /\ Record(a, FALSE)
       \/ /\ a \notin held /\ a \notin slow
          /\ \E ok \in BOOLEAN : Record(a, ok)
       \/ /\ cancelled
          /\ Record(a, FALSE)
    /\ UNCHANGED <<servers, index, fresh, clients, bpc, targets, held, rpc,
                   rrAddr, calls, picks, slow>>

\* Mutant: Broadcast returns without wg.Wait().
BroadcastReturnNoWait ==
    /\ bpc = "wait"
    /\ bpc' = "returned"
    /\ UNCHANGED <<servers, index, fresh, clients, targets, w, e, replyDone,
                   failed, held, cancelled, rpc, rrAddr, calls, picks, slow>>

\* wg.Wait() returns once every worker is done; Broadcast returns e.
BroadcastReturn ==
    /\ bpc = "wait"
    /\ \A a \in Addrs : w[a] \in {"none", "done"}
    /\ bpc' = "returned"
    /\ UNCHANGED <<servers, index, fresh, clients, targets, w, e, replyDone,
                   failed, held, cancelled, rpc, rrAddr, calls, picks, slow>>

\* The deadline of the caller's context passes.
DeadlineExpires ==
    /\ Deadline /\ ~cancelled /\ bpc # "returned"
    /\ cancelled' = TRUE
    /\ UNCHANGED <<servers, index, fresh, clients, bpc, targets, w, e,
                   replyDone, failed, held, rpc, rrAddr, calls, picks, slow>>

-----------------------------------------------------------------------------
(* XClient.Call with RoundRobinSelect.                                      *)

\* GeeRegistryDiscovery.Get first calls Refresh; its error is returned.
CallerRefresh ==
    /\ rpc = "idle" /\ calls < MaxCalls
    /\ calls' = calls + 1
    /\ \/ /\ fresh
          /\ rpc' = "pick"
          /\ UNCHANGED <<servers, fresh, picks>>
       \/ /\ ~fresh
          /\ \E l \in RegistryLists : Refreshed(l)
          /\ rpc' = "pick"
       \/ /\ ~fresh
          /\ UNCHANGED <<servers, fresh, picks, rpc>>
    /\ UNCHANGED <<index, clients, bpc, targets, w, e, replyDone,
                   failed, held, cancelled, rrAddr, slow>>

\* Mutant: d.index is not advanced after a pick.
CallerPickNoAdvance ==
    /\ rpc = "pick"
    /\ LET n == Len(servers)
           s == servers[(index % n) + 1]
       IN  \/ /\ n = 0
              /\ rpc' = "idle"
              /\ UNCHANGED <<index, rrAddr, picks>>
           \/ /\ n > 0
              /\ rrAddr' = s
              /\ picks' = Append(picks, s)
              /\ rpc' = "dial"
              /\ UNCHANGED index
    /\ UNCHANGED <<servers, fresh, clients, bpc, targets, w, e, replyDone,
                   failed, held, cancelled, calls, slow>>

\* Mutant: d.index is incremented without the modulo.
CallerPickNoWrap ==
    /\ rpc = "pick"
    /\ LET n == Len(servers)
           s == servers[(index % n) + 1]
       IN  \/ /\ n = 0
              /\ rpc' = "idle"
              /\ UNCHANGED <<index, rrAddr, picks>>
           \/ /\ n > 0
              /\ rrAddr' = s
              /\ index' = index + 1
              /\ picks' = Append(picks, s)
              /\ rpc' = "dial"
    /\ UNCHANGED <<servers, fresh, clients, bpc, targets, w, e, replyDone,
                   failed, held, cancelled, calls, slow>>

\* MultiServersDiscovery.Get(RoundRobinSelect): no servers is an error;
\* otherwise servers[index % n], and index becomes (index + 1) % n.
CallerPick ==
    /\ rpc = "pick"
    /\ LET n == Len(servers)
           s == servers[(index % n) + 1]
       IN  \/ /\ n = 0
              /\ rpc' = "idle"
              /\ UNCHANGED <<index, rrAddr, picks>>
           \/ /\ n > 0
              /\ rrAddr' = s
              /\ index' = (index + 1) % n
              /\ picks' = Append(picks, s)
              /\ rpc' = "dial"
    /\ UNCHANGED <<servers, fresh, clients, bpc, targets, w, e, replyDone,
                   failed, held, cancelled, calls, slow>>

\* xc.call: dial, then client.Call, whose outcome only the caller sees.
CallerDial ==
    /\ rpc = "dial"
    /\ \/ /\ clients[rrAddr] = "up"
          /\ UNCHANGED clients
       \/ /\ clients[rrAddr] # "up"
          /\ DialOk(rrAddr)
       \/ DialFail(rrAddr)
    /\ rpc' = "idle"
    /\ UNCHANGED <<servers, index, fresh, bpc, targets, w, e, replyDone,
                   failed, held, cancelled, rrAddr, calls, picks, slow>>

\* XClient.Close, under xc.mu, once Broadcast has returned and the caller
\* is idle (main.go defers it): every cached client is closed and deleted,
\* the broken ones included.
XClose ==
    /\ rpc = "idle" /\ bpc = "returned"
    /\ rpc' = "closed"
    /\ clients' = [a \in Addrs |-> "none"]
    /\ UNCHANGED <<servers, index, fresh, bpc, targets, w, e, replyDone,
                   failed, held, cancelled, rrAddr, calls, picks, slow>>

-----------------------------------------------------------------------------
Next ==
    \/ BroadcastRefresh \/ Spawn \/ BroadcastReturn \/ DeadlineExpires
    \/ \E a \in Addrs : WorkerDial(a) \/ WorkerCall(a) \/ Break(a)
    \/ CallerRefresh \/ CallerPick \/ CallerDial \/ XClose
    \/ Expire

\* Goroutines are scheduled, servers not in Hangs answer, and a deadline
\* fires; the network, the registry's staleness and the caller's calls are
\* under no obligation.
Fairness ==
    /\ WF_vars(BroadcastRefresh) /\ WF_vars(Spawn) /\ WF_vars(BroadcastReturn)
    /\ WF_vars(DeadlineExpires)
    /\ \A a \in Addrs : WF_vars(WorkerDial(a)) /\ WF_vars(WorkerCall(a))
    /\ WF_vars(CallerPick) /\ WF_vars(CallerDial)

Spec == Init /\ [][Next]_vars /\ Fairness

-----------------------------------------------------------------------------
TypeOK ==
    /\ servers \in Seq(Addrs) /\ fresh \in BOOLEAN
    \* (index + 1) % n keeps d.index below its random start or the list length
    /\ index \in 0 .. 5
    /\ clients \in [Addrs -> {"none", "up", "broken"}]
    /\ bpc \in {"refresh", "getall", "wait", "returned"}
    /\ targets \in Seq(Addrs)
    /\ w \in [Addrs -> {"none", "dial", "call", "done"}]
    /\ e \in {"none", "err"} /\ replyDone \in BOOLEAN
    /\ failed \subseteq Addrs /\ held \subseteq Addrs
    /\ cancelled \in BOOLEAN
    /\ rpc \in {"idle", "pick", "dial", "closed"} /\ rrAddr \in Addrs \cup {0}
    /\ calls \in 0 .. MaxCalls /\ picks \in Seq(Addrs)
    /\ slow \subseteq MayHang

\* Broadcast returns nil only after every listed server's call has ended
\* and succeeded, and then the reply holds one of their replies; a failed
\* call makes it return an error.
BroadcastResult ==
    bpc = "returned" =>
        /\ failed # {} => e = "err"
        /\ e = "none" =>
              /\ \A i \in DOMAIN targets : w[targets[i]] = "done"
              /\ targets # <<>> => replyDone

\* Broadcast returns, even when a server never answers: its context's
\* deadline, or the first failure's cancel, ends the pending calls.
BroadcastReturns == <>(bpc = "returned")

\* RoundRobinSelect: while the server list stays the same, any n
\* consecutive picks of a list of n servers name every server.
RoundRobinCoversAll ==
    LET n == Len(servers) IN
    \A i \in 1 .. Len(picks) : i + n - 1 <= Len(picks) =>
        ToSet(SubSeq(picks, i, i + n - 1)) = ToSet(servers)
=============================================================================
