----------------------------- MODULE GeeRegistry -----------------------------
(***************************************************************************)
(* The heartbeat registry of geerpc (src/geerpc/registry/registry.go):     *)
(* servers call Heartbeat, which POSTs once and then, in a goroutine, POSTs *)
(* on every tick of a time.Ticker until a POST fails; the registry keeps    *)
(* addr -> start, refreshed by every POST, and every GET runs the           *)
(* aliveServers sweep, which lists the entries whose start + timeout is     *)
(* after now and deletes the others.                                        *)
(*                                                                          *)
(* Time is a discrete clock.  A POST is handled within the time unit it is  *)
(* sent in, and a goroutine takes a due tick before the clock moves on:     *)
(* network latency and scheduling delay are below one unit.                 *)
(***************************************************************************)
EXTENDS Naturals, FiniteSets

CONSTANTS
    Servers,        \* server addresses that call Heartbeat
    TTL,            \* r.timeout of the registry (0: never expire)
    DefaultTimeout, \* defaultTimeout
    Durations,      \* the duration arguments servers pass to Heartbeat
    CanFail,        \* a heartbeat POST may fail
    MaxTime         \* bound on the clock

ASSUME TTL \in Nat /\ DefaultTimeout \in Nat \ {0, 1}
       /\ Durations \subseteq Nat /\ CanFail \in BOOLEAN /\ MaxTime \in Nat

VARIABLES
    now,        \* time.Now()
    reg,        \* the addresses in r.servers
    start,      \* start[s]: ServerItem.start of s (kept after deletion)
    hb,         \* per server: "idle", "first" (the POST in Heartbeat itself),
                \* "wait" (on <-t.C), "send" (POST from the goroutine),
                \* "stopped" (the goroutine returned)
    period,     \* per server: the ticker's duration
    nextTick,   \* per server: when the ticker fires next
    posted,     \* the servers whose POST reached the registry
    listed,     \* the addresses the last GET returned
    getParity,  \* flips on every GET, so that a property can see GET steps
    lastPost    \* ghost: lastPost[s] is when the registry last handled a
                \* POST from s (a history, not a field of the registry)

vars == <<now, reg, start, hb, period, nextTick, posted, listed, getParity,
          lastPost>>

Init ==
    /\ now = 0
    /\ reg = {}
    /\ start = [s \in Servers |-> 0]
    /\ hb = [s \in Servers |-> "idle"]
    /\ period = [s \in Servers |-> 1]
    /\ nextTick = [s \in Servers |-> 0]
    /\ posted = {}
    /\ listed = {}
    /\ getParity = 0
    /\ lastPost = [s \in Servers |-> 0]

\* Mutant: an existing entry's start is not refreshed.
PutServerNoRefresh(s) ==
    /\ reg' = reg \cup {s}
    /\ start' = IF s \in reg THEN start ELSE [start EXCEPT ![s] = now]
    /\ posted' = posted \cup {s}

\* putServer: insert addr with start = now, or refresh the existing start.
PutServer(s) ==
    /\ reg' = reg \cup {s}
    /\ start' = [start EXCEPT ![s] = now]
    /\ posted' = posted \cup {s}

\* ServeHTTP, case POST with a non-empty X-Geerpc-Server: putServer(addr).
\* The ghost records the time the POST was handled.
HandlePost(s) ==
    /\ PutServer(s)
    /\ lastPost' = [lastPost EXCEPT ![s] = now]

-----------------------------------------------------------------------------
\* Mutant: Heartbeat does not replace a zero duration by the default.
HeartbeatNoDefault(s, d) ==
    /\ hb[s] = "idle"
    /\ hb' = [hb EXCEPT ![s] = "first"]
    /\ period' = [period EXCEPT ![s] = d]
    /\ UNCHANGED <<now, reg, start, nextTick, posted, listed, getParity,
                   lastPost>>

\* Heartbeat(registry, addr, duration): a zero duration becomes
\* defaultTimeout - 1 minute; then the first sendHeartbeat.
Heartbeat(s, d) ==
    /\ hb[s] = "idle"
    /\ hb' = [hb EXCEPT ![s] = "first"]
    /\ period' = [period EXCEPT ![s] = IF d = 0 THEN DefaultTimeout - 1 ELSE d]
    /\ UNCHANGED <<now, reg, start, nextTick, posted, listed, getParity,
                   lastPost>>

\* A heartbeat POST succeeds: the registry runs putServer.  After the first
\* one, the goroutine starts its ticker.
PostOk(s) ==
    /\ hb[s] \in {"first", "send"}
    /\ HandlePost(s)
    /\ hb' = [hb EXCEPT ![s] = "wait"]
    /\ nextTick' = IF hb[s] = "first"
                   THEN [nextTick EXCEPT ![s] = now + period[s]]
                   ELSE nextTick
    /\ UNCHANGED <<now, period, listed, getParity>>

\* httpClient.Do returns an error, whether or not the registry handled the
\* POST: err != nil ends the goroutine's loop (or it never loops when the
\* first POST failed).
PostFail(s) ==
    /\ CanFail
    /\ hb[s] \in {"first", "send"}
    /\ \/ HandlePost(s)
       \/ UNCHANGED <<reg, start, posted, lastPost>>
    /\ hb' = [hb EXCEPT ![s] = "stopped"]
    /\ UNCHANGED <<now, period, nextTick, listed, getParity>>

\* <-t.C returns: the goroutine sends the next heartbeat.  Ticks that came
\* while it was busy were dropped by the ticker; the next one is the first
\* multiple of the period after now.
TickFires(s) ==
    /\ hb[s] = "wait"
    /\ nextTick[s] <= now
    /\ hb' = [hb EXCEPT ![s] = "send"]
    /\ nextTick' = [nextTick EXCEPT ![s] =
                      @ + period[s] * ((now - @) \div period[s] + 1)]
    /\ UNCHANGED <<now, reg, start, period, posted, listed, getParity,
                   lastPost>>

\* Mutant: the sweep keeps an entry until start + timeout is before now
\* (!Before instead of After), one instant longer.
AliveServersInclusive ==
    LET alive == {s \in reg : TTL = 0 \/ start[s] + TTL >= now}
    IN  /\ reg' = alive
        /\ listed' = alive
        /\ getParity' = 1 - getParity
        /\ UNCHANGED <<now, start, hb, period, nextTick, posted, lastPost>>

\* GET: aliveServers keeps the entries with timeout 0 or
\* s.start.Add(r.timeout).After(time.Now()), deletes the rest, and returns
\* the kept ones.
AliveServers ==
    LET alive == {s \in reg : TTL = 0 \/ start[s] + TTL > now}
    IN  /\ reg' = alive
        /\ listed' = alive
        /\ getParity' = 1 - getParity
        /\ UNCHANGED <<now, start, hb, period, nextTick, posted, lastPost>>

\* The clock advances once the POSTs of this unit are handled and every
\* due tick has been taken.
Tick ==
    /\ now < MaxTime
    /\ \A s \in Servers : hb[s] \notin {"first", "send"}
    /\ \A s \in Servers : hb[s] = "wait" => nextTick[s] > now
    /\ now' = now + 1
    /\ UNCHANGED <<reg, start, hb, period, nextTick, posted, listed, getParity,
                   lastPost>>

-----------------------------------------------------------------------------
Next ==
    \/ \E s \in Servers :
          \/ \E d \in Durations : Heartbeat(s, d)
          \/ PostOk(s) \/ PostFail(s) \/ TickFires(s)
    \/ AliveServers
    \/ Tick

Spec == Init /\ [][Next]_vars

-----------------------------------------------------------------------------
TypeOK ==
    /\ now \in 0 .. MaxTime
    /\ reg \subseteq Servers /\ posted \subseteq Servers
    /\ listed \subseteq Servers
    /\ start \in [Servers -> 0 .. MaxTime]
    /\ hb \in [Servers -> {"idle", "first", "wait", "send", "stopped"}]
    \* time.NewTicker panics unless its duration is positive
    /\ period \in [Servers -> Nat \ {0}]
    /\ getParity \in {0, 1}
    /\ lastPost \in [Servers -> 0 .. MaxTime]

\* Every GET lists each server whose heartbeat goroutine is still running:
\* the default cadence (defaultTimeout - 1 minute) refreshes its entry
\* before the sweep can drop it.
HeartbeatingServerListed ==
    [][getParity' # getParity =>
         \A s \in posted : hb[s] \in {"wait", "send"} => s \in listed']_vars

\* The abstract registry sees the POST history, not the map: the servers
\* that POSTed, each with the time its last POST was handled.
TTL_ == INSTANCE TTLRegistry
            WITH last <- [s \in posted |-> lastPost[s]]

\* The registry implements its promise: every GET returns exactly the
\* servers whose last POST is less than the timeout old.  This holds only
\* if putServer refreshes start on an existing entry, the sweep never
\* deletes an entry a later GET should list, and a POST after a deletion
\* re-creates the entry with a fresh start.
RegistryRefinesTTLMap == TTL_!Spec
=============================================================================
