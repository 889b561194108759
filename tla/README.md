# TLA+ models of geerpc and geecache

This directory holds TLA+ models of the concurrent core of the repository:
the RPC framework `geerpc` (src/geerpc) and the distributed cache `geecache`
(src/geecache). Each module is a translation of the Go source, not of the
spec. Each run is a TLC configuration listed in `PROJECT.json`. The spec
leaves the ORM (src/geeorm) out of scope; its engine, session and
transaction handling are modelled here from the code (GeeORM).

## 1. Inventory

### Components, their state and operations

| Component | Source | State | Operations |
|---|---|---|---|
| RPC client | geerpc/client.go | `seq`, `pending` (seq → Call), `closing`, `shutdown`, `sending` mutex, `mu`, one codec | `registerCall`, `removeCall`, `terminateCalls`, `receive` loop, `send`, `Go`, `Call` (select on ctx / Done), `Close`, `IsAvailable`, `dialTimeout`, `NewHTTPClient`, `XDial` |
| RPC server | geerpc/server.go | per connection: codec, `sending` mutex, WaitGroup; server-wide `serviceMap` | `ServeConn` (Option check), `serveCodec` loop, `readRequest`, `sendResponse`, `handleRequest` (goroutine G + channels `called`/`sent` + timer), `Register`, `findService`, `ServeHTTP` (CONNECT hijack) |
| Codec | geerpc/codec | buffered gob encoder/decoder over the connection | `ReadHeader`, `ReadBody`, `Write` (header+body, flush, close on error), `Close` |
| Services | geerpc/service.go | method table, `numCalls` counters | `newService`, `registerMethods`, `call` |
| Registry | geerpc/registry/registry.go | `servers`: addr → start time, `timeout` | `putServer` (POST), `aliveServers` (GET, sweeps expired), `Heartbeat` goroutine |
| Discovery | geerpc/xclient/discovery*.go | `servers`, `index`, random source; `lastUpdate`, TTL | `Update`, `Refresh` (registry GET when stale), `Get(Random / RoundRobin)`, `GetAll` |
| XClient | geerpc/xclient/xclient.go | `clients`: addr → Client | `dial` (reuse, or close and re-dial a dead client), `Call`, `Broadcast` (fan-out, first error cancels, first success writes the reply), `Close` |
| LRU | geecache/lru/lru.go | list, index, `nbytes`, `maxBytes` | `Get` (move to front), `Add` (update or insert, then evict), `RemoveOldest` |
| Cache wrapper | (cache.go, not in the repository) | mutex, lazily built LRU | `add`, `get` |
| Hash ring | geecache/consistenthash | sorted virtual keys, virtual → real peer | `Add`, `Get` (binary search with wrap-around) |
| Single-flight | geecache/singleflight | `m`: key → in-flight call (WaitGroup, val, err) | `Do` |
| Cache group | geecache/geecache.go | name, getter, cache, peer picker, single-flight | `Get`, `load`, `getLocally`, `populateCache`, `getFromPeer`, `RegisterPeers` |
| HTTP pool | geecache/http.go | self, ring, getters | `Set`, `PickPeer`, `ServeHTTP`, `httpGetter.Get` |

### How they interact

* Client and server share one connection: the client writes request frames
  under its `sending` mutex; the server reads them in one loop, runs each in
  its own goroutines and writes responses under its own `sending` mutex; the
  client's single `receive` goroutine matches responses to calls by `Seq`.
* The server answers every request exactly once: from the read loop (bad
  service, bad body), from the method goroutine, or from the timer.
* XClient asks a Discovery for addresses, which asks the Registry over HTTP;
  servers keep themselves in the Registry with a heartbeat goroutine.
  XClient caches one Client per address.
* A cache Group misses into single-flight, which either asks the peer the
  hash ring picks (over HTTP, to that peer's Group) or loads locally and
  fills the LRU.

### What is hard

* Client: three actors touch `pending`. These are the callers (register,
  cancel), the receive loop (remove on response) and `terminateCalls` (signal
  without removing). Each call must be signalled at most once and never be
  stranded.
* Server: the timer races the method goroutine over unbuffered channels. A
  rejected request must leave the stream framed. Closing must wait for all
  handlers. A method registration accepts must not panic when called.
* Dial: connect timeout races the handshake goroutine.
* Registry/discovery: TTL boundaries, a heartbeat that stops at the first
  failure, a refresh that fails.
* Broadcast: first error cancels the rest; one reply assigned; all
  goroutines awaited.
* Cache: concurrent misses collapse to one load; the LRU byte budget and
  eviction; ring wrap-around and virtual-node collisions.

### Properties that make each component correct

* Client: each call is signalled at most once; a caller gets the reply to
  its own arguments; no call is pending and unsignalled after shutdown; every
  call returns.
* Server: at most one response per request; every request that is read is
  answered; the connection closes only after all answers; method goroutines
  exit; framing stays intact after an error, and no request kills the
  server.
* Registry: a GET lists exactly the addresses whose last handled POST is
  within the TTL; a live server stays registered.
* Discovery/XClient: round-robin visits every server; broadcast returns nil
  only after all calls succeed, with a reply copied, and always returns.
* Single-flight/Group: at most one load per key at a time; all coalesced
  callers see the same result.
* LRU: `nbytes` equals the sum of entry sizes; `nbytes <= maxBytes` after
  `Add`.
* Ring: `Get` returns the owner of the first virtual key at or after the
  hash, with wrap-around.

## 2. Plan

Ordered so that the most important behaviour is modelled first:

1. **GeeClient** (done). Client call multiplexing over an abstract server.
2. **GeeServer** (done). One server connection: read loop, handlers,
   timeout, close.
3. **GeeRPC** (not built, see section 4). Would compose GeeClient and GeeServer over one connection,
   using `INSTANCE`. It checks end-to-end that every Call returns the server's
   answer to its own request, including the timeout error and the desync
   after a bad method.
4. **GeeGroup** (done). Single-flight `Do`, cache `get`/`add` and `load` with peer
   fallback, for concurrent callers of `Group.Get`, with the owning peer's
   `ServeHTTP` behind `httpGetter.Get`.
5. **GeeLRU** (done). `Add`/`Get`/`RemoveOldest` over a sequence (the recency list)
   with byte sizes. Checked against a reference definition of the byte count
   and the budget, and shown to implement the abstract **LRUCache** through
   `INSTANCE ... WITH`.
6. **ConsistentHash** (done). The ring as operators over a small hash range:
   `Add` (sort), `Get` (search, wrap-around). Checked against a reference
   "first virtual key ≥ hash, else the first" definition. Includes
   virtual-key collisions.
7. **GeeRegistry** (done). Discrete clock, `putServer`, `aliveServers` sweep, and
   the Heartbeat goroutine with failures. Property: a server stays
   registered while its heartbeat runs. Shown to implement the abstract
   **TTLRegistry** (a GET returns the servers POSTed within the timeout).
8. **GeeXClient** (done). Refresh under TTL, RoundRobin index,
   `dial` cache with dead-client re-dial, and Broadcast with cancellation.
9. **Dial** (done, inside GeeClient). dialTimeout's handshake goroutine,
   the HTTP CONNECT exchange and the connect timeout.
10. **GeeORM** (done). NewEngine, one session's calls with hooks,
   `Engine.Transaction`, and `Engine.Migrate` with `schema.Parse`.

Runs use 2–3 actors (callers, requests, keys, servers). This is the smallest
number at which every two-party race of the code occurs, with a third actor
to observe it.

## 3. Modules and runs

### GeeClient (src/geerpc/client.go)

Variables mirror the `Client` fields: `seq`, `pending`, `closing`,
`shutdown`, and `sending` (the mutex holder). Every section under `client.mu`
is one atomic step. The sending mutex is a variable because `send` holds it
across `registerCall`, the write and the clean-up of a failed write, and
`terminateCalls` must acquire it.

Per caller, `pc` follows `Client.Call`: idle → write → (writefail) → wait →
done. `done[c]` is the `call.Done` channel, i.e. every `call.done()` signal.
`reply[c]` is a ghost: whose arguments the reply delivered to `c` was
computed from.

The receive goroutine is `recv`: loop → terminate → exit. The connection is
`conn`: up, closed (`cc.Close`), or broken (peer or network failure).

The server is abstract. It reads request frames in order and answers each
with a success or error header, in any order.

| Action | Code |
|---|---|
| `Send(c)` | `send` takes `sending`, then `registerCall` (ErrShutdown when closing/shutdown) |
| `WriteOk`, `WriteFail`, `WriteFailCleanup` | `cc.Write`, GobCodec closing on error, `removeCall` + `done` on failure |
| `Return`, `CtxCancel` | the select in `Client.Call` |
| `Receive`, `ReceiveFail` | one turn of `receive` (stale / error header / body, body decode failure) and the read error |
| `TerminateCalls` | `terminateCalls` under both mutexes |
| `Close` | `Client.Close` |

Before any call the client is dialled (`dialing`, `hs`, `hsRes`):

| Action | Code |
|---|---|
| `Connect` | `parseOptions`, then `net.DialTimeout`, which fails or gives a connection; XDial's protocol picks the handshake (`Handshakes`) |
| `HandshakeTCP` | the goroutine in `dialTimeout` running `NewClient`: the Option is written, a failure closes the connection |
| `HTTPConnected`, `HTTPRejected` | `NewHTTPClient`: the CONNECT request, the status line read back, then `NewClient`; a read error or another status is an error |
| `Deliver` | the result is received on the channel `ch` by the waiting `dialTimeout` |
| `TimeoutFires` | `time.After(connectTimeout)` wins the select: the connection is closed and the error returned |

The handshake goroutine sends on an unbuffered channel. Once the timer has
won, nobody receives, and that goroutine blocks for ever (`hs` stays
"send"). The model keeps that state. `ConnectTimeout` says whether
`connectTimeout` is non-zero. With 0 there is no timer.

Fairness is weak fairness on every goroutine step and on the abstract
server's read and reply. Goroutines are scheduled and the server answers what
it reads. Cancellation, `Close` and the network failure get no fairness: they
may never happen. In the dial, the timer has weak fairness, and so does an
HTTP handshake on a connection that is no longer up (its read fails). A
server that never answers CONNECT is not assumed away: with
`connectTimeout` 0 that dial hangs, a hazard listed in `PROJECT.json`.
No run checks that the dial returns: with a timer it returns because the
timer fires, which is the fairness assumption itself, and without one it
can hang, which needs a run with a silent server that the project has no
room for.

Run **client** (MCGeeClient, GeeClient.cfg) uses three callers. `c1` has a
cancellable context. It checks five properties:

* `DoneAtMostOnce`: no call is signalled twice. Only the sending mutex in
  `terminateCalls` gives this.
* `CallReturnsOwnReply`: correlation by `Seq`.
* `NoOrphanAfterShutdown`: after the receive loop exits, every pending call
  has been signalled.
* `CallsTerminate`: liveness, for calls made on a dialled client.
* `FailedDialReleasesClient`: after a failed dial, the connection is not
  left up with a receive loop running. The timeout path closes the
  connection, even when the handshake has already started a client.

All hold (about 140,000 distinct states). The deadlock check is off: once
every call has returned, the receive goroutine blocks on a read for good, and
that is a real final state.

### GeeServer (src/geerpc/server.go)

The model covers one connection. `in` is the byte stream the client wrote,
as header and body items. `pos` is the decoder's position in it. `loop` is
serveCodec (option → read → wait → closed). A connection that came through
`HandleHTTP` starts in "http": `ServeHTTP` answers a method other than
CONNECT with 405, or fails to hijack, and stops. Otherwise it writes the
200 line and hands the connection to `ServeConn`. The client writes no frame
before it has read that line. Per request, `h` is the
handleRequest goroutine and `g` is the method goroutine G. `out` is the
sequence of response frames.

Each `sendResponse` is one atomic step: that is what the sending mutex gives.
The unbuffered channels `called` and `sent` are rendezvous steps (`Called`,
`Sent`) that need both goroutines. The timer is a `Timeout` step, enabled
while handleRequest is in its select. When `called` is ready too, Go's
select may still take the timer.

`opt` is the decoded Option. It records whether the magic number and codec
check out, and whether `HandleTimeout` is set. The client is the
environment. It writes header+body pairs naming one of `Names` (a
`Service.Method` as its dot-separated parts). For a method the server can
call, the request also carries the outcome the client's bytes and the
method lead to: ok, method error, or an undecodable body.

Registration happens before `Accept`, so it is a constant of the model
(`ServiceMap`), not an action. A receiver is a record of what reflect
reports of its methods: arity, results, and whether the argument and reply
types are exported, built-in or pointers. `RegisterMethods` is
`registerMethods`' filter, with `IsExportedOrBuiltinType` as in the code: a
pointer type has no name and no package path, so it always passes.
`ServiceMap` folds `Register` over the receivers in order; `LoadOrStore`
keeps the first service of a name. `FindService` splits at the last dot.
`MCGeeServer` registers `Foo` (Sum and Sleep, as in `main.go`), then `Bar`
with `Total(Args, int) error` and `Index(Args, map[string]int) error`
(replies by value) and `Reset` with two arguments, then `Foo` again.

A type is seen as `ptr`, `exported`, `builtin` and `elem` (whether
`reflect.Type.Elem` is defined on it: pointer, map, slice, array, chan).
`newReplyv` calls `Elem` on the reply type. On `int` it panics in the
`serveCodec` goroutine (`NewReplyvPanics`). On a by-value map it returns a
pointer to the element type, the request is dispatched, and the panic comes
in the method goroutine, when reflect's `Call` gets `*int` for a
`map[string]int` parameter (`MethodPanics`). Nothing recovers either
panic, so the process dies: `loop` becomes "crashed", and `Alive` guards
every goroutine step of every handler. The liveness properties say
"… or the server has crashed", so that they speak about the live server. It may also close its side. The Option is valid, has a bad magic
number, or names an unknown codec.

Runs:

* **server** (3 requests). The Option's `HandleTimeout` is set or zero,
  chosen at `Init` as part of `opt`. The run checks four properties, and all
  hold:
  * `OneResponsePerRequest`: the timer and the late method never both answer.
  * `ClosedAfterResponses`: `wg.Wait` covers all handlers.
  * `RequestsAnswered`.
  * `GoroutinesExitWithoutTimeout`: without a timeout, every method
    goroutine exits.
* **server_timeout_leak**: a violation. With a timeout, a method that
  returns after the timer fired blocks forever on `called <-`: a goroutine
  leak, which spec §9 flags.
* **server_framing**: a violation. A request whose `Service.Method` does not
  resolve is answered, but its body is left in the stream (server.go:161).
  The next `ReadHeader` decodes that body as a header, fails, and closes the
  connection. Every later request on it is lost, whereas spec §4.7 says the
  loop continues.
* **server_crash**: a violation, with one request. `registerMethods` accepts
  `Bar.Total`, whose reply is an `int`, because `isExportedOrBuiltinType`
  only looks at the name and package path. A request `Bar.Total` passes
  `findService`, and `newReplyv` panics (service.go:41): the server process
  exits. Spec §3 says a method has the shape `(recv, A, *B) error`, and
  §4.7 that a bad request is answered with an error on the connection.

### GeeGroup (geecache.go, singleflight/singleflight.go)

Each caller goroutine has a `pc` that follows `Group.Get`. Its steps are:

* `Get`: the empty key, then a cache hit, then a miss.
* `Do`: the first critical section of `singleflight.Do`. The caller joins the
  call in `m`, or registers its own call.
* `Wait`: `c.wg.Wait`.
* `Load`: `PickPeer`.
* `GetFromPeer`: `httpGetter.Get` (`HTTPGet`) succeeds, or fails and falls
  back. It fails when `http.Get` fails, or on a status other than 200, or
  when the body cannot be read or decoded. The owning peer's
  `HTTPPool.ServeHTTP` (`PeerServeHTTP`) answers from that peer's cache
  (`peerCache`). On a miss the peer loads the key with its own getter, which
  fills its cache or fails with 500. The peer's `group.Get` is one step.
  Every node's ring is set from the same list, so the owner loads locally.
* `GetLocally`: the getter, then `populateCache`, the store of `c.val` and
  `wg.Done`.
* `Forget`: the second critical section, `delete(g.m, key)`.

A call object is named by the caller that created it. `val` and `wgDone`
are its `val`/`err` and its WaitGroup. The cache is the set of cached keys.
`Evict` and `PeerEvict` stand for the local or the peer's LRU dropping an
entry to make room for other data. The
byte budget is the subject of GeeLRU. `loads` counts getter invocations per
key.

Fairness is weak fairness on every step after a miss. The getter and the peer
fetch are assumed to return. Callers are not obliged to call `Get`, and
eviction is not obliged to happen.

* **group** (3 callers; key `k1` owned by the peer, `k2` local and unknown to
  the getter; eviction on). Checks three properties, and all hold:
  * `OneLoadInFlight`: at most one load function per key at any instant.
  * `WaitersShareResult`: a joined caller returns the leader's value or error.
  * `GetsReturn`: every miss returns.
* **group_double_load**: a violation, with no peers, no eviction and a getter
  that always succeeds. Caller 1 misses the cache, loads, fills the cache and
  leaves `m`. Caller 2 missed the cache before the cache was filled, enters
  `Do` after the call is gone, and runs the getter again. Spec 4.4 promises one
  loader call for concurrent misses. groupcache avoids this by re-checking the
  cache inside the single-flight function, and geecache dropped that re-check.

### GeeLRU (lru/lru.go)

`ll` is the doubly linked list as a sequence, front first. `index` is the
key set of the dictionary `c.cache`. An element pointer is named by its key.
`nbytes` is `c.nbytes`. An entry costs `len(key) + value.Len()`.

The cache wrapper serialises every call under its mutex, so each method is
one step. `Add` includes its whole eviction loop (`Evict`, RECURSIVE). Each
`RemoveOldest` of the loop deletes its key from the dictionary (`Dropped`).
`clock` counts uses, and bounds them with `MaxOps`. The ghost `last` is the
key of the latest Get hit or Add.

**LRUCache** is the abstract specification of what the LRU promises. It has
no list and no dictionary: `order` is the cached keys, most recently used
first; `size` is their value sizes; and `touched` is the key just used. A Get
makes its key the most recent. An Add puts the key first, then keeps the
longest run of recent keys that fits the budget. RemoveOldest drops the
last key. GeeLRU maps `ll` to `order` and `size`, and `last` to `touched`,
and checks `LRU!Spec` as a property. Without the ghost, a Get that forgot to
move its element would be an abstract stutter, and the refinement would not
notice it.

Run **lru** uses keys `a`, `b` (1 byte) and `cc` (2 bytes), value sizes 0,
1 and 5, a budget of 6 bytes, and at most 10 uses. These bounds are enough
for three small entries to fit together. A 5-byte value evicts the others,
an update can grow or shrink an entry, and `cc` with 5 bytes exceeds the
budget alone, so `Add` evicts it at once. Checked:

* `IndexMatchesList`: the dictionary and the list stay in sync.
* `NBytesAccurate`: the reference total of the entries' costs, as a fold.
* `WithinBudget`: spec §3.
* `RefinesLRUCache`: every step of the list implementation is a step of
  LRUCache, or leaves it unchanged.

All hold (about 660 distinct states).

### ConsistentHash (consistenthash/consistenthash.go, http.go Set)

The hash function is a variable fixed by `Init` to any function from the
virtual node names `(peer, i)` into `HashSpace`. Every ordering of the
virtual keys, wrap-around and collisions is therefore an initial state.

The other variables are `keys`, `hashmap` and `members` (the argument list of
the last `HTTPPool.Set`). The only action is `Set(ps)`: a new ring, then
`Add(ps...)`. `Add` is a fold over the virtual nodes in loop order,
followed by `SortSeq`. `Lookup` is `Map.Get`, with `sort.Search` written as
the bisection of the Go standard library (`Search`, RECURSIVE), and then the
modulo.

Run **ring** uses three model-value peers under symmetry, 2 replicas and
hash space 0..4 (six virtual nodes in five slots). It has about 42,000
states. Two properties hold:

* `GetIsFirstClockwise`: `Lookup` agrees, for every key hash, with the
  reference "least virtual key ≥ hash, else the least".
* `AddingPeerMovesKeysOnlyToIt`: the consistent-hashing property.

Where two virtual nodes hash alike the code and the spec disagree. Spec §3
says "each real peer contributes exactly replicas virtual nodes". `Add`
overwrites `hashmap` on a collision and keeps a duplicate key in `keys`, so
the later peer takes the slot and the earlier one owns fewer than
`Replicas` virtual nodes. The model has this behaviour (the hash function
ranges over all functions into a small space, collisions included) and
`GetIsFirstClockwise` holds with it. With CRC32 the case needs a 32-bit
collision; it is listed as a hazard (consistenthash.go:44) and has no run of
its own.

### GeeORM (src/geeorm: geeorm.go, session/*.go)

One caller drives the engine. `Init` picks its program: plain calls on a
session (`pc` "plain"; each statement autocommits), one
`Engine.Transaction(f)` (`pc` "txn"), or one `Engine.Migrate(value)`
(`pc` "migrate", `mig` the model). `dialects` is what the program
registered before `NewEngine`: this repository has no dialect
implementation, so it is empty unless the program registers its own.
`NewEngine` fails on `sql.Open` or `Ping`, or, with no dialect for the
driver, returns nil and a nil error. A caller that checks `err` then
dereferences the nil engine (`NilEngineUsed`).

State: `db` is the committed database. Each model has a table or
`NoTable`. A table has `rows`, which map primary keys to a value or
`Absent`, and `cols`, its set of columns. A table the program finds was
created by `CreateTable` in this build or in an older one: its columns are
`Parse` of `Structs[m]` or of `OldStructs[m]`. `Parse` is `schema.Parse`:
every field becomes a column except embedded and unexported ones. `view` is what the open transaction sees. `tx`
is `s.tx`. `refTable` is the model of the session's last `Model` call.
`where` and `limit` are the session's clauses. SQL text is left out: a WHERE
clause is the set of keys it matches. Every statement goes through `s.DB()`
(`Tables`, `SetTables`) and ends with `s.Clear()`.

Each session call is one action, its hooks included. `CallMethod` is
looked up on the value's type, or on `refTable` when the value is nil. It
reads `s.RefTable().Model` first, whatever the value is. So with no model
set, every hook call dereferences nil and panics, including `Insert`'s
`BeforeInsert` on the value it was given. A hook that returns an error
panics. `CreateTable`, `DropTable`, `HasTable`, `Count`, `Update` and
`Delete` panic on a session with no model. `Insert` fails when the table is
missing, lacks one of the struct's columns, or the key is taken. `Find`
returns an error on a table lacking a column. `Find` runs its `BeforeQuery` hook on the
*previous* model before `Model(dest)`.

`Transaction`: a failed `Begin` returns before the deferred function is
registered. `f` makes up to `MaxOps` calls, then returns nil or an error, or
panics. The deferred function rolls back and re-panics on a panic, rolls back
on an error, and otherwise returns `s.Commit()`'s error. A failed COMMIT
rolls the transaction back.

`Migrate` is `Transaction` with a function made of four steps.
`MigHasTable` handles a missing table: `CreateTable` runs and `f` returns
its error. A failed `HasTable` query also reads as "no table", and
`CreateTable` then fails. `MigTableFound` goes on when the table exists.
`MigAddColumns` runs `SELECT * LIMIT 1`. Its error is dropped, so a failure
leaves `rows` nil and `rows.Columns()` panics. Otherwise it computes
`addCols` and `delCols` with `difference`. It runs `ADD COLUMN` for each
added column and returns the first error. If nothing is to be deleted, `f`
returns nil. `MigRebuild` runs the `CREATE TABLE AS SELECT` / `DROP` /
`RENAME` Exec. Statements on an existing table may fail in the driver.

Run **orm**: models `User` (every hook, each of which may fail) and
`Account` (no hooks); two keys, two values, four calls. `User` gained
`Age` and lost `Email` since its table was created, so Migrate both adds a
column and rebuilds. `Account` lost `Balance`, so Migrate only rebuilds, and
it has an embedded and an unexported field that `Parse` skips. Any
database whose tables come from either build is an initial state. Deadlock checking is off, because the caller's program
ends. The run checks:

* `TransactionAtomic`: no statement of `f` reaches `db` while `f` runs.
  `Transaction` returns nil only with all of `f`'s writes in `db`. After an
  error or a panic, `db` is as it was at `Begin`.
* `MigrateSyncsTable`: when `Migrate` returns nil, the table has exactly the
  struct's columns and every row it had before. A mutant that tests
  `len(addCols)` where `len(delCols)` is meant never drops `Balance`.
* `TxEndsWithTransaction`: no `sql.Tx` is left open once `Transaction` has
  returned or panicked.

Observed in the model, and not given a run:

* `Insert` on a fresh session panics in `CallMethod`, before the model
  is set from the value.
* `Find`'s stale hook. `s.Model(&User{})`, then `s.Find(&accounts)` runs
  `User.BeforeQuery`. On a fresh session, `Find` panics. The comment in
  hooks.go says the hook runs on the object the session is operating on.
* After hooks on a plain session. An `AfterInsert` error panics after the
  row is stored.

### GeeRegistry (registry/registry.go)

Time is a discrete clock, `now`. Two timing assumptions hold within one time
unit:

* A heartbeat POST is handled within the unit it is sent in, so network
  latency is below one unit.
* A due tick is taken before the clock moves on.

The model's variables are:

* `reg` and `start`: the registry map.
* `hb`: the server's heartbeat, in one of these states: idle, then the first
  POST inside `Heartbeat`, then the goroutine waiting on the ticker or
  sending, then stopped after a failed POST.
* `period` and `nextTick`: the ticker. A slow POST makes it drop ticks, so
  the next tick is the first multiple of the period after now.

`AliveServers` is a GET: the sweep, with its strict `After`. `getParity`
flips on every GET, so that action properties can talk about GET steps.

Run **registry** uses two servers, TTL = defaultTimeout = 3 units, and
durations 0 (the default, as in `main.go`) or 1. POSTs may fail, and there
are 7 units of time. `HeartbeatingServerListed` holds: every GET lists each
server whose heartbeat goroutine is still running.

At the TTL boundary the code and the spec disagree. A server that stops
after a POST at t = 0 is not listed by a GET at t = 3 = TTL: the code's
`start + timeout > now` is strict. Spec §3/§6 say `t' − t ≤ ttl` lists it;
spec §4.9 describes the strict test. The model keeps the strict test. The
disagreement is listed as a hazard (registry.go:61) and has no run of its
own.

`TTLRegistry.tla` is the abstract registry: a function `last` from each
server that POSTed to the time of its last POST, and a GET that returns
exactly the servers with `now < last[s] + ttl` (all of them when the timeout
is 0). Its boundary is the strict one of spec §4.9. The abstract state is
not read off the map: `HandlePost` (ServeHTTP's POST case) records in the
ghost `lastPost` when each POST was handled, and GeeRegistry instantiates
the abstract module with `last <- [s \in posted |-> lastPost[s]]`. The run
checks `RegistryRefinesTTLMap == TTL_!Spec` as a property. So the map, its
`start` times and the sweep's deletions must together answer every GET as
the POST history says. This fails if `putServer` does not refresh `start`
on an existing entry (`PutServerNoRefresh`: a server is swept while its
last POST is recent), if the sweep keeps an entry one instant too long
(`AliveServersInclusive`, the recorded mutant), or if a POST after a
deletion did not re-create the entry.

The heartbeat goroutine stops at its first failed POST, whereas the comment
above its loop promises retries. That is listed as a hazard, not a run: spec
§4.9 agrees with the code.

### GeeXClient (xclient/xclient.go, discovery.go, discovery_gee.go)

One goroutine runs `XClient.Broadcast`; another makes `XClient.Call` with
`RoundRobinSelect`. Both share one `GeeRegistryDiscovery` and the client
cache `xc.clients`. The state is:

* `servers`, `index`, `fresh`: the discovery's list, round-robin index, and
  whether `lastUpdate + timeout` is still in the future. `Expire` lets time
  pass. A refresh of a stale list either fetches a new sorted list of live
  servers (`RegistryLists`) or fails, and the failure is returned to the
  caller.
* `clients`: the cache, per address "none", "up" or "broken". `dial` holds
  `xc.mu` for its whole body, `XDial` included, so it is one step: reuse an
  "up" client, or close and delete a broken one and dial again, which may
  fail. `Break` is a connection dying under a cached client.
* `bpc`, `targets`, `w`: Broadcast's control, the list `GetAll` returned, and
  each worker's place (dial, call, done). `held` is the set of workers whose
  client broke while they were in `client.Call`.
* `e`, `replyDone`, `cancelled`: Broadcast's shared variables under its `mu`,
  and whether its context is done. `Record` is a worker's section under
  `mu`: the first error is kept and cancels the context, and the first
  success copies its reply. `failed` is a ghost that records the failures.
* `rpc`, `rrAddr`, `calls`, `picks`: the round-robin caller. `picks` holds
  its picks since the list last changed.
* `slow`: the servers that never answer in this run, chosen by Init from
  `MayHang`.

`client.Call` is abstracted to its outcome. A broken client fails. A server
not in `slow` answers with success or an error. A done context wins the
select. GeeClient models the call itself in detail.

Run **xclient** uses two servers; server 2 may be the slow one. Broadcast's
context has a deadline, as in `main.go`'s `broadcast`. The caller makes up
to 3 calls, and the initial index covers every residue modulo 1 and 2. The
run checks three things:

* `BroadcastResult`: Broadcast returns nil only after every listed server's
  call has ended in success, and then a reply was copied. Any failure makes
  it return an error.
* `BroadcastReturns`: Broadcast returns even when a server hangs, through
  the deadline or a failed sibling's cancel.
* `RoundRobinCoversAll`: while the list is unchanged, any n consecutive
  picks name all n servers.

`XClose` is `XClient.Close` under `xc.mu`. Every cached client, broken or
not, is closed and deleted. The caller runs it once Broadcast has returned
and it is idle, as `main.go` defers it.

Fairness is weak fairness on every goroutine step and on the deadline, which
a real clock fires. None is assumed on `Break`, `Expire` or the caller's
calls. Deadlock checking is off: the program ends once Broadcast has
returned and the caller has made its calls.

## 4. Not modelled, and why

* Gob and JSON encoding, reflection beyond what registration reads of a
  method (arity, results, exported / built-in / pointer), `newArgv`'s
  allocation and the `numCalls` counter, `newService`'s `log.Fatalf` on an
  unexported receiver name (set-up before `Accept`), URL and
  protobuf handling, the debug HTML page: data conversion with no
  concurrency. Their outcomes (decodes / fails, resolves / not) are
  nondeterministic choices in the models.
* Accept loops and listeners: socket glue. Each accepted connection runs
  its own `ServeConn`, and connections share nothing but the service map.
* geeorm: SQL text generation (clause generators, `Build`), field types and
  tags in `schema.Parse`, the dialect's type mapping, `OrderBy`, `First` (it
  is `Limit(1)` and `Find`), `Engine.Close` and the logger. These build
  strings, so they are left out or abstracted to their effect on rows.
  SQLite's `CREATE TABLE ... AS SELECT` drops the `PRIMARY KEY` constraint
  when `Migrate` rebuilds a table. After a rebuild, a duplicate key can be
  inserted. The model does not show this, because a table holds one row per
  key and the constraint lives in SQLite, not in this code.
* `MultiServersDiscovery.Update` / `GeeRegistryDiscovery.Update` and
  `RandomSelect`. Update is never called in the repository, and its effect
  is that of a successful refresh with a list in any order. RandomSelect
  keeps no state of its own.
* Two cache nodes whose rings disagree. A request could then be forwarded
  back to a node whose single-flight call for the key is waiting on it.
  This is listed as a hazard: GeeGroup has one requesting node.
* Time is not modelled in GeeClient/GeeServer. Timers and context deadlines
  are steps that may fire at any moment, which covers every timing.
* The client–server composition (plan item 3). GeeClient models the server
  as an abstract peer that answers, fails or desynchronises, and GeeServer
  models the client as an abstract writer of requests. Each side's
  behaviour is checked against every answer the other can give. A product
  of the two modules would multiply two state spaces that already take most
  of TLC's time budget, so it was not built.
