----------------------------- MODULE GeeClient -----------------------------
(***************************************************************************)
(* The multiplexing RPC client of geerpc (src/geerpc/client.go): several   *)
(* caller goroutines issue Client.Call over one connection, a single       *)
(* receive goroutine correlates responses by sequence number, and          *)
(* terminateCalls fails every pending call when the connection ends.       *)
(* The client is created by dialTimeout (Dial, DialHTTP or XDial): a       *)
(* goroutine runs the handshake (NewClient, or NewHTTPClient's CONNECT      *)
(* exchange first) and hands its result over an unbuffered channel, while   *)
(* dialTimeout selects between that channel and the connect timer.         *)
(*                                                                         *)
(* Every critical section under client.mu is one atomic step.  The         *)
(* sending mutex is a variable, because send holds it across registerCall, *)
(* the write and the clean-up of a failed write, and terminateCalls must   *)
(* acquire it.  The server is abstract: it reads request frames in order   *)
(* and answers each with a success or error frame, in any order.           *)
(***************************************************************************)
EXTENDS Naturals, Sequences, FiniteSets, TLC

CONSTANTS
    Calls,      \* caller goroutines, one Client.Call each
    CtxCalls,   \* the callers whose context can be cancelled (deadline)
    NoHolder,   \* model value: the sending mutex is free
    ConnectTimeout  \* opt.ConnectTimeout is not 0: dialTimeout arms a timer

ASSUME CtxCalls \subseteq Calls /\ NoHolder \notin Calls
       /\ ConnectTimeout \in BOOLEAN

VARIABLES
    seq,        \* client.seq: the next sequence number
    pending,    \* client.pending: seq -> call
    closing,    \* client.closing: the user called Close
    shutdown,   \* client.shutdown: terminateCalls ran
    sending,    \* holder of client.sending
    conn,       \* "up", "closed" (cc.Close) or "broken" (peer/network)
    pc,         \* per caller: where its goroutine is
    callSeq,    \* call.Seq, 0 until registerCall assigns it
    done,       \* call.Done: the sequence of signals sent by call.done()
    result,     \* what Client.Call returned
    recv,       \* receive goroutine: "loop", "terminate", "exit"
    toServer,   \* request frames written, not yet read by the server
    inflight,   \* requests the server has read and not answered
    fromServer, \* response frames written by the server
    reply,      \* per caller: whose arguments the reply it received answers
    dialing,    \* dialTimeout: "connect", "wait" (in the select), "ok", "err"
    hs,         \* handshake goroutine: "none", "tcp" (in NewClient), "http"
                \* (in NewHTTPClient), "send" (on ch <- result), "exit"
    hsRes       \* the result it sends: "none", "ok", "err"

vars == <<seq, pending, closing, shutdown, sending, conn, pc, callSeq, done,
          result, recv, toServer, inflight, fromServer, reply, dialing, hs,
          hsRes>>

dialVars == <<dialing, hs, hsRes>>

Outcomes == {"ok", "srvErr"}          \* server reply: Header.Error empty or not
Results  == {"none", "ok", "srvErr", "bodyErr", "shutdown", "writeErr", "ctx"}

-----------------------------------------------------------------------------
\* call.done(): Done is a channel with buffer 10, so the send never blocks.
Signal(c, r) == done' = [done EXCEPT ![c] = Append(@, r)]

Init ==
    /\ seq = 1
    /\ pending = <<>>
    /\ closing = FALSE
    /\ shutdown = FALSE
    /\ sending = NoHolder
    /\ conn = "none"
    /\ pc = [c \in Calls |-> "idle"]
    /\ callSeq = [c \in Calls |-> 0]
    /\ done = [c \in Calls |-> <<>>]
    /\ result = [c \in Calls |-> "none"]
    /\ recv = "none"
    /\ toServer = <<>>
    /\ inflight = {}
    /\ fromServer = <<>>
    /\ reply = [c \in Calls |-> NoHolder]
    /\ dialing = "connect"
    /\ hs = "none"
    /\ hsRes = "none"

\* XDial splits "protocol@addr": "http" dials with DialHTTP, whose handshake
\* is NewHTTPClient; any other protocol with Dial, whose handshake is
\* NewClient.
Handshakes == {"tcp", "http"}

\* dialTimeout up to the select.  parseOptions (more than one Option),
\* XDial's "protocol@addr" split or net.DialTimeout may fail: the error is
\* returned before a connection exists.  Otherwise the handshake goroutine
\* starts: NewClient for Dial, NewHTTPClient for DialHTTP ("http@" in XDial).
Connect ==
    /\ dialing = "connect"
    /\ \/ /\ dialing' = "err"
          /\ UNCHANGED <<conn, hs>>
       \/ /\ conn' = "up"
          /\ hs' \in Handshakes
          /\ dialing' = "wait"
    /\ UNCHANGED <<hsRes, recv>>
    /\ UNCHANGED <<seq, pending, closing, shutdown, sending, pc, callSeq, done, result,
                   toServer, inflight, fromServer, reply>>

\* NewClient: an unknown codec type, or a JSON encode of the Option that
\* fails, closes the connection and returns the error; otherwise the Client
\* is built with seq 1 and its receive goroutine is started.
NewClient ==
    \/ /\ conn = "up"
       /\ hsRes' = "ok"
       /\ recv' = "loop"
       /\ UNCHANGED conn
    \/ /\ conn' = "closed"
       /\ hsRes' = "err"
       /\ UNCHANGED recv

\* The goroutine of Dial runs NewClient, then blocks on ch <- result.
HandshakeTCP ==
    /\ hs = "tcp"
    /\ NewClient
    /\ hs' = "send"
    /\ UNCHANGED dialing
    /\ UNCHANGED <<seq, pending, closing, shutdown, sending, pc, callSeq, done, result,
                   toServer, inflight, fromServer, reply>>

\* NewHTTPClient writes CONNECT (ignoring the error) and reads the response:
\* the status "200 Connected to Gee RPC" switches to NewClient ...
HTTPConnected ==
    /\ hs = "http"
    /\ conn = "up"
    /\ NewClient
    /\ hs' = "send"
    /\ UNCHANGED dialing
    /\ UNCHANGED <<seq, pending, closing, shutdown, sending, pc, callSeq, done, result,
                   toServer, inflight, fromServer, reply>>

\* ... another status is an "unexpected HTTP response" error, and
\* ReadResponse fails once the connection is closed or broken; the
\* connection is left open.  A server that never answers leaves the
\* goroutine blocked in ReadResponse.
HTTPRejected ==
    /\ hs = "http"
    /\ hsRes' = "err"
    /\ hs' = "send"
    /\ UNCHANGED <<dialing, conn, recv>>
    /\ UNCHANGED <<seq, pending, closing, shutdown, sending, pc, callSeq, done, result,
                   toServer, inflight, fromServer, reply>>

\* The select (or, with ConnectTimeout 0, the plain receive) takes the
\* goroutine's result; dialTimeout's deferred func closes the connection
\* when the result is an error.
Deliver ==
    /\ hs = "send"
    /\ dialing = "wait"
    /\ dialing' = hsRes
    /\ conn' = IF hsRes = "err" THEN "closed" ELSE conn
    /\ hs' = "exit"
    /\ hsRes' = "none"
    /\ UNCHANGED recv
    /\ UNCHANGED <<seq, pending, closing, shutdown, sending, pc, callSeq, done, result,
                   toServer, inflight, fromServer, reply>>

\* Mutant: the deferred close of the connection is missing.
TimeoutFiresNoClose ==
    /\ ConnectTimeout
    /\ dialing = "wait"
    /\ dialing' = "err"
    /\ UNCHANGED <<conn, hs, hsRes, recv>>
    /\ UNCHANGED <<seq, pending, closing, shutdown, sending, pc, callSeq, done, result,
                   toServer, inflight, fromServer, reply>>

\* time.After(opt.ConnectTimeout) wins the select: the connect timeout
\* error is returned and the deferred func closes the connection.  Nobody
\* receives from ch any more, so the handshake goroutine blocks for ever
\* once it has a result; a Client it built is never returned.
TimeoutFires ==
    /\ ConnectTimeout
    /\ dialing = "wait"
    /\ dialing' = "err"
    /\ conn' = "closed"
    /\ UNCHANGED <<hs, hsRes, recv>>
    /\ UNCHANGED <<seq, pending, closing, shutdown, sending, pc, callSeq, done, result,
                   toServer, inflight, fromServer, reply>>

-----------------------------------------------------------------------------
\* Remove seq from the pending map (removeCall), a no-op if absent.
Without(p, s) == [k \in DOMAIN p \ {s} |-> p[k]]

\* Mutant: registerCall increments client.seq before assigning call.Seq.
SendSeqAfterIncrement(c) ==
    /\ dialing = "ok"
    /\ pc[c] = "idle"
    /\ sending = NoHolder
    /\ IF closing \/ shutdown
       THEN /\ Signal(c, "shutdown")
            /\ pc' = [pc EXCEPT ![c] = "wait"]
            /\ UNCHANGED <<seq, pending, sending, callSeq>>
       ELSE /\ callSeq' = [callSeq EXCEPT ![c] = seq + 1]
            /\ pending' = ((seq + 1) :> c) @@ pending
            /\ seq' = seq + 1
            /\ sending' = c
            /\ pc' = [pc EXCEPT ![c] = "write"]
            /\ UNCHANGED done
    /\ UNCHANGED <<closing, shutdown, conn, result, recv, toServer, inflight,
                   fromServer, reply>>
    /\ UNCHANGED dialVars

\* Mutant: registerCall checks only closing, not shutdown.
SendIgnoringShutdown(c) ==
    /\ dialing = "ok"
    /\ pc[c] = "idle"
    /\ sending = NoHolder
    /\ IF closing
       THEN /\ Signal(c, "shutdown")
            /\ pc' = [pc EXCEPT ![c] = "wait"]
            /\ UNCHANGED <<seq, pending, sending, callSeq>>
       ELSE /\ callSeq' = [callSeq EXCEPT ![c] = seq]
            /\ pending' = (seq :> c) @@ pending
            /\ seq' = seq + 1
            /\ sending' = c
            /\ pc' = [pc EXCEPT ![c] = "write"]
            /\ UNCHANGED done
    /\ UNCHANGED <<closing, shutdown, conn, result, recv, toServer, inflight,
                   fromServer, reply>>
    /\ UNCHANGED dialVars

\* send: take the sending mutex, then registerCall under client.mu.  When the
\* client is closing or shut down, the call fails with ErrShutdown and send
\* returns at once.
Send(c) ==
    /\ dialing = "ok"
    /\ pc[c] = "idle"
    /\ sending = NoHolder
    /\ IF closing \/ shutdown
       THEN /\ Signal(c, "shutdown")
            /\ pc' = [pc EXCEPT ![c] = "wait"]
            /\ UNCHANGED <<seq, pending, sending, callSeq>>
       ELSE /\ callSeq' = [callSeq EXCEPT ![c] = seq]
            /\ pending' = (seq :> c) @@ pending
            /\ seq' = seq + 1
            /\ sending' = c
            /\ pc' = [pc EXCEPT ![c] = "write"]
            /\ UNCHANGED done
    /\ UNCHANGED <<closing, shutdown, conn, result, recv, toServer, inflight,
                   fromServer, reply>>
    /\ UNCHANGED dialVars

\* Mutant: the header carries client.seq (already incremented) instead of
\* the sequence number registerCall returned.
WriteOkStaleHeaderSeq(c) ==
    /\ pc[c] = "write"
    /\ conn = "up"
    /\ toServer' = Append(toServer, [seq |-> seq, args |-> c])
    /\ sending' = NoHolder
    /\ pc' = [pc EXCEPT ![c] = "wait"]
    /\ UNCHANGED <<seq, pending, closing, shutdown, conn, callSeq, done, result,
                   recv, inflight, fromServer, reply>>
    /\ UNCHANGED dialVars

\* cc.Write(header, args) succeeds on an open connection; send releases the
\* sending mutex on return.
WriteOk(c) ==
    /\ pc[c] = "write"
    /\ conn = "up"
    /\ toServer' = Append(toServer, [seq |-> callSeq[c], args |-> c])
    /\ sending' = NoHolder
    /\ pc' = [pc EXCEPT ![c] = "wait"]
    /\ UNCHANGED <<seq, pending, closing, shutdown, conn, callSeq, done, result,
                   recv, inflight, fromServer, reply>>
    /\ UNCHANGED dialVars

\* The write fails on a closed or broken connection; GobCodec.Write closes
\* the connection on error.
WriteFail(c) ==
    /\ pc[c] = "write"
    /\ conn # "up"
    /\ conn' = "closed"
    /\ pc' = [pc EXCEPT ![c] = "writefail"]
    /\ UNCHANGED <<seq, pending, closing, shutdown, sending, callSeq, done,
                   result, recv, toServer, inflight, fromServer, reply>>
    /\ UNCHANGED dialVars

\* Mutant: the failed write removes the call but never calls call.done().
WriteFailCleanupNoSignal(c) ==
    /\ pc[c] = "writefail"
    /\ pending' = Without(pending, callSeq[c])
    /\ sending' = NoHolder
    /\ pc' = [pc EXCEPT ![c] = "wait"]
    /\ UNCHANGED <<seq, closing, shutdown, conn, callSeq, done, result, recv,
                   toServer, inflight, fromServer, reply>>
    /\ UNCHANGED dialVars

\* After a failed write: removeCall(seq) and, if the call was still there,
\* signal it with the write error; then release the sending mutex.
WriteFailCleanup(c) ==
    /\ pc[c] = "writefail"
    /\ pending' = Without(pending, callSeq[c])
    /\ IF callSeq[c] \in DOMAIN pending
       THEN Signal(pending[callSeq[c]], "writeErr")
       ELSE UNCHANGED done
    /\ sending' = NoHolder
    /\ pc' = [pc EXCEPT ![c] = "wait"]
    /\ UNCHANGED <<seq, closing, shutdown, conn, callSeq, result, recv,
                   toServer, inflight, fromServer, reply>>
    /\ UNCHANGED dialVars

\* Client.Call: the select takes the first signal from call.Done ...
Return(c) ==
    /\ pc[c] = "wait"
    /\ done[c] # <<>>
    /\ result' = [result EXCEPT ![c] = Head(done[c])]
    /\ pc' = [pc EXCEPT ![c] = "done"]
    /\ UNCHANGED <<seq, pending, closing, shutdown, sending, conn, callSeq,
                   done, recv, toServer, inflight, fromServer, reply>>
    /\ UNCHANGED dialVars

\* ... or ctx.Done(): removeCall(call.Seq) and return the context error.
CtxCancel(c) ==
    /\ pc[c] = "wait"
    /\ c \in CtxCalls
    /\ pending' = Without(pending, callSeq[c])
    /\ result' = [result EXCEPT ![c] = "ctx"]
    /\ pc' = [pc EXCEPT ![c] = "done"]
    /\ UNCHANGED <<seq, closing, shutdown, sending, conn, callSeq, done, recv,
                   toServer, inflight, fromServer, reply>>
    /\ UNCHANGED dialVars

\* One turn of the receive loop: read a header, removeCall(h.Seq), then a
\* stale response is discarded, an error header fails the call, and a
\* success body is decoded into the reply (decoding may fail, which fails
\* the call and ends the loop).
Receive ==
    /\ recv = "loop"
    /\ fromServer # <<>>
    /\ LET s   == Head(fromServer).seq
           out == Head(fromServer).out
       IN /\ pending' = Without(pending, s)
          /\ fromServer' = Tail(fromServer)
          /\ \/ /\ s \notin DOMAIN pending
                /\ UNCHANGED <<done, recv, reply>>
             \/ /\ s \in DOMAIN pending
                /\ out = "srvErr"
                /\ Signal(pending[s], "srvErr")
                /\ reply' = [reply EXCEPT ![pending[s]] = Head(fromServer).args]
                /\ UNCHANGED recv
             \/ /\ s \in DOMAIN pending
                /\ out = "ok"
                /\ \E bodyOk \in BOOLEAN :
                      /\ Signal(pending[s], IF bodyOk THEN "ok" ELSE "bodyErr")
                      /\ recv' = IF bodyOk THEN "loop" ELSE "terminate"
                /\ reply' = [reply EXCEPT ![pending[s]] = Head(fromServer).args]
    /\ UNCHANGED <<seq, closing, shutdown, sending, conn, pc, callSeq, result,
                   toServer, inflight>>
    /\ UNCHANGED dialVars

\* ReadHeader fails: at once on a connection closed locally, and after the
\* last buffered frame on a broken one.
ReceiveFail ==
    /\ recv = "loop"
    /\ \/ conn = "closed"
       \/ conn = "broken" /\ fromServer = <<>>
    /\ recv' = "terminate"
    /\ UNCHANGED <<seq, pending, closing, shutdown, sending, conn, pc, callSeq,
                   done, result, toServer, inflight, fromServer, reply>>
    /\ UNCHANGED dialVars

\* Mutant: terminateCalls takes client.mu but not the sending mutex.
TerminateCallsWithoutSending ==
    /\ recv = "terminate"
    /\ shutdown' = TRUE
    /\ done' = [c \in Calls |->
                  IF \E s \in DOMAIN pending : pending[s] = c
                  THEN Append(done[c], "shutdown") ELSE done[c]]
    /\ recv' = "exit"
    /\ UNCHANGED <<seq, pending, closing, sending, conn, pc, callSeq, result,
                   toServer, inflight, fromServer, reply>>
    /\ UNCHANGED dialVars

\* terminateCalls: under both mutexes, mark the client shut down and signal
\* every pending call; the calls stay in the map.
TerminateCalls ==
    /\ recv = "terminate"
    /\ sending = NoHolder
    /\ shutdown' = TRUE
    /\ done' = [c \in Calls |->
                  IF \E s \in DOMAIN pending : pending[s] = c
                  THEN Append(done[c], "shutdown") ELSE done[c]]
    /\ recv' = "exit"
    /\ UNCHANGED <<seq, pending, closing, sending, conn, pc, callSeq, result,
                   toServer, inflight, fromServer, reply>>
    /\ UNCHANGED dialVars

\* Client.Close: under client.mu, set closing once and close the codec.
Close ==
    /\ dialing = "ok"
    /\ ~closing
    /\ closing' = TRUE
    /\ conn' = "closed"
    /\ UNCHANGED <<seq, pending, shutdown, sending, pc, callSeq, done, result,
                   recv, toServer, inflight, fromServer, reply>>
    /\ UNCHANGED dialVars

-----------------------------------------------------------------------------
(* The abstract server and network.                                        *)

ServerRead ==
    /\ conn = "up"
    /\ toServer # <<>>
    /\ inflight' = inflight \cup {Head(toServer)}
    /\ toServer' = Tail(toServer)
    /\ UNCHANGED <<seq, pending, closing, shutdown, sending, conn, pc, callSeq,
                   done, result, recv, fromServer, reply>>
    /\ UNCHANGED dialVars

ServerReply(r) ==
    /\ conn = "up"
    /\ r \in inflight
    /\ \E out \in Outcomes :
          fromServer' = Append(fromServer, [seq |-> r.seq, out |-> out, args |-> r.args])
    /\ inflight' = inflight \ {r}
    /\ UNCHANGED <<seq, pending, closing, shutdown, sending, conn, pc, callSeq,
                   done, result, recv, toServer, reply>>
    /\ UNCHANGED dialVars

\* The server goes away or the network fails: unread requests are lost,
\* frames already delivered to the client's socket stay readable.
Break ==
    /\ conn = "up"
    /\ conn' = "broken"
    /\ toServer' = <<>>
    /\ inflight' = {}
    /\ UNCHANGED <<seq, pending, closing, shutdown, sending, pc, callSeq, done,
                   result, recv, fromServer, reply>>
    /\ UNCHANGED dialVars

-----------------------------------------------------------------------------
Next ==
    \/ \E c \in Calls :
          \/ Send(c) \/ WriteOk(c) \/ WriteFail(c) \/ WriteFailCleanup(c)
          \/ Return(c) \/ CtxCancel(c)
    \/ Receive \/ ReceiveFail \/ TerminateCalls \/ Close
    \/ ServerRead \/ \E r \in inflight : ServerReply(r)
    \/ Break
    \/ Connect \/ HandshakeTCP \/ HTTPConnected \/ HTTPRejected \/ Deliver
    \/ TimeoutFires

\* Goroutines are scheduled fairly and the server answers what it reads;
\* cancellation, Close and network failure may or may not happen.  The
\* dial's goroutines run and a failed read returns, and an armed timer
\* fires; the HTTP server's answer to CONNECT may never come.
Fairness ==
    /\ \A c \in Calls :
          /\ WF_vars(Send(c)) /\ WF_vars(WriteOk(c)) /\ WF_vars(WriteFail(c))
          /\ WF_vars(WriteFailCleanup(c)) /\ WF_vars(Return(c))
    /\ WF_vars(Receive) /\ WF_vars(ReceiveFail) /\ WF_vars(TerminateCalls)
    /\ WF_vars(ServerRead)
    /\ WF_vars(\E r \in inflight : ServerReply(r))
    /\ WF_vars(Connect) /\ WF_vars(HandshakeTCP) /\ WF_vars(Deliver)
    /\ WF_vars(conn # "up" /\ HTTPRejected) /\ WF_vars(TimeoutFires)

Spec == Init /\ [][Next]_vars /\ Fairness

-----------------------------------------------------------------------------
TypeOK ==
    /\ seq \in 1..Cardinality(Calls) + 1
    /\ DOMAIN pending \subseteq 1..Cardinality(Calls)
    /\ \A s \in DOMAIN pending : pending[s] \in Calls
    /\ closing \in BOOLEAN /\ shutdown \in BOOLEAN
    /\ sending \in Calls \cup {NoHolder}
    /\ conn \in {"none", "up", "closed", "broken"}
    /\ pc \in [Calls -> {"idle", "write", "writefail", "wait", "done"}]
    /\ callSeq \in [Calls -> 0..Cardinality(Calls)]
    /\ \A c \in Calls : \A i \in 1..Len(done[c]) : done[c][i] \in Results
    /\ result \in [Calls -> Results]
    /\ recv \in {"none", "loop", "terminate", "exit"}
    /\ reply \in [Calls -> Calls \cup {NoHolder}]
    /\ dialing \in {"connect", "wait", "ok", "err"}
    /\ hs \in {"none", "tcp", "http", "send", "exit"}
    /\ hsRes \in {"none", "ok", "err"}

\* Each Call is signalled at most once: the receive loop, a failed write and
\* terminateCalls never all reach the same call (terminateCalls leaves calls
\* in the map and relies on the sending mutex to exclude a failing writer).
DoneAtMostOnce == \A c \in Calls : Len(done[c]) <= 1

\* A call that returns a server reply returns the reply to its own request:
\* correlation by Header.Seq never hands one caller the response computed
\* from another caller's arguments, whatever the order of responses.
CallReturnsOwnReply ==
    \A c \in Calls : result[c] \in Outcomes => reply[c] = c

\* Once the receive loop has exited, no call is left in the pending map
\* without having been signalled: no caller can wait forever on a dead
\* client (registerCall refuses new calls after shutdown).
NoOrphanAfterShutdown ==
    recv = "exit" =>
        \A s \in DOMAIN pending : done[pending[s]] # <<>>

\* Every call made on the dialled client returns.
CallsTerminate ==
    \A c \in Calls : (dialing = "ok" /\ pc[c] = "idle") ~> pc[c] = "done"

\* A dial that fails leaves nothing running on its connection: the socket
\* is closed (spec 5: connectTimeout aborts dial; socket is closed), so
\* the receive loop of a Client that the handshake built after the timeout
\* ends, although the goroutine that built it stays blocked on ch.
FailedDialReleasesClient ==
    dialing = "err" ~> (conn # "up" /\ recv # "loop")
=============================================================================
