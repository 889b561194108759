----------------------------- MODULE GeeServer -----------------------------
(***************************************************************************)
(* One connection of the geerpc server (src/geerpc/server.go): ServeConn   *)
(* checks the Option, serveCodec reads (header, body) frames in a loop and *)
(* starts a handleRequest goroutine per request; handleRequest starts the  *)
(* method in a goroutine G and waits on the unbuffered channels called and *)
(* sent, or on a timer when Option.HandleTimeout is set.  Responses are    *)
(* written under the per-connection sending mutex, so each sendResponse is *)
(* one atomic step.  The client is the environment: it writes header+body  *)
(* pairs for sequence numbers 1, 2, ... and may close its side.            *)
(* A connection reaches ServeConn either from Accept or through ServeHTTP, *)
(* which answers the HTTP CONNECT before handing the hijacked conn over.   *)
(***************************************************************************)
EXTENDS Naturals, Sequences, SequencesExt, FiniteSets

CONSTANTS
    MaxReqs,        \* bound on the requests the client writes
    HandleTimeouts, \* Option.HandleTimeout > 0 (TRUE) or 0 (FALSE)
    Rcvrs,          \* the receivers passed to Server.Register, in order
    Names           \* the ServiceMethods the client names, as the
                    \* sequence of their dot-separated parts

ASSUME MaxReqs \in Nat /\ HandleTimeouts \subseteq BOOLEAN

Reqs == 1..MaxReqs

-----------------------------------------------------------------------------
(* Service registration (service.go, Server.Register), done before Accept *)
(* as main.go does.  A reflect type is seen only as far as registerMethods *)
(* and newReplyv look at it: a pointer, an exported named type, a builtin, *)
(* and whether reflect's Elem is defined on it (pointer, map, slice,      *)
(* array or chan: elem).                                                   *)
(* A method is [name, nin (receiver included), outs, arg, reply].          *)

\* isExportedOrBuiltinType: ast.IsExported(t.Name()) or t.PkgPath() == "";
\* a pointer type has neither a name nor a package path.
IsExportedOrBuiltinType(t) == t.exported \/ t.builtin \/ t.ptr

\* registerMethods: the methods with three inputs, one output of type error,
\* and exported or builtin argument and reply types, by name.
RegisterMethods(ms) ==
    LET ok == {m \in ms : /\ m.nin = 3 /\ m.outs = <<"error">>
                          /\ IsExportedOrBuiltinType(m.arg)
                          /\ IsExportedOrBuiltinType(m.reply)}
    IN  [n \in {m.name : m \in ok} |-> CHOOSE m \in ok : m.name = n]

\* Register for each receiver in turn: newService, then LoadOrStore, which
\* keeps the first service of a name ("service already defined").
ServiceMap ==
    FoldLeft(LAMBDA acc, r : IF r.name \in DOMAIN acc THEN acc
                             ELSE (r.name :> RegisterMethods(r.methods)) @@ acc,
             <<>>, Rcvrs)

\* findService: split at the last dot, then look the service up, then the
\* method.  (Type names have no dots, so a service part of several parts
\* names no service.)
FindService(sm) ==
    IF Len(sm) < 2 THEN "illFormed"
    ELSE IF Len(Front(sm)) # 1 \/ sm[1] \notin DOMAIN ServiceMap
         THEN "noService"
    ELSE IF Last(sm) \notin DOMAIN ServiceMap[sm[1]] THEN "noMethod"
    ELSE "found"

MethodOf(sm) == ServiceMap[sm[1]][Last(sm)]

\* newReplyv calls reflect.New(m.ReplyType.Elem()): Elem panics on a reply
\* type that is not a pointer, map, slice, array or chan.  For a by-value
\* map, slice, array or chan it returns a pointer to the element type, and
\* the panic comes later, in the method's own reflect Call.
ReplyvOk(sm) == MethodOf(sm).reply.elem

\* function.Call accepts replyv only when the method takes a pointer reply.
CallableReply(sm) == MethodOf(sm).reply.ptr

\* What the body and the method of a request do: it succeeds, the method
\* returns an error, or the body does not decode into the argument type.
\* Only a request that readRequest dispatches gets that far.
Dispatchable(sm) == FindService(sm) = "found" /\ ReplyvOk(sm)

Outcomes(sm) ==
    IF Dispatchable(sm)
    THEN {"ok", "fail", "badArgs"} ELSE {"ok"}

\* The Option the client sent: valid, wrong MagicNumber, unknown CodecType.
Options == {"valid", "badMagic", "badCodec"}

VARIABLES
    opt,        \* the Option decoded by ServeConn: magic number and codec
                \* check, and whether HandleTimeout is set
    in,         \* the stream the client wrote: header and body items
    eof,        \* the client closed its side
    pos,        \* index in `in` of the next item the codec decodes
    loop,       \* "http" (in ServeHTTP), then serveCodec: "option",
                \* "read", "wait" (wg.Wait), "closed"
    h,          \* per request: the handleRequest goroutine
    g,          \* per request: the goroutine G running the method
    out         \* response frames [seq, err] written on the connection

vars == <<opt, in, eof, pos, loop, h, g, out>>

Errs == {"none", "badMethod", "badArgs", "method", "timeout"}

Init ==
    /\ opt \in [check : Options, timeout : HandleTimeouts]
    /\ in = <<>>
    /\ eof = FALSE
    /\ pos = 1
    /\ loop \in {"http", "option"}    \* via HandleHTTP, or Accept
    /\ h = [r \in Reqs |-> "none"]
    /\ g = [r \in Reqs |-> "none"]
    /\ out = <<>>

\* The service and method named in the header of request r.
SvcOf(r) == in[CHOOSE i \in 1..Len(in) : in[i].t = "hdr" /\ in[i].seq = r].svc

Respond(r, e) == out' = Append(out, [seq |-> r, err |-> e])

-----------------------------------------------------------------------------
(* The client side of the connection.                                      *)

\* Client.send: GobCodec.Write flushes a header and its body together.  An
\* HTTP client has a Client, and sends, only after reading the 200 line.
ClientWrite ==
    /\ ~eof
    /\ loop # "http"
    /\ Len(in) \div 2 < MaxReqs
    /\ \E n \in Names : \E s \in Outcomes(n) :
          LET r == Len(in) \div 2 + 1
          IN  in' = in \o <<[t |-> "hdr", seq |-> r, sm |-> n, svc |-> s],
                            [t |-> "body", seq |-> r]>>
    /\ UNCHANGED <<opt, eof, pos, loop, h, g, out>>

ClientClose ==
    /\ ~eof
    /\ eof' = TRUE
    /\ UNCHANGED <<opt, in, pos, loop, h, g, out>>

-----------------------------------------------------------------------------
(* serveCodec's read loop.                                                 *)

\* ServeHTTP: a method other than CONNECT is answered 405 and a failed
\* Hijack ends the handler, in both cases before ServeConn; otherwise the
\* "HTTP/1.0 200 Connected to Gee RPC" line is written and ServeConn runs.
ServeHTTP ==
    /\ loop = "http"
    /\ \/ loop' = "closed"     \* 405 must CONNECT, or Hijack error
       \/ loop' = "option"
    /\ UNCHANGED <<opt, in, eof, pos, h, g, out>>

\* ServeConn: decode the Option; a bad MagicNumber or an unknown CodecType
\* closes the connection before any frame is read.
ReadOption ==
    /\ loop = "option"
    /\ loop' = IF opt.check = "valid" THEN "read" ELSE "closed"
    /\ UNCHANGED <<opt, in, eof, pos, h, g, out>>

\* readRequest decodes the header at pos.  An item that is not a header fails
\* to decode (req is nil) and ends the loop.
HeaderUndecodable ==
    /\ in[pos].t = "body"
    /\ loop' = "wait"
    /\ UNCHANGED <<pos, h, g, out>>

\* findService fails: readRequest returns before ReadBody, serveCodec
\* answers the error and continues; the body is left unread.
RejectService ==
    /\ in[pos].t = "hdr" /\ FindService(in[pos].sm) # "found"
    /\ Respond(in[pos].seq, "badMethod")
    /\ pos' = pos + 1
    /\ UNCHANGED <<loop, h, g>>

\* The method is found but reflect's Elem is not defined on its reply type:
\* newReplyv panics in the serveCodec goroutine, nothing recovers it, and the whole
\* server process dies with every goroutine of every connection.
NewReplyvPanics ==
    /\ in[pos].t = "hdr" /\ FindService(in[pos].sm) = "found"
    /\ ~ReplyvOk(in[pos].sm)
    /\ loop' = "crashed"
    /\ UNCHANGED <<pos, h, g, out>>

\* Mutant: the body is skipped one item too far.
RejectArgsSkipTooFar ==
    /\ in[pos].t = "hdr" /\ Dispatchable(in[pos].sm)
    /\ in[pos].svc = "badArgs"
    /\ Respond(in[pos].seq, "badArgs")
    /\ pos' = pos + 3
    /\ UNCHANGED <<loop, h, g>>

\* ReadBody consumes the body but it does not decode into argv: the error
\* is answered and the loop continues.
RejectArgs ==
    /\ in[pos].t = "hdr" /\ Dispatchable(in[pos].sm)
    /\ in[pos].svc = "badArgs"
    /\ Respond(in[pos].seq, "badArgs")
    /\ pos' = pos + 2
    /\ UNCHANGED <<loop, h, g>>

\* Header and body decoded: wg.Add(1) and `go handleRequest(...)`, which
\* starts G and waits on `called` (timeout 0) or in the select.
StartHandler ==
    /\ in[pos].t = "hdr" /\ Dispatchable(in[pos].sm)
    /\ in[pos].svc \in {"ok", "fail"}
    /\ pos' = pos + 2
    /\ h' = [h EXCEPT ![in[pos].seq] =
                IF opt.timeout THEN "select" ELSE "waitcalled"]
    /\ g' = [g EXCEPT ![in[pos].seq] = "running"]
    /\ UNCHANGED <<loop, out>>

\* One turn of serveCodec's loop over readRequest.
ReadRequest ==
    /\ loop = "read"
    /\ pos <= Len(in)
    /\ \/ HeaderUndecodable \/ RejectService \/ NewReplyvPanics
       \/ RejectArgs \/ StartHandler
    /\ UNCHANGED <<opt, in, eof>>

\* ReadHeader returns io.EOF once the client has closed: leave the loop.
ReadEOF ==
    /\ loop = "read"
    /\ pos > Len(in)
    /\ eof
    /\ loop' = "wait"
    /\ UNCHANGED <<opt, in, eof, pos, h, g, out>>

\* Mutant: cc.Close() without wg.Wait().
CloseConnNoWait ==
    /\ loop = "wait"
    /\ loop' = "closed"
    /\ UNCHANGED <<opt, in, eof, pos, h, g, out>>

\* wg.Wait(), then cc.Close().
CloseConn ==
    /\ loop = "wait"
    /\ \A r \in Reqs : h[r] \in {"none", "exit"}
    /\ loop' = "closed"
    /\ UNCHANGED <<opt, in, eof, pos, h, g, out>>

-----------------------------------------------------------------------------
(* handleRequest(r) and its method goroutine G.                           *)

\* The server process is running: a panic has not killed it.
Alive == loop # "crashed"

\* The ServiceMethod of request r: the client writes header r at 2r - 1.
NameOf(r) == in[2 * r - 1].sm

\* svc.call returns; G then blocks on `called <- struct{}{}`.
MethodReturn(r) ==
    /\ Alive
    /\ g[r] = "running"
    /\ CallableReply(NameOf(r))
    /\ g' = [g EXCEPT ![r] = "called"]
    /\ UNCHANGED <<opt, in, eof, pos, loop, h, out>>

\* Mutant: with no timeout, handleRequest returns after `<-called` without
\* waiting on `sent`.
CalledNoWaitSent(r) ==
    /\ Alive
    /\ g[r] = "called"
    /\ h[r] \in {"select", "waitcalled"}
    /\ g' = [g EXCEPT ![r] = "sending"]
    /\ h' = [h EXCEPT ![r] = IF h[r] = "waitcalled" THEN "exit" ELSE "waitsent"]
    /\ UNCHANGED <<opt, in, eof, pos, loop, out>>

\* The unbuffered send on `called` completes only when handleRequest
\* receives it: in `<-called` (no timeout) or in the select.
Called(r) ==
    /\ Alive
    /\ g[r] = "called"
    /\ h[r] \in {"select", "waitcalled"}
    /\ g' = [g EXCEPT ![r] = "sending"]
    /\ h' = [h EXCEPT ![r] = "waitsent"]
    /\ UNCHANGED <<opt, in, eof, pos, loop, out>>

\* Mutant: on a method error G signals `sent` without writing the error.
SendReplyDropsError(r) ==
    /\ Alive
    /\ g[r] = "sending"
    /\ IF SvcOf(r) = "fail" THEN UNCHANGED out ELSE Respond(r, "none")
    /\ g' = [g EXCEPT ![r] = "sent"]
    /\ UNCHANGED <<opt, in, eof, pos, loop, h>>

\* G writes the reply, or the method's error with invalidRequest, then
\* blocks on `sent <- struct{}{}`.
SendReply(r) ==
    /\ Alive
    /\ g[r] = "sending"
    /\ Respond(r, IF SvcOf(r) = "fail" THEN "method" ELSE "none")
    /\ g' = [g EXCEPT ![r] = "sent"]
    /\ UNCHANGED <<opt, in, eof, pos, loop, h>>

\* `<-sent` completes; both goroutines return and wg.Done runs.
Sent(r) ==
    /\ Alive
    /\ g[r] = "sent"
    /\ h[r] = "waitsent"
    /\ g' = [g EXCEPT ![r] = "exit"]
    /\ h' = [h EXCEPT ![r] = "exit"]
    /\ UNCHANGED <<opt, in, eof, pos, loop, out>>

\* Mutant: the timer also races the wait for `sent`.
TimeoutLate(r) ==
    /\ Alive
    /\ h[r] \in {"select", "waitsent"}
    /\ Respond(r, "timeout")
    /\ h' = [h EXCEPT ![r] = "exit"]
    /\ UNCHANGED <<opt, in, eof, pos, loop, g>>

\* time.After fires while the select waits for `called`: handleRequest
\* writes the timeout error and returns.  G stays blocked on `called`.
Timeout(r) ==
    /\ Alive
    /\ h[r] = "select"
    /\ Respond(r, "timeout")
    /\ h' = [h EXCEPT ![r] = "exit"]
    /\ UNCHANGED <<opt, in, eof, pos, loop, g>>

\* svc.call passes replyv, a pointer to the element type, for a by-value
\* map, slice, array or chan reply: reflect's Call panics in G, nothing
\* recovers it, and the server process dies.
MethodPanics(r) ==
    /\ Alive
    /\ g[r] = "running"
    /\ ~CallableReply(NameOf(r))
    /\ loop' = "crashed"
    /\ UNCHANGED <<opt, in, eof, pos, h, g, out>>

-----------------------------------------------------------------------------
Next ==
    \/ ClientWrite \/ ClientClose
    \/ ServeHTTP \/ ReadOption \/ ReadRequest \/ ReadEOF \/ CloseConn
    \/ \E r \in Reqs :
          \/ MethodReturn(r) \/ MethodPanics(r) \/ Called(r) \/ SendReply(r)
          \/ Sent(r) \/ Timeout(r)

\* The server's goroutines are scheduled fairly, methods return, and a
\* pending timer fires; the client is under no obligation.
Fairness ==
    /\ WF_vars(ServeHTTP) /\ WF_vars(ReadOption) /\ WF_vars(ReadRequest) /\ WF_vars(ReadEOF)
    /\ WF_vars(CloseConn)
    /\ \A r \in Reqs :
          /\ WF_vars(MethodReturn(r)) /\ WF_vars(MethodPanics(r)) /\ WF_vars(Called(r))
          /\ WF_vars(SendReply(r)) /\ WF_vars(Sent(r)) /\ WF_vars(Timeout(r))

Spec == Init /\ [][Next]_vars /\ Fairness

-----------------------------------------------------------------------------
TypeOK ==
    /\ opt \in [check : Options, timeout : BOOLEAN]
    /\ eof \in BOOLEAN
    /\ pos \in 1..2 * MaxReqs + 1
    /\ loop \in {"http", "option", "read", "wait", "closed", "crashed"}
    /\ h \in [Reqs -> {"none", "select", "waitcalled", "waitsent", "exit"}]
    /\ g \in [Reqs -> {"none", "running", "called", "sending", "sent", "exit"}]
    /\ \A i \in 1..Len(out) : out[i].seq \in Reqs /\ out[i].err \in Errs

Answers(r) == {i \in 1..Len(out) : out[i].seq = r}

\* No request is answered twice: after a timeout the late method goroutine
\* never writes its own reply, because nobody receives its `called`.
OneResponsePerRequest == \A r \in Reqs : Cardinality(Answers(r)) <= 1

\* The connection is closed only after every request handed to a handler
\* has been answered: wg.Wait covers the timeout path as well.
ClosedAfterResponses ==
    loop = "closed" => \A r \in Reqs : h[r] # "none" => Answers(r) # {}

\* Every request handed to handleRequest is eventually answered, unless a
\* panic on a later request has killed the server process first.
RequestsAnswered ==
    \A r \in Reqs : h[r] # "none" ~> (Answers(r) # {} \/ ~Alive)

\* Every method goroutine eventually exits (no goroutine leak) while the
\* server process lives.
HandlerGoroutinesExit ==
    \A r \in Reqs : g[r] = "running" ~> (g[r] = "exit" \/ ~Alive)

\* On a connection without a handle timeout every method goroutine exits.
GoroutinesExitWithoutTimeout ==
    \A r \in Reqs : ~opt.timeout /\ g[r] = "running" ~> (g[r] = "exit" \/ ~Alive)

\* The codec decodes a header only at a frame boundary: a rejected request
\* does not leave its body to be read as the next header (spec 4.7 step 1:
\* answer the error and continue with framing intact).
NextReadAtFrameBoundary ==
    loop = "read" /\ pos <= Len(in) => in[pos].t = "hdr"

\* A request never kills the server: spec 4.7 answers a method that cannot
\* be called with an error over the same connection.
ServerSurvivesRequests == Alive
=============================================================================
