------------------------------- MODULE Forward -------------------------------
(***************************************************************************)
(* One proxied connection end to end: the hub's ServeHTTP goroutine        *)
(* (hub/http_api.go) running Core.forward (hub/core.go) over               *)
(* forwardClient.Dial (grpc_transport/forward_client.go); the probe's      *)
(* stream handler ForwardServer.Forward (grpc_transport/forward_server.go) *)
(* running Service.Forward (probe/probe.go); and on each side the two      *)
(* simplex goroutines of common.Duplex (common/forward.go) copying through *)
(* grpcConn (grpc_transport/conn.go) and, on the hub, the telemetry Conns  *)
(* (telemetry/conn.go).  The HTTP client and the target are environment.  *)
(*                                                                         *)
(* Data is abstracted to chunks; a read or a write moves one chunk.  The   *)
(* gRPC stream is two FIFO sequences of frames plus the hub's CloseSend,   *)
(* the status the probe's handler returned with, and the cancellation of   *)
(* the hub's request context, which gRPC propagates to the probe.          *)
(* Telemetry events are recorded in the order the hub core publishes them, *)
(* each with the timestamp it carries: a logical clock that ticks at each *)
(* publication, so a time.Now() taken when an event is published is the   *)
(* event's position in the log.                                            *)
(***************************************************************************)
EXTENDS Naturals, Sequences, Fault

CONSTANTS
  Modes,       \* request kinds: "CONNECT" (handleConnect), "plain" (handlePlain)
  DialErrors,  \* what net.Dialer.DialContext may return, as error traits
  MaxChunks,   \* chunks each endpoint may send (bounds the model)
  HubSecrets,  \* values of the variable secret_env names for the probe's group
  ProbeSecrets \* values of the probe's SECRET variable

ASSUME Modes \subseteq {"CONNECT", "plain"} /\ Modes # {}
ASSUME MaxChunks \in Nat

(* The errors net.Dialer.DialContext returns, by the interfaces they       *)
(* satisfy: a *net.DNSError (wrapped in a *net.OpError, and a net.Error    *)
(* that may report Timeout), a connect timeout, a refused or unreachable   *)
(* connect, a *net.OpError; and an error of none of these types.            *)
Traits == [dnsError   |-> [dns |-> TRUE,  timeout |-> FALSE, op |-> TRUE],
           dnsTimeout |-> [dns |-> TRUE,  timeout |-> TRUE,  op |-> TRUE],
           timeout    |-> [dns |-> FALSE, timeout |-> TRUE,  op |-> TRUE],
           refused    |-> [dns |-> FALSE, timeout |-> FALSE, op |-> TRUE],
           other      |-> [dns |-> FALSE, timeout |-> FALSE, op |-> FALSE]]
ASSUME DialErrors \subseteq DOMAIN Traits

(* The four simplex goroutines: hub client->target and target->client,     *)
(* probe hub->target and target->hub.                                      *)
Halves == {"hc2t", "ht2c", "ph2t", "pt2h"}

NoError == "none"
Connected == "conn"   \* DialContext returned a connection

VARIABLES
  mode,         \* CONNECT or plain request
  hpc,          \* hub ServeHTTP goroutine
  ppc,          \* probe stream handler goroutine
  half,         \* each simplex goroutine: "idle", "run", "exit"
  hand,         \* a simplex goroutine holds a chunk it has read, not yet written
  h2p,          \* frames the hub has sent, not yet received by the probe
  h2pClosed,    \* the hub called CloseSend (targetConn.Close)
  p2h,          \* frames the probe has sent, not yet received by the hub
  p2hEnd,       \* the probe handler returned: "open", "ok" or "error" status
  reqCancelled, \* the hub request context is cancelled (ServeHTTP returned)
  dialResult,   \* what the probe's DialContext returned (NoError before)
  fault,        \* the fault code Core.forward returned (NoError if none)
  cOut,         \* chunks in the client socket the hub has not read
  cLeft,        \* chunks the client may still write
  cClosed,      \* the client closed its connection
  sockClosed,   \* the hub closed the hijacked socket
  cIn,          \* what the client has read from the hub, in order
  tOut,         \* chunks the target has written that the probe has not read
  tLeft,        \* chunks the target may still write
  tClosed,      \* the target closed its connection
  tSockClosed,  \* the probe closed the target socket
  events,       \* telemetry events the hub core published for this connection
  creds         \* the hub's secret for the probe and the probe's SECRET

vars == <<mode, hpc, ppc, half, hand, h2p, h2pClosed, p2h, p2hEnd, reqCancelled,
          dialResult, fault, cOut, cLeft, cClosed, sockClosed, cIn, tOut, tLeft,
          tClosed, tSockClosed, events, creds>>
client == <<cOut, cLeft, cClosed>>
target == <<tOut, tLeft, tClosed>>

HubFrames == {"dial", "data"}
ProbeFrames == {"CODE_UNSPECIFIED", "CODE_FAILED_TO_RESOLVE_HOST",
                "CODE_HOST_UNREACHABLE", "data"}
FaultCodes == {"UNKNOWN", "FAILED_TO_RESOLVE_HOST", "HOST_UNREACHABLE"}
Statuses == {"500", "502", "504"}

(* Authentication of the stream (grpc_transport/authentication.go).  The   *)
(* hub's forward client for a probe carries its group's secret, and the    *)
(* probe's server interceptor admits a stream whose "authorization"        *)
(* metadata is "bearer <SECRET>".  The header value "bearer " + t is kept   *)
(* as its two words: strings.Cut at the first space gives back exactly     *)
(* these, as "bearer" has no space; a token may hold spaces of its own.    *)
NoHeader == [scheme |-> "none", token |-> "none"]   \* no authorization metadata

\* validate's envexists: the variable secret_env names is set and non-empty.
EnvVarExists(value) == value # ""

\* The secrets a loaded configuration gives the hub's client and the probe.
Credentials == [hub : {s \in HubSecrets : EnvVarExists(s)}, probe : ProbeSecrets]

\* NewClientInterceptor(token): the stream's metadata gets "bearer " + token.
AuthHeader(token) == [scheme |-> "bearer", token |-> token]

\* setupProbeClient installs the client interceptor only for a non-empty
\* secret.
ClientMetadata(secret) == IF secret # "" THEN AuthHeader(secret) ELSE NoHeader

\* NewServerInterceptor: the metadata gRPC always attaches on the server
\* side must hold an authorization header, of the form "<scheme> <token>"
\* with scheme "bearer" in any case (the hub's is lower case already), and
\* the token must be the secret.
Admits(md, secret) ==
  /\ md # NoHeader
  /\ md.scheme = "bearer"
  /\ md.token = secret

\* The specification's rule (section 6): the hub's bearer token is the
\* probe's shared secret.
Authorized == creds.hub = creds.probe

\* time.Now() taken by a publication: the clock ticks once per event.
Now == Len(events) + 1

\* The ClosedAt of Core.forward's closing ConnectionEvent.  The statement
\* is defer Publish(ConnectionEvent{..., ClosedAt: time.Now()}), and Go
\* evaluates a deferred call's arguments when the defer statement runs:
\* just after the opening event is published, before Duplex starts.  No
\* other event comes between, so it is the opening event's time.
ClosedAt ==
  LET opened == SelectSeq(events, LAMBDA e : e.kind = "open")
  IN opened[1].at

TypeOK ==
  /\ mode \in Modes
  /\ hpc \in {"dial", "await", "accept", "duplex", "closeClient", "closeTarget",
              "fail", "done"}
  /\ ppc \in {"auth", "recv", "dial", "accept", "duplex", "return", "done"}
  /\ half \in [Halves -> {"idle", "run", "exit"}]
  /\ hand \in [Halves -> BOOLEAN]
  /\ h2p \in Seq(HubFrames) /\ h2pClosed \in BOOLEAN
  /\ p2h \in Seq(ProbeFrames) /\ p2hEnd \in {"open", "ok", "error"}
  /\ reqCancelled \in BOOLEAN
  /\ dialResult \in DialErrors \cup {Connected, NoError}
  /\ fault \in FaultCodes \cup {NoError}
  /\ cOut \in Nat /\ cLeft \in Nat /\ cClosed \in BOOLEAN /\ sockClosed \in BOOLEAN
  /\ cIn \in Seq({"200", "data"} \cup Statuses)
  /\ tOut \in Nat /\ tLeft \in Nat /\ tClosed \in BOOLEAN /\ tSockClosed \in BOOLEAN
  /\ events \in Seq([kind : {"open", "transfer", "close"}, at : Nat])
  /\ creds \in Credentials

-----------------------------------------------------------------------------
(* The error-code chain, one operator per place that translates it.        *)

(* interpretDialError (probe.go): the DNS test comes first, and the dial  *)
(* error is wrapped in a fault.  common.ForwardUnknown is an untyped       *)
(* constant, so its Wrap makes a *fault[string].                          *)
InterpretDialError(e) ==
  IF Traits[e].dns THEN Wrap(Other(NilError), "ForwardErrorCode", "FAILED_TO_RESOLVE_HOST")
  ELSE IF Traits[e].timeout \/ Traits[e].op
    THEN Wrap(Other(NilError), "ForwardErrorCode", "HOST_UNREACHABLE")
  ELSE Wrap(Other(NilError), "string", "UNKNOWN")

(* fault.Code[common.ForwardErrorCode], which ForwardServer.Forward and    *)
(* handleForwardError switch on.                                           *)
ForwardCode(err) == Code("ForwardErrorCode", err)

(* ForwardServer.Forward: a failed dial of a known kind becomes a          *)
(* DialResponse; anything else ends the stream with an error status.       *)
DialResponseFor(code) ==
  IF code = "FAILED_TO_RESOLVE_HOST" THEN "CODE_FAILED_TO_RESOLVE_HOST"
  ELSE "CODE_HOST_UNREACHABLE"

(* forwardClient.Dial: the DialResponse code back to a fault.              *)
FaultOf(frame) ==
  IF frame = "CODE_FAILED_TO_RESOLVE_HOST"
    THEN New("ForwardErrorCode", "FAILED_TO_RESOLVE_HOST")
    ELSE New("ForwardErrorCode", "HOST_UNREACHABLE")

(* handleForwardError (http_api.go): the status written to the client.     *)
HttpStatus(code) ==
  CASE code = "FAILED_TO_RESOLVE_HOST" -> "502"
    [] code = "HOST_UNREACHABLE"       -> "504"
    [] OTHER                           -> "500"

-----------------------------------------------------------------------------
(* Contexts.  Duplex returns when its child context is done: one of its    *)
(* halves finished, or the parent was cancelled.  The probe's stream       *)
(* context ends when the hub cancels or when the probe handler returns.    *)
ServerCtxDone == reqCancelled \/ p2hEnd # "open"
HubDuplexDone == half["hc2t"] = "exit" \/ half["ht2c"] = "exit" \/ reqCancelled
ProbeDuplexDone == half["ph2t"] = "exit" \/ half["pt2h"] = "exit" \/ ServerCtxDone

Init ==
  /\ mode \in Modes
  /\ creds \in Credentials
  /\ hpc = "dial" /\ ppc = "auth"
  /\ half = [h \in Halves |-> "idle"]
  /\ hand = [h \in Halves |-> FALSE]
  /\ h2p = <<>> /\ h2pClosed = FALSE
  /\ p2h = <<>> /\ p2hEnd = "open"
  /\ reqCancelled = FALSE
  /\ dialResult = NoError /\ fault = NoError
  \* handlePlain: the re-serialised request head is the first thing to read
  /\ cOut = IF mode = "plain" THEN 1 ELSE 0
  /\ cLeft = MaxChunks /\ cClosed = FALSE /\ sockClosed = FALSE /\ cIn = <<>>
  /\ tOut = 0 /\ tLeft = MaxChunks /\ tClosed = FALSE /\ tSockClosed = FALSE
  /\ events = <<>>
-----------------------------------------------------------------------------
(* Hub: the ServeHTTP goroutine.  The probe was already chosen (see        *)
(* RoundRobin); forwardClient.Dial opens the stream and sends Dial.        *)
HubDial ==
  /\ hpc = "dial"
  /\ h2p' = Append(h2p, "dial")
  /\ hpc' = "await"
  /\ UNCHANGED <<mode, creds, ppc, half, hand, h2pClosed, p2h, p2hEnd, reqCancelled,
                 dialResult, fault, client, sockClosed, cIn, target, tSockClosed,
                 events>>

(* forwardClient.Dial: the first frame is the DialResponse; an error code  *)
(* becomes a fault, and Core.forward returns it.                           *)
HubDialResponse ==
  /\ hpc = "await"
  /\ p2h # <<>>
  /\ p2h' = Tail(p2h)
  /\ IF Head(p2h) = "CODE_UNSPECIFIED"
       THEN hpc' = "accept" /\ fault' = fault
       ELSE hpc' = "fail" /\ fault' = ForwardCode(FaultOf(Head(p2h)))
  /\ UNCHANGED <<mode, creds, ppc, half, hand, h2p, h2pClosed, p2hEnd, reqCancelled,
                 dialResult, client, sockClosed, cIn, target, tSockClosed, events>>

(* stream.Recv returns the status the probe ended the stream with; it      *)
(* carries no fault code, so fault.Code reports UNKNOWN.                   *)
HubDialFails ==
  /\ hpc = "await"
  /\ p2h = <<>> /\ p2hEnd # "open"
  /\ hpc' = "fail" /\ fault' = ForwardCode(Other(NilError))
  /\ UNCHANGED <<mode, creds, ppc, half, hand, h2p, h2pClosed, p2h, p2hEnd, reqCancelled,
                 dialResult, client, sockClosed, cIn, target, tSockClosed, events>>

(* Core.forward after a successful Dial: accept (handleConnect writes      *)
(* 200 OK; handlePlain's accept only returns the virtual Conn), publish    *)
(* the opening ConnectionEvent stamped OpenedAt = time.Now(), and start    *)
(* Duplex's two simplex goroutines.  The defer of the closing event,       *)
(* between the two, evaluates its argument, ClosedAt: time.Now() included, *)
(* at this point; see ClosedAt.                                            *)
HubAccept ==
  /\ hpc = "accept"
  /\ cIn' = IF mode = "CONNECT" THEN Append(cIn, "200") ELSE cIn
  /\ events' = Append(events, [kind |-> "open", at |-> Now])
  /\ half' = [half EXCEPT !["hc2t"] = "run", !["ht2c"] = "run"]
  /\ hpc' = "duplex"
  /\ UNCHANGED <<mode, creds, ppc, hand, h2p, h2pClosed, p2h, p2hEnd, reqCancelled,
                 dialResult, fault, client, sockClosed, target, tSockClosed>>

(* handleConnect's accept fails to write 200 OK to a client that has gone; *)
(* forward returns the error and its deferred targetConn.Close runs.       *)
HubAcceptFails ==
  /\ hpc = "accept" /\ mode = "CONNECT" /\ cClosed
  /\ h2pClosed' = TRUE
  /\ hpc' = "fail" /\ fault' = ForwardCode(Other(NilError))
  /\ UNCHANGED <<mode, creds, ppc, half, hand, h2p, p2h, p2hEnd, reqCancelled,
                 dialResult, client, sockClosed, cIn, target, tSockClosed, events>>

(* handleForwardError writes the status for the fault; ServeHTTP's         *)
(* deferred conn.Close runs and its return cancels the request context.    *)
HubFail ==
  /\ hpc = "fail"
  /\ cIn' = IF cClosed THEN cIn ELSE Append(cIn, HttpStatus(fault))
  /\ sockClosed' = TRUE /\ reqCancelled' = TRUE
  /\ hpc' = "done"
  /\ UNCHANGED <<mode, creds, ppc, half, hand, h2p, h2pClosed, p2h, p2hEnd, dialResult,
                 fault, client, target, tSockClosed, events>>

(* Duplex returns once its context is done; the deferred calls of          *)
(* Core.forward run last-in first-out: the closing ConnectionEvent ...     *)
HubDuplexReturns ==
  /\ hpc = "duplex" /\ HubDuplexDone
  /\ events' = Append(events, [kind |-> "close", at |-> ClosedAt])
  /\ hpc' = "closeClient"
  /\ UNCHANGED <<mode, creds, ppc, half, hand, h2p, h2pClosed, p2h, p2hEnd, reqCancelled,
                 dialResult, fault, client, sockClosed, cIn, target, tSockClosed>>

(* ... then clientConn.Close, which closes the hijacked socket ...         *)
HubCloseClient ==
  /\ hpc = "closeClient"
  /\ sockClosed' = TRUE
  /\ hpc' = "closeTarget"
  /\ UNCHANGED <<mode, creds, ppc, half, hand, h2p, h2pClosed, p2h, p2hEnd, reqCancelled,
                 dialResult, fault, client, cIn, target, tSockClosed, events>>

(* ... then targetConn.Close (CloseSend).  handleForwardError(nil) does    *)
(* nothing, ServeHTTP closes the socket again and returns, which cancels   *)
(* the request context and with it the stream.                             *)
HubCloseTarget ==
  /\ hpc = "closeTarget"
  /\ h2pClosed' = TRUE /\ reqCancelled' = TRUE
  /\ hpc' = "done"
  /\ UNCHANGED <<mode, creds, ppc, half, hand, h2p, p2h, p2hEnd, dialResult, fault,
                 client, sockClosed, cIn, target, tSockClosed, events>>

-----------------------------------------------------------------------------
(* Probe: the stream interceptor cmd/probe installs for its required       *)
(* SECRET runs once the hub has opened the stream, before the handler.     *)
ProbeAdmit ==
  /\ ppc = "auth" /\ hpc # "dial"
  /\ Admits(ClientMetadata(creds.hub), creds.probe)
  /\ ppc' = "recv"
  /\ UNCHANGED <<mode, creds, hpc, half, hand, h2p, h2pClosed, p2h, p2hEnd,
                 reqCancelled, dialResult, fault, client, sockClosed, cIn, target,
                 tSockClosed, events>>

(* It returns status Unauthenticated without calling the handler, which    *)
(* ends the stream with nothing sent.                                      *)
ProbeReject ==
  /\ ppc = "auth" /\ hpc # "dial"
  /\ ~Admits(ClientMetadata(creds.hub), creds.probe)
  /\ p2hEnd' = "error" /\ ppc' = "done"
  /\ UNCHANGED <<mode, creds, hpc, half, hand, h2p, h2pClosed, p2h, reqCancelled,
                 dialResult, fault, client, sockClosed, cIn, target, tSockClosed,
                 events>>

(* The ForwardServer.Forward handler.  The first frame is Dial.            *)
ProbeRecvDial ==
  /\ ppc = "recv"
  /\ h2p # <<>> /\ Head(h2p) = "dial"
  /\ h2p' = Tail(h2p)
  /\ ppc' = "dial"
  /\ UNCHANGED <<mode, creds, hpc, half, hand, h2pClosed, p2h, p2hEnd, reqCancelled,
                 dialResult, fault, client, sockClosed, cIn, target, tSockClosed,
                 events>>

(* Service.Forward: DialContext connects to the target.                    *)
ProbeDialOk ==
  /\ ppc = "dial"
  /\ dialResult' = Connected
  /\ ppc' = "accept"
  /\ UNCHANGED <<mode, creds, hpc, half, hand, h2p, h2pClosed, p2h, p2hEnd, reqCancelled,
                 fault, client, sockClosed, cIn, target, tSockClosed, events>>

(* Mutant: the handler answers every failure with a DialResponse, whose   *)
(* code stays at its zero value, UNSPECIFIED, for an unknown error.       *)
ProbeDialFailsAlwaysResponds(e) ==
  /\ ppc = "dial"
  /\ dialResult' = e
  /\ p2hEnd' = "ok"
  /\ p2h' = Append(p2h, CASE ForwardCode(InterpretDialError(e)) = "UNKNOWN" -> "CODE_UNSPECIFIED"
                          [] OTHER -> DialResponseFor(ForwardCode(InterpretDialError(e))))
  /\ ppc' = "done"
  /\ UNCHANGED <<mode, creds, hpc, half, hand, h2p, h2pClosed, reqCancelled, fault,
                 client, sockClosed, cIn, target, tSockClosed, events>>

(* DialContext fails with e; Service.Forward returns interpretDialError(e) *)
(* and ForwardServer.Forward answers with a DialResponse for a known kind  *)
(* or ends the stream with status Unknown.                                 *)
ProbeDialFails(e) ==
  /\ ppc = "dial"
  /\ dialResult' = e
  /\ LET code == ForwardCode(InterpretDialError(e)) IN
       IF code = "UNKNOWN"
         THEN p2hEnd' = "error" /\ p2h' = p2h
         ELSE p2hEnd' = "ok" /\ p2h' = Append(p2h, DialResponseFor(code))
  /\ ppc' = "done"
  /\ UNCHANGED <<mode, creds, hpc, half, hand, h2p, h2pClosed, reqCancelled, fault,
                 client, sockClosed, cIn, target, tSockClosed, events>>

(* The accept closure sends DialResponse{UNSPECIFIED}; Duplex starts.      *)
ProbeAccept ==
  /\ ppc = "accept"
  /\ p2h' = Append(p2h, "CODE_UNSPECIFIED")
  /\ half' = [half EXCEPT !["ph2t"] = "run", !["pt2h"] = "run"]
  /\ ppc' = "duplex"
  /\ UNCHANGED <<mode, creds, hpc, hand, h2p, h2pClosed, p2hEnd, reqCancelled,
                 dialResult, fault, client, sockClosed, cIn, target, tSockClosed,
                 events>>

(* Mutant: Service.Forward without its deferred targetTcpConn.Close.      *)
ProbeForwardReturnsLeaksTarget ==
  /\ ppc = "duplex" /\ ProbeDuplexDone
  /\ ppc' = "return"
  /\ UNCHANGED <<mode, creds, hpc, half, hand, h2p, h2pClosed, p2h, p2hEnd, reqCancelled,
                 dialResult, fault, client, sockClosed, cIn, target, tSockClosed,
                 events>>

(* Duplex returns; Service.Forward's deferred targetTcpConn.Close runs.    *)
ProbeForwardReturns ==
  /\ ppc = "duplex" /\ ProbeDuplexDone
  /\ tSockClosed' = TRUE
  /\ ppc' = "return"
  /\ UNCHANGED <<mode, creds, hpc, half, hand, h2p, h2pClosed, p2h, p2hEnd, reqCancelled,
                 dialResult, fault, client, sockClosed, cIn, target, events>>

(* ForwardServer.Forward returns nil: the stream ends with status OK.      *)
ProbeHandlerReturns ==
  /\ ppc = "return"
  /\ p2hEnd' = "ok"
  /\ ppc' = "done"
  /\ UNCHANGED <<mode, creds, hpc, half, hand, h2p, h2pClosed, p2h, reqCancelled,
                 dialResult, fault, client, sockClosed, cIn, target, tSockClosed,
                 events>>
-----------------------------------------------------------------------------
(* The simplex goroutines.  Each loops: read a chunk from its source, then *)
(* write it to its destination; on EOF or an error it exits and cancels   *)
(* Duplex's context.  A blocked read or Recv does not watch the context.   *)
Running(h) == half[h] = "run"
Holds(h) == hand' = [hand EXCEPT ![h] = TRUE]
Drops(h) == hand' = [hand EXCEPT ![h] = FALSE]
Exits(h) == /\ half' = [half EXCEPT ![h] = "exit"]
            /\ hand' = [hand EXCEPT ![h] = FALSE]

(* Every read the emitReader makes, and every write the emitWriter makes,  *)
(* publishes a TransferEvent, whatever its byte count or error.            *)
EmitTransfer == events' = Append(events, [kind |-> "transfer", at |-> Now])

(* Mutant: the read is taken with no data in the socket.                   *)
HubC2TReadUnguarded ==
  /\ Running("hc2t") /\ ~hand["hc2t"]
  /\ ~sockClosed
  /\ cOut' = cOut - 1 /\ Holds("hc2t") /\ EmitTransfer
  /\ UNCHANGED <<mode, creds, hpc, ppc, half, h2p, h2pClosed, p2h, p2hEnd, reqCancelled,
                 dialResult, fault, cLeft, cClosed, sockClosed, cIn, target,
                 tSockClosed>>

(* Hub client->target: grpcConn.ReadFrom(emitReader(client Conn)).         *)
HubC2TRead ==
  /\ Running("hc2t") /\ ~hand["hc2t"]
  /\ ~sockClosed /\ cOut > 0
  /\ cOut' = cOut - 1 /\ Holds("hc2t") /\ EmitTransfer
  /\ UNCHANGED <<mode, creds, hpc, ppc, half, h2p, h2pClosed, p2h, p2hEnd, reqCancelled,
                 dialResult, fault, cLeft, cClosed, sockClosed, cIn, target,
                 tSockClosed>>

(* The read returns EOF (the client closed) or "use of closed network     *)
(* connection" (the hub closed the socket).                                *)
HubC2TReadEnd ==
  /\ Running("hc2t") /\ ~hand["hc2t"]
  /\ sockClosed \/ (cClosed /\ cOut = 0)
  /\ Exits("hc2t") /\ EmitTransfer
  /\ UNCHANGED <<mode, creds, hpc, ppc, h2p, h2pClosed, p2h, p2hEnd, reqCancelled,
                 dialResult, fault, client, sockClosed, cIn, target, tSockClosed>>

(* stream.Send succeeds while the hub has not closed or cancelled its send *)
(* side and the probe handler has not ended the stream.                    *)
HubCanSend == ~h2pClosed /\ ~reqCancelled /\ p2hEnd = "open"

HubC2TSend ==
  /\ Running("hc2t") /\ hand["hc2t"] /\ HubCanSend
  /\ h2p' = Append(h2p, "data") /\ Drops("hc2t")
  /\ UNCHANGED <<mode, creds, hpc, ppc, half, h2pClosed, p2h, p2hEnd, reqCancelled,
                 dialResult, fault, client, sockClosed, cIn, target, tSockClosed,
                 events>>

HubC2TSendFails ==
  /\ Running("hc2t") /\ hand["hc2t"] /\ ~HubCanSend
  /\ Exits("hc2t")
  /\ UNCHANGED <<mode, creds, hpc, ppc, h2p, h2pClosed, p2h, p2hEnd, reqCancelled,
                 dialResult, fault, client, sockClosed, cIn, target, tSockClosed,
                 events>>

(* Hub target->client: grpcConn.WriteTo(emitWriter(client Conn)).  gRPC   *)
(* may still hand over a buffered frame after cancellation.                *)
HubT2CRecv ==
  /\ Running("ht2c") /\ ~hand["ht2c"]
  /\ p2h # <<>>
  /\ p2h' = Tail(p2h) /\ Holds("ht2c")
  /\ UNCHANGED <<mode, creds, hpc, ppc, half, h2p, h2pClosed, p2hEnd, reqCancelled,
                 dialResult, fault, client, sockClosed, cIn, target, tSockClosed,
                 events>>

(* Recv returns io.EOF or Canceled (normal) or another status error.       *)
HubT2CRecvEnd ==
  /\ Running("ht2c") /\ ~hand["ht2c"]
  /\ reqCancelled \/ (p2h = <<>> /\ p2hEnd # "open")
  /\ Exits("ht2c")
  /\ UNCHANGED <<mode, creds, hpc, ppc, h2p, h2pClosed, p2h, p2hEnd, reqCancelled,
                 dialResult, fault, client, sockClosed, cIn, target, tSockClosed,
                 events>>

HubT2CWrite ==
  /\ Running("ht2c") /\ hand["ht2c"] /\ ~sockClosed
  /\ cIn' = IF cClosed THEN cIn ELSE Append(cIn, "data")
  /\ Drops("ht2c") /\ EmitTransfer
  /\ UNCHANGED <<mode, creds, hpc, ppc, half, h2p, h2pClosed, p2h, p2hEnd, reqCancelled,
                 dialResult, fault, client, sockClosed, target, tSockClosed>>

HubT2CWriteFails ==
  /\ Running("ht2c") /\ hand["ht2c"] /\ sockClosed
  /\ Exits("ht2c") /\ EmitTransfer
  /\ UNCHANGED <<mode, creds, hpc, ppc, h2p, h2pClosed, p2h, p2hEnd, reqCancelled,
                 dialResult, fault, client, sockClosed, cIn, target, tSockClosed>>

(* Probe hub->target: grpcConn.WriteTo(target TCP conn).                   *)
ProbeH2TRecv ==
  /\ Running("ph2t") /\ ~hand["ph2t"]
  /\ h2p # <<>>
  /\ h2p' = Tail(h2p) /\ Holds("ph2t")
  /\ UNCHANGED <<mode, creds, hpc, ppc, half, h2pClosed, p2h, p2hEnd, reqCancelled,
                 dialResult, fault, client, sockClosed, cIn, target, tSockClosed,
                 events>>

ProbeH2TRecvEnd ==
  /\ Running("ph2t") /\ ~hand["ph2t"]
  /\ ServerCtxDone \/ (h2p = <<>> /\ h2pClosed)
  /\ Exits("ph2t")
  /\ UNCHANGED <<mode, creds, hpc, ppc, h2p, h2pClosed, p2h, p2hEnd, reqCancelled,
                 dialResult, fault, client, sockClosed, cIn, target, tSockClosed,
                 events>>

ProbeH2TWrite ==
  /\ Running("ph2t") /\ hand["ph2t"] /\ ~tSockClosed
  /\ Drops("ph2t")
  /\ UNCHANGED <<mode, creds, hpc, ppc, half, h2p, h2pClosed, p2h, p2hEnd, reqCancelled,
                 dialResult, fault, client, sockClosed, cIn, target, tSockClosed,
                 events>>

ProbeH2TWriteFails ==
  /\ Running("ph2t") /\ hand["ph2t"] /\ tSockClosed
  /\ Exits("ph2t")
  /\ UNCHANGED <<mode, creds, hpc, ppc, h2p, h2pClosed, p2h, p2hEnd, reqCancelled,
                 dialResult, fault, client, sockClosed, cIn, target, tSockClosed,
                 events>>

(* Probe target->hub: grpcConn.ReadFrom(target TCP conn).                  *)
ProbeT2HRead ==
  /\ Running("pt2h") /\ ~hand["pt2h"]
  /\ ~tSockClosed /\ tOut > 0
  /\ tOut' = tOut - 1 /\ Holds("pt2h")
  /\ UNCHANGED <<mode, creds, hpc, ppc, half, h2p, h2pClosed, p2h, p2hEnd, reqCancelled,
                 dialResult, fault, client, sockClosed, cIn, tLeft, tClosed,
                 tSockClosed, events>>

ProbeT2HReadEnd ==
  /\ Running("pt2h") /\ ~hand["pt2h"]
  /\ tSockClosed \/ (tClosed /\ tOut = 0)
  /\ Exits("pt2h")
  /\ UNCHANGED <<mode, creds, hpc, ppc, h2p, h2pClosed, p2h, p2hEnd, reqCancelled,
                 dialResult, fault, client, sockClosed, cIn, target, tSockClosed,
                 events>>

ProbeT2HSend ==
  /\ Running("pt2h") /\ hand["pt2h"] /\ ~ServerCtxDone
  /\ p2h' = Append(p2h, "data") /\ Drops("pt2h")
  /\ UNCHANGED <<mode, creds, hpc, ppc, half, h2p, h2pClosed, p2hEnd, reqCancelled,
                 dialResult, fault, client, sockClosed, cIn, target, tSockClosed,
                 events>>

ProbeT2HSendFails ==
  /\ Running("pt2h") /\ hand["pt2h"] /\ ServerCtxDone
  /\ Exits("pt2h")
  /\ UNCHANGED <<mode, creds, hpc, ppc, h2p, h2pClosed, p2h, p2hEnd, reqCancelled,
                 dialResult, fault, client, sockClosed, cIn, target, tSockClosed,
                 events>>
-----------------------------------------------------------------------------
(* The environment: the HTTP client and the target write and close at     *)
(* will; the target exists only once the probe has dialled it.             *)
ClientWrite ==
  /\ cLeft > 0 /\ ~cClosed /\ ~sockClosed
  /\ cOut' = cOut + 1 /\ cLeft' = cLeft - 1
  /\ UNCHANGED <<mode, creds, hpc, ppc, half, hand, h2p, h2pClosed, p2h, p2hEnd,
                 reqCancelled, dialResult, fault, cClosed, sockClosed, cIn, target,
                 tSockClosed, events>>

ClientClose ==
  /\ ~cClosed
  /\ cClosed' = TRUE
  /\ UNCHANGED <<mode, creds, hpc, ppc, half, hand, h2p, h2pClosed, p2h, p2hEnd,
                 reqCancelled, dialResult, fault, cOut, cLeft, sockClosed, cIn,
                 target, tSockClosed, events>>

TargetWrite ==
  /\ dialResult = Connected
  /\ tLeft > 0 /\ ~tClosed /\ ~tSockClosed
  /\ tOut' = tOut + 1 /\ tLeft' = tLeft - 1
  /\ UNCHANGED <<mode, creds, hpc, ppc, half, hand, h2p, h2pClosed, p2h, p2hEnd,
                 reqCancelled, dialResult, fault, client, sockClosed, cIn, tClosed,
                 tSockClosed, events>>

TargetClose ==
  /\ dialResult = Connected /\ ~tClosed
  /\ tClosed' = TRUE
  /\ UNCHANGED <<mode, creds, hpc, ppc, half, hand, h2p, h2pClosed, p2h, p2hEnd,
                 reqCancelled, dialResult, fault, client, sockClosed, cIn, tOut,
                 tLeft, tSockClosed, events>>

-----------------------------------------------------------------------------
(* One step of each goroutine.                                             *)
HubRequest ==
  \/ HubDial \/ HubDialResponse \/ HubDialFails \/ HubAccept \/ HubAcceptFails
  \/ HubFail \/ HubDuplexReturns \/ HubCloseClient \/ HubCloseTarget
ProbeHandler ==
  \/ ProbeAdmit \/ ProbeReject
  \/ ProbeRecvDial \/ ProbeDialOk \/ \E e \in DialErrors : ProbeDialFails(e)
  \/ ProbeAccept \/ ProbeForwardReturns \/ ProbeHandlerReturns
HubC2T == HubC2TRead \/ HubC2TReadEnd \/ HubC2TSend \/ HubC2TSendFails
HubT2C == HubT2CRecv \/ HubT2CRecvEnd \/ HubT2CWrite \/ HubT2CWriteFails
ProbeH2T == ProbeH2TRecv \/ ProbeH2TRecvEnd \/ ProbeH2TWrite \/ ProbeH2TWriteFails
ProbeT2H == ProbeT2HRead \/ ProbeT2HReadEnd \/ ProbeT2HSend \/ ProbeT2HSendFails
Environment == ClientWrite \/ ClientClose \/ TargetWrite \/ TargetClose

Next ==
  \/ HubRequest \/ ProbeHandler
  \/ HubC2T \/ HubT2C \/ ProbeH2T \/ ProbeT2H
  \/ Environment

(* Every goroutine the Go scheduler runs makes progress when it can; the   *)
(* probe's dial ends (net.Dialer has a 2 s timeout).  The client and the   *)
(* target are under no obligation to write or to close.                    *)
Spec ==
  /\ Init /\ [][Next]_vars
  /\ WF_vars(HubRequest) /\ WF_vars(ProbeHandler)
  /\ WF_vars(HubC2T) /\ WF_vars(HubT2C) /\ WF_vars(ProbeH2T) /\ WF_vars(ProbeT2H)

-----------------------------------------------------------------------------
(* Properties.                                                             *)

(* The status table of the specification (4.4 and 7): a DNS-typed failure  *)
(* is 502, a timeout or other operational network error 504, else 500.     *)
SpecStatus(e) ==
  CASE Traits[e].dns                  -> "502"
    [] Traits[e].timeout \/ Traits[e].op -> "504"
    [] OTHER                          -> "500"

(* What the client reads is a proxy response: a CONNECT client reads       *)
(* 200 OK only when the probe's dial succeeded (Core.forward calls accept  *)
(* only after forwardClient.Dial saw DialResponse{UNSPECIFIED}), and any   *)
(* tunnelled data only after it; an error status is the first and only     *)
(* response and is the one the specification's table gives for the        *)
(* probe's dial error, through interpretDialError, ForwardServer.Forward,  *)
(* forwardClient.Dial and handleForwardError, or 500 when the probe        *)
(* refused the hub's credentials and dialled nothing.                      *)
ClientSeesProxyResponse ==
  \A i \in DOMAIN cIn :
    /\ cIn[i] = "200" => i = 1 /\ mode = "CONNECT" /\ dialResult = Connected
    /\ cIn[i] \in Statuses =>
         /\ i = 1
         /\ \/ dialResult \in DialErrors /\ cIn[i] = SpecStatus(dialResult)
            \/ dialResult = NoError /\ ~Authorized /\ cIn[i] = "500"
    /\ (cIn[i] = "data" /\ mode = "CONNECT") => cIn[1] = "200"

(* Every TransferEvent of the connection is published after its opening   *)
(* ConnectionEvent and before its closing one (specification 8.2), which   *)
(* needs Core.forward's Duplex to return only after both simplex halves    *)
(* have finished emitting.                                                 *)
TelemetryBracketed ==
  \A i \in DOMAIN events :
    events[i].kind = "transfer" =>
      /\ \E j \in 1..(i - 1) : events[j].kind = "open"
      /\ \A j \in 1..(i - 1) : events[j].kind # "close"

(* Specification 8, item 2: opened_at <= finished_at <= closed_at for     *)
(* every TransferEvent of the connection, whatever the order in which     *)
(* the events are published.  It rests on the closing event's ClosedAt     *)
(* being read when Core.forward's deferred publish runs.                   *)
TransferWithinConnectionTimes ==
  \A i, j \in DOMAIN events :
    events[i].kind = "transfer" =>
      /\ events[j].kind = "open" => events[j].at <= events[i].at
      /\ events[j].kind = "close" => events[i].at <= events[j].at

(* Every goroutine of the connection has finished and every socket is     *)
(* closed.                                                                 *)
Released ==
  /\ hpc = "done" /\ ppc = "done"
  /\ \A h \in Halves : half[h] # "run"
  /\ sockClosed
  /\ dialResult = Connected => tSockClosed

(* Once the client or the target closes its end, the probe's dial fails,  *)
(* or the probe refuses the hub's credentials, every goroutine of the connection on hub and probe ends and the  *)
(* hijacked socket, the stream and the target socket are closed            *)
(* (specification 8.7 and "Resource cleanup"): the deferred closes of      *)
(* Core.forward and Service.Forward unblock the half that lingers.         *)
ConnectionReleased ==
  (cClosed \/ tClosed \/ dialResult \in DialErrors \/ ~Authorized) ~> Released
=============================================================================
