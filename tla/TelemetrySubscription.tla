------------------------- MODULE TelemetrySubscription -------------------------
(***************************************************************************)
(* A telemetry subscription over gRPC: the server-streaming handler        *)
(* (TelemetryServer.ConnectionSubscribe / TransferSubscribe) sends the     *)
(* events its broadcaster subscription receives, and the client's          *)
(* grpcServerStreamSubscription turns the responses back into events,      *)
(* keeping the events of a response it has not yet returned in a cache.    *)
(*                                                                         *)
(* Events are numbered in the order the handler receives them.  A          *)
(* response's events field is repeated; the handler puts one event in each *)
(* response, and BatchSizes says how many a response may carry.            *)
(***************************************************************************)
EXTENDS Naturals, Sequences, Functions

CONSTANTS
  BatchSizes,   \* number of events in one response
  MaxEvents,    \* bound on the events the handler sends
  MaxResponses  \* bound on the responses the handler sends

VARIABLES
  sentEvents,   \* events the handler has sent
  responses,    \* responses the handler has sent
  stream,       \* responses sent and not yet received, oldest first
  ended,        \* the handler has returned and the stream carries its status
  cache,        \* sub.cache
  cpc,          \* the client's Receive call: "idle", "recv" or "done"
  got           \* events Receive has returned, in order

vars == <<sentEvents, responses, stream, ended, cache, cpc, got>>

Events(lo, hi) == [i \in 1..(hi - lo + 1) |-> lo + i - 1]

Last(s) == s[Len(s)]

Front(s) == SubSeq(s, 1, Len(s) - 1)

TypeOK ==
  /\ sentEvents \in 0..MaxEvents
  /\ responses \in 0..MaxResponses
  /\ stream \in Seq(Seq(1..MaxEvents))
  /\ ended \in BOOLEAN
  /\ cache \in Seq(1..MaxEvents)
  /\ cpc \in {"idle", "recv", "done"}
  /\ got \in Seq(1..MaxEvents)

\* Subscribe: a new stream and an empty cache.
Init ==
  /\ sentEvents = 0 /\ responses = 0 /\ stream = <<>> /\ ended = FALSE
  /\ cache = <<>> /\ cpc = "idle" /\ got = <<>>

-----------------------------------------------------------------------------
(* The server-streaming handler.                                           *)

\* One iteration of the handler's loop: sub.Receive, then stream.Send with
\* the next k events.
ServerSend(k) ==
  /\ ~ended
  /\ sentEvents + k <= MaxEvents /\ responses < MaxResponses
  /\ stream' = Append(stream, Events(sentEvents + 1, sentEvents + k))
  /\ sentEvents' = sentEvents + k /\ responses' = responses + 1
  /\ UNCHANGED <<ended, cache, cpc, got>>

\* sub.Receive or stream.Send fails and the handler returns the error,
\* which ends the stream after the responses already sent.
ServerReturns ==
  /\ ~ended
  /\ ended' = TRUE
  /\ UNCHANGED <<sentEvents, responses, stream, cache, cpc, got>>

-----------------------------------------------------------------------------
(* The client subscription.                                                *)

\* Receive with a non-empty cache: receive returns nil at once and Receive
\* pops the cache's last element.
ReceiveCachedKeeps ==
  /\ cpc = "idle" /\ cache # <<>>
  /\ got' = Append(got, Last(cache))
  /\ UNCHANGED <<sentEvents, responses, stream, ended, cache, cpc>>

ReceiveCached ==
  /\ cpc = "idle" /\ cache # <<>>
  /\ got' = Append(got, Last(cache)) /\ cache' = Front(cache)
  /\ UNCHANGED <<sentEvents, responses, stream, ended, cpc>>

\* Receive with an empty cache enters receive's Recv loop.
ReceiveEmpty ==
  /\ cpc = "idle" /\ cache = <<>>
  /\ cpc' = "recv"
  /\ UNCHANGED <<sentEvents, responses, stream, ended, cache, got>>

\* One Recv of the loop: the converted events are appended to the cache;
\* if the cache is then non-empty receive returns and Receive pops its last
\* element, else the loop calls Recv again.
RecvResponse ==
  LET c == cache \o Head(stream)
  IN /\ cpc = "recv" /\ stream # <<>>
     /\ stream' = Tail(stream)
     /\ IF c # <<>>
          THEN /\ got' = Append(got, Last(c)) /\ cache' = Front(c)
               /\ cpc' = "idle"
          ELSE UNCHANGED <<cache, cpc, got>>
     /\ UNCHANGED <<sentEvents, responses, ended>>

\* Recv returns the handler's status: Receive returns the error, and the
\* caller stops receiving.
RecvError ==
  /\ cpc = "recv" /\ stream = <<>> /\ ended
  /\ cpc' = "done"
  /\ UNCHANGED <<sentEvents, responses, stream, ended, cache, got>>

Next == \/ \E k \in BatchSizes : ServerSend(k)
        \/ ServerReturns
        \/ ReceiveCached \/ ReceiveEmpty \/ RecvResponse \/ RecvError

Spec == Init /\ [][Next]_vars

-----------------------------------------------------------------------------
(* Properties.                                                             *)

\* The client's cache neither loses nor repeats an event: Receive returns
\* each event sent at most once, and when it returns the stream's end
\* status it has returned every event sent.
ReceivesEachOnce ==
  /\ IsInjective(got)
  /\ Range(got) \subseteq 1..sentEvents
  /\ cpc = "done" => Len(got) = sentEvents

=============================================================================
