------------------------------ MODULE Broadcast ------------------------------
(***************************************************************************)
(* Broadcaster[T] (internal/broadcast) as the hub wires it: the proxied    *)
(* connections publish telemetry events through the hub core's             *)
(* multi-publisher, and every TelemetryServer subscribe handler            *)
(* (grpc_transport/telemetry_server.go) subscribes, receives until its     *)
(* client goes away, and closes its subscription.                          *)
(*                                                                         *)
(* Go channels are sequences bounded by their buffer size; a send on a     *)
(* full channel is a disabled action.  The isRunning mutex is a holder:    *)
(* the fan-out goroutine takes it in Start and never gives it back, and    *)
(* ensureIsRunning takes it for an instant when it is free.  A panic of    *)
(* the fan-out goroutine crashes the hub process: crashed ends every       *)
(* behaviour.  Events are numbered in the order they enter the publish     *)
(* channel, which is the publication order.                                *)
(***************************************************************************)
EXTENDS Naturals, Sequences, FiniteSets

CONSTANTS
  Publishers,          \* goroutines calling Publish (one per proxied connection)
  Subscribers,         \* telemetry subscribe handlers, one channel each
  MaxPublish,          \* Publish calls each publisher makes (bounds the model)
  PublishCap,          \* buffer of the publish channel (10 in NewBroadcaster)
  RegisterCap,         \* buffer of the subscribe and unsubscribe channels (10)
  SubscriberCap,       \* subscriberChannelSize, a subscriber's buffer (10)
  TelemetryConfigured  \* the values cfg.Telemetry != nil takes in cmd/hub

ASSUME
  /\ Publishers # {} /\ Publishers \cap Subscribers = {}
  /\ MaxPublish \in Nat \ {0}
  /\ {PublishCap, RegisterCap, SubscriberCap} \subseteq Nat \ {0}
  /\ TelemetryConfigured \subseteq BOOLEAN /\ TelemetryConfigured # {}

Free == "free"   \* nobody holds isRunning
Loop == "loop"   \* the fan-out goroutine holds isRunning
ZeroEvent == 0   \* *new(T): what a receive on a closed channel yields

VARIABLES
  enabled,        \* cfg.Telemetry != nil: main calls StartBroadcasting
  started,        \* StartBroadcasting has returned and main went on to serve
  isRunning,      \* holder of the isRunning mutex
  publishCh,      \* p.publish
  subscribeCh,    \* p.subscribe
  unsubscribeCh,  \* p.unsubscribe
  subscribers,    \* key set of the fan-out goroutine's subscribers map
  closedCh,       \* subscriber channels closed so far
  buf,            \* contents of each subscriber channel
  ppc,            \* publisher: where it is in Publish
  sent,           \* publisher: Publish calls made
  spc,            \* subscribe handler: where it is
  published,      \* events put on the publish channel so far
  received,       \* events each subscribe handler got from Receive, in order
  crashed,        \* the fan-out goroutine panicked
  ctxDone         \* the context passed to Start is cancelled

vars == <<enabled, started, isRunning, publishCh, subscribeCh, unsubscribeCh,
          subscribers, closedCh, buf, ppc, sent, spc, published, received,
          crashed, ctxDone>>
loopVars == <<publishCh, subscribeCh, unsubscribeCh, subscribers, closedCh,
              buf>>

TypeOK ==
  /\ enabled \in BOOLEAN /\ started \in BOOLEAN /\ crashed \in BOOLEAN
  /\ ctxDone \in BOOLEAN
  /\ isRunning \in {Free, Loop} \cup Publishers \cup Subscribers
  /\ publishCh \in Seq(Nat \ {0}) /\ Len(publishCh) <= PublishCap
  /\ subscribeCh \in Seq(Subscribers) /\ Len(subscribeCh) <= RegisterCap
  /\ unsubscribeCh \in Seq(Subscribers) /\ Len(unsubscribeCh) <= RegisterCap
  /\ subscribers \subseteq Subscribers /\ closedCh \subseteq Subscribers
  /\ buf \in [Subscribers -> Seq(Nat \ {0})]
  /\ \A s \in Subscribers : Len(buf[s]) <= SubscriberCap
  /\ ppc \in [Publishers -> {"idle", "unlock", "send"}]
  /\ sent \in [Publishers -> 0..MaxPublish]
  /\ spc \in [Subscribers -> {"idle", "register", "receive", "close", "done"}]
  /\ published \in Nat
  /\ received \in [Subscribers -> Seq(Nat)]

-----------------------------------------------------------------------------
(* cmd/hub main: StartBroadcasting runs before the listeners serve, and the *)
(* telemetry gRPC server (the subscribers) only exists when configured.    *)
TrafficMayRun == ~enabled \/ started
Alive == ~crashed

Init ==
  /\ enabled \in TelemetryConfigured
  /\ started = FALSE
  /\ isRunning = Free
  /\ publishCh = <<>> /\ subscribeCh = <<>> /\ unsubscribeCh = <<>>
  /\ subscribers = {} /\ closedCh = {}
  /\ buf = [s \in Subscribers |-> <<>>]
  /\ ppc = [p \in Publishers |-> "idle"]
  /\ sent = [p \in Publishers |-> 0]
  /\ spc = [s \in Subscribers |-> "idle"]
  /\ published = 0
  /\ received = [s \in Subscribers |-> <<>>]
  /\ crashed = FALSE
  /\ ctxDone = FALSE

(* Start: TryLock succeeds (nothing else runs yet) and the fan-out          *)
(* goroutine keeps the mutex for as long as it runs.                       *)
Start ==
  /\ enabled /\ ~started
  /\ isRunning = Free
  /\ isRunning' = Loop
  /\ started' = TRUE
  /\ UNCHANGED <<enabled, loopVars, ppc, sent, spc, published, received, crashed, ctxDone>>

(* ensureIsRunning, first step: TryLock.  It succeeds only when no goroutine *)
(* holds isRunning, i.e. the broadcaster is not running and no other caller *)
(* is inside ensureIsRunning; a failed TryLock is read as "running".        *)
TryLockSucceeds(c) == isRunning = Free /\ isRunning' = c
TryLockFails == isRunning # Free /\ UNCHANGED isRunning

(* Publish with TryLock won: ensureIsRunning will unlock and return an     *)
(* error, which multiPublisher joins and the hub core ignores.             *)
PublishNotRunning(p) ==
  /\ Alive /\ TrafficMayRun
  /\ ppc[p] = "idle" /\ sent[p] < MaxPublish
  /\ TryLockSucceeds(p)
  /\ ppc' = [ppc EXCEPT ![p] = "unlock"]
  /\ sent' = [sent EXCEPT ![p] = @ + 1]
  /\ UNCHANGED <<enabled, started, loopVars, spc, published, received, crashed, ctxDone>>

PublishUnlock(p) ==
  /\ Alive
  /\ ppc[p] = "unlock"
  /\ isRunning' = Free
  /\ ppc' = [ppc EXCEPT ![p] = "idle"]
  /\ UNCHANGED <<enabled, started, loopVars, sent, spc, published, received, crashed, ctxDone>>

(* Publish with TryLock lost: p goes on to `p.publish <- value`.           *)
PublishRunning(p) ==
  /\ Alive /\ TrafficMayRun
  /\ ppc[p] = "idle" /\ sent[p] < MaxPublish
  /\ TryLockFails
  /\ ppc' = [ppc EXCEPT ![p] = "send"]
  /\ sent' = [sent EXCEPT ![p] = @ + 1]
  /\ UNCHANGED <<enabled, started, loopVars, spc, published, received, crashed, ctxDone>>

(* `p.publish <- value`: blocks while the publish channel is full.         *)
PublishSend(p) ==
  /\ Alive
  /\ ppc[p] = "send"
  /\ Len(publishCh) < PublishCap
  /\ publishCh' = Append(publishCh, published + 1)
  /\ published' = published + 1
  /\ ppc' = [ppc EXCEPT ![p] = "idle"]
  /\ UNCHANGED <<enabled, started, isRunning, subscribeCh, unsubscribeCh,
                 subscribers, closedCh, buf, sent, spc, received, crashed, ctxDone>>

(* TransferSubscribe / ConnectionSubscribe call Subscribe: ensureIsRunning *)
(* fails its TryLock because the fan-out goroutine holds the mutex.        *)
Subscribe(s) ==
  /\ Alive /\ enabled /\ started
  /\ spc[s] = "idle"
  /\ TryLockFails
  /\ spc' = [spc EXCEPT ![s] = "register"]
  /\ UNCHANGED <<enabled, started, loopVars, ppc, sent, published, received, crashed, ctxDone>>

(* `p.subscribe <- ch`, then the handler enters its Receive loop.          *)
SubscribeSend(s) ==
  /\ Alive
  /\ spc[s] = "register"
  /\ Len(subscribeCh) < RegisterCap
  /\ subscribeCh' = Append(subscribeCh, s)
  /\ spc' = [spc EXCEPT ![s] = "receive"]
  /\ UNCHANGED <<enabled, started, isRunning, publishCh, unsubscribeCh,
                 subscribers, closedCh, buf, ppc, sent, published, received, crashed, ctxDone>>

(* subscription.Receive takes `t := <-s.ch`, and the handler sends it to   *)
(* its client.  A closed, drained channel yields the zero value at once.   *)
Receive(s) ==
  /\ Alive
  /\ spc[s] = "receive"
  /\ buf[s] # <<>> \/ s \in closedCh
  /\ received' = [received EXCEPT ![s] =
                    Append(@, IF buf[s] # <<>> THEN Head(buf[s]) ELSE ZeroEvent)]
  /\ buf' = [buf EXCEPT ![s] = IF @ # <<>> THEN Tail(@) ELSE @]
  /\ UNCHANGED <<enabled, started, isRunning, publishCh, subscribeCh,
                 unsubscribeCh, subscribers, closedCh, ppc, sent, spc, published,
                 crashed, ctxDone>>

(* The handler leaves its loop: Receive saw ctx.Done (the client went      *)
(* away) or stream.Send failed.  `defer sub.Close()` runs next.            *)
Disconnect(s) ==
  /\ Alive
  /\ spc[s] = "receive"
  /\ spc' = [spc EXCEPT ![s] = "close"]
  /\ UNCHANGED <<enabled, started, isRunning, loopVars, ppc, sent, published,
                 received, crashed, ctxDone>>

(* Mutation: a handler that calls Close and stays in its Receive loop.    *)
CloseAndKeepReceiving(s) ==
  /\ Alive
  /\ spc[s] = "close"
  /\ Len(unsubscribeCh) < RegisterCap
  /\ unsubscribeCh' = Append(unsubscribeCh, s)
  /\ spc' = [spc EXCEPT ![s] = "receive"]
  /\ UNCHANGED <<enabled, started, isRunning, publishCh, subscribeCh,
                 subscribers, closedCh, buf, ppc, sent, published, received, crashed, ctxDone>>

(* Close: onClose sends `p.unsubscribe <- ch`; the handler returns.        *)
Close(s) ==
  /\ Alive
  /\ spc[s] = "close"
  /\ Len(unsubscribeCh) < RegisterCap
  /\ unsubscribeCh' = Append(unsubscribeCh, s)
  /\ spc' = [spc EXCEPT ![s] = "done"]
  /\ UNCHANGED <<enabled, started, isRunning, publishCh, subscribeCh,
                 subscribers, closedCh, buf, ppc, sent, published, received, crashed, ctxDone>>

-----------------------------------------------------------------------------
(* The fan-out goroutine: one iteration of its `for { select {...} }` takes *)
(* any ready case, so the three channels are served in no fixed order.     *)
LoopRuns == Alive /\ isRunning = Loop

(* case value := <-p.publish: `select { case ch <- value: default: }` for   *)
(* every subscriber: a full channel drops the event.                       *)
Deliver(v) ==
  [s \in Subscribers |->
     IF s \in subscribers /\ Len(buf[s]) < SubscriberCap
     THEN Append(buf[s], v) ELSE buf[s]]

(* Mutation: a blocking `ch <- value` instead of the select with default. *)
LoopPublishBlocking ==
  /\ LoopRuns
  /\ publishCh # <<>>
  /\ subscribers \cap closedCh = {}
  /\ \A s \in subscribers : Len(buf[s]) < SubscriberCap
  /\ buf' = Deliver(Head(publishCh))
  /\ publishCh' = Tail(publishCh)
  /\ UNCHANGED <<enabled, started, isRunning, subscribeCh, unsubscribeCh,
                 subscribers, closedCh, ppc, sent, spc, published, received, crashed, ctxDone>>

LoopPublish ==
  /\ LoopRuns
  /\ publishCh # <<>>
  /\ subscribers \cap closedCh = {}
  /\ buf' = Deliver(Head(publishCh))
  /\ publishCh' = Tail(publishCh)
  /\ UNCHANGED <<enabled, started, isRunning, subscribeCh, unsubscribeCh,
                 subscribers, closedCh, ppc, sent, spc, published, received, crashed, ctxDone>>

(* The same case when a key of the map is a closed channel: the send in the *)
(* select panics ("send on closed channel") and the hub process dies.      *)
LoopPublishToClosed ==
  /\ LoopRuns
  /\ publishCh # <<>>
  /\ subscribers \cap closedCh # {}
  /\ crashed' = TRUE
  /\ UNCHANGED <<enabled, started, isRunning, loopVars, ppc, sent, spc,
                 published, received, ctxDone>>

(* case ch := <-p.subscribe: subscribers[ch] = struct{}{}.                 *)
LoopSubscribe ==
  /\ LoopRuns
  /\ subscribeCh # <<>>
  /\ subscribers' = subscribers \cup {Head(subscribeCh)}
  /\ subscribeCh' = Tail(subscribeCh)
  /\ UNCHANGED <<enabled, started, isRunning, publishCh, unsubscribeCh, closedCh,
                 buf, ppc, sent, spc, published, received, crashed, ctxDone>>

(* case ch := <-p.unsubscribe: an unknown ch is only logged; it is deleted *)
(* and closed either way.                                                  *)
LoopUnsubscribe ==
  /\ LoopRuns
  /\ unsubscribeCh # <<>>
  /\ Head(unsubscribeCh) \notin closedCh
  /\ subscribers' = subscribers \ {Head(unsubscribeCh)}
  /\ closedCh' = closedCh \cup {Head(unsubscribeCh)}
  /\ unsubscribeCh' = Tail(unsubscribeCh)
  /\ UNCHANGED <<enabled, started, isRunning, publishCh, subscribeCh, buf, ppc,
                 sent, spc, published, received, crashed, ctxDone>>

-----------------------------------------------------------------------------
Next ==
  \/ Start
  \/ \E p \in Publishers :
       PublishNotRunning(p) \/ PublishUnlock(p) \/ PublishRunning(p) \/ PublishSend(p)
  \/ \E s \in Subscribers :
       Subscribe(s) \/ SubscribeSend(s) \/ Receive(s) \/ Disconnect(s) \/ Close(s)
  \/ LoopPublish \/ LoopPublishToClosed \/ LoopSubscribe \/ LoopUnsubscribe

(* The fan-out goroutine and the unlock in ensureIsRunning are scheduled    *)
(* (weak fairness); goroutines blocked on a channel send are queued FIFO by *)
(* the Go runtime, so a send that is enabled again and again is taken       *)
(* (strong fairness).  Receive and Disconnect depend on the telemetry       *)
(* client, which may be arbitrarily slow: no fairness.                     *)
Fairness ==
  /\ WF_vars(Start)
  /\ WF_vars(LoopPublish) /\ WF_vars(LoopPublishToClosed)
  /\ WF_vars(LoopSubscribe) /\ WF_vars(LoopUnsubscribe)
  /\ \A p \in Publishers : WF_vars(PublishUnlock(p)) /\ SF_vars(PublishSend(p))
  /\ \A s \in Subscribers : SF_vars(SubscribeSend(s)) /\ SF_vars(Close(s))

Spec == Init /\ [][Next]_vars /\ Fairness

-----------------------------------------------------------------------------
(* Shutdown.  cmd/hub passes context.Background() to StartBroadcasting, so *)
(* the fan-out goroutine's ctx is never cancelled in the hub and Next has  *)
(* no step for it.  Broadcaster is a library type whose Start takes any    *)
(* context; SpecShutdown is the broadcaster started with one that its      *)
(* owner may cancel.                                                       *)

CancelCtx ==
  /\ Alive /\ started /\ ~ctxDone
  /\ ctxDone' = TRUE
  /\ UNCHANGED <<enabled, started, isRunning, loopVars, ppc, sent, spc,
                 published, received, crashed>>

(* case <-ctx.Done(): close every channel of the map.  The case neither     *)
(* returns nor empties the map, and ctx.Done() stays ready, so the loop     *)
(* comes back to it: closing a channel that is already closed panics.      *)
LoopDone ==
  /\ LoopRuns /\ ctxDone
  /\ IF subscribers \cap closedCh = {}
       THEN /\ closedCh' = closedCh \cup subscribers
            /\ UNCHANGED crashed
       ELSE /\ crashed' = TRUE
            /\ UNCHANGED closedCh
  /\ UNCHANGED <<enabled, started, isRunning, publishCh, subscribeCh,
                 unsubscribeCh, subscribers, buf, ppc, sent, spc, published,
                 received, ctxDone>>

(* case ch := <-p.unsubscribe for a channel the ctx.Done case has closed:   *)
(* close(ch) panics.                                                       *)
LoopUnsubscribeClosed ==
  /\ LoopRuns
  /\ unsubscribeCh # <<>>
  /\ Head(unsubscribeCh) \in closedCh
  /\ crashed' = TRUE
  /\ UNCHANGED <<enabled, started, isRunning, loopVars, ppc, sent, spc,
                 published, received, ctxDone>>

SpecShutdown == Init /\ [][Next \/ CancelCtx \/ LoopDone \/ LoopUnsubscribeClosed]_vars /\ Fairness

-----------------------------------------------------------------------------
(* What the broadcaster promises a subscriber (spec 4.6, 8.6): it receives  *)
(* published events in publication order, possibly skipping some, and      *)
(* nothing else.  LossyMulticast states it; the mapping is the identity on *)
(* published and received.                                                 *)
Abstract == INSTANCE LossyMulticast

(* Refinement: every Receive of every subscribe handler returns an event    *)
(* that was published and comes after the one it returned before.  This is *)
(* what the fan-out order, the drop-on-full select and the closing of       *)
(* channels on unsubscribe together must keep true.                        *)
ReceivesInPublicationOrder == Abstract!Spec

(* Liveness: once the broadcaster runs, a Publish call returns (unless the  *)
(* hub has crashed): neither a slow telemetry client nor a subscriber that *)
(* went away can stall the publishing connection goroutines.               *)
PublishReturnsWhenStarted ==
  \A p \in Publishers : (enabled /\ ppc[p] = "send") ~> (ppc[p] = "idle" \/ crashed)

(* Liveness: every Publish call returns, whether telemetry is configured or *)
(* not.                                                                    *)
PublishReturns ==
  \A p \in Publishers : (ppc[p] = "send") ~> (ppc[p] = "idle" \/ crashed)

(* The fan-out goroutine never panics, so the hub process never dies of it. *)
NoCrash == ~crashed
=============================================================================
