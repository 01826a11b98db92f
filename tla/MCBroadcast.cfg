\* The hub as cmd/hub wires it, with the telemetry server configured or not.
CONSTANTS
  p1 = p1
  p2 = p2
  s1 = s1
  s2 = s2
  Publishers <- MCPublishers
  Subscribers <- MCSubscribers
  MaxPublish <- MCMaxPublish
  PublishCap <- MCCap
  RegisterCap <- MCCap
  SubscriberCap <- MCCap
  TelemetryConfigured = {TRUE, FALSE}

SPECIFICATION Spec



PROPERTIES
  ReceivesInPublicationOrder
  PublishReturnsWhenStarted

\* Behaviours end: the bounded Publish calls run out, the hub crashes
\* (run broadcast_subscribe_race), or, without telemetry, a publisher hangs
\* (run broadcast_disabled_hang).
CHECK_DEADLOCK FALSE
