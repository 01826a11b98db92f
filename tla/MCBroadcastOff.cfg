\* cmd/hub without a telemetry section: the broadcaster is never started,
\* and every proxied connection still publishes to it.
CONSTANTS
  p1 = p1
  p2 = p2
  s1 = s1
  s2 = s2
  Publishers <- MCPublishers
  Subscribers <- MCSubscribers
  MaxPublish <- MCMaxPublish
  PublishCap <- MCCap
  RegisterCap <- MCCap
  SubscriberCap <- MCCap
  TelemetryConfigured = {FALSE}

SPECIFICATION Spec

PROPERTY PublishReturns

CHECK_DEADLOCK FALSE
