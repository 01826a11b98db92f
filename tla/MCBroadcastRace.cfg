\* A subscribe handler whose client leaves at once: its unsubscribe can be
\* served before its subscribe.
CONSTANTS
  p1 = p1
  p2 = p2
  s1 = s1
  s2 = s2
  Publishers <- MCPublishers
  Subscribers <- MCSubscribers
  MaxPublish <- MCMaxPublish
  PublishCap <- MCCap
  RegisterCap <- MCCap
  SubscriberCap <- MCCap
  TelemetryConfigured = {TRUE}

SPECIFICATION Spec

INVARIANT NoCrash


CHECK_DEADLOCK FALSE
