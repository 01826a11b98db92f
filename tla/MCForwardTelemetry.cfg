\* Telemetry events of one connection against its opening and closing events.
CONSTANTS
  Modes <- MCModes
  DialErrors <- MCDialErrors
  MaxChunks = 2
  HubSecrets <- MCHubSecrets
  ProbeSecrets <- MCProbeSecrets
SPECIFICATION Spec
INVARIANT TelemetryBracketed
\* A connection ends: once every goroutine is done nothing can step.
CHECK_DEADLOCK FALSE
