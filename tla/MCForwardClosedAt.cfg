\* The timestamps of one connection's TransferEvents against the
\* opened_at and closed_at of its ConnectionEvents.
CONSTANTS
  Modes <- MCModes
  DialErrors <- MCDialErrors
  MaxChunks = 2
  HubSecrets <- MCHubSecrets
  ProbeSecrets <- MCProbeSecrets
SPECIFICATION Spec
INVARIANT TransferWithinConnectionTimes
\* A connection ends: once every goroutine is done nothing can step.
CHECK_DEADLOCK FALSE
