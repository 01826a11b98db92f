\* One proxied connection, hub and probe, with every dial outcome.
CONSTANTS
  Modes <- MCModes
  DialErrors <- MCDialErrors
  MaxChunks = 2
  HubSecrets <- MCHubSecrets
  ProbeSecrets <- MCProbeSecrets
SPECIFICATION Spec
INVARIANT TypeOK ClientSeesProxyResponse
PROPERTY ConnectionReleased
\* A connection ends: once every goroutine is done nothing can step.
CHECK_DEADLOCK FALSE
