\* Up to 3 responses of 0, 1 or 2 events (the handler sends 1; the protocol
\* allows any number), so a cached event meets an empty and a new response.
CONSTANTS
  BatchSizes = {0, 1, 2}
  MaxEvents = 4
  MaxResponses = 3
SPECIFICATION Spec
INVARIANT ReceivesEachOnce
\* Once the client has seen the end status, nothing more can happen.
CHECK_DEADLOCK FALSE
