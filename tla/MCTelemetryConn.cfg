\* The shipped sizes: the ReadFrom buffer is one batch (both 32 KiB,
\* scaled down to 2 bytes).
CONSTANTS
  BatchSize = 2
  BufSize = 2
  MaxBytes = 5

SPECIFICATION Spec

INVARIANT TypeOK
INVARIANT SentIsClientData
INVARIANT TransferCountsMatchSent
PROPERTY ForwardsWithoutWaiting

\* ReadFrom returns and the copy goroutine ends.
CHECK_DEADLOCK FALSE
