CONSTANTS
  r1 = r1
  r2 = r2
  r3 = r3
  r4 = r4
  Requests <- MCRequests
  NumProbes = 3

SPECIFICATION Spec

INVARIANT TypeOK

PROPERTIES
  SelectionIsRoundRobin
  EveryRequestGetsProbe

\* Every request forwards once: the model ends when all are done.
CHECK_DEADLOCK FALSE
