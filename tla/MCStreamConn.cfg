\* grpcConn round trip: chunks of 1 or 2 bytes, reads of 0, 1 or 2 bytes,
\* 3 bytes in all, so a frame can outlast a Read and a Read span frames.
CONSTANTS
  ChunkSizes = {0, 1, 2}
  ReadSizes = {0, 1, 2}
  MaxBytes = 3
SPECIFICATION Spec
INVARIANT TypeOK
PROPERTY ImplementsByteStream
PROPERTY CallReturnsAfterStreamEnds
\* The reader stops for good once its call has seen the stream end.
CHECK_DEADLOCK FALSE
