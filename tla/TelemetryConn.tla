---------------------------- MODULE TelemetryConn ----------------------------
(***************************************************************************)
(* The hub's client-to-target copy through the telemetry Conn               *)
(* (internal/telemetry/conn.go) and the gRPC Conn                          *)
(* (internal/grpc_transport/conn.go).  The client's telemetry Conn has     *)
(* neither WriteTo nor ReadFrom (hijack's customConn embeds only Reader,   *)
(* Writer and Closer), the target's has ReadFrom, so io.Copy calls         *)
(* emitReaderFrom.ReadFrom, which wraps the client Conn in an emitReader   *)
(* and calls grpcConn.ReadFrom with it.  ReadFrom allocates one buffer of  *)
(* readFromBufSize bytes and reuses it: each r.Read(buf) is                *)
(* emitReader.Read, which reads the buffer batch by batch (batchSize) and  *)
(* moves to the next batch after every client read, however short; then   *)
(* ReadFrom sends buf[:n] as one frame.                                    *)
(*                                                                         *)
(* Bytes are numbered in the order the client writes them, so the k-th     *)
(* byte is k; 0 is the zero byte a fresh buffer holds.  The client Conn    *)
(* reads io.MultiReader(the server's bufio reader, or the request head for *)
(* a plain request, then the socket): a read blocks until a byte is there, *)
(* then returns some of them, or 0 and io.EOF after the client's FIN, or  *)
(* 0 and an error when the socket is closed or reset.  Each read is       *)
(* followed by emit(start, stop, n), which publishes a TransferEvent; here *)
(* only the sum of the counts is kept (the events' order against the      *)
(* ConnectionEvents is Forward's subject).                                 *)
(***************************************************************************)
EXTENDS Naturals, Sequences

CONSTANTS
  BatchSize,    \* batchSize of telemetry/conn.go
  BufSize,      \* the ReadFrom buffer size (readFromBufSize)
  MaxBytes      \* bound on the bytes the client writes

ASSUME BatchSize \in Nat \ {0} /\ BufSize \in Nat \ {0} /\ MaxBytes \in Nat

VARIABLES
  written,   \* bytes the client has written to its socket
  fin,       \* the client has half-closed its socket
  consumed,  \* bytes read out of the socket so far
  buf,       \* ReadFrom's buffer, 1..BufSize -> byte
  i,         \* emitReader.Read's loop offset
  m,         \* emitReader.Read's running count
  eof,       \* the socket read that ended the loop returned io.EOF
  sent,      \* the bytes of the frames Sent on the stream, in order
  emitted,   \* the sum of the byte counts of the TransferEvents emitted
  pc         \* "read" (in emitReader.Read), "write" (ReadFrom after it), "done"

vars == <<written, fin, consumed, buf, i, m, eof, sent, emitted, pc>>

Bytes == 0..MaxBytes

Init ==
  /\ written = 0 /\ fin = FALSE /\ consumed = 0
  /\ buf = [j \in 1..BufSize |-> 0]
  /\ i = 0 /\ m = 0 /\ eof = FALSE
  /\ sent = <<>> /\ emitted = 0
  /\ pc = "read"

(* The length of chunk(dst, i, i+batchSize): the batch, cut at the end of  *)
(* dst.                                                                    *)
ChunkLen(off) ==
  IF off + BatchSize <= BufSize THEN BatchSize ELSE BufSize - off

(* buf[:n] *)
Prefix(n) == [j \in 1..n |-> buf[j]]

(* The client, which no scheduler drives.                                  *)
ClientWrite ==
  /\ ~fin /\ written < MaxBytes
  /\ written' = written + 1
  /\ UNCHANGED <<fin, consumed, buf, i, m, eof, sent, emitted, pc>>

ClientClose ==
  /\ ~fin
  /\ fin' = TRUE
  /\ UNCHANGED <<written, consumed, buf, i, m, eof, sent, emitted, pc>>

(* emit(start, stop, uint64(len(chunk))): the size asked for, not read.   *)
ChunkReadEmitsChunkLen(k) ==
  /\ pc = "read"
  /\ k \in 1..ChunkLen(i) /\ consumed + k <= written
  /\ buf' = [j \in 1..BufSize |->
               IF i < j /\ j <= i + k THEN consumed + (j - i) ELSE buf[j]]
  /\ consumed' = consumed + k
  /\ m' = m + k /\ emitted' = emitted + ChunkLen(i)
  /\ i' = i + BatchSize
  /\ pc' = IF i + BatchSize < BufSize THEN "read" ELSE "write"
  /\ UNCHANGED <<written, fin, eof, sent>>

(* A reader that fills each batch before it moves on, as io.ReadFull does. *)
ChunkReadFillsBatch(k) ==
  /\ pc = "read"
  /\ k \in 1..ChunkLen(i) /\ consumed + k <= written
  /\ buf' = [j \in 1..BufSize |->
               IF i < j /\ j <= i + k THEN consumed + (j - i) ELSE buf[j]]
  /\ consumed' = consumed + k
  /\ m' = m + k /\ emitted' = emitted + k
  /\ i' = i + k
  /\ pc' = IF i + k < BufSize THEN "read" ELSE "write"
  /\ UNCHANGED <<written, fin, eof, sent>>

(* One iteration of emitReader.Read's loop whose socket read returns k     *)
(* bytes into the current chunk and emits n = k; the loop moves i a whole  *)
(* batch on, and returns m, nil once i reaches the end of the buffer.      *)
ChunkRead(k) ==
  /\ pc = "read"
  /\ k \in 1..ChunkLen(i) /\ consumed + k <= written
  /\ buf' = [j \in 1..BufSize |->
               IF i < j /\ j <= i + k THEN consumed + (j - i) ELSE buf[j]]
  /\ consumed' = consumed + k
  /\ m' = m + k /\ emitted' = emitted + k
  /\ i' = i + BatchSize
  /\ pc' = IF i + BatchSize < BufSize THEN "read" ELSE "write"
  /\ UNCHANGED <<written, fin, eof, sent>>

(* The socket read returns 0, io.EOF: emitReader.Read returns m, EOF, and  *)
(* ReadFrom, for which EOF is a normal end, still writes buf[:m].          *)
ChunkEOF ==
  /\ pc = "read" /\ fin /\ consumed = written
  /\ eof' = TRUE
  /\ pc' = "write"
  /\ UNCHANGED <<written, fin, consumed, buf, i, m, sent, emitted>>

(* The socket read fails (the socket was closed by the other half's end,   *)
(* or reset): emitReader.Read returns m and the error, and ReadFrom        *)
(* returns at once, without writing buf[:m].                               *)
ChunkFails ==
  /\ pc = "read"
  /\ pc' = "done"
  /\ UNCHANGED <<written, fin, consumed, buf, i, m, eof, sent, emitted>>

(* conn.Write(buf) in place of conn.Write(buf[:n]).                      *)
WriteWholeBuffer ==
  /\ pc = "write"
  /\ sent' = sent \o buf
  /\ pc' = IF eof THEN "done" ELSE "read"
  /\ i' = 0 /\ m' = 0
  /\ UNCHANGED <<written, fin, consumed, buf, eof, emitted>>

(* A count kept across calls of r.Read instead of restarting at 0.       *)
WriteKeepsCount ==
  /\ pc = "write"
  /\ sent' = sent \o Prefix(m)
  /\ pc' = IF eof THEN "done" ELSE "read"
  /\ i' = 0
  /\ UNCHANGED <<written, fin, consumed, buf, eof, m, emitted>>

(* ReadFrom's conn.Write(buf[:n]): no frame for n = 0, else one Send.  On  *)
(* EOF ReadFrom returns; otherwise it calls r.Read(buf) again, on the same *)
(* buffer.                                                                 *)
Write ==
  /\ pc = "write"
  /\ sent' = sent \o Prefix(m)
  /\ pc' = IF eof THEN "done" ELSE "read"
  /\ i' = 0 /\ m' = 0
  /\ UNCHANGED <<written, fin, consumed, buf, eof, emitted>>

(* stream.Send fails: ReadFrom returns the error.                          *)
SendFails ==
  /\ pc = "write" /\ m > 0
  /\ pc' = "done"
  /\ UNCHANGED <<written, fin, consumed, buf, i, m, eof, sent, emitted>>

Copy ==
  \/ \E k \in 1..BatchSize : ChunkRead(k)
  \/ ChunkEOF \/ Write

Next ==
  \/ ClientWrite \/ ClientClose
  \/ Copy
  \/ ChunkFails \/ SendFails

(* The copy goroutine keeps running while it can; the client and the      *)
(* failures of socket and stream are not scheduled.                       *)
Spec == Init /\ [][Next]_vars /\ WF_vars(Copy)

TypeOK ==
  /\ written \in 0..MaxBytes /\ fin \in BOOLEAN
  /\ consumed \in 0..written
  /\ buf \in [1..BufSize -> Bytes]
  /\ i \in 0..(BufSize + BatchSize) /\ m \in 0..BufSize
  /\ eof \in BOOLEAN
  /\ sent \in Seq(Bytes)
  /\ emitted \in 0..consumed
  /\ pc \in {"read", "write", "done"}

-----------------------------------------------------------------------------
(* The target receives exactly the client's bytes, in order: every frame   *)
(* ReadFrom sends holds the bytes the emitReader just read, never a stale  *)
(* or zero byte of the reused buffer, and no byte is skipped.             *)
SentIsClientData == sent = [j \in 1..Len(sent) |-> j]

(* Spec 8, item 3: the byte counts of the TransferEvents the client-to-   *)
(* target copy emits add up to the bytes it delivered.  Checked wherever  *)
(* the copy is between two r.Read calls, and when it has ended at EOF: the *)
(* counts emitReader.Read emits per chunk must agree with what            *)
(* grpcConn.ReadFrom sends of the buffer.                                  *)
TransferCountsMatchSent ==
  (pc = "read" /\ i = 0) \/ (pc = "done" /\ eof) => emitted = Len(sent)

(* A byte read out of the client socket is eventually sent on the stream   *)
(* (or the copy ends with an error): the copy never holds bytes it has    *)
(* read while it waits for the client to write more.                      *)
ForwardsWithoutWaiting ==
  \A k \in 1..MaxBytes : consumed >= k ~> (Len(sent) >= k \/ pc = "done")
=============================================================================
