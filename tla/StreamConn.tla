----------------------------- MODULE StreamConn -----------------------------
(***************************************************************************)
(* grpcConn (internal/grpc_transport/conn.go): a message stream used as a  *)
(* byte stream.  One side writes: every Write sends one frame, and the     *)
(* stream ends by CloseSend (the client's Close) or by cancellation of the *)
(* RPC.  The other side reads, through Read or WriteTo, and keeps the      *)
(* frame it has partly consumed in buf with a read offset.                 *)
(*                                                                         *)
(* Bytes are numbered in the order they are written, so the n-th byte the  *)
(* writer hands to Write is the number n.  Only the numbering matters to   *)
(* the properties: any reordering, loss or duplication changes it.         *)
(***************************************************************************)
EXTENDS Naturals, Sequences

CONSTANTS
  ChunkSizes,   \* lengths of the slices passed to Write (empty ones are a no-op)
  ReadSizes,    \* len(dst) of the slices passed to Read
  MaxBytes      \* bound on the bytes written over the stream

VARIABLES
  sent,         \* number of bytes the writer has sent
  frames,       \* frames sent and not yet received, oldest first
  closeSent,    \* the writer has called CloseSend
  cancelled,    \* the RPC has been cancelled
  buf,          \* conn.buf: the last frame received
  offset,       \* conn.offset: bytes of buf already consumed
  rpc,          \* the reader's current call
  dstLen,       \* len(dst) of the Read in progress
  part,         \* dst[:m]: bytes copied by the Read in progress
  got           \* bytes returned to the reader's caller, in order

vars == <<sent, frames, closeSent, cancelled, buf, offset, rpc, dstLen, part, got>>

Bytes(lo, hi) == [i \in 1..(hi - lo + 1) |-> lo + i - 1]

Rest == SubSeq(buf, offset + 1, Len(buf))

MinOf(a, b) == IF a < b THEN a ELSE b

\* Recv returns an error once the stream has ended: io.EOF after CloseSend
\* when every frame has been received, or Canceled at any time after a
\* cancellation, dropping frames still buffered.
\* Mutation: io.EOF is not an error of Recv, only cancellation ends it.
RecvFailsCancelOnly == cancelled

RecvFails == \/ cancelled
             \/ closeSent /\ frames = <<>>

TypeOK ==
  /\ sent \in 0..MaxBytes
  /\ frames \in Seq(Seq(1..MaxBytes))
  /\ closeSent \in BOOLEAN /\ cancelled \in BOOLEAN
  /\ buf \in Seq(1..MaxBytes) /\ offset \in 0..Len(buf)
  /\ rpc \in {"idle", "fill", "recv", "writeTo", "done"}
  /\ dstLen \in ReadSizes
  /\ part \in Seq(1..MaxBytes) /\ Len(part) <= dstLen
  /\ got \in Seq(1..MaxBytes)

\* newServerConn / newClientConn: an empty buffer at offset 0.  The closed
\* field is set false here and nothing ever sets it true.
Init ==
  /\ sent = 0 /\ frames = <<>>
  /\ closeSent = FALSE /\ cancelled = FALSE
  /\ buf = <<>> /\ offset = 0
  /\ rpc = "idle" /\ dstLen = 0 /\ part = <<>> /\ got = <<>>

-----------------------------------------------------------------------------
(* The writing side.                                                       *)

\* grpcConn.Write with len(src) = k > 0: one frame holding src.  A Write of
\* an empty slice returns 0 without sending and is a stuttering step.
Write(k) ==
  /\ ~closeSent /\ ~cancelled
  /\ sent + k <= MaxBytes
  /\ frames' = Append(frames, Bytes(sent + 1, sent + k))
  /\ sent' = sent + k
  /\ UNCHANGED <<closeSent, cancelled, buf, offset, rpc, dstLen, part, got>>

\* grpcConn.Close on the client side: bidiClientStream.Close is CloseSend.
CloseSend ==
  /\ ~closeSent /\ ~cancelled
  /\ closeSent' = TRUE
  /\ UNCHANGED <<sent, frames, cancelled, buf, offset, rpc, dstLen, part, got>>

\* The client's context is cancelled; gRPC ends the stream with Canceled.
Cancel ==
  /\ ~cancelled
  /\ cancelled' = TRUE
  /\ UNCHANGED <<sent, frames, closeSent, buf, offset, rpc, dstLen, part, got>>

-----------------------------------------------------------------------------
(* The reading side: one call at a time, Read or WriteTo.                  *)

\* Read(dst) with len(dst) = d.  The closed check never fires.
StartRead(d) ==
  /\ rpc = "idle"
  /\ rpc' = "fill" /\ dstLen' = d /\ part' = <<>>
  /\ UNCHANGED <<sent, frames, closeSent, cancelled, buf, offset, got>>

\* One pass of the loop in Read: fillSlice(dst[m:]) copies what buf still
\* holds, and Read returns (m, nil) if dst is full, else goes on to Recv.
FillFullOffByOne(n, d) == n > d

FillFull(n, d) == n >= d

Fill ==
  LET n == MinOf(Len(Rest), dstLen - Len(part))
      p == part \o SubSeq(buf, offset + 1, offset + n)
  IN /\ rpc = "fill"
     /\ offset' = offset + n
     /\ IF FillFull(n, dstLen - Len(part))
          THEN /\ got' = got \o p /\ part' = <<>> /\ rpc' = "idle"
          ELSE /\ part' = p /\ rpc' = "recv" /\ UNCHANGED got
     /\ UNCHANGED <<sent, frames, closeSent, cancelled, buf, dstLen>>

\* src, err := conn.stream.Recv() with a frame to receive: it replaces buf
\* and resets the offset.  A buffered frame may still be received after
\* cancellation.
RecvKeepsOffset ==
  /\ rpc = "recv" /\ frames # <<>>
  /\ buf' = Head(frames) /\ frames' = Tail(frames)
  /\ rpc' = "fill"
  /\ UNCHANGED <<sent, closeSent, cancelled, offset, dstLen, part, got>>

Recv ==
  /\ rpc = "recv" /\ frames # <<>>
  /\ buf' = Head(frames) /\ frames' = Tail(frames) /\ offset' = 0
  /\ rpc' = "fill"
  /\ UNCHANGED <<sent, closeSent, cancelled, dstLen, part, got>>

\* Recv fails: Read returns (m, err) with the bytes it has copied.  The
\* error ends the caller's reading.
RecvEnd ==
  /\ rpc = "recv" /\ RecvFails
  /\ rpc' = "done" /\ got' = got \o part /\ part' = <<>>
  /\ UNCHANGED <<sent, frames, closeSent, cancelled, buf, offset, dstLen>>

\* WriteTo(dst) first writes buf[offset:] to dst, then empties buf.
StartWriteToDropsHeld ==
  /\ rpc = "idle"
  /\ buf' = <<>> /\ offset' = 0 /\ rpc' = "writeTo"
  /\ UNCHANGED <<sent, frames, closeSent, cancelled, dstLen, part, got>>

StartWriteTo ==
  /\ rpc = "idle"
  /\ got' = got \o Rest
  /\ buf' = <<>> /\ offset' = 0 /\ rpc' = "writeTo"
  /\ UNCHANGED <<sent, frames, closeSent, cancelled, dstLen, part>>

\* The WriteTo loop: every frame received is written to dst.
WriteToRecv ==
  /\ rpc = "writeTo" /\ frames # <<>>
  /\ got' = got \o Head(frames) /\ frames' = Tail(frames)
  /\ UNCHANGED <<sent, closeSent, cancelled, buf, offset, rpc, dstLen, part>>

\* isNormalClosedErr: EOF or Canceled ends WriteTo with success.
WriteToEnd ==
  /\ rpc = "writeTo" /\ RecvFails
  /\ rpc' = "done"
  /\ UNCHANGED <<sent, frames, closeSent, cancelled, buf, offset, dstLen, part, got>>

Writer == (\E k \in ChunkSizes \ {0} : Write(k)) \/ CloseSend \/ Cancel

Reader == \/ \E d \in ReadSizes : StartRead(d)
          \/ Fill \/ Recv \/ RecvEnd
          \/ StartWriteTo \/ WriteToRecv \/ WriteToEnd

Next == Writer \/ Reader

\* The reader's goroutine is scheduled: a call it has started progresses.
\* Starting a call is the caller's choice, and the writer is the peer.
Spec == Init /\ [][Next]_vars
          /\ WF_vars(Fill) /\ WF_vars(Recv) /\ WF_vars(RecvEnd)
          /\ WF_vars(WriteToRecv) /\ WF_vars(WriteToEnd)

-----------------------------------------------------------------------------
(* Properties.                                                             *)

\* The adapter seen through the byte-stream contract: bytes written are the
\* writer's, the writer's side is closed by CloseSend and aborted by a
\* cancellation, bytes delivered are those returned to the reader's
\* caller, and the stream is finished for the reader when its Read or
\* WriteTo has returned the end.
StreamState == IF cancelled THEN "aborted" ELSE IF closeSent THEN "closed" ELSE "open"

Abstract == INSTANCE ByteStream
              WITH written <- sent, state <- StreamState,
                   delivered <- got, finished <- (rpc = "done")

\* Spec 4.1 and the round trip of section 8: whatever the chunking of the
\* Writes and the sizes of the Reads, and however Read and WriteTo calls
\* are mixed, every step of writer and reader is a step of a reliable
\* ordered byte stream: the reader's caller gets the written bytes in
\* order, nothing repeated or skipped, and sees the end before the last
\* byte written only if the RPC was cancelled.
ImplementsByteStream == Abstract!Spec

\* Spec 4.1 / 8.3: a writer that half-closes has every byte it wrote
\* delivered, even if the RPC is cancelled afterwards (the hub cancels the
\* stream as soon as ServeHTTP returns, right after the deferred CloseSend).
HalfCloseDeliversAll == (rpc = "done" /\ closeSent) => Len(got) = sent

\* Once the writer has half-closed or the RPC is cancelled, the reader's
\* Read or WriteTo in progress returns: Read's Recv loop and WriteTo's loop
\* both end on the error Recv reports when the stream is over, so no
\* reader stays blocked on a stream that will carry nothing more.
CallReturnsAfterStreamEnds ==
  ((closeSent \/ cancelled) /\ rpc \in {"fill", "recv", "writeTo"})
    ~> rpc \in {"idle", "done"}

=============================================================================
