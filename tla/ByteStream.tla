----------------------------- MODULE ByteStream -----------------------------
(***************************************************************************)
(* What the specification asks of one direction of the stream-as-Conn      *)
(* adapter (section 4.1, and the round-trip property of section 8): a      *)
(* reliable, ordered byte stream.  The writer writes bytes, then closes    *)
(* its side; the RPC may be aborted at any time.  The reader receives the  *)
(* bytes written, in order, each once, and sees the end of the stream     *)
(* only after every byte written before a close, unless the stream was     *)
(* aborted, which may lose what is still in flight.                        *)
(*                                                                         *)
(* Bytes are numbered in write order, so the k-th byte written is k.       *)
(***************************************************************************)
EXTENDS Naturals, Sequences

CONSTANT MaxBytes

VARIABLES
  written,    \* bytes the writer has written
  state,      \* "open", "closed" by the writer, or "aborted"
  delivered,  \* bytes the reader has received, in order
  finished    \* the reader has seen the end of the stream

vars == <<written, state, delivered, finished>>

\* The next k bytes after those already delivered.
NextBytes(k) == [i \in 1..k |-> Len(delivered) + i]

Init ==
  /\ written = 0 /\ state = "open"
  /\ delivered = <<>> /\ finished = FALSE

Write(k) ==
  /\ state = "open" /\ k > 0 /\ written + k <= MaxBytes
  /\ written' = written + k
  /\ UNCHANGED <<state, delivered, finished>>

Close ==
  /\ state = "open"
  /\ state' = "closed"
  /\ UNCHANGED <<written, delivered, finished>>

Abort ==
  /\ state # "aborted"
  /\ state' = "aborted"
  /\ UNCHANGED <<written, delivered, finished>>

\* The reader receives the next k bytes, only bytes already written.
Deliver(k) ==
  /\ ~finished /\ k > 0 /\ Len(delivered) + k <= written
  /\ delivered' = delivered \o NextBytes(k)
  /\ UNCHANGED <<written, state, finished>>

\* The reader receives a last k bytes (maybe none) and sees the end: all
\* that was written before the close, or anything after an abort.
Finish(k) ==
  /\ ~finished /\ Len(delivered) + k <= written
  /\ delivered' = delivered \o NextBytes(k)
  /\ finished' = TRUE
  /\ \/ state = "aborted"
     \/ state = "closed" /\ Len(delivered') = written
  /\ UNCHANGED <<written, state>>

Next ==
  \/ \E k \in 0..MaxBytes : Write(k) \/ Deliver(k) \/ Finish(k)
  \/ Close \/ Abort

Spec == Init /\ [][Next]_vars
=============================================================================
