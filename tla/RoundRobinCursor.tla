--------------------------- MODULE RoundRobinCursor ---------------------------
(***************************************************************************)
(* Probe selection as spec 4.3 and 8.1 state it: one shared cursor over a  *)
(* pool of NumProbes probes, read and advanced by one atomic step per      *)
(* request, wrapping at the pool size.  chosen is the order in which       *)
(* requests selected probes.                                               *)
(***************************************************************************)
EXTENDS Naturals, Sequences

CONSTANT NumProbes

VARIABLES cursor, chosen

Init ==
  /\ cursor = 0
  /\ chosen = <<>>

Select ==
  /\ chosen' = Append(chosen, cursor)
  /\ cursor' = (cursor + 1) % NumProbes

Spec == Init /\ [][Select]_<<cursor, chosen>>
=============================================================================
