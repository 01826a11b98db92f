---------------------------- MODULE LossyMulticast ----------------------------
(***************************************************************************)
(* The promise of a broadcaster to its subscribers (spec 4.6 and 8.6): a   *)
(* publisher appends events to one publication order; each subscriber      *)
(* receives a subsequence of that order -- events may be skipped, never   *)
(* reordered, repeated or invented.  Events are named by their position in *)
(* the publication order.                                                  *)
(***************************************************************************)
EXTENDS Naturals, Sequences

CONSTANT Subscribers

VARIABLES published, received

Init ==
  /\ published = 0
  /\ received = [s \in Subscribers |-> <<>>]

PublishEvent ==
  /\ published' = published + 1
  /\ UNCHANGED received

(* s receives some published event later than the last one it received.   *)
ReceiveEvent(s) ==
  /\ \E e \in 1..published :
       /\ received[s] = <<>> \/ e > received[s][Len(received[s])]
       /\ received' = [received EXCEPT ![s] = Append(@, e)]
  /\ UNCHANGED published

Next == PublishEvent \/ \E s \in Subscribers : ReceiveEvent(s)

Spec == Init /\ [][Next]_<<published, received>>
=============================================================================
