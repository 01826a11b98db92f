------------------------------ MODULE RoundRobin ------------------------------
(***************************************************************************)
(* Probe selection in Core.forward (internal/hub/core.go).  The cursor is  *)
(* a channel of capacity one holding the next probe index (NewCore puts    *)
(* 0 in it); a request takes the index out, which makes every other        *)
(* request block, and puts the successor back.  Each request is one        *)
(* ServeHTTP goroutine; it forwards once, since its connection is          *)
(* hijacked.  Dialing and relaying come after the selection and are        *)
(* modelled in Forward.                                                    *)
(***************************************************************************)
EXTENDS Naturals, Sequences

CONSTANTS
  Requests,    \* concurrent ServeHTTP goroutines
  NumProbes    \* len(core.probes); NewCore panics on 0

ASSUME NumProbes \in Nat \ {0} /\ Requests # {}

VARIABLES
  next,     \* core.next: <<>> or <<index>>
  pc,       \* "idle", "take" (blocked on <-core.next), "holding", "done"
  idx,      \* probeIdx of each request
  chosen    \* history: probe indices in the order requests took them

vars == <<next, pc, idx, chosen>>

(* Every index in the cursor slot, held or chosen is a valid index into    *)
(* core.probes, which forward reads as core.probes[probeIdx].             *)
TypeOK ==
  /\ next \in Seq(0..NumProbes - 1) /\ Len(next) <= 1
  /\ pc \in [Requests -> {"idle", "take", "holding", "done"}]
  /\ idx \in [Requests -> 0..NumProbes - 1]
  /\ chosen \in Seq(0..NumProbes - 1)

Init ==
  /\ next = <<0>>
  /\ pc = [r \in Requests |-> "idle"]
  /\ idx = [r \in Requests |-> 0]
  /\ chosen = <<>>

(* ServeHTTP has parsed and hijacked, and calls core.forward.              *)
Arrive(r) ==
  /\ pc[r] = "idle"
  /\ pc' = [pc EXCEPT ![r] = "take"]
  /\ UNCHANGED <<next, idx, chosen>>

(* probeIdx := <-core.next                                                 *)
Take(r) ==
  /\ pc[r] = "take"
  /\ next # <<>>
  /\ idx' = [idx EXCEPT ![r] = Head(next)]
  /\ next' = <<>>
  /\ chosen' = Append(chosen, Head(next))
  /\ pc' = [pc EXCEPT ![r] = "holding"]

(* Mutation: the boundary test off by one (probeIdx >= len(core.probes)).  *)
SuccessorOffByOne(i) == IF i >= NumProbes THEN 0 ELSE i + 1

(* The successor of probeIdx, as the if/else in forward computes it.       *)
Successor(i) == IF i >= NumProbes - 1 THEN 0 ELSE i + 1

(* Mutation: the wrap branch forgets to put the index back.                *)
PutForgetsWrap(r) ==
  /\ pc[r] = "holding"
  /\ next' = IF idx[r] >= NumProbes - 1 THEN <<>> ELSE <<idx[r] + 1>>
  /\ pc' = [pc EXCEPT ![r] = "done"]
  /\ UNCHANGED <<idx, chosen>>

(* core.next <- successor; then probe := core.probes[probeIdx] and the      *)
(* request goes on to dial (Forward), holding no shared state.             *)
Put(r) ==
  /\ pc[r] = "holding"
  /\ next' = <<Successor(idx[r])>>
  /\ pc' = [pc EXCEPT ![r] = "done"]
  /\ UNCHANGED <<idx, chosen>>

Next == \E r \in Requests : Arrive(r) \/ Take(r) \/ Put(r)

(* A goroutine holding the index runs on (weak fairness); goroutines       *)
(* blocked on <-core.next are queued FIFO by the runtime, so one that can  *)
(* take again and again does take (strong fairness).                       *)
Spec ==
  /\ Init /\ [][Next]_vars
  /\ \A r \in Requests : WF_vars(Put(r)) /\ SF_vars(Take(r))

-----------------------------------------------------------------------------
(* The refinement mapping: while a request holds the index the abstract    *)
(* cursor has already moved past it.                                       *)
Holder == CHOOSE r \in Requests : pc[r] = "holding"
cursorBar == IF next # <<>> THEN Head(next) ELSE (idx[Holder] + 1) % NumProbes

Abstract == INSTANCE RoundRobinCursor WITH cursor <- cursorBar

(* Refinement (spec 8.1, scenario S4): concurrent requests select probes   *)
(* as one atomic cursor would, 0, 1, ..., NumProbes-1, 0, ... in the order *)
(* their selections complete, and no two requests get the same turn.      *)
SelectionIsRoundRobin == Abstract!Spec

(* Liveness: a request waiting for the cursor eventually gets a probe.     *)
EveryRequestGetsProbe == \A r \in Requests : pc[r] = "take" ~> pc[r] = "done"
=============================================================================
