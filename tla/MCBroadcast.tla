---------------------------- MODULE MCBroadcast ----------------------------
(***************************************************************************)
(* Broadcast for TLC.  Two publishing connections and two subscribe        *)
(* handlers; every channel buffer is cut from 10 to 1, so a full publish   *)
(* channel, a full subscriber channel (a drop) and a full subscribe or     *)
(* unsubscribe channel all occur within four events.                       *)
(***************************************************************************)
EXTENDS Broadcast

CONSTANTS p1, p2, s1, s2

MCPublishers == {p1, p2}
MCSubscribers == {s1, s2}
MCMaxPublish == 2
MCCap == 1
=============================================================================
