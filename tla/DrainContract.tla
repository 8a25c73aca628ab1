----------------------------- MODULE DrainContract -----------------------------
(***************************************************************************)
(* What the drain controller promises to drainers: leave to delete a       *)
(* tablet is a single slot per shard.  A tablet is asked for, is granted   *)
(* the slot when nobody holds it, is removed only while it holds it, and   *)
(* comes back without it.                                                  *)
(***************************************************************************)
CONSTANT Tablets

VARIABLE slot  \* "serving", "requested", "granted" or "removed" by tablet

Init == slot = [t \in Tablets |-> "serving"]

Move(t, from, to) == slot[t] = from /\ slot' = [slot EXCEPT ![t] = to]

Request(t) == Move(t, "serving", "requested")
Grant(t)   == (\A u \in Tablets : slot[u] # "granted")
                /\ Move(t, "requested", "granted")
Remove(t)  == Move(t, "granted", "removed")
Restore(t) == Move(t, "removed", "serving")

Next == \E t \in Tablets : Request(t) \/ Grant(t) \/ Remove(t) \/ Restore(t)

Spec == Init /\ [][Next]_slot
=============================================================================
