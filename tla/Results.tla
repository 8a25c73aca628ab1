-------------------------------- MODULE Results --------------------------------
(***************************************************************************)
(* operator/results: how a reconcile pass sums up the wishes of its steps  *)
(* to be called again.  A result asks to be queued at once (requeue), after*)
(* a delay (after > 0), or not at all.  The first error is kept beside it  *)
(* and does not change it.                                                 *)
(***************************************************************************)
EXTENDS Integers

Nothing == [requeue |-> FALSE, after |-> 0]

\* Builder.Requeue, on the result so far.
Requeue(result) == [requeue |-> TRUE, after |-> 0]

\* Builder.RequeueAfter.
RequeueAfter(result, delay) ==
  IF result.requeue \/ (0 < result.after /\ result.after < delay)
  THEN result
  ELSE [result EXCEPT !.after = delay]

\* Builder.Merge.
Merge(result, other) ==
  LET asked == IF other.requeue THEN Requeue(result) ELSE result
  IN  IF other.after > 0 THEN RequeueAfter(asked, other.after) ELSE asked

\* What a Builder can return when every delay it was given is positive.
Result ==
  {r \in [requeue : BOOLEAN, after : Nat] : r.requeue => r.after = 0}

\* Whether a result has the object queued by some time from now.
QueuedBy(result, time) == result.requeue \/ (0 < result.after /\ result.after <= time)
================================================================================
