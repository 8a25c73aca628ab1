-------------------------------- MODULE Drain --------------------------------
(***************************************************************************)
(* The drain annotations of one tablet Pod and the state machine over      *)
(* them (pkg/operator/drain/drain.go).                                     *)
(*                                                                         *)
(* An annotated object is any record with the Boolean fields started,      *)
(* acked and finished: whether the "started", "acknowledged" and           *)
(* "finished" annotation keys are present (the values never matter).       *)
(* Tablets are numbers; their order is the order of the alias strings.     *)
(***************************************************************************)
EXTENDS Integers

Started(obj)      == obj.started
Acknowledged(obj) == obj.acked
Finished(obj)     == obj.finished

\* The mutators change the in-memory object only; the caller writes it back.
Start(obj)         == [obj EXCEPT !.started = TRUE]
Acknowledge(obj)   == [obj EXCEPT !.acked = TRUE]
Unacknowledge(obj) == [obj EXCEPT !.acked = FALSE]
Finish(obj)        == [obj EXCEPT !.finished = TRUE]
Unfinish(obj)      == [obj EXCEPT !.finished = FALSE]

States == {"NotDraining", "Draining", "Acknowledged", "Finished"}

(***************************************************************************)
(* A finished object that was never acknowledged is reported as an error   *)
(* by the code, which then still treats it as Finished.                    *)
(***************************************************************************)
GetState(obj) ==
  CASE Finished(obj)                         -> "Finished"
    [] ~Finished(obj) /\ Acknowledged(obj)   -> "Acknowledged"
    [] /\ ~Finished(obj)
       /\ ~Acknowledged(obj)
       /\ Started(obj)                       -> "Draining"
    [] OTHER                                 -> "NotDraining"

InState(states, s) == {name \in DOMAIN states : states[name] = s}

\* Nothing may be marked finished while a drain is unacknowledged or done.
CanMarkFinished(states) ==
  InState(states, "Draining") = {} /\ InState(states, "Finished") = {}

\* Mutation: the loop does not return after the first one.
EveryAcknowledged(states) == InState(states, "Acknowledged")

\* The first acknowledged name in sort order, as a set of at most one element.
FirstAcknowledged(states) ==
  {name \in InState(states, "Acknowledged") :
     \A other \in InState(states, "Acknowledged") : name <= other}

(***************************************************************************)
(* The names that must change, each with its new state: every drain not    *)
(* yet acknowledged is, and only if there is none, nor a finished one, the *)
(* first acknowledged drain is finished.                                   *)
(***************************************************************************)
StateTransitions(states) ==
  IF CanMarkFinished(states)
  THEN [name \in FirstAcknowledged(states) |-> "Finished"]
  ELSE [name \in InState(states, "Draining") |-> "Acknowledged"]
=============================================================================
