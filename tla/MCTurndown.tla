------------------------------ MODULE MCTurndown ------------------------------
(* Small instances of Turndown for TLC. *)
EXTENDS Turndown

CONSTANTS s1, s2

Start(deployed, p, e, m, t) ==
  [shards |-> deployed, policy |-> p, edits |-> e, moves |-> m, troubles |-> t]

MCStarts ==
  {Start({s1}, "RequireIdle", 3, 0, 0), Start({s1}, "RequireIdle", 2, 1, 0),
   Start({s1}, "RequireIdle", 2, 0, 1), Start({s1}, "RequireIdle", 1, 1, 1),
   Start({}, "RequireIdle", 1, 0, 1), Start({s1}, "Immediate", 1, 0, 1)}
===============================================================================
