----------------------------- MODULE MCShardDrain -----------------------------
(* Instances of ShardDrain for TLC. *)
EXTENDS ShardDrain
=============================================================================
