---------------------------- MODULE MCScaleDown ----------------------------
(***************************************************************************)
(* An instance of ScaleDown for TLC: groups a1 and a2 of trace a, and one  *)
(* of trace b, on the only shard.                                          *)
(***************************************************************************)
EXTENDS ScaleDown

CONSTANTS a1, a2, b1, a, b, s1

MCTraceOf == [g \in Groups |-> IF g = b1 THEN b ELSE a]
MCShardOf == [t \in Traces |-> s1]
============================================================================
