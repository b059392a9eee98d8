---------------------------- MODULE MCLifecycle ----------------------------
(***************************************************************************)
(* An instance of Lifecycle for TLC: groups a1 and a2 of trace a on one    *)
(* shard, one of b on the other and one of c on the first.                 *)
(***************************************************************************)
EXTENDS Lifecycle

CONSTANTS a1, a2, b1, c1, a, b, c, s1, s2

MCTraceOf == [g \in Groups |-> IF g = b1 THEN b ELSE IF g = c1 THEN c ELSE a]
MCShardOf == [t \in Traces |-> IF t = b THEN s2 ELSE s1]
============================================================================
