---------------------------- MODULE MCProcessor ----------------------------
(***************************************************************************)
(* Instances of SamplingProcessor for TLC.  Batches are named by their     *)
(* trace: a1 and a2 are spans of trace a, aYes and aNo its decision spans. *)
(***************************************************************************)
EXTENDS ProcessorProperties

CONSTANTS a1, a2, aYes, aNo, b1, b2, c1, a, b, c,
          r1, r2, r3, r4, s1, s2

MCTraceOf ==
  [x \in Batches |-> CASE x \in {a1, a2, aYes, aNo} -> a
                       [] x \in {b1, b2} -> b
                       [] OTHER -> c]
MCKindOf ==
  [x \in Batches |-> CASE x = aYes -> "sampledDecision"
                       [] x = aNo -> "nonSampledDecision"
                       [] OTHER -> "spans"]

\* One call for each batch, but for b1 and b2, which come in with a1 and a2.
MCRequestOf ==
  [x \in Batches |-> CASE x \in {a1, b1} -> r1
                       [] x \in {a2, b2, aNo} -> r2
                       [] x = aYes -> r3
                       [] OTHER -> r4]

\* Trace a on one shard, the others on the second; or all on one.
TwoShards == [t \in Traces |-> IF t = a THEN s1 ELSE s2]
OneShard  == [t \in Traces |-> s1]
============================================================================
