--------------------------- MODULE RegulatorLoop ---------------------------
(***************************************************************************)
(* The regulator and the heap in a loop: the heap usage changes at will,   *)
(* and from time to time a shard listener runs RegulateCacheSize           *)
(* (processor.go:301-309).  The primary cache starts at 60% of its maximum *)
(* and a quarter of it is the minimum.                                     *)
(***************************************************************************)
EXTENDS Regulator

\* newAtlassianSamplingProcessor passes NewRegulator a quarter of the maximum.
ASSUME QuarterAssumption == MinSize = MaxSize \div 4

VARIABLES cacheSize, heapUsage

loopVars == <<cacheSize, heapUsage>>

Init ==
  /\ cacheSize = (6 * MaxSize) \div 10
  /\ heapUsage \in HeapReadings

HeapChanges ==
  /\ heapUsage' \in HeapReadings
  /\ UNCHANGED cacheSize

Regulate ==
  /\ cacheSize' \in RegulateCacheSize(cacheSize, heapUsage)
  /\ UNCHANGED heapUsage

Next == HeapChanges \/ Regulate

Spec == Init /\ [][Next]_loopVars

\* The ticker fires every memTickerInterval and some listener takes the tick.
FairSpec == Spec /\ WF_loopVars(Regulate)

----------------------------------------------------------------------------
\* The type invariant, with the bounds the clamp promises.
RegulatorTypeOK ==
  /\ cacheSize \in MinSize..MaxSize
  /\ heapUsage \in HeapReadings

\* The controller never works against the pressure it sees: above the target
\* it does not grow the cache, at or below it it does not shrink it, whatever
\* the truncations of its four formulas and the clamp do together.
FollowsPressure ==
  [][/\ heapUsage > TargetHeap => cacheSize' <= cacheSize
     /\ heapUsage <= TargetHeap => cacheSize' >= cacheSize]_loopVars

\* A higher reading never leads to a larger cache than a lower one would have,
\* across the boundaries of the pressure modes.
MorePressureNeverLarger ==
  \A h1, h2 \in HeapReadings : h1 < h2 =>
    \A x \in RegulateCacheSize(cacheSize, h1), y \in RegulateCacheSize(cacheSize, h2) : y <= x

\* A heap that stays above the target shrinks the cache to its minimum.
ShedsUnderPressure ==
  <>[](heapUsage > TargetHeap) => <>(cacheSize = MinSize)

lowReadings == {h \in HeapReadings : MayGrow(h)}

\* "growThreshold: below this ratio, the cache is allowed to grow gently"
\* (regulator.go:14): a heap that stays below 85% of the target lets the cache
\* grow back to its maximum.
GrowsBack ==
  <>[](heapUsage \in lowReadings) => <>(cacheSize = MaxSize)
============================================================================
