----------------------------- MODULE Regulator -----------------------------
(***************************************************************************)
(* The memory regulator (internal/memory/regulator.go): on each tick it    *)
(* reads the heap usage and sets the capacity of the primary cache.        *)
(* Ratios are kept exact, in percent of the target heap.                   *)
(***************************************************************************)
EXTENDS Integers

CONSTANTS
  MinSize,      \* capacity the regulator never goes below
  MaxSize,      \* capacity the regulator never goes above
  TargetHeap,   \* target_heap_bytes
  HeapReadings  \* the heap usages runtime.ReadMemStats may report

\* What NewRegulator accepts: minSize >= 0, maxSize > minSize, targetHeap > 0.
ASSUME SizeAssumption ==
  /\ MinSize \in Nat
  /\ MaxSize \in Nat
  /\ MinSize < MaxSize

ASSUME HeapAssumption ==
  /\ TargetHeap \in Nat \ {0}
  /\ HeapReadings \subseteq Nat

----------------------------------------------------------------------------
\* The pressure modes: above 130% of the target, above 115%, above 100%, and
\* below 85%.  Between 85% and 100% the capacity is left alone.
Emergency(heap)        == 100 * heap > 130 * TargetHeap
HighPressure(heap)     == 100 * heap > 115 * TargetHeap
\* Mutant: a dead zone up to 110% of the target.
ModeratePressureLate(heap) == 100 * heap > 110 * TargetHeap
ModeratePressure(heap) == heap > TargetHeap
MayGrow(heap)          == 100 * heap < 85 * TargetHeap

\* int(a / b) for b > 0 where the quotient is computed in floating point by
\* two roundings: when b divides a, the float may fall just below the integer.
\* The rounding up to an integer less than one part in 2^51 above is left out:
\* it takes a heap whose square times the capacity is above 2^51, and yields one
\* entry more, still far below the present size in the mode that computes it.
RoundedQuotients(a, b) ==
  IF a % b = 0 /\ a > 0 THEN {a \div b, a \div b - 1} ELSE {a \div b}

\* Growth by 2%.  Mutant: by 1%.
grownSlower(size) == (size * 101) \div 100
grown(size) == (size * 102) \div 100

\* Mutant: the formulas of the two pressure modes are swapped.
RequestedSwapped(size, heap) ==
  IF Emergency(heap) THEN {MinSize}
  ELSE IF HighPressure(heap) THEN {(size * TargetHeap) \div heap}
  ELSE IF ModeratePressure(heap)
    THEN RoundedQuotients(size * TargetHeap * TargetHeap, heap * heap)
  ELSE IF MayGrow(heap) THEN {grown(size)}
  ELSE {size}

\* The capacities one evaluation of the switch may ask for.
Requested(size, heap) ==
  IF Emergency(heap) THEN {MinSize}
  ELSE IF HighPressure(heap)
    THEN RoundedQuotients(size * TargetHeap * TargetHeap, heap * heap)
  ELSE IF ModeratePressure(heap) THEN {(size * TargetHeap) \div heap}
  ELSE IF MayGrow(heap) THEN {grown(size)}
  ELSE {size}

\* Mutants: the lower bound is forgotten; what is too large becomes the minimum.
clampAbove(x) == IF x > MaxSize THEN MaxSize ELSE x
clampToMin(x) == IF x > MaxSize \/ x < MinSize THEN MinSize ELSE x
clamp(x) == IF x > MaxSize THEN MaxSize ELSE IF x < MinSize THEN MinSize ELSE x

\* What RegulateCacheSize may return; the cache is resized to it if it differs.
RegulateCacheSize(size, heap) == {clamp(x) : x \in Requested(size, heap)}
============================================================================
