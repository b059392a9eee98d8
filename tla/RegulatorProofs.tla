-------------------------- MODULE RegulatorProofs --------------------------
(***************************************************************************)
(* The regulator keeps the capacity between its bounds and never works     *)
(* against the pressure, for every target, every heap reading and every    *)
(* pair of bounds: the facts about division that its four formulas need.   *)
(***************************************************************************)
EXTENDS RegulatorLoop, TLAPS

\* Integer division by a positive number, as the provers need it.
LEMMA QuotientBounds ==
  ASSUME NEW a \in Nat, NEW b \in Nat \ {0}
  PROVE  /\ a \div b \in Nat
         /\ b * (a \div b) <= a
         /\ a < b * ((a \div b) + 1)
  OBVIOUS

\* A quotient is at most n when the dividend is at most n times the divisor.
LEMMA QuotientAtMost ==
  ASSUME NEW a \in Nat, NEW b \in Nat \ {0}, NEW n \in Nat, a <= n * b
  PROVE  a \div b <= n
<1> DEFINE k == a \div b
<1>1. k \in Nat /\ b * k <= a
  BY QuotientBounds
<1> HIDE DEF k
<1>2. SUFFICES ASSUME k > n PROVE FALSE
  BY <1>1 DEF k
<1>3. b * k >= b * (n + 1)
  BY <1>1, <1>2
<1>4. b * (n + 1) = n * b + b
  OBVIOUS
<1> QED
  BY <1>1, <1>3, <1>4

\* The new size, as the least and the greatest thing the clamp does to it.
LEMMA ClampBounds ==
  ASSUME NEW x \in Int
  PROVE  /\ clamp(x) \in MinSize..MaxSize
         /\ \A n \in MinSize..MaxSize : (x <= n => clamp(x) <= n) /\ (x >= n => clamp(x) >= n)
  BY SizeAssumption DEF clamp

\* Above the target every formula asks for at most the present size.
LEMMA ShrinkRequests ==
  ASSUME NEW size \in MinSize..MaxSize, NEW heap \in HeapReadings, heap > TargetHeap,
         NEW x \in Requested(size, heap)
  PROVE  x \in Int /\ x <= size
<1>1. /\ size \in Nat /\ MinSize \in Nat /\ MinSize <= size
      /\ heap \in Nat \ {0} /\ TargetHeap \in Nat \ {0}
  BY SizeAssumption, HeapAssumption
<1>2. ModeratePressure(heap)
  BY DEF ModeratePressure
<1>3. CASE x = MinSize
  BY <1>1, <1>3
<1>4. CASE x = (size * TargetHeap) \div heap
  <2>1. size * TargetHeap \in Nat /\ size * TargetHeap <= size * heap
    BY <1>1
  <2> QED
    BY <1>1, <1>4, <2>1, QuotientAtMost, QuotientBounds
<1>5. CASE x \in RoundedQuotients(size * TargetHeap * TargetHeap, heap * heap)
  <2> DEFINE a == size * TargetHeap * TargetHeap
             b == heap * heap
  <2>1. TargetHeap * TargetHeap <= heap * heap
    <3>1. TargetHeap * TargetHeap <= TargetHeap * heap
      BY <1>1
    <3>2. TargetHeap * heap <= heap * heap
      BY <1>1
    <3>3. TargetHeap * TargetHeap \in Nat /\ TargetHeap * heap \in Nat /\ heap * heap \in Nat
      BY <1>1
    <3> QED
      BY <3>1, <3>2, <3>3
  <2>2. a = size * (TargetHeap * TargetHeap)
    BY <1>1
  <2>3. /\ a \in Nat /\ b \in Nat \ {0} /\ TargetHeap * TargetHeap \in Nat
    BY <1>1
  <2>4. a <= size * b
    <3> DEFINE c == TargetHeap * TargetHeap
    <3>1. a = size * c /\ c <= b /\ c \in Nat /\ b \in Nat
      BY <2>1, <2>2, <2>3
    <3> HIDE DEF a, b, c
    <3> QED
      BY <1>1, <3>1
  <2> HIDE DEF a, b
  <2>5. a \div b \in Nat /\ a \div b <= size
    BY <1>1, <2>3, <2>4, QuotientAtMost, QuotientBounds
  <2>6. x = a \div b \/ x = a \div b - 1
    BY <1>5 DEF RoundedQuotients, a, b
  <2> QED
    BY <1>1, <2>5, <2>6
<1> QED
  BY <1>2, <1>3, <1>4, <1>5 DEF Requested

\* At or below the target every formula asks for at least the present size.
LEMMA GrowRequests ==
  ASSUME NEW size \in MinSize..MaxSize, NEW heap \in HeapReadings, heap <= TargetHeap,
         NEW x \in Requested(size, heap)
  PROVE  x \in Int /\ x >= size
<1>1. size \in Nat /\ heap \in Nat /\ TargetHeap \in Nat \ {0}
  BY SizeAssumption, HeapAssumption
<1>2. ~Emergency(heap) /\ ~HighPressure(heap) /\ ~ModeratePressure(heap)
  BY <1>1 DEF Emergency, HighPressure, ModeratePressure
<1>3. x = size \/ x = grown(size)
  BY <1>2 DEF Requested
<1> QED
  BY <1>1, <1>3 DEF grown

\* What a run of the regulator returns.
LEMMA RegulatedBounds ==
  ASSUME NEW size \in MinSize..MaxSize, NEW heap \in HeapReadings,
         NEW new \in RegulateCacheSize(size, heap)
  PROVE  /\ new \in MinSize..MaxSize
         /\ heap > TargetHeap => new <= size
         /\ heap <= TargetHeap => new >= size
<1>1. PICK x \in Requested(size, heap) : new = clamp(x)
  BY DEF RegulateCacheSize
<1>2. heap > TargetHeap \/ heap <= TargetHeap
  BY HeapAssumption
<1>3. CASE heap > TargetHeap
  BY <1>1, <1>3, ShrinkRequests, ClampBounds, HeapAssumption
<1>4. CASE heap <= TargetHeap
  BY <1>1, <1>4, GrowRequests, ClampBounds, HeapAssumption
<1> QED
  BY <1>2, <1>3, <1>4

\* 60% of the maximum is within the bounds, and each run stays within them.
LEMMA RegulatorTypeStep ==
  /\ Init => RegulatorTypeOK
  /\ RegulatorTypeOK /\ [Next]_loopVars => RegulatorTypeOK'
<1>1. Init => RegulatorTypeOK
  BY SizeAssumption, QuarterAssumption DEF Init, RegulatorTypeOK
<1>2. ASSUME RegulatorTypeOK, [Next]_loopVars PROVE RegulatorTypeOK'
  BY <1>2, RegulatedBounds DEF RegulatorTypeOK, Next, HeapChanges, Regulate, loopVars
<1> QED
  BY <1>1, <1>2

\* The capacity of the primary cache stays between a quarter of
\* primary_cache_size and primary_cache_size, whatever the heap does.
THEOREM RegulatorBounded == Spec => []RegulatorTypeOK
  BY RegulatorTypeStep, PTL DEF Spec

\* No run of the regulator grows the cache above the target heap, or shrinks
\* it at or below the target, for every configuration and every reading: the
\* truncations and the clamp never turn a correction around.
THEOREM RegulatorFollowsPressure == Spec => FollowsPressure
<1> DEFINE Follows ==
      /\ heapUsage > TargetHeap => cacheSize' <= cacheSize
      /\ heapUsage <= TargetHeap => cacheSize' >= cacheSize
<1>1. ASSUME RegulatorTypeOK, [Next]_loopVars PROVE [Follows]_loopVars
  <2>1. CASE Regulate
    BY <1>1, <2>1, RegulatedBounds DEF RegulatorTypeOK, Regulate
  <2>2. CASE HeapChanges
    BY <1>1, <2>2, SizeAssumption DEF RegulatorTypeOK, HeapChanges
  <2> QED
    BY <1>1, <2>1, <2>2 DEF Next
<1> QED
  BY <1>1, RegulatorBounded, PTL DEF Spec, FollowsPressure

\* Quotients compare as cross products do.
LEMMA QuotientMonotone ==
  ASSUME NEW a \in Nat, NEW b \in Nat \ {0}, NEW c \in Nat, NEW d \in Nat \ {0}, a * d <= c * b
  PROVE  a \div b <= c \div d
<1> DEFINE k == a \div b
           m == c \div d
<1>1. k \in Nat /\ b * k <= a /\ m \in Nat /\ c < d * (m + 1)
  BY QuotientBounds
<1> HIDE DEF k, m
<1>2. SUFFICES ASSUME k >= m + 1 PROVE FALSE
  BY <1>1 DEF k, m
<1>3. d * (m + 1) <= d * k
  BY <1>1, <1>2
<1>4. c < d * k
  <2>1. d * k \in Nat /\ d * (m + 1) \in Nat
    BY <1>1
  <2> QED
    BY <1>1, <1>3, <2>1
<1>5. c * b < (d * k) * b
  <2> DEFINE e == d * k
  <2>1. e \in Nat /\ c + 1 <= e
    BY <1>1, <1>4
  <2> HIDE DEF e
  <2>2. (c + 1) * b <= e * b
    BY <2>1
  <2>3. (c + 1) * b = c * b + b
    OBVIOUS
  <2>4. c * b \in Nat /\ e * b \in Nat
    BY <2>1
  <2> QED
    BY <2>2, <2>3, <2>4 DEF e
<1>6. (d * k) * b = (b * k) * d
  BY <1>1
<1>7. (b * k) * d <= a * d
  BY <1>1
<1> QED
  <2>1. a * d \in Nat /\ c * b \in Nat /\ (b * k) * d \in Nat
    BY <1>1
  <2> QED
    BY <1>5, <1>6, <1>7, <2>1

\* Strictly so where the larger quotient is exact.
LEMMA QuotientBelowExact ==
  ASSUME NEW a \in Nat, NEW b \in Nat \ {0}, NEW c \in Nat, NEW d \in Nat \ {0},
         a * d < c * b, c % d = 0
  PROVE  a \div b <= c \div d - 1
<1> DEFINE k == a \div b
           m == c \div d
<1>1. k \in Nat /\ b * k <= a /\ m \in Nat /\ c = d * m
  BY QuotientBounds
<1> HIDE DEF k, m
<1>2. SUFFICES ASSUME k >= m PROVE FALSE
  BY <1>1 DEF k, m
<1>3. c * b = (b * m) * d
  BY <1>1
<1>4. b * m <= a
  <2>1. b * m <= b * k
    BY <1>1, <1>2
  <2>2. b * m \in Nat /\ b * k \in Nat
    BY <1>1
  <2> QED
    BY <1>1, <2>1, <2>2
<1>5. (b * m) * d <= a * d
  <2> DEFINE e == b * m
  <2>1. e \in Nat /\ e <= a
    BY <1>1, <1>4
  <2> HIDE DEF e
  <2> QED
    BY <2>1 DEF e
<1> QED
  <2>1. a * d \in Nat /\ c * b \in Nat /\ (b * m) * d \in Nat
    BY <1>1
  <2> QED
    BY <1>3, <1>5, <2>1

\* What the formulas of the two middle modes ask for, one reading above another.
LEMMA PressureRequests ==
  ASSUME NEW size \in MinSize..MaxSize, NEW h1 \in HeapReadings, NEW h2 \in HeapReadings,
         TargetHeap < h1, h1 < h2, ~Emergency(h2),
         NEW x \in Requested(size, h1), NEW y \in Requested(size, h2)
  PROVE  x \in Int /\ y \in Int /\ y <= x
<1> DEFINE T == TargetHeap
           a == size * T
           A == size * T * T
           b1 == h1 * h1
           b2 == h2 * h2
<1>1. size \in Nat /\ h1 \in Nat \ {0} /\ h2 \in Nat \ {0} /\ T \in Nat \ {0} /\ T < h1 /\ h1 < h2
  BY SizeAssumption, HeapAssumption
<1>2. a \in Nat /\ A \in Nat /\ A = a * T /\ b1 \in Nat \ {0} /\ b2 \in Nat \ {0}
  BY <1>1
<1>3. h1 * h1 < h2 * h2 /\ T * h1 <= h2 * h2
  <2>1. h1 * h1 < h1 * h2 /\ h1 * h2 < h2 * h2 /\ T * h1 <= h1 * h1
    BY <1>1
  <2>2. h1 * h1 \in Nat /\ h1 * h2 \in Nat /\ h2 * h2 \in Nat /\ T * h1 \in Nat
    BY <1>1
  <2> QED
    BY <2>1, <2>2
<1>4. ModeratePressure(h1) /\ ModeratePressure(h2) /\ ~Emergency(h1)
      /\ (HighPressure(h1) => HighPressure(h2))
  BY <1>1 DEF ModeratePressure, HighPressure, Emergency
<1> HIDE DEF T, a, A, b1, b2
<1>5. CASE ~HighPressure(h1) /\ ~HighPressure(h2)
  <2>1. x = a \div h1 /\ y = a \div h2
    BY <1>4, <1>5 DEF Requested, a, T
  <2>2. a * h1 <= a * h2
    BY <1>1, <1>2
  <2>3. a \div h2 <= a \div h1
    BY <1>1, <1>2, <2>2, QuotientMonotone
  <2>4. a \div h2 \in Nat /\ a \div h1 \in Nat
    BY <1>1, <1>2, QuotientBounds
  <2> QED
    BY <2>1, <2>3, <2>4
<1>6. CASE ~HighPressure(h1) /\ HighPressure(h2)
  <2>1. x = a \div h1 /\ y \in RoundedQuotients(A, b2)
    BY <1>4, <1>6 DEF Requested, a, A, b2, T
  <2>2. y \in {A \div b2, A \div b2 - 1}
    BY <2>1 DEF RoundedQuotients
  <2>3. A * h1 <= a * b2
    <3> DEFINE c == T * h1
    <3>1. c \in Nat /\ c <= b2 /\ A * h1 = a * c
      BY <1>1, <1>2, <1>3 DEF b2
    <3> HIDE DEF c
    <3> QED
      BY <1>2, <3>1
  <2>4. A \div b2 <= a \div h1 /\ A \div b2 \in Nat /\ a \div h1 \in Nat
    BY <1>1, <1>2, <2>3, QuotientMonotone, QuotientBounds
  <2> QED
    BY <2>1, <2>2, <2>4
<1>7. CASE HighPressure(h1)
  <2>1. x \in RoundedQuotients(A, b1) /\ y \in RoundedQuotients(A, b2)
    BY <1>4, <1>7 DEF Requested, A, b1, b2, T
  <2>2. y \in {A \div b2, A \div b2 - 1}
    BY <2>1 DEF RoundedQuotients
  <2>3. A \div b1 \in Nat /\ A \div b2 \in Nat
    BY <1>2, QuotientBounds
  <2>4. b1 < b2
    BY <1>3 DEF b1, b2
  <2>5. CASE A % b1 = 0 /\ A > 0
    <3>1. x \in {A \div b1, A \div b1 - 1}
      BY <2>1, <2>5 DEF RoundedQuotients
    <3>2. A * b1 < A * b2
      BY <1>2, <2>4, <2>5
    <3>3. A \div b2 <= A \div b1 - 1
      BY <1>2, <2>5, <3>2, QuotientBelowExact
    <3> QED
      BY <2>2, <2>3, <3>1, <3>3
  <2>6. CASE ~(A % b1 = 0 /\ A > 0)
    <3>1. x = A \div b1
      BY <2>1, <2>6 DEF RoundedQuotients
    <3>2. A * b1 <= A * b2
      BY <1>2, <2>4
    <3>3. A \div b2 <= A \div b1
      BY <1>2, <3>2, QuotientMonotone
    <3> QED
      BY <2>2, <2>3, <3>1, <3>3
  <2> QED
    BY <2>5, <2>6
<1> QED
  BY <1>4, <1>5, <1>6, <1>7

\* The clamp keeps the order, and nothing is below the minimum.
LEMMA ClampMonotone ==
  ASSUME NEW x \in Int, NEW y \in Int, y <= x
  PROVE  clamp(y) <= clamp(x)
  BY SizeAssumption DEF clamp

\* Of two readings the higher one never leads to the larger cache, for every size,
\* target and pair of readings: the four formulas fit together at their thresholds,
\* whatever way floating point rounds.
THEOREM RegulatorIsMonotonic == Spec => []MorePressureNeverLarger
<1>1. RegulatorTypeOK => MorePressureNeverLarger
  <2> SUFFICES ASSUME cacheSize \in MinSize..MaxSize,
                      NEW h1 \in HeapReadings, NEW h2 \in HeapReadings, h1 < h2,
                      NEW x \in Requested(cacheSize, h1), NEW y \in Requested(cacheSize, h2)
               PROVE  clamp(y) <= clamp(x)
    BY DEF RegulatorTypeOK, MorePressureNeverLarger, RegulateCacheSize
  <2>1. /\ h1 \in Nat /\ h2 \in Nat /\ TargetHeap \in Nat \ {0} /\ MinSize \in Nat
        /\ cacheSize \in Nat
    BY SizeAssumption, HeapAssumption
  <2>2. x \in Int /\ y \in Int
    BY <2>1, ShrinkRequests, GrowRequests
  <2>3. CASE Emergency(h2)
    BY <2>1, <2>2, <2>3, ClampBounds, SizeAssumption DEF Requested, clamp
  <2>4. CASE ~Emergency(h2) /\ TargetHeap < h1
    BY <2>2, <2>4, PressureRequests, ClampMonotone
  <2>5. CASE h1 <= TargetHeap /\ TargetHeap < h2
    <3>1. x >= cacheSize /\ y <= cacheSize
      BY <2>5, ShrinkRequests, GrowRequests
    <3> QED
      BY <2>1, <2>2, <3>1, ClampMonotone
  <2>6. CASE h2 <= TargetHeap
    <3>1. ~Emergency(h2) /\ ~HighPressure(h2) /\ ~ModeratePressure(h2)
          /\ ~Emergency(h1) /\ ~HighPressure(h1) /\ ~ModeratePressure(h1)
      BY <2>1, <2>6 DEF Emergency, HighPressure, ModeratePressure
    <3>2. MayGrow(h2) => MayGrow(h1)
      BY <2>1 DEF MayGrow
    <3>3. y <= x
      BY <2>1, <3>1, <3>2 DEF Requested, grown
    <3> QED
      BY <2>2, <3>3, ClampMonotone
  <2> QED
    BY <2>1, <2>3, <2>4, <2>5, <2>6
<1> QED
  BY <1>1, RegulatorBounded, PTL
=============================================================================
