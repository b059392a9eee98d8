--------------------------- MODULE DecisionProofs --------------------------
(***************************************************************************)
(* The life of a trace before its verdict, for whatever configurations,    *)
(* policies and batches: sizes that Validate lets through work; a verdict  *)
(* has one placeholder span at most; the metadata is that of the spans     *)
(* seen, but for starts of 0; a low priority is that of one policy; and it *)
(* does not matter how the spans are cut into batches.                     *)
(***************************************************************************)
EXTENDS TraceDecision, TLAPS, WellFoundedInduction

\* The arithmetic between Validate's bounds and those of the constructors:
\* halves, quarters and 60% of a size that has a positive half (config.go:92,
\* processor.go:113 and 155).
LEMMA ValidSizes ==
  ASSUME NEW c \in Configs, Validate(c)
  PROVE  /\ ~makePanics(c)
         /\ NewLRUCache(initialPrimaryCacheSize(c))
         /\ NewRegulator(c.primary \div 4, c.primary)
         /\ initialPrimaryCacheSize(c) \in c.primary \div 4..c.primary
         /\ c.secondary <= initialPrimaryCacheSize(c)
<1> DEFINE p == c.primary
           s == c.secondary
           h == p \div 2
           q == p \div 4
           i == (6 * p) \div 10
<1>1. p \in Int /\ s \in Int /\ c.shards \in Int /\ c.buffer \in Int
  BY ConfigsAssumption
<1>2. p > 0 /\ s > 0 /\ s <= h /\ c.buffer >= 0 /\ c.shards > 0
  BY DEF Validate
<1>3. h \in Int /\ q \in Int /\ i \in Int
  BY <1>1
<1>4. 2 * h <= p /\ 4 * q <= p /\ p < 4 * q + 4 /\ 10 * i <= 6 * p /\ 6 * p < 10 * i + 10
  BY <1>1
<1> HIDE DEF p, s, h, q, i
\* 2h <= p < (10i + 10) / 6, so 6h < 5i + 5: with i < h, h would be below 1.
<1>5. i >= h /\ h >= 1
  BY <1>1, <1>2, <1>3, <1>4
<1>6. i > 0 /\ q >= 0 /\ q < p /\ q <= i /\ i <= p /\ s <= i
  BY <1>1, <1>2, <1>3, <1>4, <1>5
<1> QED
  BY <1>1, <1>2, <1>3, <1>6
     DEF p, s, q, i, makePanics, NewLRUCache, NewRegulator, initialPrimaryCacheSize

\* What the steps of the collector keep: past validation the configuration is
\* valid, and only the constructor refuses it.
SetupInv ==
  /\ config \in Configs
  /\ phase \notin {"decoded", "rejected"} => Validate(config)
  /\ phase # "panicked"
  /\ phase = "refused" => ~newAtlassianSamplingProcessor(config)
  /\ phase \in {"built", "running"} => newPolicies(config.policies)

LEMMA SetupInit == Init => SetupInv
  BY DEF Init, SetupInv

LEMMA SetupStep == SetupInv /\ [Next]_traceVars => SetupInv'
<1> SUFFICES ASSUME SetupInv, [Next]_traceVars PROVE SetupInv'
  OBVIOUS
<1> USE DEF SetupInv
<1>1. CASE ValidateConfig
  BY <1>1 DEF ValidateConfig
<1>2. CASE Create
  <2>1. ~makePanics(config)
    BY <1>2, ValidSizes DEF Create
  <2> QED
    BY <1>2, <2>1 DEF Create, newAtlassianSamplingProcessor
<1>3. CASE StartDecider
  BY <1>3 DEF StartDecider
<1>4. CASE Reconfigure
  BY <1>4 DEF Reconfigure
<1>5. CASE UNCHANGED setupVars
  BY <1>5 DEF setupVars
<1>6. (\E trace \in BatchShapes, reading \in RemoteReadings : Arrive(trace, reading))
        => UNCHANGED setupVars
  BY DEF Arrive
<1>7. (\E d \in {"Sampled", "NotSampled"} : DecisionSpan(d)) \/ Evict \/ Forget
        => UNCHANGED setupVars
  BY DEF DecisionSpan, Evict, Forget
<1>8. UNCHANGED traceVars => UNCHANGED setupVars
  BY DEF traceVars
<1> QED
  BY <1>1, <1>2, <1>3, <1>4, <1>5, <1>6, <1>7, <1>8 DEF Next

\* Sizes that Config.Validate accepts never make newAtlassianSamplingProcessor
\* panic or fail, and start the regulated cache within its bounds.
THEOREM ValidSizesAlwaysWork == Spec => []ValidatedSizesWork
<1>1. SetupInv => ValidatedSizesWork
  <2> SUFFICES ASSUME SetupInv PROVE ValidatedSizesWork
    OBVIOUS
  <2>1. CASE phase \in {"decoded", "rejected"}
    BY <2>1 DEF SetupInv, ValidatedSizesWork
  <2>2. CASE phase \notin {"decoded", "rejected"}
    BY <2>2, ValidSizes DEF SetupInv, ValidatedSizesWork, newAtlassianSamplingProcessor
  <2> QED
    BY <2>1, <2>2
<1> QED
  BY <1>1, SetupInit, SetupStep, PTL DEF Spec

----------------------------------------------------------------------------
(* Placeholder spans *)

\* A verdict and pending data exclude each other, and are only there while the
\* processor runs: the policies do not change under them.
VerdictInv ==
  /\ config \in Configs
  /\ cached # NoTrace => verdict = "none"
  /\ verdict = "none" => announced = <<>>
  /\ phase # "running" => verdict = "none" /\ cached = NoTrace
  /\ PlaceholderStandsAlone

\* No policy is called NoPolicy, which a verdict without a policy carries.
LEMMA NobodyIsFlagged == ASSUME config \in Configs PROVE NoPolicy \notin flagged
  BY ConfigsAssumption DEF flagged, PolicyList

LEMMA VerdictStep == VerdictInv /\ [Next]_traceVars => VerdictInv'
<1> SUFFICES ASSUME VerdictInv, [Next]_traceVars PROVE VerdictInv'
  OBVIOUS
<1> USE DEF VerdictInv
<1>1. CASE ValidateConfig
  BY <1>1 DEF ValidateConfig, PlaceholderStandsAlone, flagged, PolicyList
<1>2. CASE Create
  BY <1>2 DEF Create, PlaceholderStandsAlone, flagged, PolicyList
<1>3. CASE StartDecider
  BY <1>3 DEF StartDecider, PlaceholderStandsAlone, flagged, PolicyList
<1>4. CASE Reconfigure
  BY <1>4 DEF Reconfigure, PlaceholderStandsAlone
<1>5. ASSUME NEW trace \in BatchShapes, NEW reading \in RemoteReadings, Arrive(trace, reading)
      PROVE  VerdictInv'
  <2> DEFINE ctx == [trace |-> trace, md |-> merged(trace), reading |-> reading,
                     getters |-> getters]
             d == MakeDecision(PolicyList, ctx)
  <2>1. /\ phase = "running" /\ undecided /\ UNCHANGED setupVars
        /\ last'.policy = d.policy
        /\ \/ /\ d.decision \in {"Sampled", "NotSampled"}
              /\ verdict' = d.decision /\ cached' = NoTrace
              /\ announced' = announced \o
                   (IF d.decision = "NotSampled" THEN placeholder(d.policy) ELSE <<>>)
           \/ UNCHANGED <<verdict, announced>>
    BY <1>5 DEF Arrive
  <2> HIDE DEF d
  <2>2. announced = <<>> /\ verdict = "none"
    BY <2>1 DEF undecided
  <2>3. UNCHANGED flagged
    BY <2>1 DEF setupVars, flagged, PolicyList
  <2>4. CASE UNCHANGED <<verdict, announced>>
    BY <2>1, <2>2, <2>4 DEF setupVars, PlaceholderStandsAlone
  <2>5. CASE ~UNCHANGED <<verdict, announced>>
    <3>1. announced' = IF d.decision = "NotSampled" /\ d.policy \in flagged
                       THEN <<d.policy>> ELSE <<>>
      BY <2>1, <2>2, <2>5 DEF placeholder
    <3>2. PlaceholderStandsAlone'
      BY <2>1, <2>3, <2>5, <3>1 DEF PlaceholderStandsAlone
    <3> QED
      BY <2>1, <2>5, <3>2 DEF setupVars
  <2> QED
    BY <2>4, <2>5
<1>6. ASSUME NEW d \in {"Sampled", "NotSampled"}, DecisionSpan(d) PROVE VerdictInv'
  <2>1. announced = <<>> /\ NoPolicy \notin flagged /\ UNCHANGED flagged /\ UNCHANGED setupVars
    BY <1>6, NobodyIsFlagged DEF DecisionSpan, undecided, setupVars, flagged, PolicyList
  <2>2. announced' = <<>> /\ last'.policy = NoPolicy
    BY <1>6, <2>1 DEF DecisionSpan, placeholder, noBatch
  <2> QED
    BY <1>6, <2>1, <2>2 DEF DecisionSpan, undecided, setupVars, PlaceholderStandsAlone
<1>7. CASE Evict
  <2>1. announced = <<>> /\ NoPolicy \notin flagged /\ UNCHANGED flagged
    BY <1>7, NobodyIsFlagged DEF Evict, setupVars, flagged, PolicyList
  <2> QED
    BY <1>7, <2>1 DEF Evict, setupVars, PlaceholderStandsAlone, noBatch
<1>8. CASE Forget
  BY <1>8 DEF Forget, setupVars, PlaceholderStandsAlone
<1>9. CASE UNCHANGED traceVars
  BY <1>9 DEF traceVars, setupVars, PlaceholderStandsAlone, flagged, PolicyList
<1> QED
  BY <1>1, <1>2, <1>3, <1>4, <1>5, <1>6, <1>7, <1>8, <1>9 DEF Next

\* A verdict has at most one placeholder span, named after the flagged policy
\* that gave it, and data that is evicted or decided elsewhere has none
\* (releaseNotSampledTrace, processor.go:513-534).
THEOREM PlaceholdersStandAlone == Spec => []PlaceholderStandsAlone
<1>1. Init => VerdictInv
  BY DEF Init, VerdictInv, PlaceholderStandsAlone
<1>2. VerdictInv => PlaceholderStandsAlone
  BY DEF VerdictInv
<1> QED
  BY <1>1, <1>2, VerdictStep, PTL DEF Spec

----------------------------------------------------------------------------
(* The metadata of spans: what the folds over a batch compute *)

\* A set of naturals that is not empty has a least element.
LEMMA LeastOf ==
  ASSUME NEW B \in SUBSET Nat, B # {}
  PROVE  \E n \in B : \A m \in B : n =< m
<1>1. \E n \in B : \A m \in B : ~ (<<m, n>> \in OpToRel(<, Nat))
  BY WFMin, NatLessThanWellFounded
<1>2. \A n, m \in Nat : m < n => <<m, n>> \in OpToRel(<, Nat)
  BY DEF OpToRel
<1>3. PICK n \in B : \A m \in B : ~ (<<m, n>> \in OpToRel(<, Nat))
  BY <1>1
<1>4. \A m \in B : ~(m < n)
  BY <1>2, <1>3
<1> QED
  BY <1>4

LEMMA MinIs ==
  ASSUME NEW B \in SUBSET Nat, B # {}
  PROVE  Min(B) \in B /\ \A m \in B : Min(B) =< m
  BY LeastOf DEF Min

\* Finitely many naturals have an upper bound.
LEMMA Bounded ==
  ASSUME NEW n \in Nat, NEW v \in [1..n -> Nat]
  PROVE  \E b \in Nat : \A i \in 1..n : v[i] =< b
<1> DEFINE P(k) == \E b \in Nat : \A i \in 1..k : v[i] =< b
           Bad == {k \in Nat : k =< n /\ ~P(k)}
<1> SUFFICES ASSUME Bad # {} PROVE FALSE
  <2>1. n \in Nat /\ n =< n
    OBVIOUS
  <2>2. P(n) => \E b \in Nat : \A i \in 1..n : v[i] =< b
    OBVIOUS
  <2> HIDE DEF P
  <2> QED
    BY <2>1, <2>2
<1> HIDE DEF P
<1>1. PICK k \in Bad : \A m \in Bad : k =< m
  <2>1. Bad \in SUBSET Nat
    OBVIOUS
  <2> HIDE DEF Bad
  <2> QED
    BY <2>1, LeastOf
<1>2. k # 0
  <2>1. P(0)
    <3>1. \A i \in 1..0 : v[i] =< 0
      OBVIOUS
    <3> QED
      BY <3>1 DEF P
  <2> QED
    BY <2>1, <1>1
<1>3. k \in Nat /\ k - 1 \in Nat /\ k =< n /\ k \in 1..n
  BY <1>1, <1>2
<1>4. P(k - 1)
  <2>1. k - 1 \notin Bad
    <3> HIDE DEF Bad
    <3> QED
      BY <1>1, <1>3
  <2> QED
    BY <2>1, <1>3
<1>5. PICK b \in Nat : \A i \in 1..(k - 1) : v[i] =< b
  BY <1>4 DEF P
<1>6. PICK w \in Nat : v[k] =< w /\ b =< w
  <2>1. v[k] \in Nat
    BY <1>3
  <2>2. CASE v[k] =< b
    BY <2>2
  <2>3. CASE b =< v[k]
    BY <2>1, <2>3
  <2> QED
    BY <2>1, <2>2, <2>3
<1>7. \A i \in 1..k : v[i] =< w
  <2> TAKE i \in 1..k
  <2>1. i = k \/ i \in 1..(k - 1)
    BY <1>3
  <2>2. i \in 1..n
    BY <1>3
  <2>3. v[i] \in Nat
    BY <2>2
  <2> QED
    BY <1>5, <1>6, <2>1, <2>3
<1> QED
  BY <1>1, <1>7 DEF P

LEMMA MaxIs ==
  ASSUME NEW B \in SUBSET Nat, B # {}, NEW b \in Nat, \A m \in B : m =< b
  PROVE  Max(B) \in B /\ \A m \in B : m =< Max(B)
<1> DEFINE C == {b - m : m \in B}
<1>1. C \in SUBSET Nat /\ C # {}
  <2>1. \A m \in B : b - m \in Nat
    OBVIOUS
  <2> QED
    BY <2>1
<1>2. PICK c \in C : \A d \in C : c =< d
  BY <1>1, LeastOf
<1>3. PICK x \in B : c = b - x
  BY <1>2
<1>4. \A m \in B : x >= m
  <2> TAKE m \in B
  <2>1. c =< b - m
    BY <1>2
  <2> QED
    BY <2>1, <1>3
<1> QED
  BY <1>4 DEF Max

\* The greatest value at some positions.
LEMMA MaxOfPositions ==
  ASSUME NEW n \in Nat, NEW v \in [1..n -> Nat], NEW s \in SUBSET (1..n), s # {}
  PROVE  /\ Max({v[i] : i \in s}) \in {v[i] : i \in s}
         /\ \A i \in s : v[i] =< Max({v[j] : j \in s})
<1>1. PICK b \in Nat : \A i \in 1..n : v[i] =< b
  BY Bounded
<1>2. {v[i] : i \in s} \in SUBSET Nat /\ {v[i] : i \in s} # {} /\ \A m \in {v[i] : i \in s} : m =< b
  BY <1>1
<1>3. \A m \in {v[i] : i \in s} : m =< Max({v[j] : j \in s})
  BY <1>2, MaxIs
<1> QED
  BY <1>2, <1>3, MaxIs

LEMMA MaxOfInterval ==
  ASSUME NEW n \in Nat, NEW s \in SUBSET (1..n), s # {}
  PROVE  Max(s) \in s /\ \A i \in s : i =< Max(s)
<1>1. s \in SUBSET Nat /\ \A i \in s : i =< n
  OBVIOUS
<1> QED
  BY <1>1, MaxIs

\* Two functions of the initial segments of 1..n agree on all of them when each
\* value follows from the one before.
LEMMA SameOnPrefixes ==
  ASSUME NEW n \in Nat, NEW f, NEW g, f[{}] = g[{}],
         \A k \in 1..n : f[1..(k - 1)] = g[1..(k - 1)] => f[1..k] = g[1..k]
  PROVE  f[1..n] = g[1..n]
<1> DEFINE Bad == {k \in Nat : k =< n /\ f[1..k] # g[1..k]}
<1> SUFFICES ASSUME Bad # {} PROVE FALSE
  <2>1. n \in Nat /\ n =< n
    OBVIOUS
  <2> QED
    BY <2>1
<1>1. PICK k \in Bad : \A m \in Bad : k =< m
  <2>1. Bad \in SUBSET Nat
    OBVIOUS
  <2> HIDE DEF Bad
  <2> QED
    BY <2>1, LeastOf
<1>2. k # 0
  <2>1. 1..0 = {}
    OBVIOUS
  <2> QED
    BY <1>1, <2>1
<1>3. k \in 1..n /\ k - 1 \in Nat /\ k - 1 =< n
  BY <1>1, <1>2
<1>4. k - 1 \notin Bad
  <2> HIDE DEF Bad
  <2> QED
    BY <1>1, <1>3
<1>5. f[1..(k - 1)] = g[1..(k - 1)]
  BY <1>3, <1>4
<1> QED
  BY <1>1, <1>3, <1>5

\* An initial segment without its last position.
LEMMA Segment ==
  ASSUME NEW n \in Nat, NEW k \in 1..n
  PROVE  1..k \in SUBSET (1..n) /\ 1..k # {} /\ (1..k) \ {Max(1..k)} = 1..(k - 1) /\ Max(1..k) = k
<1>1. k \in 1..k /\ \A i \in 1..k : i \in 1..n /\ i =< k
  OBVIOUS
<1>2. 1..k \in SUBSET (1..n) /\ 1..k # {}
  BY <1>1
<1>3. Max(1..k) \in 1..k /\ \A i \in 1..k : i =< Max(1..k)
  BY <1>2, MaxOfInterval
<1>4. Max(1..k) = k
  BY <1>1, <1>3
<1>5. (1..k) \ {k} = 1..(k - 1)
  OBVIOUS
<1> QED
  BY <1>2, <1>4, <1>5

\* The least value at some positions.
LEMMA MinOfPositions ==
  ASSUME NEW n \in Nat, NEW v \in [1..n -> Nat], NEW s \in SUBSET (1..n), s # {}
  PROVE  /\ Min({v[i] : i \in s}) \in {v[i] : i \in s}
         /\ \A i \in s : Min({v[j] : j \in s}) =< v[i]
<1>1. {v[i] : i \in s} \in SUBSET Nat /\ {v[i] : i \in s} # {}
  <2>1. \A i \in s : v[i] \in Nat
    OBVIOUS
  <2> QED
    BY <2>1
<1>2. \A m \in {v[i] : i \in s} : Min({v[j] : j \in s}) =< m
  BY <1>1, MinIs
<1> QED
  BY <1>1, <1>2, MinIs

\* NewTraceData finds the latest end (metadata.go).
LEMMA LatestOf ==
  ASSUME NEW q \in Seq(Span)
  PROVE  FoldLeft(later, 0, q) = IF q = <<>> THEN 0 ELSE Max({q[i].end : i \in DOMAIN q})
<1> DEFINE n == Len(q)
           v == [i \in 1..n |-> q[i].end]
           Step(it) == [s \in SUBSET DOMAIN q |->
                          IF s = {} THEN 0 ELSE later(it[s \ {Max(s)}], q[Max(s)])]
           f == [s \in SUBSET (1..n) |-> IF s = {} THEN 0 ELSE Max({v[i] : i \in s})]
<1>1. n \in Nat /\ DOMAIN q = 1..n /\ v \in [1..n -> Nat] /\ \A i \in 1..n : v[i] = q[i].end
  <2>1. \A i \in 1..Len(q) : q[i] \in Span
    OBVIOUS
  <2>2. \A i \in 1..Len(q) : q[i].end \in Nat
    BY <2>1 DEF Span
  <2> QED
    BY <2>2
<1>2. FoldLeft(later, 0, q) = (CHOOSE it : it = Step(it))[1..n]
  BY <1>1 DEF FoldLeft, MapThenFoldSet
<1> HIDE DEF n, v
<1>3. f = Step(f)
  <2>1. \A s \in SUBSET (1..n) : s # {} => f[s] = later(f[s \ {Max(s)}], q[Max(s)])
    <3> TAKE s \in SUBSET (1..n)
    <3> HAVE s # {}
    <3> DEFINE x == Max(s)
               r == s \ {x}
               A == {v[i] : i \in s}
               B == {v[i] : i \in r}
    <3>1. /\ x \in s /\ x \in 1..n /\ r \in SUBSET (1..n) /\ v[x] \in Nat
          /\ \A i \in 1..n : v[i] \in Nat
      BY <1>1, MaxOfInterval
    <3>2. q[x].end = v[x]
      BY <1>1, <3>1
    <3>3. f[s] = Max(A) /\ f[r] = IF r = {} THEN 0 ELSE Max(B)
      BY <3>1
    <3>4. Max(A) \in A /\ \A i \in s : v[i] =< Max(A)
      BY <1>1, MaxOfPositions
    <3>5. r # {} => Max(B) \in B /\ \A i \in r : v[i] =< Max(B)
      BY <1>1, <3>1, MaxOfPositions
    <3> HIDE DEF x, r, f
    <3>6. \A i \in s : i = x \/ i \in r
      BY DEF r
    <3>61. r \subseteq s
      BY DEF r
    <3>7. PICK a \in s : Max(A) = v[a]
      BY <3>4
    <3>8. CASE r = {}
      <4>1. f[s] = v[x] /\ f[r] = 0
        BY <3>3, <3>6, <3>7, <3>8
      <4> QED
        BY <4>1, <3>1, <3>2, <3>8 DEF later, x, r
    <3>9. CASE r # {}
      <4>1. PICK b \in r : Max(B) = v[b]
        BY <3>5, <3>9
      <4>2. f[s] = v[a] /\ f[r] = v[b] /\ v[a] \in Nat /\ v[b] \in Nat
        BY <3>1, <3>3, <3>7, <3>9, <4>1
      <4>3. v[b] =< v[a] /\ v[x] =< v[a] /\ (a = x \/ v[a] =< v[b])
        BY <3>1, <3>4, <3>5, <3>6, <3>61, <3>7, <3>9, <4>1, <4>2
      <4>4. f[s] = later(f[r], q[x])
        BY <4>2, <4>3, <3>1, <3>2 DEF later
      <4> QED
        BY <4>4 DEF x, r
    <3> QED
      BY <3>8, <3>9
  <2>2. f[{}] = 0
    OBVIOUS
  <2> HIDE DEF f
  <2>3. Step(f) = [s \in SUBSET (1..n) |-> f[s]]
    BY <1>1, <2>1, <2>2
  <2> QED
    BY <2>3 DEF f
<1> DEFINE it == CHOOSE g : g = Step(g)
<1>4. it = Step(it)
  <2> HIDE DEF f, Step
  <2> QED
    BY <1>3
<1> HIDE DEF it
<1>5. \A s \in SUBSET (1..n) :
        it[s] = IF s = {} THEN 0 ELSE later(it[s \ {Max(s)}], q[Max(s)])
  BY <1>1, <1>4
<1>6. it[1..n] = f[1..n]
  <2>1. \A s \in SUBSET (1..n) :
          f[s] = IF s = {} THEN 0 ELSE later(f[s \ {Max(s)}], q[Max(s)])
    <3> HIDE DEF f
    <3> QED
      BY <1>1, <1>3
  <2> HIDE DEF f
  <2>2. \A k \in 1..n : it[1..(k - 1)] = f[1..(k - 1)] => it[1..k] = f[1..k]
    <3> TAKE k \in 1..n
    <3>1. it[1..k] = later(it[1..(k - 1)], q[k])
      BY <1>1, <1>5, Segment
    <3>2. f[1..k] = later(f[1..(k - 1)], q[k])
      BY <1>1, <2>1, Segment
    <3> QED
      BY <3>1, <3>2
  <2>3. it[{}] = f[{}]
    BY <1>5, <2>1
  <2> QED
    BY <1>1, <2>2, <2>3, SameOnPrefixes
<1>7. f[1..n] = IF q = <<>> THEN 0 ELSE Max({q[i].end : i \in DOMAIN q})
  <2>1. f[1..n] = IF 1..n = {} THEN 0 ELSE Max({v[i] : i \in 1..n})
    OBVIOUS
  <2>2. {v[i] : i \in 1..n} = {q[i].end : i \in DOMAIN q}
    BY <1>1
  <2>3. 1..n = {} <=> q = <<>>
    BY <1>1 DEF n
  <2> QED
    BY <2>1, <2>2, <2>3
<1> QED
  BY <1>2, <1>6, <1>7 DEF it

\* NewTraceData takes a start of 0 for one not set yet: it finds the earliest start
\* after the last of those, which is the earliest of all if there is none.
LEMMA EarliestOf ==
  ASSUME NEW q \in Seq(Span) \ {<<>>}
  PROVE  LET S == {q[i].start : i \in DOMAIN q}
             e == FoldLeft(earlier, 0, q)
         IN e \in S /\ (0 \notin S => e = Min(S))
<1> DEFINE n == Len(q)
           v == [i \in 1..n |-> q[i].start]
           Step(it) == [s \in SUBSET DOMAIN q |->
                          IF s = {} THEN 0 ELSE earlier(it[s \ {Max(s)}], q[Max(s)])]
           After(s) == {i \in s : \A j \in s : i =< j => v[j] # 0}
           f == [s \in SUBSET (1..n) |-> IF After(s) = {} THEN 0 ELSE Min({v[i] : i \in After(s)})]
<1>1. /\ n \in Nat /\ DOMAIN q = 1..n /\ v \in [1..n -> Nat] /\ 1 \in 1..n /\ n \in 1..n
      /\ \A i \in 1..n : v[i] = q[i].start /\ v[i] \in Nat
  <2>1. \A i \in 1..Len(q) : q[i] \in Span
    OBVIOUS
  <2>2. \A i \in 1..Len(q) : q[i].start \in Nat
    BY <2>1 DEF Span
  <2> QED
    BY <2>2
<1>2. FoldLeft(earlier, 0, q) = (CHOOSE it : it = Step(it))[1..n]
  BY <1>1 DEF FoldLeft, MapThenFoldSet
<1> HIDE DEF n, v
<1>3. f = Step(f)
  <2>1. \A s \in SUBSET (1..n) : s # {} => f[s] = earlier(f[s \ {Max(s)}], q[Max(s)])
    <3> TAKE s \in SUBSET (1..n)
    <3> HAVE s # {}
    <3> DEFINE x == Max(s)
               r == s \ {x}
               A == {v[i] : i \in After(s)}
               B == {v[i] : i \in After(r)}
    <3>1. /\ x \in s /\ x \in 1..n /\ r \in SUBSET (1..n) /\ v[x] \in Nat
          /\ \A i \in s : i =< x
      BY <1>1, MaxOfInterval
    <3>2. q[x].start = v[x]
      BY <1>1, <3>1
    <3>3. /\ f[s] = IF After(s) = {} THEN 0 ELSE Min(A)
          /\ f[r] = IF After(r) = {} THEN 0 ELSE Min(B)
      BY <3>1
    <3>4. After(s) \in SUBSET (1..n) /\ After(r) \in SUBSET (1..n)
      BY <3>1
    <3> HIDE DEF x, f
    <3>5. After(s) = IF v[x] = 0 THEN {} ELSE After(r) \cup {x}
      <4>1. CASE v[x] = 0
        BY <3>1, <4>1
      <4>2. CASE v[x] # 0
        <5>1. ASSUME NEW i \in After(s) PROVE i \in After(r) \cup {x}
          BY <5>1
        <5>2. ASSUME NEW i \in After(r) PROVE i \in After(s)
          BY <4>2, <5>2
        <5>3. x \in After(s)
          <6>1. \A j \in s : x =< j => j = x
            BY <3>1
          <6> QED
            BY <3>1, <4>2, <6>1
        <5> QED
          BY <4>2, <5>1, <5>2, <5>3
      <4> QED
        BY <4>1, <4>2
    <3>6. After(s) # {} => Min(A) \in A /\ \A i \in After(s) : Min(A) =< v[i]
      <4> HIDE DEF After
      <4> QED
        BY <1>1, <3>4, MinOfPositions
    <3>7. After(r) # {} => Min(B) \in B /\ \A i \in After(r) : Min(B) =< v[i]
      <4> HIDE DEF After
      <4> QED
        BY <1>1, <3>4, MinOfPositions
    <3>8. \A i \in After(r) : v[i] # 0 /\ v[i] \in Nat
      BY <1>1, <3>4
    <3> HIDE DEF After, r
    <3>9. CASE v[x] = 0
      <4>1. f[s] = 0
        BY <3>3, <3>5, <3>9
      <4>2. f[r] \in Nat
        BY <3>3, <3>7, <3>8
      <4>3. f[s] = earlier(f[r], q[x])
        BY <3>2, <3>9, <4>1, <4>2 DEF earlier
      <4> QED
        BY <4>3 DEF x, r
    <3>10. CASE v[x] # 0 /\ After(r) = {}
      <4>1. f[s] = v[x] /\ f[r] = 0
        BY <3>3, <3>5, <3>6, <3>10
      <4>2. f[s] = earlier(f[r], q[x])
        BY <3>2, <4>1 DEF earlier
      <4> QED
        BY <4>2 DEF x, r
    <3>11. CASE v[x] # 0 /\ After(r) # {}
      <4>1. After(s) = After(r) \cup {x} /\ x \in After(s)
        BY <3>5, <3>11
      <4>2. PICK a \in After(s) : Min(A) = v[a]
        BY <3>6, <4>1
      <4>3. PICK b \in After(r) : Min(B) = v[b]
        BY <3>7, <3>11
      <4>4. f[s] = v[a] /\ f[r] = v[b] /\ v[a] \in Nat /\ v[b] \in Nat /\ v[b] # 0
        BY <3>1, <3>3, <3>8, <3>11, <4>1, <4>2, <4>3
      <4>5. v[a] =< v[b] /\ v[a] =< v[x] /\ (a = x \/ v[b] =< v[a])
        BY <3>6, <3>7, <3>11, <4>1, <4>2, <4>3
      <4>6. f[s] = earlier(f[r], q[x])
        BY <4>4, <4>5, <3>1, <3>2 DEF earlier
      <4> QED
        BY <4>6 DEF x, r
    <3> QED
      BY <3>9, <3>10, <3>11
  <2>2. f[{}] = 0
    OBVIOUS
  <2> HIDE DEF f
  <2>3. Step(f) = [s \in SUBSET (1..n) |-> f[s]]
    BY <1>1, <2>1, <2>2
  <2> QED
    BY <2>3 DEF f
<1> DEFINE it == CHOOSE g : g = Step(g)
<1>4. it = Step(it)
  <2> HIDE DEF f, Step
  <2> QED
    BY <1>3
<1> HIDE DEF it
<1>5. \A s \in SUBSET (1..n) :
        it[s] = IF s = {} THEN 0 ELSE earlier(it[s \ {Max(s)}], q[Max(s)])
  BY <1>1, <1>4
<1>6. it[1..n] = f[1..n]
  <2>1. \A s \in SUBSET (1..n) :
          f[s] = IF s = {} THEN 0 ELSE earlier(f[s \ {Max(s)}], q[Max(s)])
    <3> HIDE DEF f
    <3> QED
      BY <1>1, <1>3
  <2> HIDE DEF f
  <2>2. \A k \in 1..n : it[1..(k - 1)] = f[1..(k - 1)] => it[1..k] = f[1..k]
    <3> TAKE k \in 1..n
    <3>1. it[1..k] = earlier(it[1..(k - 1)], q[k])
      BY <1>1, <1>5, Segment
    <3>2. f[1..k] = earlier(f[1..(k - 1)], q[k])
      BY <1>1, <2>1, Segment
    <3> QED
      BY <3>1, <3>2
  <2>3. it[{}] = f[{}]
    BY <1>5, <2>1
  <2> QED
    BY <1>1, <2>2, <2>3, SameOnPrefixes
<1> DEFINE S == {q[i].start : i \in DOMAIN q}
           P == After(1..n)
<1>7. f[1..n] = IF P = {} THEN 0 ELSE Min({v[i] : i \in P})
  OBVIOUS
<1>8. S = {v[i] : i \in 1..n} /\ P \in SUBSET (1..n)
  BY <1>1
<1>9. P = {} => 0 \in S
  <2>1. n \notin P => v[n] = 0
    BY <1>1
  <2> QED
    BY <1>1, <1>8, <2>1
<1>10. 0 \notin S => P = 1..n
  BY <1>1, <1>8
<1> HIDE DEF f, P
<1>11. P # {} => Min({v[i] : i \in P}) \in {v[i] : i \in P}
  BY <1>1, <1>8, MinOfPositions
<1>12. f[1..n] \in S
  BY <1>7, <1>8, <1>9, <1>11
<1>13. 0 \notin S => f[1..n] = Min(S)
  BY <1>1, <1>7, <1>8, <1>10
<1> QED
  BY <1>2, <1>6, <1>12, <1>13 DEF it

\* The metadata of the spans of q, but for what starts of 0 do to the earliest.
Exact(md, q) ==
  /\ md.spanCount = Len(q)
  /\ md.latestEnd = Max({q[i].end : i \in DOMAIN q})
  /\ md.earliestStart \in {q[i].start : i \in DOMAIN q}
  /\ 0 \notin {q[i].start : i \in DOMAIN q} =>
       md.earliestStart = Min({q[i].start : i \in DOMAIN q})

\* A batch is not empty, and so its span times have bounds.
LEMMA SpanTimes ==
  ASSUME NEW q \in Seq(Span) \ {<<>>}
  PROVE  LET S == {q[i].start : i \in DOMAIN q}
             E == {q[i].end : i \in DOMAIN q}
         IN /\ S \subseteq Nat /\ Min(S) \in S /\ \A m \in S : Min(S) =< m
            /\ E \subseteq Nat /\ Max(E) \in E /\ \A m \in E : m =< Max(E)
<1> DEFINE n == Len(q)
           S == {q[i].start : i \in DOMAIN q}
           E == {q[i].end : i \in DOMAIN q}
           v == [i \in 1..n |-> q[i].end]
<1>1. n \in Nat /\ DOMAIN q = 1..n /\ 1 \in 1..n
  OBVIOUS
<1>2. \A i \in 1..n : q[i].start \in Nat /\ q[i].end \in Nat
  <2>1. \A i \in 1..Len(q) : q[i] \in Span
    OBVIOUS
  <2> QED
    BY <2>1 DEF Span
<1>3. S \in SUBSET Nat /\ S # {} /\ E \in SUBSET Nat /\ E # {}
  BY <1>1, <1>2
<1>4. v \in [1..n -> Nat] /\ \A i \in 1..n : v[i] = q[i].end
  BY <1>2
<1> HIDE DEF n, v
<1>5. PICK b \in Nat : \A i \in 1..n : v[i] =< b
  BY <1>1, <1>4, Bounded
<1>6. \A m \in E : m =< b
  BY <1>1, <1>4, <1>5
<1>7. Min(S) \in S /\ \A m \in S : Min(S) =< m
  <2> HIDE DEF S
  <2> QED
    BY <1>3, MinIs
<1>8. Max(E) \in E /\ \A m \in E : m =< Max(E)
  <2> HIDE DEF E
  <2> QED
    BY <1>3, <1>6, MaxIs
<1> QED
  BY <1>3, <1>7, <1>8

LEMMA NewMetadataIsExact ==
  ASSUME NEW trace \in Seq(Span) \ {<<>>}
  PROVE  NewMetadata(trace) \in Metadata /\ Exact(NewMetadata(trace), trace)
<1>1. NewMetadata(trace).spanCount = Len(trace) /\ Len(trace) \in Nat
  BY DEF NewMetadata
<1> DEFINE S == {trace[i].start : i \in DOMAIN trace}
           e == FoldLeft(earlier, 0, trace)
<1>2. /\ NewMetadata(trace).earliestStart \in S
      /\ 0 \notin S => NewMetadata(trace).earliestStart = Min(S)
  <2>1. e \in S /\ (0 \notin S => e = Min(S))
    BY EarliestOf
  <2> QED
    BY <2>1 DEF NewMetadata
<1>3. NewMetadata(trace).latestEnd = Max({trace[i].end : i \in DOMAIN trace})
  <2>1. FoldLeft(later, 0, trace) = Max({trace[i].end : i \in DOMAIN trace})
    BY LatestOf
  <2> QED
    BY <2>1 DEF NewMetadata
<1>4. S \subseteq Nat /\ Max({trace[i].end : i \in DOMAIN trace}) \in Nat
  BY SpanTimes
<1> QED
  BY <1>1, <1>2, <1>3, <1>4 DEF NewMetadata, Metadata, Exact

\* MergeWith gives what the spans of both would give.
LEMMA MergeIsExact ==
  ASSUME NEW m \in Metadata, NEW o \in Metadata,
         NEW p \in Seq(Span) \ {<<>>}, NEW q \in Seq(Span) \ {<<>>},
         Exact(m, p), Exact(o, q)
  PROVE  /\ MergeWith(m, o) \in Metadata
         /\ p \o q \in Seq(Span) \ {<<>>}
         /\ Exact(MergeWith(m, o), p \o q)
<1> DEFINE r == p \o q
           S(x) == {x[i].start : i \in DOMAIN x}
           E(x) == {x[i].end : i \in DOMAIN x}
<1>1. /\ r \in Seq(Span) /\ r # <<>> /\ Len(r) = Len(p) + Len(q)
      /\ DOMAIN r = 1..Len(r) /\ DOMAIN p = 1..Len(p) /\ DOMAIN q = 1..Len(q)
      /\ Len(p) \in Nat /\ Len(q) \in Nat
  OBVIOUS
<1>2. \A i \in DOMAIN p : i \in DOMAIN r /\ r[i] = p[i]
  BY <1>1
<1>3. \A i \in DOMAIN q : Len(p) + i \in DOMAIN r /\ r[Len(p) + i] = q[i]
  BY <1>1
<1>4. \A i \in DOMAIN r : (i \in DOMAIN p /\ r[i] = p[i])
                           \/ (i - Len(p) \in DOMAIN q /\ r[i] = q[i - Len(p)])
  BY <1>1
<1> HIDE DEF r
<1>5. S(r) = S(p) \cup S(q) /\ E(r) = E(p) \cup E(q)
  <2>1. S(p) \subseteq S(r) /\ E(p) \subseteq E(r)
    BY <1>2
  <2>2. S(q) \subseteq S(r) /\ E(q) \subseteq E(r)
    <3> SUFFICES ASSUME NEW i \in DOMAIN q PROVE q[i].start \in S(r) /\ q[i].end \in E(r)
      OBVIOUS
    <3> QED
      BY <1>3
  <2>3. S(r) \subseteq S(p) \cup S(q) /\ E(r) \subseteq E(p) \cup E(q)
    <3> SUFFICES ASSUME NEW i \in DOMAIN r
                 PROVE  r[i].start \in S(p) \cup S(q) /\ r[i].end \in E(p) \cup E(q)
      OBVIOUS
    <3> QED
      BY <1>4
  <2> QED
    BY <2>1, <2>2, <2>3
<1>6. /\ S(p) \subseteq Nat /\ Min(S(p)) \in S(p) /\ \A x \in S(p) : Min(S(p)) =< x
      /\ S(q) \subseteq Nat /\ Min(S(q)) \in S(q) /\ \A x \in S(q) : Min(S(q)) =< x
      /\ S(r) \subseteq Nat /\ Min(S(r)) \in S(r) /\ \A x \in S(r) : Min(S(r)) =< x
  BY <1>1, SpanTimes
<1>7. /\ E(p) \subseteq Nat /\ Max(E(p)) \in E(p) /\ \A x \in E(p) : x =< Max(E(p))
      /\ E(q) \subseteq Nat /\ Max(E(q)) \in E(q) /\ \A x \in E(q) : x =< Max(E(q))
      /\ E(r) \subseteq Nat /\ Max(E(r)) \in E(r) /\ \A x \in E(r) : x =< Max(E(r))
  BY <1>1, SpanTimes
<1> DEFINE g == MergeWith(m, o)
<1>8. /\ g.spanCount = m.spanCount + o.spanCount
      /\ g.earliestStart = lesser(m.earliestStart, o.earliestStart)
      /\ g.latestEnd = greater(m.latestEnd, o.latestEnd)
  BY DEF MergeWith, Metadata
<1>9. g \in Metadata
  <2>1. /\ m.spanCount + o.spanCount \in Nat
        /\ lesser(m.earliestStart, o.earliestStart) \in Nat
        /\ greater(m.latestEnd, o.latestEnd) \in Nat
    BY DEF lesser, greater, Metadata
  <2>2. higherPriority(m.priority, o.priority) \in {"Unspecified", "Low"}
    BY DEF higherPriority
  <2>3. o.lastLow \in PolicyNames \cup {NoPolicy}
    BY DEF Metadata
  <2>4. g = [m EXCEPT !.spanCount = m.spanCount + o.spanCount,
                      !.earliestStart = lesser(m.earliestStart, o.earliestStart),
                      !.latestEnd = greater(m.latestEnd, o.latestEnd),
                      !.priority = higherPriority(m.priority, o.priority),
                      !.lastLow = o.lastLow]
    BY DEF MergeWith, Metadata
  <2> QED
    BY <2>1, <2>2, <2>3, <2>4 DEF Metadata
<1>10. /\ m.spanCount = Len(p) /\ m.latestEnd = Max(E(p))
       /\ o.spanCount = Len(q) /\ o.latestEnd = Max(E(q))
       /\ m.earliestStart \in S(p) /\ (0 \notin S(p) => m.earliestStart = Min(S(p)))
       /\ o.earliestStart \in S(q) /\ (0 \notin S(q) => o.earliestStart = Min(S(q)))
  BY DEF Exact
<1> HIDE DEF g, S, E
<1>11. lesser(Min(S(p)), Min(S(q))) = Min(S(r))
  <2>1. Min(S(p)) \in Nat /\ Min(S(q)) \in Nat /\ Min(S(r)) \in Nat
    BY <1>6
  <2>2. Min(S(r)) =< Min(S(p)) /\ Min(S(r)) =< Min(S(q))
    BY <1>5, <1>6
  <2>3. Min(S(p)) =< Min(S(r)) \/ Min(S(q)) =< Min(S(r))
    BY <1>5, <1>6
  <2> QED
    BY <2>1, <2>2, <2>3 DEF lesser
<1>12. greater(Max(E(p)), Max(E(q))) = Max(E(r))
  <2>1. Max(E(p)) \in Nat /\ Max(E(q)) \in Nat /\ Max(E(r)) \in Nat
    BY <1>7
  <2>2. Max(E(p)) =< Max(E(r)) /\ Max(E(q)) =< Max(E(r))
    BY <1>5, <1>7
  <2>3. Max(E(r)) =< Max(E(p)) \/ Max(E(r)) =< Max(E(q))
    BY <1>5, <1>7
  <2> QED
    BY <2>1, <2>2, <2>3 DEF greater
<1>13. /\ g.earliestStart \in S(r)
       /\ 0 \notin S(r) => g.earliestStart = Min(S(r))
  <2>1. g.earliestStart \in S(p) \cup S(q)
    BY <1>8, <1>10 DEF lesser
  <2>2. 0 \notin S(r) => 0 \notin S(p) /\ 0 \notin S(q)
    BY <1>5
  <2>3. 0 \notin S(r) => g.earliestStart = lesser(Min(S(p)), Min(S(q)))
    BY <1>8, <1>10, <2>2
  <2> QED
    BY <1>5, <1>11, <2>1, <2>3
<1>14. Exact(g, r)
  BY <1>1, <1>8, <1>10, <1>12, <1>13 DEF Exact, S, E
<1> QED
  BY <1>1, <1>9, <1>14 DEF g, r

----------------------------------------------------------------------------
(* A pending trace *)

\* The cached metadata is that of the spans seen, and low-priority data names a
\* policy.
PendingInv ==
  /\ cached \in Metadata \cup {NoTrace}
  /\ cached = NoTrace => seen = <<>>
  /\ cached # NoTrace =>
       /\ seen \in Seq(Span) \ {<<>>}
       /\ Exact(cached, seen)
       /\ cached.priority = "Low" => cached.lastLow # NoPolicy

\* The decision is that of no policy, or of the first that has a final one.
LEMMA WhoDecides ==
  ASSUME config \in Configs, NEW ctx
  PROVE  LET d == MakeDecision(PolicyList, ctx)
         IN \/ /\ d = [decision |-> "Pending", policy |-> NoPolicy]
               /\ \A i \in DOMAIN PolicyList : policyDecision(PolicyList[i], ctx) \notin Final
            \/ \E k \in DOMAIN PolicyList :
                 /\ d = [decision |-> policyDecision(PolicyList[k], ctx),
                         policy |-> PolicyList[k].name]
                 /\ d.decision \in Final
                 /\ PolicyList[k].name \in PolicyNames \ {NoPolicy}
                 /\ \A i \in DOMAIN PolicyList :
                      i < k => policyDecision(PolicyList[i], ctx) \notin Final
<1> DEFINE decisive == {i \in DOMAIN PolicyList : policyDecision(PolicyList[i], ctx) \in Final}
           k == Min(decisive)
           d == MakeDecision(PolicyList, ctx)
<1>1. DOMAIN PolicyList \in SUBSET Nat
  BY ConfigsAssumption DEF PolicyList
<1>2. CASE decisive = {}
  BY <1>2 DEF MakeDecision
<1>3. CASE decisive # {}
  <2>1. decisive \in SUBSET Nat
    BY <1>1
  <2>2. k \in decisive /\ \A i \in decisive : k =< i
    <3> HIDE DEF decisive
    <3> QED
      BY <1>3, <2>1, MinIs
  <2>3. d = [decision |-> policyDecision(PolicyList[k], ctx), policy |-> PolicyList[k].name]
    BY <1>3 DEF MakeDecision
  <2>4. PolicyList[k].name \in PolicyNames \ {NoPolicy}
    <3> HIDE DEF k
    <3>1. k \in DOMAIN config.policies
      BY <2>2 DEF PolicyList
    <3> QED
      BY <3>1, ConfigsAssumption DEF PolicyList, PolicyNames
  <2>5. k \in DOMAIN PolicyList /\ policyDecision(PolicyList[k], ctx) \in Final
    BY <2>2
  <2>6. \A i \in DOMAIN PolicyList : i < k => policyDecision(PolicyList[i], ctx) \notin Final
    <3> SUFFICES ASSUME NEW i \in DOMAIN PolicyList, i < k, i \in decisive PROVE FALSE
      OBVIOUS
    <3> HIDE DEF k
    <3> QED
      BY <1>1, <2>2, <2>5
  <2> HIDE DEF k, d
  <2> QED
    BY <2>3, <2>4, <2>5, <2>6 DEF d
<1> QED
  BY <1>2, <1>3

\* What a batch without a verdict makes of the pending data.  The evaluators
\* were shown the same counts and times.
LEMMA AbsorbedMetadata ==
  ASSUME PendingInv, NEW trace \in BatchShapes, NEW d,
         d.decision = "LowPriority" => d.policy \in PolicyNames
  PROVE  LET a == absorbed(labelled(trace, d))
             m == merged(trace)
         IN /\ a \in Metadata
            /\ seen \o trace \in Seq(Span) \ {<<>>}
            /\ Exact(a, seen \o trace)
            /\ m \in Metadata
            /\ m.spanCount = a.spanCount
            /\ m.earliestStart = a.earliestStart
            /\ m.latestEnd = a.latestEnd
            /\ m.lastLow = IF cached = NoTrace THEN NoPolicy ELSE cached.lastLow
            /\ a.priority = "Low" <=> /\ d.decision = "LowPriority"
                                      /\ cached # NoTrace => cached.priority = "Low"
            /\ a.lastLow = IF d.decision # "LowPriority" THEN NoPolicy
                           ELSE IF m.lastLow = NoPolicy THEN d.policy ELSE m.lastLow
<1> DEFINE n == NewMetadata(trace)
           td == labelled(trace, d)
           a == absorbed(td)
           m == merged(trace)
<1>1. trace \in Seq(Span) \ {<<>>}
  BY BatchesAssumption
<1>2. n \in Metadata /\ Exact(n, trace)
  BY <1>1, NewMetadataIsExact
<1>3. n.priority = "Unspecified" /\ n.lastLow = NoPolicy
  BY DEF NewMetadata
<1> HIDE DEF n
<1>4. m = IF cached = NoTrace THEN n ELSE MergeWith(n, cached)
  BY DEF merged, n
<1>5. td = IF d.decision # "LowPriority" THEN n
           ELSE [n EXCEPT !.priority = "Low",
                          !.lastLow = IF m.lastLow = NoPolicy THEN d.policy ELSE m.lastLow]
  BY DEF labelled, n
<1>6. a = IF cached = NoTrace THEN td ELSE MergeWith(cached, td)
  BY DEF absorbed
<1> HIDE DEF m, a, td
<1>7. cached # NoTrace =>
        /\ cached \in Metadata /\ seen \in Seq(Span) \ {<<>>} /\ Exact(cached, seen)
  BY DEF PendingInv
<1>8. m \in Metadata
  BY <1>1, <1>2, <1>4, <1>7, MergeIsExact
<1>9. m.lastLow = IF cached = NoTrace THEN NoPolicy ELSE cached.lastLow
  <2>1. cached # NoTrace => MergeWith(n, cached).lastLow = cached.lastLow
    BY <1>2 DEF MergeWith, Metadata
  <2> QED
    BY <1>3, <1>4, <2>1
<1>10. /\ td \in Metadata
       /\ td.spanCount = n.spanCount /\ td.earliestStart = n.earliestStart
       /\ td.latestEnd = n.latestEnd
       /\ td.priority = IF d.decision = "LowPriority" THEN "Low" ELSE "Unspecified"
       /\ td.lastLow = IF d.decision # "LowPriority" THEN NoPolicy
                       ELSE IF m.lastLow = NoPolicy THEN d.policy ELSE m.lastLow
  <2>1. m.lastLow \in PolicyNames \cup {NoPolicy}
    BY <1>8 DEF Metadata
  <2>2. CASE d.decision # "LowPriority"
    BY <1>2, <1>3, <1>5, <2>2
  <2>3. CASE d.decision = "LowPriority"
    <3> DEFINE l == IF m.lastLow = NoPolicy THEN d.policy ELSE m.lastLow
    <3>1. l \in PolicyNames \cup {NoPolicy}
      BY <2>1, <2>3
    <3>2. td = [n EXCEPT !.priority = "Low", !.lastLow = l]
      BY <1>5, <2>3
    <3> HIDE DEF l
    <3>3. /\ td \in Metadata /\ td.spanCount = n.spanCount
          /\ td.earliestStart = n.earliestStart
          /\ td.latestEnd = n.latestEnd /\ td.priority = "Low" /\ td.lastLow = l
      BY <1>2, <3>1, <3>2 DEF Metadata
    <3> QED
      BY <2>3, <3>3 DEF l
  <2> QED
    BY <2>2, <2>3
<1>11. Exact(td, trace)
  BY <1>2, <1>10 DEF Exact
<1>12. CASE cached = NoTrace
  <2>1. seen = <<>> /\ seen \o trace = trace /\ a = td /\ m = n
    BY <1>1, <1>4, <1>6, <1>12 DEF PendingInv
  <2> QED
    BY <1>1, <1>8, <1>9, <1>10, <1>11, <1>12, <2>1 DEF a, m, td
<1>13. CASE cached # NoTrace
  <2>1. a = MergeWith(cached, td) /\ m = MergeWith(n, cached)
    BY <1>4, <1>6, <1>13
  <2>2. /\ a \in Metadata /\ seen \o trace \in Seq(Span) \ {<<>>}
        /\ Exact(a, seen \o trace)
    BY <1>1, <1>7, <1>10, <1>11, <1>13, <2>1, MergeIsExact
  <2>3. /\ a.spanCount = cached.spanCount + n.spanCount
        /\ a.earliestStart = lesser(cached.earliestStart, n.earliestStart)
        /\ a.latestEnd = greater(cached.latestEnd, n.latestEnd)
        /\ a.priority = higherPriority(cached.priority, td.priority)
        /\ a.lastLow = td.lastLow
    BY <1>7, <1>10, <1>13, <2>1 DEF MergeWith, Metadata
  <2>4. /\ m.spanCount = n.spanCount + cached.spanCount
        /\ m.earliestStart = lesser(n.earliestStart, cached.earliestStart)
        /\ m.latestEnd = greater(n.latestEnd, cached.latestEnd)
    BY <1>2, <2>1 DEF MergeWith, Metadata
  <2>5. /\ n.spanCount \in Nat /\ n.earliestStart \in Nat /\ n.latestEnd \in Nat
        /\ cached.spanCount \in Nat /\ cached.earliestStart \in Nat /\ cached.latestEnd \in Nat
        /\ cached.priority \in {"Unspecified", "Low"}
    BY <1>2, <1>7, <1>13 DEF Metadata
  <2>6. /\ m.spanCount = a.spanCount /\ m.earliestStart = a.earliestStart
        /\ m.latestEnd = a.latestEnd
    BY <2>3, <2>4, <2>5 DEF lesser, greater
  <2>7. a.priority = "Low" <=> d.decision = "LowPriority" /\ cached.priority = "Low"
    BY <1>10, <2>3, <2>5 DEF higherPriority
  <2> QED
    BY <1>8, <1>9, <1>10, <1>13, <2>2, <2>3, <2>6, <2>7 DEF a, m, td
<1> QED
  BY <1>12, <1>13

\* What a step that leaves the trace pending has done.
LEMMA ArriveStep ==
  ASSUME config \in Configs, PendingInv, NEW trace \in BatchShapes,
         NEW reading \in RemoteReadings, Arrive(trace, reading)
  PROVE  LET ctx == [trace |-> trace, md |-> merged(trace), reading |-> reading,
                     getters |-> getters]
             d == MakeDecision(PolicyList, ctx)
         IN /\ last'.policy = d.policy
            /\ \/ cached' = NoTrace /\ seen' = <<>>
               \/ /\ d.decision \in {"LowPriority", "Pending"}
                  /\ cached' = absorbed(labelled(trace, d))
                  /\ seen' = seen \o trace
                  /\ d.decision = "LowPriority" =>
                       /\ d.policy \in PolicyNames \ {NoPolicy}
                       /\ merged(trace).lastLow \in {NoPolicy, d.policy}
<1> DEFINE ctx == [trace |-> trace, md |-> merged(trace), reading |-> reading,
                   getters |-> getters]
           d == MakeDecision(PolicyList, ctx)
<1>1. /\ last'.policy = d.policy
      /\ \/ d.decision \in {"Sampled", "NotSampled"} /\ cached' = NoTrace /\ seen' = <<>>
         \/ /\ d.decision \in {"LowPriority", "Pending"}
            /\ cached' = absorbed(labelled(trace, d)) /\ seen' = seen \o trace
  BY DEF Arrive
<1>2. ctx.md = merged(trace)
  OBVIOUS
<1> HIDE DEF ctx
<1>3. d.decision = "LowPriority" =>
        /\ d.policy \in PolicyNames \ {NoPolicy}
        /\ merged(trace).lastLow \in {NoPolicy, d.policy}
  <2>1. \/ d.decision = "Pending"
        \/ \E k \in DOMAIN PolicyList :
             /\ d.decision = policyDecision(PolicyList[k], ctx)
             /\ d.policy = PolicyList[k].name
             /\ PolicyList[k].name \in PolicyNames \ {NoPolicy}
    BY WhoDecides
  <2>2. \A k \in DOMAIN PolicyList :
          policyDecision(PolicyList[k], ctx) = "LowPriority" =>
            ctx.md.lastLow \in {NoPolicy, PolicyList[k].name}
    BY DEF policyDecision
  <2> HIDE DEF d
  <2> QED
    BY <1>2, <2>1, <2>2
<1> QED
  BY <1>1, <1>3 DEF ctx

LEMMA PendingStep ==
  ASSUME config \in Configs, PendingInv, [Next]_traceVars
  PROVE  PendingInv'
<1>1. CASE UNCHANGED <<cached, seen>>
  BY <1>1 DEF PendingInv, Exact
<1>2. CASE cached' = NoTrace /\ seen' = <<>>
  BY <1>2 DEF PendingInv
<1>3. ASSUME NEW trace \in BatchShapes, NEW reading \in RemoteReadings, Arrive(trace, reading)
      PROVE  PendingInv'
  <2> DEFINE ctx == [trace |-> trace, md |-> merged(trace), reading |-> reading,
                     getters |-> getters]
             d == MakeDecision(PolicyList, ctx)
             a == absorbed(labelled(trace, d))
             m == merged(trace)
  <2>1. \/ cached' = NoTrace /\ seen' = <<>>
        \/ /\ d.decision \in {"LowPriority", "Pending"}
           /\ cached' = a /\ seen' = seen \o trace
           /\ d.decision = "LowPriority" =>
                /\ d.policy \in PolicyNames \ {NoPolicy}
                /\ m.lastLow \in {NoPolicy, d.policy}
    BY <1>3, ArriveStep
  <2>2. CASE ~(cached' = NoTrace /\ seen' = <<>>)
    <3> HIDE DEF d
    <3>1. /\ a \in Metadata /\ seen \o trace \in Seq(Span) \ {<<>>}
          /\ Exact(a, seen \o trace)
          /\ a.priority = "Low" => d.decision = "LowPriority"
          /\ a.lastLow = IF d.decision # "LowPriority" THEN NoPolicy
                         ELSE IF m.lastLow = NoPolicy THEN d.policy ELSE m.lastLow
      BY <2>1, <2>2, AbsorbedMetadata
    <3> HIDE DEF a, m
    <3>2. a.priority = "Low" => a.lastLow # NoPolicy
      BY <2>1, <2>2, <3>1
    <3>3. Exact(cached', seen')
      BY <2>1, <2>2, <3>1
    <3>4. /\ cached' \in Metadata /\ seen' \in Seq(Span) \ {<<>>}
          /\ cached'.priority = "Low" => cached'.lastLow # NoPolicy
      BY <2>1, <2>2, <3>1, <3>2
    <3> QED
      BY <3>3, <3>4, NoTraceAssumption DEF PendingInv, Exact
  <2> HIDE DEF ctx, d, a, m
  <2> QED
    BY <1>2, <2>2
<1>4. CASE ValidateConfig \/ Create \/ StartDecider \/ Reconfigure
  BY <1>1, <1>4 DEF ValidateConfig, Create, StartDecider, Reconfigure
<1>5. CASE \E d \in {"Sampled", "NotSampled"} : DecisionSpan(d)
  BY <1>2, <1>5 DEF DecisionSpan
<1>6. CASE Evict
  BY <1>2, <1>6 DEF Evict
<1>7. CASE Forget
  BY <1>1, <1>7 DEF Forget
<1>8. CASE UNCHANGED traceVars
  BY <1>1, <1>8 DEF traceVars
<1> QED
  BY <1>3, <1>4, <1>5, <1>6, <1>7, <1>8 DEF Next

LEMMA DecisionInvariants == Spec => [](VerdictInv /\ PendingInv)
<1>1. Init => VerdictInv /\ PendingInv
  BY DEF Init, VerdictInv, PendingInv, PlaceholderStandsAlone
<1>2. VerdictInv /\ PendingInv /\ [Next]_traceVars => VerdictInv' /\ PendingInv'
  BY VerdictStep, PendingStep DEF VerdictInv
<1> QED
  BY <1>1, <1>2, PTL DEF Spec

\* Merged over any number of batches of any size, the span count and the latest
\* end are what all the spans of the pending trace would give at once, and so is
\* the earliest start unless some span has a start of 0; then it is still that of
\* a span of the trace (NewTraceData, MergeWith).
THEOREM MetadataStaysExact == Spec => []MetadataIsExact
<1>1. PendingInv => MetadataIsExact
  BY DEF PendingInv, MetadataIsExact, Exact, starts, ends
<1> QED
  BY <1>1, DecisionInvariants, PTL

\* Only the policy that lowered the priority of a pending trace can keep it low,
\* and nothing demotes the trace again (decider.go:50-58).
THEOREM LowPriorityStaysConsistent == Spec => LowPriorityIsConsistent
<1> DEFINE P == cached # NoTrace /\ cached' # NoTrace =>
       /\ cached.priority = "Unspecified" => cached'.priority = "Unspecified"
       /\ cached.priority = "Low" => cached.lastLow # NoPolicy
       /\ cached.priority = "Low" /\ cached'.priority = "Low" =>
            cached'.lastLow = cached.lastLow /\ last'.policy = cached.lastLow
<1>1. VerdictInv /\ PendingInv /\ [Next]_traceVars => [P]_traceVars
  <2> SUFFICES ASSUME VerdictInv, PendingInv, Next, cached # NoTrace, cached' # NoTrace
               PROVE  P
    OBVIOUS
  <2>1. PICK trace \in BatchShapes, reading \in RemoteReadings : Arrive(trace, reading)
    <3>1. verdict = "none" /\ phase = "running"
      BY DEF VerdictInv
    <3> QED
      BY <3>1 DEF Next, ValidateConfig, Create, StartDecider, Reconfigure, DecisionSpan,
                  Evict, Forget
  <2> DEFINE ctx == [trace |-> trace, md |-> merged(trace), reading |-> reading,
                     getters |-> getters]
             d == MakeDecision(PolicyList, ctx)
             a == absorbed(labelled(trace, d))
             m == merged(trace)
  <2>2. /\ last'.policy = d.policy
        /\ d.decision \in {"LowPriority", "Pending"} /\ cached' = a
        /\ d.decision = "LowPriority" =>
             /\ d.policy \in PolicyNames \ {NoPolicy}
             /\ m.lastLow \in {NoPolicy, d.policy}
    BY <2>1, ArriveStep DEF VerdictInv
  <2> HIDE DEF d
  <2>3. /\ a \in Metadata
        /\ m.lastLow = cached.lastLow
        /\ a.priority = "Low" => d.decision = "LowPriority" /\ cached.priority = "Low"
        /\ a.lastLow = IF d.decision # "LowPriority" THEN NoPolicy
                       ELSE IF m.lastLow = NoPolicy THEN d.policy ELSE m.lastLow
    BY <2>2, AbsorbedMetadata
  <2>4. cached.priority = "Low" => cached.lastLow # NoPolicy
    BY DEF PendingInv
  <2> HIDE DEF a, m
  <2>5. cached'.priority \in {"Unspecified", "Low"}
    BY <2>2, <2>3 DEF Metadata
  <2> QED
    BY <2>2, <2>3, <2>4, <2>5
<1> QED
  BY <1>1, DecisionInvariants, PTL DEF Spec, LowPriorityIsConsistent

----------------------------------------------------------------------------
(* How the spans are cut into batches *)

\* An evaluator without sub-policies samples or leaves the trace pending.
LEMMA SharedDecisions ==
  ASSUME NEW e, NEW ctx, e.type \in SharedTypes
  PROVE  EvaluateShared(e, ctx).decision \in {"Sampled", "Pending"}
<1>2. CASE e.type = "latency"
  <2>1. EvaluateShared(e, ctx) = latency(e, ctx)
    BY <1>2 DEF EvaluateShared
  <2> QED
    BY <2>1 DEF latency, SampledIf, Returns
<1>3. CASE e.type = "span_count"
  <2>1. EvaluateShared(e, ctx) = spanCount(e, ctx)
    BY <1>3 DEF EvaluateShared
  <2> QED
    BY <2>1 DEF spanCount, SampledIf, Returns
<1>4. CASE e.type = "status_code"
  <2>1. EvaluateShared(e, ctx) = statusCode(e, ctx)
    BY <1>4 DEF EvaluateShared
  <2> QED
    BY <2>1 DEF statusCode, SampledIf, Returns
<1>5. CASE e.type = "threshold"
  <2>1. EvaluateShared(e, ctx) = threshold(e, ctx)
    BY <1>5 DEF EvaluateShared
  <2> QED
    BY <2>1 DEF threshold, SampledIf, Returns
<1>6. CASE e.type = "probabilistic"
  <2>1. EvaluateShared(e, ctx) = probabilistic(e, ctx)
    BY <1>6 DEF EvaluateShared
  <2> QED
    BY <2>1 DEF probabilistic, SampledIf, Returns
<1>7. CASE e.type = "ottl_condition"
  <2>1. EvaluateShared(e, ctx) = ottlCondition(e, ctx)
    BY <1>7 DEF EvaluateShared
  <2> QED
    BY <2>1 DEF ottlCondition, Returns, Errs
<1>8. CASE e.type = "remote_probabilistic"
  <2>1. EvaluateShared(e, ctx) = remoteProbabilistic(e, ctx)
    BY <1>8 DEF EvaluateShared
  <2> QED
    BY <2>1 DEF remoteProbabilistic, SampledIf, Returns, Errs
<1> QED
  BY <1>2, <1>3, <1>4, <1>5, <1>6, <1>7, <1>8 DEF SharedTypes

\* Only a root_spans policy, or a downgrader to LowPriority, gives a low priority.
LEMMA WhoLowers ==
  ASSUME config \in Configs, newPolicies(config.policies), NEW i \in DOMAIN PolicyList, NEW ctx,
         Evaluate(PolicyList[i], ctx).decision = "LowPriority"
  PROVE  mayLower(PolicyList[i])
<1> DEFINE e == PolicyList[i]
<1>1. getPolicyEvaluator(e)
  BY DEF newPolicies, PolicyList
<1>2. /\ e.type \in {"and", "downgrader", "root_spans"} =>
           Len(e.subs) \in Nat /\ DOMAIN e.subs = 1..Len(e.subs)
      /\ e.type \in {"downgrader", "root_spans"} => e.subs # <<>>
  BY ConfigsAssumption DEF PolicyList
<1>3. Evaluate(e, ctx).decision = "LowPriority"
  OBVIOUS
<1> SUFFICES ASSUME ~mayLower(e) PROVE FALSE
  OBVIOUS
<1> HIDE DEF e
<1>4. CASE e.type = "and"
  <2> DEFINE results == [j \in DOMAIN e.subs |-> EvaluateShared(e.subs[j], ctx)]
             stops == {j \in DOMAIN e.subs : results[j].err \/ results[j].decision # "Sampled"}
             k == Min(stops)
  <2>1. Evaluate(e, ctx) = IF stops = {} THEN Returns("Sampled")
                           ELSE IF results[k].err THEN Errs("Unspecified")
                           ELSE results[k]
    BY <1>4 DEF Evaluate, and
  <2>2. stops # {} => k \in DOMAIN e.subs
    <3>1. stops \in SUBSET Nat
      BY <1>2, <1>4
    <3>2. stops \subseteq DOMAIN e.subs
      OBVIOUS
    <3> HIDE DEF stops
    <3> QED
      BY <3>1, <3>2, MinIs
  <2>3. \A j \in DOMAIN e.subs : results[j].decision \in {"Sampled", "Pending"}
    <3>1. \A j \in DOMAIN e.subs : e.subs[j].type \in SharedTypes
      BY <1>1, <1>4 DEF getPolicyEvaluator, getSharedPolicyEvaluator
    <3> QED
      BY <3>1, SharedDecisions
  <2> HIDE DEF results, stops, k
  <2> QED
    BY <1>3, <2>1, <2>2, <2>3 DEF Returns, Errs
<1>5. CASE e.type \in {"downgrader", "root_spans"}
  <2> DEFINE sub == EvaluateShared(e.subs[1], ctx)
  <2>1. 1 \in DOMAIN e.subs
    BY <1>2, <1>5
  <2>2. sub.decision \in {"Sampled", "Pending"}
    <3>1. e.subs[1].type \in SharedTypes
      BY <1>1, <1>5, <2>1 DEF getPolicyEvaluator, getSharedPolicyEvaluator
    <3> QED
      BY <3>1, SharedDecisions
  <2>3. e.type = "downgrader" /\ e.downgradeTo # "LowPriority"
    BY <1>5 DEF mayLower
  <2>4. Evaluate(e, ctx) = IF sub.err THEN Errs("Unspecified")
                           ELSE IF sub.decision = "Sampled" THEN Returns(e.downgradeTo)
                           ELSE sub
    BY <2>3 DEF Evaluate, downgrader
  <2> HIDE DEF sub
  <2> QED
    BY <1>3, <2>2, <2>3, <2>4 DEF Returns, Errs
<1>6. CASE e.type \notin {"and", "downgrader", "root_spans"}
  <2>1. e.type \in SharedTypes
    BY <1>1, <1>6 DEF getPolicyEvaluator, getSharedPolicyEvaluator
  <2>2. Evaluate(e, ctx) = EvaluateShared(e, ctx)
    BY <1>6 DEF Evaluate
  <2> QED
    BY <1>3, <2>1, <2>2, SharedDecisions
<1> QED
  BY <1>4, <1>5, <1>6

\* When a batch leaves the trace pending, no policy that is asked before every
\* low-priority one samples the batch.
LEMMA NotDecided ==
  ASSUME config \in Configs, newPolicies(config.policies), NEW ctx,
         MakeDecision(PolicyList, ctx).decision \in {"LowPriority", "Pending"},
         NEW i \in unshadowed
  PROVE  Evaluate(PolicyList[i], ctx).decision # "Sampled"
<1> DEFINE d == MakeDecision(PolicyList, ctx)
<1>1. i \in DOMAIN PolicyList /\ \A j \in 1..i : ~mayLower(PolicyList[j])
  BY DEF unshadowed
<1>2. DOMAIN PolicyList \in SUBSET Nat /\ \A j \in DOMAIN PolicyList : j >= 1
  BY ConfigsAssumption DEF PolicyList
<1>3. policyDecision(PolicyList[i], ctx) \notin Final
  <2>1. CASE \A j \in DOMAIN PolicyList : policyDecision(PolicyList[j], ctx) \notin Final
    BY <1>1, <2>1
  <2>2. CASE ~\A j \in DOMAIN PolicyList : policyDecision(PolicyList[j], ctx) \notin Final
    <3>1. PICK k \in DOMAIN PolicyList :
            /\ d.decision = policyDecision(PolicyList[k], ctx)
            /\ d.decision \in Final
            /\ \A j \in DOMAIN PolicyList : j < k => policyDecision(PolicyList[j], ctx) \notin Final
      BY <2>2, WhoDecides
    <3>2. policyDecision(PolicyList[k], ctx) = "LowPriority"
      BY <3>1 DEF Final
    <3>3. Evaluate(PolicyList[k], ctx).decision = "LowPriority"
      BY <3>2 DEF policyDecision
    <3>4. mayLower(PolicyList[k])
      BY <3>3, WhoLowers
    <3>5. i < k
      BY <1>1, <1>2, <3>4
    <3> QED
      BY <1>1, <3>1, <3>5
  <2> QED
    BY <2>1, <2>2
<1> QED
  BY <1>3 DEF policyDecision, Final

\* The policies of one kind that BatchingDoesNotMatter is about.
oneKind == {"latency", "span_count", "status_code", "threshold", "probabilistic"}

whole(q, md) == [trace |-> q, md |-> md, reading |-> [ok |-> FALSE, rate |-> 0], getters |-> {}]

\* The smallest threshold of two batches is that of one of them.
LEMMA MinThreshold ==
  ASSUME NEW p \in Seq(Span), NEW q \in Seq(Span)
  PROVE  minThreshold(p \o q) \in {minThreshold(p), minThreshold(q)}
<1> DEFINE r == p \o q
           T(x) == {x[i].threshold : i \in DOMAIN x} \cup {MaxThreshold}
<1>1. /\ r \in Seq(Span) /\ Len(r) = Len(p) + Len(q)
      /\ DOMAIN r = 1..Len(r) /\ DOMAIN p = 1..Len(p) /\ DOMAIN q = 1..Len(q)
      /\ Len(p) \in Nat /\ Len(q) \in Nat
  OBVIOUS
<1>2. \A i \in DOMAIN p : i \in DOMAIN r /\ r[i] = p[i]
  BY <1>1
<1>3. \A i \in DOMAIN q : Len(p) + i \in DOMAIN r /\ r[Len(p) + i] = q[i]
  BY <1>1
<1>4. \A i \in DOMAIN r : (i \in DOMAIN p /\ r[i] = p[i])
                           \/ (i - Len(p) \in DOMAIN q /\ r[i] = q[i - Len(p)])
  BY <1>1
<1> HIDE DEF r
<1>5. T(r) = T(p) \cup T(q)
  <2>1. T(p) \subseteq T(r)
    BY <1>2
  <2>2. T(q) \subseteq T(r)
    <3> SUFFICES ASSUME NEW i \in DOMAIN q PROVE q[i].threshold \in T(r)
      OBVIOUS
    <3> QED
      BY <1>3
  <2>3. T(r) \subseteq T(p) \cup T(q)
    <3> SUFFICES ASSUME NEW i \in DOMAIN r PROVE r[i].threshold \in T(p) \cup T(q)
      OBVIOUS
    <3> QED
      BY <1>4
  <2> QED
    BY <2>1, <2>2, <2>3
<1>6. \A x \in Seq(Span) : T(x) \in SUBSET Nat /\ T(x) # {}
  <2> TAKE x \in Seq(Span)
  <2>1. \A i \in DOMAIN x : x[i] \in Span
    OBVIOUS
  <2>2. \A i \in DOMAIN x : x[i].threshold \in Nat
    BY <2>1 DEF Span
  <2> QED
    BY <2>2, BatchesAssumption
<1>7. \A x \in Seq(Span) : minThreshold(x) = Min(T(x))
  BY DEF minThreshold
<1> HIDE DEF T
<1>8. \A x \in Seq(Span) : minThreshold(x) \in T(x) /\ \A m \in T(x) : minThreshold(x) =< m
  BY <1>6, <1>7, MinIs
<1>9. minThreshold(p) \in Nat /\ minThreshold(q) \in Nat /\ minThreshold(r) \in Nat
  BY <1>1, <1>6, <1>8
<1>10. minThreshold(r) =< minThreshold(p) /\ minThreshold(r) =< minThreshold(q)
  BY <1>1, <1>5, <1>8
<1>11. minThreshold(p) =< minThreshold(r) \/ minThreshold(q) =< minThreshold(r)
  BY <1>1, <1>5, <1>8
<1> QED
  BY <1>9, <1>10, <1>11 DEF r

\* What no policy of one kind samples in two parts, none samples as a whole.
LEMMA NoneAsAWhole ==
  ASSUME NEW e, e.type \in oneKind, NEW p \in Seq(Span), NEW q \in Seq(Span),
         NEW before, NEW ctx, NEW all,
         before.trace = p, ctx.trace = q, all.trace = p \o q,
         p = <<>> \/ Evaluate(e, before).decision # "Sampled",
         Evaluate(e, ctx).decision # "Sampled",
         ctx.md.spanCount = all.md.spanCount, ctx.md.earliestStart = all.md.earliestStart,
         ctx.md.latestEnd = all.md.latestEnd
  PROVE  Evaluate(e, all).decision # "Sampled"
<1>1. \A c : Evaluate(e, c) = EvaluateShared(e, c)
  BY DEF Evaluate, oneKind
<1>2. before.trace = p /\ ctx.trace = q /\ all.trace = p \o q
  OBVIOUS
<1>3. Evaluate(e, ctx).decision # "Sampled"
  OBVIOUS
<1>4. CASE e.type = "latency"
  <2>1. \A c : EvaluateShared(e, c) = latency(e, c)
    BY <1>4 DEF EvaluateShared
  <2>2. latency(e, all) = latency(e, ctx)
    BY DEF latency
  <2> QED
    BY <1>1, <1>3, <2>1, <2>2
<1>5. CASE e.type = "span_count"
  <2>1. \A c : EvaluateShared(e, c) = spanCount(e, c)
    BY <1>5 DEF EvaluateShared
  <2>2. spanCount(e, all) = spanCount(e, ctx)
    BY DEF spanCount
  <2> QED
    BY <1>1, <1>3, <2>1, <2>2
<1>6. CASE e.type = "probabilistic"
  <2>1. \A c : EvaluateShared(e, c) = probabilistic(e, c)
    BY <1>6 DEF EvaluateShared
  <2>2. probabilistic(e, all) = probabilistic(e, ctx)
    BY DEF probabilistic
  <2> QED
    BY <1>1, <1>3, <2>1, <2>2
<1>7. CASE e.type = "status_code"
  <2>1. \A c : EvaluateShared(e, c) = statusCode(e, c)
    BY <1>7 DEF EvaluateShared
  <2>2. \A c : statusCode(e, c).decision # "Sampled"
               <=> \A i \in DOMAIN c.trace : c.trace[i].status \notin e.statusCodes
    BY DEF statusCode, SampledIf, Returns
  <2>3. \A i \in DOMAIN p : p[i].status \notin e.statusCodes
    <3>1. CASE p = <<>>
      BY <3>1
    <3>2. CASE Evaluate(e, before).decision # "Sampled"
      BY <1>1, <1>2, <2>1, <2>2, <3>2
    <3> QED
      BY <3>1, <3>2
  <2>4. \A i \in DOMAIN q : q[i].status \notin e.statusCodes
    BY <1>1, <1>2, <1>3, <2>1, <2>2
  <2>5. \A i \in DOMAIN (p \o q) : (i \in DOMAIN p /\ (p \o q)[i] = p[i])
                           \/ (i - Len(p) \in DOMAIN q /\ (p \o q)[i] = q[i - Len(p)])
    OBVIOUS
  <2>6. \A i \in DOMAIN (p \o q) : (p \o q)[i].status \notin e.statusCodes
    BY <2>3, <2>4, <2>5
  <2>7. statusCode(e, all).decision # "Sampled"
    <3> DEFINE r == p \o q
    <3>1. all.trace = r /\ \A i \in DOMAIN r : r[i].status \notin e.statusCodes
      BY <1>2, <2>6
    <3> HIDE DEF r
    <3> QED
      BY <2>2, <3>1
  <2> QED
    BY <1>1, <2>1, <2>7
<1>8. CASE e.type = "threshold"
  <2>1. \A c : EvaluateShared(e, c) = threshold(e, c)
    BY <1>8 DEF EvaluateShared
  <2> DEFINE Low(t) == t # MaxThreshold /\ Rv >= t
  <2>2. \A c : threshold(e, c).decision # "Sampled" <=> ~Low(minThreshold(c.trace))
    BY DEF threshold, SampledIf, Returns
  <2> HIDE DEF Low
  <2>3. ~Low(minThreshold(q))
    BY <1>1, <1>2, <1>3, <2>1, <2>2
  <2>4. ~Low(minThreshold(p \o q))
    <3>1. CASE p = <<>>
      <4>1. p \o q = q
        BY <3>1
      <4> QED
        BY <2>3, <4>1
    <3>2. CASE Evaluate(e, before).decision # "Sampled"
      <4>1. ~Low(minThreshold(p))
        BY <1>1, <1>2, <2>1, <2>2, <3>2
      <4> QED
        BY <2>3, <4>1, MinThreshold
    <3> QED
      BY <3>1, <3>2
  <2> QED
    BY <1>1, <1>2, <2>1, <2>2, <2>4
<1> QED
  BY <1>4, <1>5, <1>6, <1>7, <1>8 DEF oneKind

\* BatchingDoesNotMatter, for any spans and their metadata.
NoneSamples(q, md) ==
  \A i \in unshadowed :
    PolicyList[i].type \in oneKind => Evaluate(PolicyList[i], whole(q, md)).decision # "Sampled"

LEMMA BatchingStep ==
  ASSUME SetupInv, VerdictInv, PendingInv, BatchingDoesNotMatter, [Next]_traceVars
  PROVE  BatchingDoesNotMatter'
<1>0. cached # NoTrace => NoneSamples(seen, cached)
  BY DEF BatchingDoesNotMatter, NoneSamples, whole, oneKind
<1> SUFFICES ASSUME cached' # NoTrace PROVE NoneSamples(seen, cached)'
  BY DEF BatchingDoesNotMatter, NoneSamples, whole, oneKind
<1>1. ASSUME NEW trace \in BatchShapes, NEW reading \in RemoteReadings, Arrive(trace, reading)
      PROVE  NoneSamples(seen, cached)'
  <2> DEFINE m == merged(trace)
             ctx == [trace |-> trace, md |-> merged(trace), reading |-> reading,
                     getters |-> getters]
             d == MakeDecision(PolicyList, ctx)
             a == absorbed(labelled(trace, d))
  <2>1. /\ d.decision \in {"LowPriority", "Pending"}
        /\ cached' = a /\ seen' = seen \o trace
        /\ d.decision = "LowPriority" => d.policy \in PolicyNames
    BY <1>1, ArriveStep DEF SetupInv
  <2>2. phase = "running" /\ UNCHANGED config
    BY <1>1 DEF Arrive, setupVars
  <2>3. newPolicies(config.policies) /\ config \in Configs
    BY <2>2 DEF SetupInv
  <2>4. \A i \in unshadowed : Evaluate(PolicyList[i], ctx).decision # "Sampled"
    <3> HIDE DEF ctx
    <3> QED
      BY <2>1, <2>3, NotDecided
  <2>5. trace \in Seq(Span) /\ seen \in Seq(Span)
    <3>1. <<>> \in Seq(Span) /\ (cached = NoTrace => seen = <<>>)
      BY DEF PendingInv
    <3>2. cached # NoTrace => seen \in Seq(Span)
      BY DEF PendingInv
    <3> QED
      BY <3>1, <3>2, BatchesAssumption
  <2>6. m.spanCount = a.spanCount /\ m.earliestStart = a.earliestStart /\ m.latestEnd = a.latestEnd
    <3> HIDE DEF d
    <3> QED
      BY <2>1, AbsorbedMetadata
  <2>7. cached = NoTrace => seen = <<>>
    BY DEF PendingInv
  <2> HIDE DEF a, d
  <2>8. NoneSamples(seen \o trace, a)
    <3> SUFFICES ASSUME NEW i \in unshadowed, PolicyList[i].type \in oneKind
                 PROVE  Evaluate(PolicyList[i], whole(seen \o trace, a)).decision # "Sampled"
      BY DEF NoneSamples
    <3> DEFINE e == PolicyList[i]
               before == whole(seen, cached)
               all == whole(seen \o trace, a)
    <3>1. seen = <<>> \/ Evaluate(e, before).decision # "Sampled"
      BY <1>0, <2>7 DEF NoneSamples
    <3>2. Evaluate(e, ctx).decision # "Sampled"
      BY <2>4
    <3>3. /\ before.trace = seen /\ ctx.trace = trace /\ all.trace = seen \o trace
          /\ all.md = a /\ ctx.md = m
      BY DEF whole
    <3>4. e.type \in oneKind
      OBVIOUS
    <3> HIDE DEF e, m, before, ctx, all
    <3>5. Evaluate(e, all).decision # "Sampled"
      BY <2>5, <2>6, <3>1, <3>2, <3>3, <3>4, NoneAsAWhole
    <3> QED
      BY <3>5 DEF e, all
  <2> QED
    BY <2>1, <2>2, <2>8 DEF NoneSamples, unshadowed, PolicyList
<1>2. CASE UNCHANGED <<config, cached, seen>>
  BY <1>0, <1>2 DEF NoneSamples, unshadowed, PolicyList
<1>3. CASE ValidateConfig \/ Create \/ StartDecider \/ Forget
  BY <1>2, <1>3 DEF ValidateConfig, Create, StartDecider, Forget, setupVars
<1>4. ~Reconfigure /\ ~Evict /\ ~\E d \in {"Sampled", "NotSampled"} : DecisionSpan(d)
  BY DEF Reconfigure, Evict, DecisionSpan, VerdictInv
<1>5. CASE UNCHANGED traceVars
  BY <1>2, <1>5 DEF traceVars, setupVars
<1> QED
  BY <1>1, <1>3, <1>4, <1>5 DEF Next

\* However a trace is cut into batches: spans none of which led to a decision would
\* not be sampled all at once either, by any policy of one kind that is asked
\* before those that lower the priority (processTraces, processor.go:341-404).
THEOREM BatchingNeverMatters == Spec => []BatchingDoesNotMatter
<1>1. Init => BatchingDoesNotMatter
  BY DEF Init, BatchingDoesNotMatter
<1>2. SetupInv /\ VerdictInv /\ PendingInv /\ BatchingDoesNotMatter /\ [Next]_traceVars
        => SetupInv' /\ BatchingDoesNotMatter'
  BY SetupStep, BatchingStep
<1> QED
  BY <1>1, <1>2, SetupInit, DecisionInvariants, PTL DEF Spec
============================================================================
