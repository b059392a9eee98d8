----------------------------- MODULE TypeProofs -----------------------------
(***************************************************************************)
(* SamplingProcessor keeps its type invariant, for any number of shards,   *)
(* traces, batches and calls, and any sizes Config.Validate accepts.       *)
(*                                                                         *)
(* TypeOK is not inductive: a listener that processes a group takes the    *)
(* head of gtdArr, a callback the head of victims, and sendCached the data *)
(* of cachedData.  TypeInv adds that what they take is there.              *)
(*                                                                         *)
(* It gives the labels the lock discipline is proved from, at the end.     *)
(***************************************************************************)
EXTENDS ProcessorProperties, LRUProofs, FiniteSetTheorems

\* The steps of processTraces between RLock and RUnlock.
GroupLabels ==
  {"checkSampled", "checkNonSampled", "getPrimary", "getSecondary", "decide",
   "putSampled", "sendCached", "sendCurrent", "putNonSampled",
   "deletePrimary", "deleteSecondary", "putDelete", "putInsert"}

NonemptyGroups == \A s \in Shards : \A i \in 1..Len(chan[s]) : chan[s][i] # <<>>
HasCurrent     == \A s \in Shards : pc[s] \in GroupLabels \cup {"readLock"} => gtdArr[s] # <<>>
HasCached      == \A s \in Shards : pc[s] = "sendCached" => cachedData[s] # None
HasVictim      == \A s \in Shards : callback[s] # "none" => victims[s] # <<>>

InputOK ==
  /\ stage \in [Batches -> Stages]
  /\ chan \in [Shards -> Seq(Seq(Batches))]
  /\ NonemptyGroups
LocalsOK ==
  /\ pc \in [Shards -> Labels]
  /\ gtdArr \in [Shards -> Seq(Batches)]
  /\ cachedData \in [Shards -> Batches \cup {None}]
  /\ finalDecision \in [Shards -> Decisions]
  /\ HasCurrent /\ HasCached
CallbacksOK ==
  /\ victims \in [Shards -> Seq(Batches)]
  /\ callback \in [Shards -> CallbackLabels]
  /\ HasVictim
TracesOK ==
  /\ primaryCap \in Nat
  /\ primary \in Seq(Batches) /\ Len(primary) <= primaryCap
  /\ secondary \in Seq(Batches) /\ Len(secondary) <= SecondaryCacheSize
DecisionsOK ==
  /\ sampled \in Seq(Traces) /\ Len(sampled) <= SampledCacheSize
  /\ nonSampled \in Seq(Traces) /\ Len(nonSampled) <= NonSampledCacheSize
ObjectsOK ==
  priority \in [Batches -> Priorities] /\ data \in [Batches -> SUBSET Batches]
LocksOK ==
  readers \subseteq Shards /\ writer \in Shards \cup {None} /\ ticks \in 0..MaxTicks
OutputsOK ==
  /\ forwarded \in [Batches -> Nat]
  /\ ruledOut \subseteq Traces
  /\ dropped \subseteq Batches

TypeInv ==
  /\ InputOK /\ LocalsOK /\ CallbacksOK /\ TracesOK /\ DecisionsOK /\ ObjectsOK
  /\ LocksOK /\ OutputsOK

----------------------------------------------------------------------------
(* The operators the actions are made of *)

\* Lookup finds an entry of the trace exactly when there is one.
LEMMA LookupProperties ==
  ASSUME NEW q \in Seq(Batches), NEW t
  PROVE  /\ Lookup(q, t) \in Batches \cup {None}
         /\ Lookup(q, t) # None => Lookup(q, t) \in ToSet(q) /\ TraceOf[Lookup(q, t)] = t
         /\ Lookup(q, t) = None => \A o \in ToSet(q) : TraceOf[o] # t
<1>1. ToSet(q) \subseteq Batches
  BY ToSetDef
<1>2. None \notin Batches
  BY InputAssumption
<1>3. CASE \E o \in ToSet(q) : TraceOf[o] = t
  <2>1. Lookup(q, t) = CHOOSE o \in ToSet(q) : TraceOf[o] = t
    BY <1>3 DEF Lookup
  <2>2. Lookup(q, t) \in ToSet(q) /\ TraceOf[Lookup(q, t)] = t
    BY <1>3, <2>1
  <2> QED
    BY <1>1, <1>2, <2>2
<1>4. CASE ~ \E o \in ToSet(q) : TraceOf[o] = t
  <2>1. Lookup(q, t) = None
    BY <1>4 DEF Lookup
  <2> QED
    BY <1>4, <2>1
<1> QED
  BY <1>3, <1>4

\* Delete leaves nothing of its trace and nothing new.
LEMMA WithoutProperties ==
  ASSUME NEW q \in Seq(Batches), NEW t
  PROVE  /\ Without(q, t) \in Seq(Batches)
         /\ Len(Without(q, t)) <= Len(q)
         /\ ToSet(Without(q, t)) \subseteq ToSet(q)
         /\ UniqueKeys(q, TraceOf) => /\ UniqueKeys(Without(q, t), TraceOf)
                                      /\ \A o \in ToSet(Without(q, t)) : TraceOf[o] # t
<1> DEFINE o == Lookup(q, t)
<1>1. Without(q, t) = RemoveFirst(q, o)
  BY DEF Without
<1>2. /\ o # None => o \in ToSet(q) /\ TraceOf[o] = t
      /\ o = None => \A x \in ToSet(q) : TraceOf[x] # t
  BY LookupProperties
<1>3. /\ RemoveFirst(q, o) \in Seq(Batches)
      /\ Len(RemoveFirst(q, o)) = IF o \in ToSet(q) THEN Len(q) - 1 ELSE Len(q)
      /\ ToSet(RemoveFirst(q, o)) \subseteq ToSet(q)
      /\ UniqueKeys(q, TraceOf) =>
           /\ UniqueKeys(RemoveFirst(q, o), TraceOf)
           /\ o \in ToSet(q) => \A x \in ToSet(RemoveFirst(q, o)) : TraceOf[x] # TraceOf[o]
  BY RemoveFirstProperties
<1> HIDE DEF o
<1>4. Len(RemoveFirst(q, o)) <= Len(q)
  BY <1>3
<1>5. ASSUME UniqueKeys(q, TraceOf)
      PROVE  \A x \in ToSet(RemoveFirst(q, o)) : TraceOf[x] # t
  BY <1>2, <1>3, <1>5
<1> QED
  BY <1>1, <1>3, <1>4, <1>5, Zenon

\* Put keeps within capacity, adds only its entry, and leaves one per trace.
LEMMA PutProperties ==
  ASSUME NEW q \in Seq(Batches), NEW t, NEW e \in Batches, NEW cap \in Nat
  PROVE  LET r == Insert(q, Lookup(q, t), e)
         IN /\ Trim(r, cap) \in Seq(Batches)
            /\ Len(Trim(r, cap)) <= cap
            /\ ToSet(Trim(r, cap)) \subseteq ToSet(q) \cup {e}
            /\ Spill(r, cap) \in Seq(Batches)
            /\ UniqueKeys(q, TraceOf) /\ TraceOf[e] = t => UniqueKeys(Trim(r, cap), TraceOf)
<1> DEFINE o == Lookup(q, t)
           r == Insert(q, o, e)
<1>1. /\ o # None => o \in ToSet(q) /\ TraceOf[o] = t
      /\ o = None => \A x \in ToSet(q) : TraceOf[x] # t
  BY LookupProperties
<1> HIDE DEF o
<1>2. /\ r \in Seq(Batches)
      /\ ToSet(r) \subseteq ToSet(q) \cup {e}
      /\ (/\ UniqueKeys(q, TraceOf)
          /\ (\E x \in ToSet(q) : TraceOf[x] = TraceOf[e]) => o \in ToSet(q) /\ TraceOf[o] = TraceOf[e])
         => UniqueKeys(r, TraceOf)
  BY InsertEntries
<1>3. UniqueKeys(q, TraceOf) /\ TraceOf[e] = t => UniqueKeys(r, TraceOf)
  BY <1>1, <1>2
<1> HIDE DEF r
<1>4. /\ Trim(r, cap) \in Seq(Batches)
      /\ Len(Trim(r, cap)) <= cap
      /\ ToSet(Trim(r, cap)) \subseteq ToSet(r)
      /\ UniqueKeys(r, TraceOf) => UniqueKeys(Trim(r, cap), TraceOf)
      /\ Spill(r, cap) \in Seq(Batches)
  BY <1>2, TrimEntries
<1>5. ToSet(Trim(r, cap)) \subseteq ToSet(q) \cup {e}
  BY <1>2, <1>4
<1>6. /\ Trim(r, cap) \in Seq(Batches)
      /\ Len(Trim(r, cap)) <= cap
      /\ ToSet(Trim(r, cap)) \subseteq ToSet(q) \cup {e}
      /\ Spill(r, cap) \in Seq(Batches)
      /\ UniqueKeys(q, TraceOf) /\ TraceOf[e] = t => UniqueKeys(Trim(r, cap), TraceOf)
  BY <1>3, <1>4, <1>5
<1> QED
  BY <1>6 DEF r, o

\* The capacity the regulator asks for is between its two bounds.
LEMMA RegulatedSize ==
  ASSUME NEW size, NEW heap \in HeapReadings,
         NEW new \in memRegulator!RegulateCacheSize(size, heap), size \in Nat
  PROVE  new \in Nat /\ new \in (PrimaryCacheSize \div 4)..PrimaryCacheSize
<1>1. PrimaryCacheSize \div 4 \in Nat /\ PrimaryCacheSize \div 4 <= PrimaryCacheSize
  BY ConfigAssumption
<1>2. memRegulator!Requested(size, heap) \subseteq Int
  <2>1. heap \in Nat /\ TargetHeap \in Nat \ {0}
    BY ConfigAssumption
  <2>2. memRegulator!ModeratePressure(heap) \/ memRegulator!HighPressure(heap) => heap > 0
    BY <2>1 DEF memRegulator!ModeratePressure, memRegulator!HighPressure
  <2>3. heap > 0 => (size * TargetHeap) \div heap \in Int
    BY <2>1
  <2>4. \A a, b \in Nat : b > 0 => memRegulator!RoundedQuotients(a, b) \subseteq Int
    BY DEF memRegulator!RoundedQuotients
  <2>5. heap > 0 => heap * heap \in Nat /\ heap * heap > 0
    BY <2>1
  <2>6. size * TargetHeap * TargetHeap \in Nat
    BY <2>1
  <2>7. heap > 0 => memRegulator!RoundedQuotients(size * TargetHeap * TargetHeap, heap * heap) \subseteq Int
    BY <2>4, <2>5, <2>6
  <2>8. memRegulator!grown(size) \in Int
    BY DEF memRegulator!grown
  <2> QED
    BY <1>1, <2>2, <2>3, <2>7, <2>8 DEF memRegulator!Requested
<1>3. PICK x \in memRegulator!Requested(size, heap) : new = memRegulator!clamp(x)
  BY DEF memRegulator!RegulateCacheSize
<1> DEFINE lo == PrimaryCacheSize \div 4
<1>4. new = IF x > PrimaryCacheSize THEN PrimaryCacheSize ELSE IF x < lo THEN lo ELSE x
  BY <1>3 DEF memRegulator!clamp
<1>5. x \in Int /\ lo \in Nat /\ lo <= PrimaryCacheSize /\ PrimaryCacheSize \in Nat
  BY <1>1, <1>2, ConfigAssumption
<1> HIDE DEF lo
<1>6. new \in Nat /\ new \in lo..PrimaryCacheSize
  BY <1>4, <1>5
<1> QED
  BY <1>6 DEF lo

\* An order of a nonempty group is a nonempty sequence of its members.
LEMMA GroupArray ==
  ASSUME NEW B \in SUBSET Batches, B # {}, NEW arr \in SetToSeqs(B)
  PROVE  /\ arr \in Seq(Batches)
         /\ arr # <<>>
         /\ \A i \in 1..Len(arr) : arr[i] \in B
<1>1. IsFiniteSet(B)
  BY InputAssumption, FS_Subset
<1>2. Cardinality(B) \in Nat /\ Cardinality(B) # 0
  BY <1>1, FS_CardinalityType, FS_EmptySet
<1>3. arr \in [1..Cardinality(B) -> B]
  BY DEF SetToSeqs
<1> QED
  BY <1>2, <1>3

\* The named parts of TypeInv together are more than TypeOK.
LEMMA TypeInvImpliesTypeOK == TypeInv => TypeOK
  BY DEF TypeInv, InputOK, LocalsOK, CallbacksOK, TracesOK, DecisionsOK,
         ObjectsOK, LocksOK, OutputsOK, TypeOK

\* A part keeps its type when its variables stay as they are.
LEMMA TypeFrame ==
  /\ InputOK /\ UNCHANGED inputVars => InputOK'
  /\ LocalsOK /\ UNCHANGED localVars => LocalsOK'
  /\ CallbacksOK /\ UNCHANGED callbackVars => CallbacksOK'
  /\ TracesOK /\ UNCHANGED traceVars => TracesOK'
  /\ DecisionsOK /\ UNCHANGED decisionVars => DecisionsOK'
  /\ ObjectsOK /\ UNCHANGED objectVars => ObjectsOK'
  /\ LocksOK /\ UNCHANGED lockVars => LocksOK'
  /\ OutputsOK /\ UNCHANGED outputVars => OutputsOK'
<1>1. InputOK /\ UNCHANGED inputVars => InputOK'
  BY DEF InputOK, inputVars, NonemptyGroups
<1>2. LocalsOK /\ UNCHANGED localVars => LocalsOK'
  BY DEF LocalsOK, localVars, HasCurrent, HasCached
<1>3. CallbacksOK /\ UNCHANGED callbackVars => CallbacksOK'
  BY DEF CallbacksOK, callbackVars, HasVictim
<1>4. TracesOK /\ UNCHANGED traceVars => TracesOK'
  BY DEF TracesOK, traceVars
<1>5. DecisionsOK /\ UNCHANGED decisionVars => DecisionsOK'
  BY DEF DecisionsOK, decisionVars
<1>6. ObjectsOK /\ UNCHANGED objectVars => ObjectsOK'
  BY DEF ObjectsOK, objectVars
<1>7. LocksOK /\ UNCHANGED lockVars => LocksOK'
  BY DEF LocksOK, lockVars
<1>8. OutputsOK /\ UNCHANGED outputVars => OutputsOK'
  BY DEF OutputsOK, outputVars
<1> QED
  BY <1>1, <1>2, <1>3, <1>4, <1>5, <1>6, <1>7, <1>8

\* What is left of a queue after its head is taken.
LEMMA TailProperties ==
  ASSUME NEW S, NEW q \in Seq(S), q # <<>>
  PROVE  /\ Head(q) \in S
         /\ Tail(q) \in Seq(S)
         /\ Len(q) # 1 => Tail(q) # <<>>
         /\ Len(Tail(q)) = Len(q) - 1
         /\ \A i \in 1..(Len(q) - 1) : Tail(q)[i] = q[i + 1]
<1>1. Len(q) \in Nat /\ Len(q) > 0 /\ Tail(q) \in Seq(S) /\ Len(Tail(q)) = Len(q) - 1
  OBVIOUS
<1>2. Len(q) # 1 => Len(Tail(q)) # 0
  BY <1>1
<1>3. Len(q) # 1 => Tail(q) # <<>>
  BY <1>1, <1>2
<1> QED
  BY <1>1, <1>3

\* A listener that moves to another step has what that step takes.
LEMMA GotoTyped ==
  ASSUME LocalsOK, NEW s \in Shards, NEW label \in Labels, Goto(s, label), KeepLocals,
         label \in GroupLabels \cup {"readLock"} => pc[s] \in GroupLabels \cup {"readLock"},
         label = "sendCached" => cachedData[s] # None
  PROVE  LocalsOK'
  BY DEF LocalsOK, HasCurrent, HasCached, Goto, KeepLocals

\* The end of an iteration leaves a group for the next one, or no iteration.
LEMMA ContinueTyped ==
  ASSUME LocalsOK, NEW s \in Shards, pc[s] \in GroupLabels, Continue(s)
  PROVE  LocalsOK'
<1> DEFINE label == IF Len(gtdArr[s]) = 1 THEN "unlock" ELSE "checkSampled"
<1>1. gtdArr[s] \in Seq(Batches) /\ gtdArr[s] # <<>>
  BY DEF LocalsOK, HasCurrent
<1>2. Tail(gtdArr[s]) \in Seq(Batches) /\ (Len(gtdArr[s]) # 1 => Tail(gtdArr[s]) # <<>>)
  BY <1>1, TailProperties
<1>3. /\ gtdArr' = [gtdArr EXCEPT ![s] = Tail(gtdArr[s])]
      /\ cachedData' = [cachedData EXCEPT ![s] = None]
      /\ finalDecision' = [finalDecision EXCEPT ![s] = "Pending"]
      /\ pc' = [pc EXCEPT ![s] = label]
  BY DEF Continue, Goto
<1>4. /\ pc' \in [Shards -> Labels]
      /\ gtdArr' \in [Shards -> Seq(Batches)]
      /\ cachedData' \in [Shards -> Batches \cup {None}]
      /\ finalDecision' \in [Shards -> Decisions]
  BY <1>2, <1>3 DEF LocalsOK, Labels, Decisions
<1>5. HasCurrent'
  <2> SUFFICES ASSUME NEW u \in Shards, pc'[u] \in GroupLabels \cup {"readLock"}
               PROVE  gtdArr'[u] # <<>>
    BY DEF HasCurrent
  <2>1. CASE u = s
    <3>1. pc'[s] = label /\ gtdArr'[s] = Tail(gtdArr[s])
      BY <1>3 DEF LocalsOK
    <3>2. Len(gtdArr[s]) # 1
      BY <2>1, <3>1 DEF GroupLabels
    <3> QED
      BY <1>2, <2>1, <3>1, <3>2
  <2>2. CASE u # s
    BY <1>3, <2>2 DEF LocalsOK, HasCurrent
  <2> QED
    BY <2>1, <2>2
<1>6. HasCached'
  BY <1>3 DEF LocalsOK, HasCached
<1> QED
  BY <1>4, <1>5, <1>6 DEF LocalsOK

\* A callback runs only for an entry that was removed.
LEMMA EvictTyped ==
  ASSUME CallbacksOK, NEW s \in Shards, NEW tier, NEW out \in Seq(Batches), Evict(s, tier, out)
  PROVE  CallbacksOK'
  BY DEF CallbacksOK, HasVictim, Evict, CallbackLabels

\* So does the callback of a Delete.
LEMMA DeleteTyped ==
  ASSUME CallbacksOK, NEW s \in Shards, NEW tier, NEW q \in Seq(Batches), DeleteFrom(s, tier, q)
  PROVE  CallbacksOK'
<1> DEFINE o == Lookup(q, id(s))
           out == IF o = None THEN <<>> ELSE <<o>>
<1>1. o \in Batches \cup {None}
  BY LookupProperties
<1>2. Evict(s, tier, out)
  BY DEF DeleteFrom
<1> HIDE DEF o
<1>3. out \in Seq(Batches)
  BY <1>1
<1> QED
  BY <1>2, <1>3, EvictTyped

\* Taking the next step of a callback, or ending it, keeps its victim there.
LEMMA CallbackTyped ==
  ASSUME CallbacksOK, NEW s \in Shards, callback[s] # "none",
         EndCallback(s) \/ \E label \in CallbackLabels : CallbackGoto(s, label)
  PROVE  CallbacksOK'
<1>1. victims[s] \in Seq(Batches) /\ victims[s] # <<>>
  BY DEF CallbacksOK, HasVictim
<1>2. CASE EndCallback(s)
  <2>1. Tail(victims[s]) \in Seq(Batches) /\ (Len(victims[s]) # 1 => Tail(victims[s]) # <<>>)
    BY <1>1, TailProperties
  <2>2. /\ victims' = [victims EXCEPT ![s] = Tail(victims[s])]
        /\ callback' = [callback EXCEPT ![s] = IF Len(victims[s]) = 1 THEN "none" ELSE "checkSampled"]
    BY <1>2 DEF EndCallback
  <2> QED
    BY <2>1, <2>2 DEF CallbacksOK, HasVictim, CallbackLabels
<1>3. CASE \E label \in CallbackLabels : CallbackGoto(s, label)
  BY <1>1, <1>3 DEF CallbacksOK, HasVictim, CallbackGoto
<1> QED
  BY <1>2, <1>3

\* A decision cache stays within its capacity when a decision is refreshed
\* or put in.
LEMMA DecisionTyped ==
  ASSUME NEW q \in Seq(Traces), NEW t \in Traces, NEW cap \in Nat, Len(q) <= cap
  PROVE  /\ IsHit(q, t) => Refresh(q, t) \in Seq(Traces) /\ Len(Refresh(q, t)) <= cap
         /\ Trim(Refresh(q, t), cap) \in Seq(Traces)
         /\ Len(Trim(Refresh(q, t), cap)) <= cap
<1>1. /\ Refresh(q, t) \in Seq(Traces)
      /\ Len(Refresh(q, t)) = IF t \in ToSet(q) THEN Len(q) ELSE Len(q) + 1
  BY RefreshEntries
<1>2. IsHit(q, t) => Len(Refresh(q, t)) <= cap
  BY <1>1 DEF IsHit
<1>3. Trim(Refresh(q, t), cap) \in Seq(Traces) /\ Len(Trim(Refresh(q, t), cap)) <= cap
  BY <1>1, TrimEntries
<1> QED
  BY <1>1, <1>2, <1>3

\* The group, the trace and the object a listener works on.
LEMMA CurrentTyped ==
  ASSUME LocalsOK, NEW s \in Shards, pc[s] \in GroupLabels
  PROVE  current(s) \in Batches /\ id(s) \in Traces /\ held(s) \in Batches
<1>1. gtdArr[s] \in Seq(Batches) /\ gtdArr[s] # <<>>
  BY DEF LocalsOK, HasCurrent
<1>2. current(s) \in Batches
  BY <1>1 DEF current
<1> QED
  BY <1>2, InputAssumption DEF LocalsOK, held, id

\* The entry a callback is called with.
LEMMA VictimTyped ==
  ASSUME CallbacksOK, NEW s \in Shards, callback[s] # "none"
  PROVE  victim(s) \in Batches /\ victimId(s) \in Traces
<1>1. victims[s] \in Seq(Batches) /\ victims[s] # <<>>
  BY DEF CallbacksOK, HasVictim
<1>2. victim(s) \in Batches
  BY <1>1 DEF victim
<1> QED
  BY <1>2, InputAssumption DEF victimId

----------------------------------------------------------------------------
(* TypeInv is inductive *)

\* The initial state of a new processor is well typed.
LEMMA TypeInvInit == Init => TypeInv
<1>1. (6 * PrimaryCacheSize) \div 10 \in Nat
  BY ConfigAssumption
<1> QED
  BY <1>1, InputAssumption, ConfigAssumption
  DEF Init, TypeInv, InputOK, LocalsOK, CallbacksOK, TracesOK, DecisionsOK,
      ObjectsOK, LocksOK, OutputsOK, NonemptyGroups, HasCurrent, HasCached,
      HasVictim, Stages, Labels, GroupLabels, CallbackLabels, Decisions, Priorities

\* TypeInv is kept by ConsumeTraces.
LEMMA TypedConsumeTraces ==
  ASSUME TypeInv, NEW r \in Requests, ConsumeTraces(r)
  PROVE  TypeInv'
<1> USE DEF TypeInv
<1>1. InputOK'
  BY DEF ConsumeTraces, InputOK, Stages, NonemptyGroups, SetStage
<1>2. LocalsOK' /\ CallbacksOK' /\ TracesOK' /\ DecisionsOK' /\ ObjectsOK' /\ LocksOK' /\ OutputsOK'
  BY TypeFrame DEF ConsumeTraces
<1> QED
  BY <1>1, <1>2 DEF TypeInv

\* TypeInv is kept by EarlySkip.
LEMMA TypedEarlySkip ==
  ASSUME TypeInv, NEW b \in Batches, EarlySkip(b)
  PROVE  TypeInv'
<1> USE DEF TypeInv
<1>1. InputOK'
  BY DEF EarlySkip, InputOK, Stages, NonemptyGroups, SetStage
<1>2. LocalsOK' /\ CallbacksOK' /\ TracesOK' /\ DecisionsOK' /\ ObjectsOK' /\ LocksOK' /\ OutputsOK'
  BY TypeFrame DEF EarlySkip
<1> QED
  BY <1>1, <1>2 DEF TypeInv

\* TypeInv is kept by EarlyCheckSampled.
LEMMA TypedEarlyCheckSampled ==
  ASSUME TypeInv, NEW b \in Batches, EarlyCheckSampled(b)
  PROVE  TypeInv'
<1> USE DEF TypeInv
<1>1. InputOK'
  BY DEF EarlyCheckSampled, InputOK, Stages, NonemptyGroups, SetStage
<1>2. DecisionsOK'
  <2>1. TraceOf[b] \in Traces
    BY InputAssumption
  <2> QED
    BY <2>1, DecisionTyped, ConfigAssumption DEF EarlyCheckSampled, DecisionsOK
<1>3. OutputsOK'
  BY DEF EarlyCheckSampled, OutputsOK, Forward
<1>4. LocalsOK' /\ CallbacksOK' /\ TracesOK' /\ ObjectsOK' /\ LocksOK'
  BY TypeFrame DEF EarlyCheckSampled
<1> QED
  BY <1>1, <1>2, <1>3, <1>4 DEF TypeInv

\* TypeInv is kept by EarlyCheckNonSampled.
LEMMA TypedEarlyCheckNonSampled ==
  ASSUME TypeInv, NEW b \in Batches, EarlyCheckNonSampled(b)
  PROVE  TypeInv'
<1> USE DEF TypeInv
<1>1. InputOK'
  BY DEF EarlyCheckNonSampled, InputOK, Stages, NonemptyGroups, SetStage
<1>2. DecisionsOK'
  <2>1. TraceOf[b] \in Traces
    BY InputAssumption
  <2> QED
    BY <2>1, DecisionTyped, ConfigAssumption DEF EarlyCheckNonSampled, DecisionsOK
<1>3. LocalsOK' /\ CallbacksOK' /\ TracesOK' /\ ObjectsOK' /\ LocksOK' /\ OutputsOK'
  BY TypeFrame DEF EarlyCheckNonSampled
<1> QED
  BY <1>1, <1>2, <1>3 DEF TypeInv

\* TypeInv is kept by AsyncSend.
LEMMA TypedAsyncSend ==
  ASSUME TypeInv, NEW b \in Batches, AsyncSend(b)
  PROVE  TypeInv'
<1> USE DEF TypeInv
<1>1. InputOK'
  BY DEF AsyncSend, InputOK, Stages, NonemptyGroups, SetStage
<1>2. OutputsOK'
  BY DEF AsyncSend, OutputsOK, Forward
<1>3. LocalsOK' /\ CallbacksOK' /\ TracesOK' /\ DecisionsOK' /\ ObjectsOK' /\ LocksOK'
  BY TypeFrame DEF AsyncSend
<1> QED
  BY <1>1, <1>2, <1>3 DEF TypeInv

\* TypeInv is kept by Send.
LEMMA TypedSend ==
  ASSUME TypeInv, NEW r \in Requests, NEW s \in Shards, Send(r, s)
  PROVE  TypeInv'
<1> USE DEF TypeInv
<1>1. PICK arr \in SetToSeqs(shardGroup(r, s)) :
        \/ chan' = [chan EXCEPT ![s] = Append(chan[s], arr)] /\ UNCHANGED <<pc, gtdArr>>
        \/ /\ gtdArr' = [gtdArr EXCEPT ![s] = arr]
           /\ Goto(s, "readLock")
           /\ UNCHANGED chan
  BY DEF Send
<1>2. arr \in Seq(Batches) /\ arr # <<>>
  BY GroupArray DEF Send, ReadyToSend, shardGroup, batchesOf
<1>3. InputOK'
  <2>1. stage' \in [Batches -> Stages]
    BY DEF Send, InputOK, Stages
  <2>2. chan' \in [Shards -> Seq(Seq(Batches))] /\ NonemptyGroups'
    <3>1. CASE chan' = chan
      BY <3>1 DEF InputOK, NonemptyGroups
    <3>2. CASE chan' = [chan EXCEPT ![s] = Append(chan[s], arr)]
      <4>1. /\ chan[s] \in Seq(Seq(Batches))
            /\ \A i \in 1..Len(chan[s]) : chan[s][i] # <<>>
        BY DEF InputOK, NonemptyGroups
      <4>2. /\ Append(chan[s], arr) \in Seq(Seq(Batches))
            /\ Len(Append(chan[s], arr)) = Len(chan[s]) + 1
            /\ \A i \in 1..Len(chan[s]) : Append(chan[s], arr)[i] = chan[s][i]
            /\ Append(chan[s], arr)[Len(chan[s]) + 1] = arr
        BY <1>2, <4>1, AppendProperties
      <4>3. Len(chan[s]) \in Nat
        BY <4>1
      <4>4. \A i \in 1..Len(Append(chan[s], arr)) : i \in 1..Len(chan[s]) \/ i = Len(chan[s]) + 1
        BY <4>2, <4>3
      <4>5. \A i \in 1..Len(Append(chan[s], arr)) : Append(chan[s], arr)[i] # <<>>
        BY <1>2, <4>1, <4>2, <4>4, Zenon
      <4> QED
        BY <3>2, <4>2, <4>5 DEF InputOK, NonemptyGroups
    <3> QED
      BY <1>1, <3>1, <3>2
  <2> QED
    BY <2>1, <2>2 DEF InputOK
<1>4. LocalsOK'
  <2>1. UNCHANGED <<cachedData, finalDecision>>
    BY DEF Send
  <2> QED
    BY <1>1, <1>2, <2>1 DEF LocalsOK, HasCurrent, HasCached, Goto, Labels
<1>5. CallbacksOK' /\ TracesOK' /\ DecisionsOK' /\ ObjectsOK' /\ LocksOK' /\ OutputsOK'
  BY TypeFrame DEF Send
<1> QED
  BY <1>3, <1>4, <1>5 DEF TypeInv

\* TypeInv is kept by ContextCancelled.
LEMMA TypedContextCancelled ==
  ASSUME TypeInv, NEW r \in Requests, NEW s \in Shards, ContextCancelled(r, s)
  PROVE  TypeInv'
<1> USE DEF TypeInv
<1>1. InputOK'
  BY DEF ContextCancelled, InputOK, Stages, NonemptyGroups, SetStage
<1>2. LocalsOK' /\ CallbacksOK' /\ TracesOK' /\ DecisionsOK' /\ ObjectsOK' /\ LocksOK' /\ OutputsOK'
  BY TypeFrame DEF ContextCancelled
<1> QED
  BY <1>1, <1>2 DEF TypeInv

\* TypeInv is kept by Receive.
LEMMA TypedReceive ==
  ASSUME TypeInv, NEW s \in Shards, Receive(s)
  PROVE  TypeInv'
<1> USE DEF TypeInv
<1>1. InputOK'
  <2>1. chan[s] \in Seq(Seq(Batches)) /\ chan[s] # <<>>
    BY DEF Receive, InputOK
  <2>2. /\ Tail(chan[s]) \in Seq(Seq(Batches))
        /\ \A i \in 1..Len(Tail(chan[s])) : Tail(chan[s])[i] # <<>>
    BY <2>1, TailProperties DEF InputOK, NonemptyGroups
  <2> QED
    BY <2>2 DEF Receive, InputOK, NonemptyGroups
<1>2. LocalsOK'
  <2>1. Head(chan[s]) \in Seq(Batches) /\ Head(chan[s]) # <<>>
    BY DEF Receive, InputOK, NonemptyGroups
  <2> QED
    BY <2>1 DEF Receive, LocalsOK, HasCurrent, HasCached, Goto, Labels
<1>3. CallbacksOK' /\ TracesOK' /\ DecisionsOK' /\ ObjectsOK' /\ LocksOK' /\ OutputsOK'
  BY TypeFrame DEF Receive
<1> QED
  BY <1>1, <1>2, <1>3 DEF TypeInv

\* TypeInv is kept by ReadLock.
LEMMA TypedReadLock ==
  ASSUME TypeInv, NEW s \in Shards, ReadLock(s)
  PROVE  TypeInv'
<1> USE DEF TypeInv
<1>1. LocalsOK'
  BY GotoTyped DEF ReadLock, At, Labels, GroupLabels
<1>2. LocksOK'
  BY ConfigAssumption DEF ReadLock, LocksOK
<1>3. InputOK' /\ CallbacksOK' /\ TracesOK' /\ DecisionsOK' /\ ObjectsOK' /\ OutputsOK'
  BY TypeFrame DEF ReadLock
<1> QED
  BY <1>1, <1>2, <1>3 DEF TypeInv

\* TypeInv is kept by ReadUnlock.
LEMMA TypedReadUnlock ==
  ASSUME TypeInv, NEW s \in Shards, ReadUnlock(s)
  PROVE  TypeInv'
<1> USE DEF TypeInv
<1>1. LocalsOK'
  BY GotoTyped DEF ReadUnlock, At, Labels, GroupLabels
<1>2. LocksOK'
  BY ConfigAssumption DEF ReadUnlock, LocksOK
<1>3. InputOK' /\ CallbacksOK' /\ TracesOK' /\ DecisionsOK' /\ ObjectsOK' /\ OutputsOK'
  BY TypeFrame DEF ReadUnlock
<1> QED
  BY <1>1, <1>2, <1>3 DEF TypeInv

\* TypeInv is kept by Tick.
LEMMA TypedTick ==
  ASSUME TypeInv, NEW s \in Shards, Tick(s)
  PROVE  TypeInv'
<1> USE DEF TypeInv
<1>1. LocalsOK'
  BY GotoTyped DEF Tick, At, Labels, GroupLabels
<1>2. LocksOK'
  BY ConfigAssumption DEF Tick, LocksOK
<1>3. InputOK' /\ CallbacksOK' /\ TracesOK' /\ DecisionsOK' /\ ObjectsOK' /\ OutputsOK'
  BY TypeFrame DEF Tick
<1> QED
  BY <1>1, <1>2, <1>3 DEF TypeInv

\* TypeInv is kept by AnnounceWriter.
LEMMA TypedAnnounceWriter ==
  ASSUME TypeInv, NEW s \in Shards, AnnounceWriter(s)
  PROVE  TypeInv'
<1> USE DEF TypeInv
<1>1. LocalsOK'
  BY GotoTyped DEF AnnounceWriter, At, Labels, GroupLabels
<1>2. LocksOK'
  BY ConfigAssumption DEF AnnounceWriter, LocksOK
<1>3. InputOK' /\ CallbacksOK' /\ TracesOK' /\ DecisionsOK' /\ ObjectsOK' /\ OutputsOK'
  BY TypeFrame DEF AnnounceWriter
<1> QED
  BY <1>1, <1>2, <1>3 DEF TypeInv

\* TypeInv is kept by Regulate.
LEMMA TypedRegulate ==
  ASSUME TypeInv, NEW s \in Shards, Regulate(s)
  PROVE  TypeInv'
<1> USE DEF TypeInv
<1>1. PICK size \in Nat : /\ primaryCap' = size
                         /\ primary' = resized(size)
                         /\ Evict(s, "primary", Spill(primary, size))
  BY RegulatedSize DEF Regulate, TracesOK
<1>2. LocalsOK'
  BY GotoTyped DEF Regulate, At, Labels, GroupLabels
<1>3. CallbacksOK'
  BY <1>1, TrimEntries, EvictTyped DEF TracesOK
<1>4. TracesOK'
  <2>1. UNCHANGED secondary
    BY DEF Regulate
  <2>2. primary' = Trim(primary, size)
    BY <1>1 DEF resized
  <2> QED
    BY <1>1, <2>1, <2>2, TrimEntries DEF TracesOK
<1>5. InputOK' /\ DecisionsOK' /\ ObjectsOK' /\ LocksOK' /\ OutputsOK'
  BY TypeFrame DEF Regulate
<1> QED
  BY <1>2, <1>3, <1>4, <1>5 DEF TypeInv

\* TypeInv is kept by WriteUnlock.
LEMMA TypedWriteUnlock ==
  ASSUME TypeInv, NEW s \in Shards, WriteUnlock(s)
  PROVE  TypeInv'
<1> USE DEF TypeInv
<1>1. LocalsOK'
  BY GotoTyped DEF WriteUnlock, At, Labels, GroupLabels
<1>2. LocksOK'
  BY ConfigAssumption DEF WriteUnlock, LocksOK
<1>3. InputOK' /\ CallbacksOK' /\ TracesOK' /\ DecisionsOK' /\ ObjectsOK' /\ OutputsOK'
  BY TypeFrame DEF WriteUnlock
<1> QED
  BY <1>1, <1>2, <1>3 DEF TypeInv

\* TypeInv is kept by CheckSampled.
LEMMA TypedCheckSampled ==
  ASSUME TypeInv, NEW s \in Shards, CheckSampled(s)
  PROVE  TypeInv'
<1> USE DEF TypeInv
<1>1. current(s) \in Batches /\ id(s) \in Traces /\ held(s) \in Batches
  BY CurrentTyped DEF CheckSampled, At, GroupLabels
<1>2. InputOK'
  BY <1>1 DEF CheckSampled, InputOK, Stages, NonemptyGroups, SetStage, At, GroupLabels
<1>3. LocalsOK'
  BY GotoTyped, ContinueTyped DEF CheckSampled, At, Labels, GroupLabels
<1>4. DecisionsOK'
  BY <1>1, DecisionTyped, ConfigAssumption DEF CheckSampled, DecisionsOK, At, GroupLabels
<1>5. CallbacksOK' /\ TracesOK' /\ ObjectsOK' /\ LocksOK' /\ OutputsOK'
  BY TypeFrame DEF CheckSampled
<1> QED
  BY <1>2, <1>3, <1>4, <1>5 DEF TypeInv

\* TypeInv is kept by CheckNonSampled.
LEMMA TypedCheckNonSampled ==
  ASSUME TypeInv, NEW s \in Shards, CheckNonSampled(s)
  PROVE  TypeInv'
<1> USE DEF TypeInv
<1>1. current(s) \in Batches /\ id(s) \in Traces /\ held(s) \in Batches
  BY CurrentTyped DEF CheckNonSampled, At, GroupLabels
<1>2. InputOK'
  BY <1>1 DEF CheckNonSampled, InputOK, Stages, NonemptyGroups, SetStage, At, GroupLabels
<1>3. LocalsOK'
  BY GotoTyped, ContinueTyped DEF CheckNonSampled, At, Labels, GroupLabels
<1>4. DecisionsOK'
  BY <1>1, DecisionTyped, ConfigAssumption DEF CheckNonSampled, DecisionsOK, At, GroupLabels
<1>5. CallbacksOK' /\ TracesOK' /\ ObjectsOK' /\ LocksOK' /\ OutputsOK'
  BY TypeFrame DEF CheckNonSampled
<1> QED
  BY <1>2, <1>3, <1>4, <1>5 DEF TypeInv

\* TypeInv is kept by NewTraceDataFails.
LEMMA TypedNewTraceDataFails ==
  ASSUME TypeInv, NEW s \in Shards, NewTraceDataFails(s)
  PROVE  TypeInv'
<1> USE DEF TypeInv
<1>1. current(s) \in Batches /\ id(s) \in Traces /\ held(s) \in Batches
  BY CurrentTyped DEF NewTraceDataFails, At, GroupLabels
<1>2. InputOK'
  BY <1>1 DEF NewTraceDataFails, InputOK, Stages, NonemptyGroups, SetStage
<1>3. LocalsOK'
  BY ContinueTyped DEF NewTraceDataFails, At, GroupLabels
<1>4. OutputsOK'
  BY <1>1 DEF NewTraceDataFails, OutputsOK, At, GroupLabels
<1>5. CallbacksOK' /\ TracesOK' /\ DecisionsOK' /\ ObjectsOK' /\ LocksOK'
  BY TypeFrame DEF NewTraceDataFails
<1> QED
  BY <1>2, <1>3, <1>4, <1>5 DEF TypeInv

\* TypeInv is kept by GetPrimary.
LEMMA TypedGetPrimary ==
  ASSUME TypeInv, NEW s \in Shards, GetPrimary(s)
  PROVE  TypeInv'
<1> USE DEF TypeInv
<1> DEFINE o == Lookup(primary, id(s))
<1>1. o \in Batches \cup {None} /\ (o # None => o \in ToSet(primary))
  BY LookupProperties DEF TracesOK
<1>2. LocalsOK'
  <2>1. CASE o # None
    BY <1>1, <2>1 DEF GetPrimary, LocalsOK, HasCurrent, HasCached, Goto, afterGet, Labels, GroupLabels, At
  <2>2. CASE o = None
    BY <2>2 DEF GetPrimary, LocalsOK, HasCurrent, HasCached, Goto, Labels, GroupLabels, At
  <2> QED
    BY <2>1, <2>2
<1>3. TracesOK'
  BY <1>1, RefreshEntries DEF GetPrimary, TracesOK
<1>4. InputOK' /\ CallbacksOK' /\ DecisionsOK' /\ ObjectsOK' /\ LocksOK' /\ OutputsOK'
  BY TypeFrame DEF GetPrimary
<1> QED
  BY <1>2, <1>3, <1>4 DEF TypeInv

\* TypeInv is kept by GetSecondary.
LEMMA TypedGetSecondary ==
  ASSUME TypeInv, NEW s \in Shards, GetSecondary(s)
  PROVE  TypeInv'
<1> USE DEF TypeInv
<1> DEFINE o == Lookup(secondary, id(s))
<1>1. o \in Batches \cup {None} /\ (o # None => o \in ToSet(secondary))
  BY LookupProperties DEF TracesOK
<1>2. LocalsOK'
  BY <1>1 DEF GetSecondary, LocalsOK, HasCurrent, HasCached, Goto, afterGet, Labels, GroupLabels, At
<1>3. TracesOK'
  BY <1>1, RefreshEntries DEF GetSecondary, TracesOK
<1>4. InputOK' /\ CallbacksOK' /\ DecisionsOK' /\ ObjectsOK' /\ LocksOK' /\ OutputsOK'
  BY TypeFrame DEF GetSecondary
<1> QED
  BY <1>2, <1>3, <1>4 DEF TypeInv

\* TypeInv is kept by Decide.
LEMMA TypedDecide ==
  ASSUME TypeInv, NEW s \in Shards, Decide(s)
  PROVE  TypeInv'
<1> USE DEF TypeInv
<1>1. LocalsOK'
  BY DEF Decide, LocalsOK, HasCurrent, HasCached, Goto, Labels, GroupLabels, At, Decisions
<1>2. ObjectsOK'
  <2>1. held(s) \in Batches /\ current(s) \in Batches
    BY CurrentTyped DEF Decide, At, GroupLabels
  <2>2. UNCHANGED objectVars \/ \E d \in Decisions : Absorb(s, d)
    BY DEF Decide
  <2>3. CASE UNCHANGED objectVars
    BY <2>3, TypeFrame
  <2>4. ASSUME NEW d \in Decisions, Absorb(s, d) PROVE ObjectsOK'
    <3>1. \E p \in Priorities : priority' = [priority EXCEPT ![held(s)] = p]
      BY <2>4 DEF Absorb, Priorities
    <3>2. data' = [data EXCEPT ![held(s)] = data[held(s)] \cup {current(s)}]
      BY <2>4 DEF Absorb
    <3> QED
      BY <2>1, <3>1, <3>2 DEF ObjectsOK
  <2> QED
    BY <2>2, <2>3, <2>4
<1>3. InputOK' /\ CallbacksOK' /\ TracesOK' /\ DecisionsOK' /\ LocksOK' /\ OutputsOK'
  BY TypeFrame DEF Decide
<1> QED
  BY <1>1, <1>2, <1>3 DEF TypeInv

\* TypeInv is kept by PutSampled.
LEMMA TypedPutSampled ==
  ASSUME TypeInv, NEW s \in Shards, PutSampled(s)
  PROVE  TypeInv'
<1> USE DEF TypeInv
<1>1. current(s) \in Batches /\ id(s) \in Traces /\ held(s) \in Batches
  BY CurrentTyped DEF PutSampled, At, GroupLabels
<1>2. InputOK'
  BY <1>1 DEF PutSampled, InputOK, Stages, NonemptyGroups, SetStage
<1>3. LocalsOK'
  BY GotoTyped, ContinueTyped DEF PutSampled, At, Labels, GroupLabels, afterPutSampled
<1>4. DecisionsOK'
  BY <1>1, DecisionTyped, ConfigAssumption DEF PutSampled, DecisionsOK, At, GroupLabels
<1>5. CallbacksOK' /\ TracesOK' /\ ObjectsOK' /\ LocksOK' /\ OutputsOK'
  BY TypeFrame DEF PutSampled
<1> QED
  BY <1>2, <1>3, <1>4, <1>5 DEF TypeInv

\* TypeInv is kept by SendCached.
LEMMA TypedSendCached ==
  ASSUME TypeInv, NEW s \in Shards, SendCached(s)
  PROVE  TypeInv'
<1> USE DEF TypeInv
<1>1. LocalsOK'
  BY GotoTyped DEF SendCached, At, Labels, GroupLabels
<1>2. OutputsOK'
  <2>1. data[cachedData[s]] \subseteq Batches
    BY DEF SendCached, ObjectsOK, LocalsOK, HasCached, At
  <2>2. UNCHANGED ruledOut
    BY DEF SendCached
  <2>3. CASE Forward(data[cachedData[s]]) /\ UNCHANGED dropped
    BY <2>2, <2>3 DEF OutputsOK, Forward
  <2>4. CASE /\ dropped' = dropped \cup data[cachedData[s]]
             /\ UNCHANGED forwarded
    BY <2>1, <2>2, <2>4 DEF OutputsOK
  <2> QED
    BY <2>3, <2>4 DEF SendCached
<1>3. InputOK' /\ CallbacksOK' /\ TracesOK' /\ DecisionsOK' /\ ObjectsOK' /\ LocksOK'
  BY TypeFrame DEF SendCached
<1> QED
  BY <1>1, <1>2, <1>3 DEF TypeInv

\* TypeInv is kept by SendCurrent.
LEMMA TypedSendCurrent ==
  ASSUME TypeInv, NEW s \in Shards, SendCurrent(s)
  PROVE  TypeInv'
<1> USE DEF TypeInv
<1>1. current(s) \in Batches
  BY CurrentTyped DEF SendCurrent, At, GroupLabels
<1>2. InputOK'
  BY <1>1 DEF SendCurrent, InputOK, Stages, NonemptyGroups, SetStage
<1>3. LocalsOK'
  BY ContinueTyped DEF SendCurrent, At, GroupLabels
<1>4. OutputsOK'
  BY DEF SendCurrent, OutputsOK, Forward
<1>5. CallbacksOK' /\ TracesOK' /\ DecisionsOK' /\ ObjectsOK' /\ LocksOK'
  BY TypeFrame DEF SendCurrent
<1> QED
  BY <1>2, <1>3, <1>4, <1>5 DEF TypeInv

\* TypeInv is kept by PutNonSampled.
LEMMA TypedPutNonSampled ==
  ASSUME TypeInv, NEW s \in Shards, PutNonSampled(s)
  PROVE  TypeInv'
<1> USE DEF TypeInv
<1>1. current(s) \in Batches /\ id(s) \in Traces /\ held(s) \in Batches
  BY CurrentTyped DEF PutNonSampled, At, GroupLabels
<1>2. LocalsOK'
  BY GotoTyped DEF PutNonSampled, At, Labels, GroupLabels
<1>3. DecisionsOK'
  BY <1>1, DecisionTyped, ConfigAssumption DEF PutNonSampled, DecisionsOK, At, GroupLabels
<1>4. OutputsOK'
  BY <1>1 DEF PutNonSampled, OutputsOK
<1>5. InputOK' /\ CallbacksOK' /\ TracesOK' /\ ObjectsOK' /\ LocksOK'
  BY TypeFrame DEF PutNonSampled
<1> QED
  BY <1>2, <1>3, <1>4, <1>5 DEF TypeInv

\* TypeInv is kept by DeletePrimary.
LEMMA TypedDeletePrimary ==
  ASSUME TypeInv, NEW s \in Shards, DeletePrimary(s)
  PROVE  TypeInv'
<1> USE DEF TypeInv
<1>1. LocalsOK'
  BY GotoTyped DEF DeletePrimary, At, Labels, GroupLabels
<1>2. CallbacksOK'
  BY DeleteTyped DEF DeletePrimary, TracesOK
<1>3. TracesOK'
  BY WithoutProperties DEF DeletePrimary, TracesOK
<1>4. InputOK' /\ DecisionsOK' /\ ObjectsOK' /\ LocksOK' /\ OutputsOK'
  BY TypeFrame DEF DeletePrimary
<1> QED
  BY <1>1, <1>2, <1>3, <1>4 DEF TypeInv

\* TypeInv is kept by DeleteSecondary.
LEMMA TypedDeleteSecondary ==
  ASSUME TypeInv, NEW s \in Shards, DeleteSecondary(s)
  PROVE  TypeInv'
<1> USE DEF TypeInv
<1>1. current(s) \in Batches
  BY CurrentTyped DEF DeleteSecondary, At, GroupLabels
<1>2. InputOK'
  BY <1>1 DEF DeleteSecondary, InputOK, Stages, NonemptyGroups, SetStage
<1>3. LocalsOK'
  BY GotoTyped, ContinueTyped DEF DeleteSecondary, At, Labels, GroupLabels
<1>4. CallbacksOK'
  BY DeleteTyped DEF DeleteSecondary, TracesOK
<1>5. TracesOK'
  BY WithoutProperties, ConfigAssumption DEF DeleteSecondary, TracesOK
<1>6. DecisionsOK' /\ ObjectsOK' /\ LocksOK' /\ OutputsOK'
  BY TypeFrame DEF DeleteSecondary
<1> QED
  BY <1>2, <1>3, <1>4, <1>5, <1>6 DEF TypeInv

\* TypeInv is kept by PutDelete.
LEMMA TypedPutDelete ==
  ASSUME TypeInv, NEW s \in Shards, PutDelete(s)
  PROVE  TypeInv'
<1> USE DEF TypeInv
<1>1. LocalsOK'
  BY GotoTyped DEF PutDelete, At, Labels, GroupLabels
<1>2. CallbacksOK'
  BY DeleteTyped DEF PutDelete, TracesOK
<1>3. TracesOK'
  BY WithoutProperties, ConfigAssumption DEF PutDelete, TracesOK
<1>4. InputOK' /\ DecisionsOK' /\ ObjectsOK' /\ LocksOK' /\ OutputsOK'
  BY TypeFrame DEF PutDelete
<1> QED
  BY <1>1, <1>2, <1>3, <1>4 DEF TypeInv

\* TypeInv is kept by PutInsert.
LEMMA TypedPutInsert ==
  ASSUME TypeInv, NEW s \in Shards, PutInsert(s)
  PROVE  TypeInv'
<1> USE DEF TypeInv
<1> DEFINE p == Insert(primary, Lookup(primary, id(s)), held(s))
           q == Insert(secondary, Lookup(secondary, id(s)), held(s))
<1>0. held(s) \in Batches
  BY CurrentTyped DEF PutInsert, At, GroupLabels
<1>1. /\ Trim(p, primaryCap) \in Seq(Batches) /\ Spill(p, primaryCap) \in Seq(Batches)
      /\ Len(Trim(p, primaryCap)) <= primaryCap
  BY <1>0, PutProperties DEF TracesOK
<1>2. /\ Trim(q, SecondaryCacheSize) \in Seq(Batches) /\ Spill(q, SecondaryCacheSize) \in Seq(Batches)
      /\ Len(Trim(q, SecondaryCacheSize)) <= SecondaryCacheSize
  BY <1>0, PutProperties, ConfigAssumption DEF TracesOK
<1>3. current(s) \in Batches
  BY CurrentTyped DEF PutInsert, At, GroupLabels
<1>4. InputOK'
  BY <1>3 DEF PutInsert, InputOK, Stages, NonemptyGroups, SetStage
<1>5. LocalsOK'
  BY ContinueTyped DEF PutInsert, At, GroupLabels
<1>6. CallbacksOK'
  BY <1>1, <1>2, EvictTyped DEF PutInsert
<1>7. TracesOK'
  BY <1>1, <1>2 DEF PutInsert, TracesOK
<1>8. DecisionsOK' /\ ObjectsOK' /\ LocksOK' /\ OutputsOK'
  BY TypeFrame DEF PutInsert
<1> QED
  BY <1>4, <1>5, <1>6, <1>7, <1>8 DEF TypeInv

\* TypeInv is kept by CallbackPriority.
LEMMA TypedCallbackPriority ==
  ASSUME TypeInv, NEW s \in Shards, CallbackPriority(s)
  PROVE  TypeInv'
<1> USE DEF TypeInv
<1>1. CallbacksOK'
  BY CallbackTyped DEF CallbackPriority, CallbackLabels
<1>2. InputOK' /\ LocalsOK' /\ TracesOK' /\ DecisionsOK' /\ ObjectsOK' /\ LocksOK' /\ OutputsOK'
  BY TypeFrame DEF CallbackPriority
<1> QED
  BY <1>1, <1>2 DEF TypeInv

\* TypeInv is kept by CallbackCheckSampled.
LEMMA TypedCallbackCheckSampled ==
  ASSUME TypeInv, NEW s \in Shards, CallbackCheckSampled(s)
  PROVE  TypeInv'
<1> USE DEF TypeInv
<1>1. CallbacksOK'
  BY CallbackTyped DEF CallbackCheckSampled, CallbackLabels
<1>2. DecisionsOK'
  BY VictimTyped, DecisionTyped, ConfigAssumption DEF CallbackCheckSampled, DecisionsOK
<1>3. InputOK' /\ LocalsOK' /\ TracesOK' /\ ObjectsOK' /\ LocksOK' /\ OutputsOK'
  BY TypeFrame DEF CallbackCheckSampled
<1> QED
  BY <1>1, <1>2, <1>3 DEF TypeInv

\* TypeInv is kept by CallbackCheckNonSampled.
LEMMA TypedCallbackCheckNonSampled ==
  ASSUME TypeInv, NEW s \in Shards, CallbackCheckNonSampled(s)
  PROVE  TypeInv'
<1> USE DEF TypeInv
<1>1. CallbacksOK'
  BY CallbackTyped DEF CallbackCheckNonSampled, CallbackLabels
<1>2. DecisionsOK'
  BY VictimTyped, DecisionTyped, ConfigAssumption DEF CallbackCheckNonSampled, DecisionsOK
<1>3. InputOK' /\ LocalsOK' /\ TracesOK' /\ ObjectsOK' /\ LocksOK' /\ OutputsOK'
  BY TypeFrame DEF CallbackCheckNonSampled
<1> QED
  BY <1>1, <1>2, <1>3 DEF TypeInv

\* TypeInv is kept by CallbackRecord.
LEMMA TypedCallbackRecord ==
  ASSUME TypeInv, NEW s \in Shards, CallbackRecord(s)
  PROVE  TypeInv'
<1> USE DEF TypeInv
<1>1. CallbacksOK'
  BY CallbackTyped DEF CallbackRecord, CallbackLabels
<1>2. DecisionsOK'
  BY VictimTyped, DecisionTyped, ConfigAssumption DEF CallbackRecord, DecisionsOK
<1>3. OutputsOK'
  BY VictimTyped DEF CallbackRecord, OutputsOK
<1>4. InputOK' /\ LocalsOK' /\ TracesOK' /\ ObjectsOK' /\ LocksOK'
  BY TypeFrame DEF CallbackRecord
<1> QED
  BY <1>1, <1>2, <1>3, <1>4 DEF TypeInv

\* Every step of every goroutine keeps the state well typed.
LEMMA TypeInvNext == TypeInv /\ [Next]_vars => TypeInv'
<1> SUFFICES ASSUME TypeInv, [Next]_vars PROVE TypeInv'
  OBVIOUS
<1>1. ASSUME NEW r \in Requests, ConsumeTraces(r) PROVE TypeInv'
  BY <1>1, TypedConsumeTraces
<1>2. ASSUME NEW b \in Batches, EarlyStep(b) \/ AsyncSend(b) PROVE TypeInv'
  BY <1>2, TypedEarlySkip, TypedEarlyCheckSampled, TypedEarlyCheckNonSampled,
     TypedAsyncSend DEF EarlyStep
<1>3. ASSUME NEW r \in Requests, NEW s \in Shards, Send(r, s) \/ ContextCancelled(r, s)
      PROVE  TypeInv'
  BY <1>3, TypedSend, TypedContextCancelled
<1>4. ASSUME NEW s \in Shards, Tick(s) \/ Receive(s) \/ LockStep(s) PROVE TypeInv'
  BY <1>4, TypedTick, TypedReceive, TypedReadLock, TypedReadUnlock,
     TypedAnnounceWriter, TypedRegulate, TypedWriteUnlock DEF LockStep
<1>5. ASSUME NEW s \in Shards, GroupStep(s) PROVE TypeInv'
  BY <1>5, TypedCheckSampled, TypedCheckNonSampled, TypedNewTraceDataFails,
     TypedGetPrimary, TypedGetSecondary, TypedDecide, TypedPutSampled,
     TypedSendCached, TypedSendCurrent, TypedPutNonSampled, TypedDeletePrimary,
     TypedDeleteSecondary, TypedPutDelete, TypedPutInsert DEF GroupStep
<1>6. ASSUME NEW s \in Shards, CallbackStep(s) PROVE TypeInv'
  BY <1>6, TypedCallbackPriority, TypedCallbackCheckSampled,
     TypedCallbackCheckNonSampled, TypedCallbackRecord DEF CallbackStep
<1>7. CASE UNCHANGED vars
  BY <1>7, TypeFrame DEF vars, TypeInv
<1> QED
  BY <1>1, <1>2, <1>3, <1>4, <1>5, <1>6, <1>7 DEF Next, ListenerStep, Quiet

\* TypeInv is an invariant.
LEMMA TypeInvariant == Spec => []TypeInv
<1>1. TypeInv /\ [Next]_vars => TypeInv'
  BY TypeInvNext
<1> QED
  BY TypeInvInit, <1>1, PTL DEF Spec

\* The type invariant, with the capacities of the four caches, holds for any
\* number of shards, traces, batches and calls: no interleaving of the shard
\* listeners, their eviction callbacks, the early checks and the regulator
\* takes a cache above its capacity or an index out of gtdArr.
THEOREM TypeCorrect == Spec => []TypeOK
  BY TypeInvariant, TypeInvImpliesTypeOK, PTL

----------------------------------------------------------------------------
(* The global lock: a shard listener read-locks it for a whole            *)
(* processTraces call, the regulator write-locks it.                       *)

\* Whoever is inside processTraces is a reader, and the writer is known.
LockInv ==
  /\ \A s \in Shards : pc[s] \in GroupLabels \cup {"unlock"} => s \in readers
  /\ \A s \in Shards : pc[s] \in {"regulate", "writeUnlock"} => writer = s

\* No group is processed before the first lock is taken.
LEMMA LockInvInit == Init => LockInv
  BY DEF Init, LockInv, GroupLabels

\* A step inside processTraces stays inside it, under the same read lock.
LEMMA LockInside ==
  ASSUME LocalsOK, LockInv, NEW s \in Shards, pc[s] \in GroupLabels,
         NEW label \in GroupLabels \cup {"unlock"}, Goto(s, label), UNCHANGED lockVars
  PROVE  LockInv'
  BY DEF LocalsOK, LockInv, Goto, lockVars, GroupLabels

\* The steps of processTraces lead to one another or to RUnlock.
LEMMA GroupStepInside ==
  ASSUME LocalsOK, NEW s \in Shards, GroupStep(s)
  PROVE  /\ pc[s] \in GroupLabels
         /\ \E label \in GroupLabels \cup {"unlock"} : Goto(s, label)
         /\ UNCHANGED lockVars
<1>1. ASSUME Continue(s)
      PROVE  \E label \in GroupLabels \cup {"unlock"} : Goto(s, label)
  BY <1>1 DEF Continue, GroupLabels
<1>2. CASE CheckSampled(s) \/ CheckNonSampled(s)
  BY <1>1, <1>2 DEF CheckSampled, CheckNonSampled, At, GroupLabels
<1>3. CASE NewTraceDataFails(s) \/ SendCurrent(s) \/ PutInsert(s)
  BY <1>1, <1>3 DEF NewTraceDataFails, SendCurrent, PutInsert, At, GroupLabels
<1>4. CASE GetPrimary(s) \/ GetSecondary(s)
  BY <1>4 DEF GetPrimary, GetSecondary, afterGet, At, GroupLabels
<1>5. CASE Decide(s)
  BY <1>5 DEF Decide, At, GroupLabels
<1>6. CASE PutSampled(s) \/ DeleteSecondary(s)
  BY <1>1, <1>6 DEF PutSampled, DeleteSecondary, afterPutSampled, At, GroupLabels
<1>7. CASE SendCached(s) \/ PutNonSampled(s) \/ DeletePrimary(s) \/ PutDelete(s)
  BY <1>7 DEF SendCached, PutNonSampled, DeletePrimary, PutDelete, At, GroupLabels
<1> QED
  BY <1>2, <1>3, <1>4, <1>5, <1>6, <1>7 DEF GroupStep

\* The lock discipline is kept by every step.
LEMMA LockInvNext == TypeInv /\ LockInv /\ [Next]_vars => LockInv'
<1> SUFFICES ASSUME TypeInv, LockInv, [Next]_vars PROVE LockInv'
  OBVIOUS
<1>0. LocalsOK
  BY DEF TypeInv
<1>1. ASSUME UNCHANGED pc, UNCHANGED lockVars PROVE LockInv'
  BY <1>1 DEF LockInv, lockVars
<1>2. ASSUME NEW r \in Requests, ConsumeTraces(r) PROVE LockInv'
  BY <1>1, <1>2 DEF ConsumeTraces, localVars
<1>3. ASSUME NEW b \in Batches, EarlyStep(b) \/ AsyncSend(b) PROVE LockInv'
  BY <1>1, <1>3 DEF EarlyStep, EarlySkip, EarlyCheckSampled, EarlyCheckNonSampled,
     AsyncSend, localVars
<1>4. ASSUME NEW r \in Requests, NEW s \in Shards, ContextCancelled(r, s) PROVE LockInv'
  BY <1>1, <1>4 DEF ContextCancelled, localVars
<1>5. ASSUME NEW r \in Requests, NEW s \in Shards, Send(r, s) PROVE LockInv'
  BY <1>0, <1>1, <1>5 DEF Send, Goto, LocalsOK, LockInv, lockVars, GroupLabels
<1>6. ASSUME NEW s \in Shards, Receive(s) \/ Tick(s) PROVE LockInv'
  BY <1>0, <1>6 DEF Receive, Tick, Goto, LocalsOK, LockInv, lockVars, GroupLabels
<1>7. ASSUME NEW s \in Shards, ReadLock(s) \/ ReadUnlock(s) PROVE LockInv'
  BY <1>0, <1>7 DEF ReadLock, ReadUnlock, At, Goto, LocalsOK, LockInv, GroupLabels
<1>8. ASSUME NEW s \in Shards, AnnounceWriter(s) PROVE LockInv'
  <2>1. \A u \in Shards : pc[u] \notin {"regulate", "writeUnlock"}
    BY <1>8, InputAssumption DEF AnnounceWriter, LockInv
  <2> QED
    BY <1>0, <1>8, <2>1 DEF AnnounceWriter, Goto, LocalsOK, LockInv, GroupLabels
<1>9. ASSUME NEW s \in Shards, Regulate(s) PROVE LockInv'
  BY <1>0, <1>9 DEF Regulate, At, Goto, LocalsOK, LockInv, lockVars, GroupLabels
<1>10. ASSUME NEW s \in Shards, WriteUnlock(s) PROVE LockInv'
  BY <1>0, <1>10 DEF WriteUnlock, At, Goto, LocalsOK, LockInv, GroupLabels
<1>11. ASSUME NEW s \in Shards, GroupStep(s) PROVE LockInv'
  BY <1>0, <1>11, GroupStepInside, LockInside
<1>12. ASSUME NEW s \in Shards, CallbackStep(s) PROVE LockInv'
  BY <1>1, <1>12 DEF CallbackStep, CallbackPriority, CallbackCheckSampled,
     CallbackCheckNonSampled, CallbackRecord, localVars
<1>13. CASE UNCHANGED vars
  BY <1>1, <1>13 DEF vars, localVars
<1> QED
  BY <1>2, <1>3, <1>4, <1>5, <1>6, <1>7, <1>8, <1>9, <1>10, <1>11, <1>12, <1>13
  DEF Next, ListenerStep, LockStep, Quiet

\* Only the regulator changes the capacity of the primary cache.
LEMMA OnlyRegulateResizes ==
  ASSUME [Next]_vars, primaryCap' # primaryCap
  PROVE  \E s \in Shards : Regulate(s)
<1> USE DEF traceVars
<1>1. ASSUME NEW r \in Requests, ConsumeTraces(r) PROVE FALSE
  BY <1>1 DEF ConsumeTraces
<1>2. ASSUME NEW b \in Batches, EarlyStep(b) \/ AsyncSend(b) PROVE FALSE
  BY <1>2 DEF EarlyStep, EarlySkip, EarlyCheckSampled, EarlyCheckNonSampled, AsyncSend
<1>3. ASSUME NEW r \in Requests, NEW s \in Shards, Send(r, s) \/ ContextCancelled(r, s)
      PROVE  FALSE
  BY <1>3 DEF Send, ContextCancelled
<1>4. ASSUME NEW s \in Shards,
             Tick(s) \/ Receive(s) \/ ReadLock(s) \/ ReadUnlock(s) \/ AnnounceWriter(s) \/ WriteUnlock(s)
      PROVE  FALSE
  BY <1>4 DEF Tick, Receive, ReadLock, ReadUnlock, AnnounceWriter, WriteUnlock
<1>5. ASSUME NEW s \in Shards, GroupStep(s) PROVE FALSE
  BY <1>5 DEF GroupStep, CheckSampled, CheckNonSampled, NewTraceDataFails, GetPrimary,
     GetSecondary, Decide, PutSampled, SendCached, SendCurrent, PutNonSampled,
     DeletePrimary, DeleteSecondary, PutDelete, PutInsert
<1>6. ASSUME NEW s \in Shards, CallbackStep(s) PROVE FALSE
  BY <1>6 DEF CallbackStep, CallbackPriority, CallbackCheckSampled,
     CallbackCheckNonSampled, CallbackRecord
<1>7. CASE UNCHANGED vars
  BY <1>7 DEF vars
<1> QED
  BY <1>1, <1>2, <1>3, <1>4, <1>5, <1>6, <1>7 DEF Next, ListenerStep, LockStep, Quiet

\* Resizing the primary cache stops the world (processor.go:306): for any
\* number of shards, the capacity changes only while no listener is between
\* RLock and RUnlock and no other regulator run is under way.
THEOREM RegulatorExcludesShards == Spec => ResizeStopsTheWorld
<1> DEFINE Stopped ==
      primaryCap' # primaryCap =>
        \A s \in Shards : pc[s] \in {"listen", "readLock", "writeLock", "regulate"}
<1>1. ASSUME TypeInv, LockInv, [Next]_vars PROVE [Stopped]_vars
  <2> SUFFICES ASSUME primaryCap' # primaryCap, NEW u \in Shards
               PROVE  pc[u] \in {"listen", "readLock", "writeLock", "regulate"}
    OBVIOUS
  <2>1. PICK s \in Shards : Regulate(s)
    BY <1>1, OnlyRegulateResizes
  <2>2. pc[s] = "regulate" /\ readers = {} /\ writer = s
    BY <1>1, <2>1 DEF Regulate, At, readersGone, LockInv
  <2>3. pc[u] \notin GroupLabels \cup {"unlock"}
    BY <1>1, <2>2 DEF LockInv
  <2>4. pc[u] # "writeUnlock"
    BY <1>1, <2>2 DEF LockInv
  <2>5. pc[u] \in Labels
    BY <1>1 DEF TypeInv, LocalsOK
  <2> QED
    BY <2>3, <2>4, <2>5 DEF Labels, GroupLabels
<1>2. TypeInv /\ LockInv /\ [Next]_vars => LockInv'
  BY LockInvNext
<1>3. Spec => [](TypeInv /\ LockInv)
  BY TypeInvariant, LockInvInit, <1>2, PTL DEF Spec
<1> QED
  BY <1>1, <1>3, PTL DEF Spec, ResizeStopsTheWorld
=============================================================================
