---------------------------- MODULE OneShardProofs ----------------------------
(***************************************************************************)
(* With one shard, SamplingProcessor implements SpanFate: no spans are     *)
(* lost without a record, and a trace remembered as not sampled has none   *)
(* left waiting.  With two shards neither is true (RaceLoss.cfg).          *)
(*                                                                         *)
(* The invariant says what a release, a deletion and an eviction know that *)
(* no cache shows: that the spans a deletion takes out were sent, or that  *)
(* their trace is ruled out, and that an evicted trace has no other entry. *)
(* One listener is enough for that, because what it evicts nobody else can *)
(* put back or decide on before its callback ends.                         *)
(***************************************************************************)
EXTENDS DeliveryProofs

\* The spans of a batch were sent, or an internal error lost them.
Gone(b)    == forwarded[b] > 0 \/ b \in dropped
AllGone(o) == \A b \in data[o] : Gone(b)

\* The steps at which a listener waits for a callback it has caused.
restingLabels == {"writeUnlock", "unlock", "checkSampled", "deleteSecondary", "putSampled",
                  "sendCurrent", "putInsert"}

\* What the Delete of a promotion took out is about to be put back.
promoted(s) ==
  /\ callback[s] = "priority"
  /\ victims[s] = <<cachedData[s]>>
  /\ priority[cachedData[s]] # "Low"

\* An evicted trace has no other entry, and if it is remembered as sampled its
\* spans are gone, or it was ruled out before.
evictedAlone(o) == NoEntry(primary, TraceOf[o]) /\ NoEntry(secondary, TraceOf[o])
VictimInv(s) ==
  /\ callback[s] = "none" => victims[s] = <<>>
  /\ callback[s] # "none" => pc[s] \in restingLabels
  /\ pc[s] = "putInsert" => (callback[s] # "none" => promoted(s))
  /\ pc[s] # "putInsert" => /\ callback[s] = "priority" => priority[victim(s)] = "Low"
                            /\ \A o \in ToSet(victims[s]) : evictedAlone(o)
  /\ callback[s] = "touchNonSampled" => victimId(s) \in ToSet(sampled)
  /\ callback[s] \in {"checkNonSampled", "record"} => victimId(s) \notin ToSet(sampled)
  /\ \A o \in ToSet(victims[s]) :
       TraceOf[o] \in ToSet(sampled) => AllGone(o) \/ TraceOf[o] \in ruledOut

\* The trace has no entry but the one Get returned.
OnlyCached(s) == \A o \in entries : TraceOf[o] = id(s) => o = cachedData[s]

\* The current trace was decided to be sampled.
yesPath(s) == finalDecision[s] = "Sampled" \/ KindOf[current(s)] = "sampledDecision"

\* Where the steps taken for the current group have led.
KindsInv(s) ==
  /\ pc[s] \in {"decide", "sendCurrent"} \cup putLabels => KindOf[current(s)] = "spans"
  /\ pc[s] \in {"getPrimary", "getSecondary"} => KindOf[current(s)] # "nonSampledDecision"
  /\ finalDecision[s] = "Sampled" =>
       /\ pc[s] \in {"putSampled", "sendCached", "sendCurrent"} \cup deleteLabels
       /\ KindOf[current(s)] = "spans"
  /\ pc[s] \in {"putSampled", "sendCached"} => yesPath(s)
  /\ pc[s] = "putNonSampled" => ~yesPath(s)

\* What becomes of the cached data of the current trace.
PathInv(s) ==
  /\ pc[s] \in {"checkSampled", "checkNonSampled", "getPrimary", "getSecondary"} =>
       cachedData[s] = None
  /\ pc[s] \in {"decide", "putSampled", "sendCached"} \cup putLabels => OnlyCached(s)
  /\ pc[s] \in putLabels => current(s) \in data[held(s)]
  /\ pc[s] \in deleteLabels =>
       IF yesPath(s) THEN OnlyCached(s) /\ cachedData[s] # None /\ AllGone(cachedData[s])
       ELSE id(s) \in ruledOut
  /\ (pc[s] = "sendCurrent" \/ (pc[s] = "putSampled" /\ KindOf[current(s)] # "spans"))
       /\ cachedData[s] # None => AllGone(cachedData[s])

\* What is held has not been lost, unless it is being deleted after that.
Kept(o) == \A b \in data[o] : b \notin dropped
FreshInv(s) ==
  /\ \A o \in entries : Kept(o) \/ (pc[s] \in deleteLabels /\ TraceOf[o] = id(s))
  /\ (aboutToSend(s) \/ pc[s] \in putLabels) /\ cachedData[s] # None => Kept(cachedData[s])

\* Only spans are held, in a tier, by the listener or under eviction.
holds(s) == entries \cup ({cachedData[s]} \ {None}) \cup ToSet(victims[s])
SpansInv(s) == holds(s) \subseteq spanBatches /\ \A o \in spanBatches : data[o] \subseteq spanBatches

\* What the history variables remember.
GoneInv ==
  /\ ToSet(nonSampled) \subseteq ruledOut
  /\ \A b \in dropped : stage[b] = "settled" /\ KindOf[b] = "spans"

\* A trace that is being evaluated or put back was not decided before.
CleanInv(s) ==
  pc[s] \in {"getPrimary", "getSecondary", "decide"} \cup putLabels => id(s) \notin ToSet(nonSampled)

Base == TypeInv /\ TierInv /\ TierMatchesPriority /\ DeliveryInv
OneShardInv(s) ==
  /\ Base
  /\ VictimInv(s) /\ KindsInv(s) /\ PathInv(s) /\ FreshInv(s) /\ SpansInv(s) /\ GoneInv
  /\ NonSampledIsReleased /\ CleanInv(s)

----------------------------------------------------------------------------
(* What every step keeps *)

\* The group a listener works on is queued, and was neither sent nor lost.
LEMMA CurrentQueued ==
  ASSUME Base, NEW s \in Shards, pc[s] \in GroupLabels
  PROVE  /\ current(s) \in Batches /\ id(s) \in Traces
         /\ stage[current(s)] = "queued" /\ forwarded[current(s)] = 0
         /\ data[current(s)] = {current(s)}
<1>1. LocalsOK /\ TypeInv /\ TierInv /\ ShardDelivery(s)
  BY DEF Base, TypeInv, DeliveryInv
<1>2. /\ gtdArr[s] \in Seq(Batches) /\ gtdArr[s] # <<>>
      /\ current(s) = gtdArr[s][1] /\ 1 \in 1..Len(gtdArr[s])
  BY <1>1 DEF LocalsOK, HasCurrent, current
<1>3. current(s) \in ownBatches(s) /\ current(s) \in Batches /\ id(s) \in Traces
  BY <1>1, OwnHands, CurrentTyped
<1>4. stage[current(s)] = "queued"
  BY <1>1, <1>2 DEF ShardDelivery, QueueInv
<1>5. BatchInv(current(s))
  BY <1>1, <1>3 DEF ShardDelivery
<1> QED
  BY <1>3, <1>4, <1>5 DEF BatchInv

\* Spans that were sent stay sent, and what is settled stays settled.
LEMMA StagesMonotone ==
  ASSUME Base, [Next]_vars, NEW b \in Batches
  PROVE  stage[b] = "settled" => stage'[b] = "settled"
<1> SUFFICES ASSUME stage[b] = "settled" PROVE stage'[b] = "settled"
  OBVIOUS
<1>0. stage \in [Batches -> Stages]
  BY DEF Base, TypeInv, InputOK
<1>1. ASSUME NEW c, stage[c] # "settled", NEW st, SetStage(c, st) PROVE stage'[b] = "settled"
  BY <1>0, <1>1 DEF SetStage
<1>2. ASSUME NEW r \in Requests, ConsumeTraces(r) PROVE stage'[b] = "settled"
  BY <1>2 DEF ConsumeTraces
<1>3. ASSUME NEW c \in Batches, EarlyStep(c) \/ AsyncSend(c) PROVE stage'[b] = "settled"
  BY <1>1, <1>3 DEF EarlyStep, EarlySkip, EarlyCheckSampled, EarlyCheckNonSampled, AsyncSend
<1>4. ASSUME NEW r \in Requests, NEW s \in Shards, Send(r, s) \/ ContextCancelled(r, s)
      PROVE  stage'[b] = "settled"
  BY <1>4 DEF Send, ContextCancelled, shardGroup
<1>5. ASSUME NEW s \in Shards, Tick(s) \/ Receive(s) \/ LockStep(s) PROVE stage'[b] = "settled"
  BY <1>5 DEF Tick, Receive, LockStep, ReadLock, ReadUnlock, AnnounceWriter, Regulate,
     WriteUnlock, inputVars
<1>6. ASSUME NEW s \in Shards, GroupStep(s) PROVE stage'[b] = "settled"
  <2>1. pc[s] \in GroupLabels
    BY <1>6, GroupStepInside DEF Base, TypeInv
  <2>2. stage[current(s)] # "settled"
    BY <2>1, CurrentQueued
  <2>3. stage' = stage \/ \E st : SetStage(current(s), st)
    <3>1. CASE CheckSampled(s) \/ CheckNonSampled(s) \/ NewTraceDataFails(s)
      BY <3>1 DEF CheckSampled, CheckNonSampled, NewTraceDataFails
    <3>2. CASE GetPrimary(s) \/ GetSecondary(s) \/ Decide(s)
      BY <3>2 DEF GetPrimary, GetSecondary, Decide, inputVars
    <3>3. CASE PutSampled(s) \/ SendCached(s) \/ SendCurrent(s) \/ PutNonSampled(s)
      BY <3>3 DEF PutSampled, SendCached, SendCurrent, PutNonSampled, inputVars
    <3>4. CASE DeletePrimary(s) \/ DeleteSecondary(s) \/ PutDelete(s) \/ PutInsert(s)
      BY <3>4 DEF DeletePrimary, DeleteSecondary, PutDelete, PutInsert, inputVars
    <3> QED
      BY <1>6, <3>1, <3>2, <3>3, <3>4 DEF GroupStep
  <2> QED
    BY <1>1, <2>2, <2>3
<1>7. ASSUME NEW s \in Shards, CallbackStep(s) PROVE stage'[b] = "settled"
  BY <1>7 DEF CallbackStep, CallbackPriority, CallbackCheckSampled, CallbackCheckNonSampled,
     CallbackRecord, inputVars
<1>8. CASE UNCHANGED vars
  BY <1>8 DEF vars, inputVars
<1> QED
  BY <1>2, <1>3, <1>4, <1>5, <1>6, <1>7, <1>8 DEF Next, ListenerStep, Quiet

\* Nothing that was sent, lost or ruled out is forgotten.
LEMMA OutputsMonotone ==
  ASSUME Base, [Next]_vars
  PROVE  /\ \A b \in Batches : forwarded[b] > 0 => forwarded'[b] > 0
         /\ dropped \subseteq dropped' /\ ruledOut \subseteq ruledOut'
<1>1. ASSUME NEW B, Forward(B), NEW b \in Batches, forwarded[b] > 0 PROVE forwarded'[b] > 0
  <2>1. forwarded[b] \in Nat
    BY DEF Base, TypeInv, OutputsOK
  <2> QED
    BY <1>1, <2>1 DEF Forward
<1>2. /\ forwarded' = forwarded \/ \E B : Forward(B)
      /\ dropped \subseteq dropped' /\ ruledOut \subseteq ruledOut'
  <2> USE DEF outputVars
  <2>1. ASSUME NEW r \in Requests, ConsumeTraces(r)
        PROVE  UNCHANGED outputVars
    BY <2>1 DEF ConsumeTraces
  <2>2. ASSUME NEW c \in Batches, EarlyStep(c) \/ AsyncSend(c)
        PROVE  (forwarded' = forwarded \/ \E B : Forward(B)) /\ UNCHANGED <<dropped, ruledOut>>
    BY <2>2 DEF EarlyStep, EarlySkip, EarlyCheckSampled, EarlyCheckNonSampled, AsyncSend
  <2>3. ASSUME NEW r \in Requests, NEW s \in Shards, Send(r, s) \/ ContextCancelled(r, s)
        PROVE  UNCHANGED outputVars
    BY <2>3 DEF Send, ContextCancelled
  <2>4. ASSUME NEW s \in Shards, Tick(s) \/ Receive(s) \/ LockStep(s) PROVE UNCHANGED outputVars
    BY <2>4 DEF Tick, Receive, LockStep, ReadLock, ReadUnlock, AnnounceWriter, Regulate,
       WriteUnlock
  <2>5. ASSUME NEW s \in Shards, GroupStep(s)
        PROVE  /\ forwarded' = forwarded \/ \E B : Forward(B)
               /\ dropped \subseteq dropped' /\ ruledOut \subseteq ruledOut'
    <3>1. CASE \/ CheckSampled(s) \/ CheckNonSampled(s) \/ NewTraceDataFails(s)
               \/ GetPrimary(s) \/ GetSecondary(s) \/ Decide(s) \/ PutSampled(s)
      BY <3>1 DEF CheckSampled, CheckNonSampled, NewTraceDataFails, GetPrimary, GetSecondary,
         Decide, PutSampled
    <3>2. CASE SendCached(s)
      BY <3>2 DEF SendCached
    <3>3. CASE SendCurrent(s) \/ PutNonSampled(s)
      BY <3>3 DEF SendCurrent, PutNonSampled
    <3>4. CASE DeletePrimary(s) \/ DeleteSecondary(s) \/ PutDelete(s) \/ PutInsert(s)
      BY <3>4 DEF DeletePrimary, DeleteSecondary, PutDelete, PutInsert
    <3> QED
      BY <2>5, <3>1, <3>2, <3>3, <3>4 DEF GroupStep
  <2>6. ASSUME NEW s \in Shards, CallbackStep(s)
        PROVE  forwarded' = forwarded /\ dropped' = dropped /\ ruledOut \subseteq ruledOut'
    BY <2>6 DEF CallbackStep, CallbackPriority, CallbackCheckSampled, CallbackCheckNonSampled,
       CallbackRecord
  <2>7. CASE UNCHANGED vars
    BY <2>7 DEF vars
  <2> QED
    BY <2>1, <2>2, <2>3, <2>4, <2>5, <2>6, <2>7 DEF Next, ListenerStep, Quiet
<1> QED
  BY <1>1, <1>2

\* Spans that are gone stay gone, also as members of an object that no step touches.
LEMMA GoneStays ==
  ASSUME Base, [Next]_vars
  PROVE  /\ \A b \in Batches : Gone(b) => Gone(b)'
         /\ \A o \in Batches : data'[o] = data[o] /\ AllGone(o) => AllGone(o)'
<1>1. \A b \in Batches : Gone(b) => Gone(b)'
  BY OutputsMonotone DEF Gone
<1>2. \A o \in Batches : data[o] \subseteq Batches
  BY DEF Base, TypeInv, ObjectsOK
<1> QED
  BY <1>1, <1>2 DEF AllGone

----------------------------------------------------------------------------
(* Evictions *)

\* The listener that takes a step of its own has no callback to wait for.
LEMMA NoCallback ==
  ASSUME NEW s \in Shards, OneShardInv(s), callback[s] = "none"
  PROVE  victims[s] = <<>> /\ ToSet(victims[s]) = {}
  BY DEF OneShardInv, VictimInv, ToSet

\* Without a callback there is nothing to say.
LEMMA VictimNone ==
  ASSUME NEW s \in Shards, callback'[s] = "none", victims'[s] = <<>>
  PROVE  VictimInv(s)'
<1>1. ToSet(victims'[s]) = {}
  BY DEF ToSet
<1> QED
  BY <1>1 DEF VictimInv

\* With one shard, an entry whose trace is remembered as sampled is being released.
LEMMA SampledOnlyInRelease ==
  ASSUME NEW s \in Shards, Shards = {s}, Base, pc[s] \notin releaseLabels, NEW o \in entries
  PROVE  TraceOf[o] \notin ToSet(sampled)
  BY DEF Base, TierInv, SampledIsReleased, IsHit, releasing, releaseLabels, entries

\* What Evict starts a callback for.
LEMMA VictimEvict ==
  ASSUME Base, NEW s \in Shards, NEW tier, NEW out \in Seq(Batches), Evict(s, tier, out),
         pc'[s] \in restingLabels \ {"putInsert"},
         \A o \in ToSet(out) : evictedAlone(o)',
         tier = "secondary" => \A o \in ToSet(out) : priority'[o] = "Low",
         \A o \in ToSet(out) :
           TraceOf[o] \in ToSet(sampled') => AllGone(o)' \/ TraceOf[o] \in ruledOut'
  PROVE  VictimInv(s)'
<1>1. /\ victims'[s] = out
      /\ callback'[s] = IF out = <<>> THEN "none"
                        ELSE IF tier = "secondary" THEN "priority" ELSE "checkSampled"
  BY DEF Evict, Base, TypeInv, CallbacksOK
<1>2. out # <<>> => victim(s)' \in ToSet(out)
  <2>1. out # <<>> => 1 \in 1..Len(out) /\ Head(out) = out[1]
    OBVIOUS
  <2> QED
    BY <1>1, <2>1, ToSetDef DEF victim
<1>3. callback'[s] = "priority" => priority'[victim(s)'] = "Low"
  BY <1>1, <1>2
<1> QED
  BY <1>1, <1>3 DEF VictimInv

\* What the capacity takes out of a tier, and what it leaves.
LEMMA Capped ==
  ASSUME NEW q \in Seq(Batches), NEW cap \in Nat, UniqueKeys(q, TraceOf)
  PROVE  /\ Spill(q, cap) \in Seq(Batches)
         /\ ToSet(q) = ToSet(Trim(q, cap)) \cup ToSet(Spill(q, cap))
         /\ \A o \in ToSet(Spill(q, cap)) : NoEntry(Trim(q, cap), TraceOf[o])
<1>1. /\ Spill(q, cap) \in Seq(Batches)
      /\ ToSet(Trim(q, cap)) \subseteq ToSet(q) /\ ToSet(Spill(q, cap)) \subseteq ToSet(q)
  BY TrimEntries
<1>2. \A x \in ToSet(q) : x \in ToSet(Trim(q, cap)) \cup ToSet(Spill(q, cap))
  BY TrimOrSpill
<1>3. \A x \in ToSet(Spill(q, cap)), y \in ToSet(Trim(q, cap)) : TraceOf[x] # TraceOf[y]
  BY SpillApart
<1> QED
  BY <1>1, <1>2, <1>3 DEF NoEntry

\* What a Delete takes out of a tier, and what it leaves.
LEMMA Deleted ==
  ASSUME NEW q \in Seq(Batches), NEW t, UniqueKeys(q, TraceOf)
  PROVE  LET o == Lookup(q, t)
             out == IF o = None THEN <<>> ELSE <<o>>
         IN /\ out \in Seq(Batches)
            /\ ToSet(q) = ToSet(Without(q, t)) \cup ToSet(out)
            /\ \A x \in ToSet(out) : x = o /\ x \in ToSet(q) /\ TraceOf[x] = t
            /\ NoEntry(Without(q, t), t)
<1> DEFINE o == Lookup(q, t)
           out == IF o = None THEN <<>> ELSE <<o>>
           w == Without(q, t)
<1>1. /\ o \in Batches \cup {None}
      /\ o # None => o \in ToSet(q) /\ TraceOf[o] = t
      /\ o = None => \A x \in ToSet(q) : TraceOf[x] # t
  BY LookupProperties
<1>2. ToSet(w) \subseteq ToSet(q) /\ NoEntry(w, t)
  BY WithoutProperties DEF NoEntry
<1>3. \A x \in ToSet(q) : x # o => x \in ToSet(w)
  BY RemoveFirstProperties DEF Without
<1> HIDE DEF o, w
<1>4. out \in Seq(Batches) /\ ToSet(out) = IF o = None THEN {} ELSE {o}
  <2>1. CASE o = None
    BY <2>1 DEF ToSet
  <2>2. CASE o # None
    <3>1. out = <<o>> /\ out \in Seq(Batches)
      BY <1>1, <2>2
    <3>2. ToSet(<<o>>) = {o}
      BY OneEntry
    <3> QED
      BY <2>2, <3>1, <3>2
  <2> QED
    BY <2>1, <2>2
<1> HIDE DEF out
<1>5. ToSet(q) = ToSet(w) \cup ToSet(out)
  <2>1. None \notin ToSet(q)
    BY ToSetDef, InputAssumption
  <2> QED
    BY <1>1, <1>2, <1>3, <1>4, <2>1
<1>6. \A x \in ToSet(out) : x = o /\ x \in ToSet(q) /\ TraceOf[x] = t
  BY <1>1, <1>4
<1> QED
  BY <1>2, <1>4, <1>5, <1>6 DEF o, out, w

\* What evictions keep: every object is in a tier or under eviction, the ones
\* before and the one the listener adds.
Redistributes(s, H) ==
  /\ callback[s] = "none"
  /\ entries' \cup ToSet(victims'[s]) = entries \cup H

\* The regulator evicts the oldest entries of the primary tier.
LEMMA RegulateEvicts ==
  ASSUME NEW s \in Shards, Shards = {s}, OneShardInv(s), Regulate(s)
  PROVE  VictimInv(s)' /\ Redistributes(s, {})
<1>1. /\ Base /\ TracesOK /\ LocalsOK /\ CallbacksOK /\ OnePerTrace /\ TierDisjoint
  BY DEF OneShardInv, Base, TypeInv, TierInv
<1>2. PICK size \in Nat : primary' = Trim(primary, size) /\ Evict(s, "primary", Spill(primary, size))
  BY <1>1, RegulatedSize DEF Regulate, TracesOK, resized
<1>3. /\ pc[s] = "regulate" /\ callback[s] = "none" /\ pc'[s] = "writeUnlock"
      /\ UNCHANGED <<secondary, sampled, objectVars, forwarded, dropped, ruledOut>>
  BY <1>1 DEF Regulate, At, Goto, LocalsOK, decisionVars, outputVars
<1> DEFINE out == Spill(primary, size)
<1>4. /\ out \in Seq(Batches) /\ ToSet(primary) = ToSet(primary') \cup ToSet(out)
      /\ \A o \in ToSet(out) : NoEntry(primary', TraceOf[o])
  BY <1>1, <1>2, Capped DEF TracesOK, OnePerTrace
<1>5. Evict(s, "primary", out)
  BY <1>2
<1> HIDE DEF out
<1>6. \A o \in ToSet(out) : evictedAlone(o)'
  BY <1>1, <1>3, <1>4 DEF evictedAlone, NoEntry, TierDisjoint
<1>7. \A o \in ToSet(out) : TraceOf[o] \notin ToSet(sampled')
  BY <1>1, <1>3, <1>4, SampledOnlyInRelease DEF releaseLabels, entries
<1>8. VictimInv(s)'
  BY <1>1, <1>3, <1>4, <1>5, <1>6, <1>7, VictimEvict DEF restingLabels
<1>9. ToSet(victims'[s]) = ToSet(out)
  BY <1>1, <1>5 DEF Evict, CallbacksOK
<1> QED
  BY <1>3, <1>4, <1>8, <1>9 DEF Redistributes, entries

\* Delete on the primary tier, in a release.
LEMMA DeletePrimaryEvicts ==
  ASSUME NEW s \in Shards, Shards = {s}, OneShardInv(s), DeletePrimary(s)
  PROVE  VictimInv(s)' /\ Redistributes(s, {})
<1>1. /\ Base /\ TracesOK /\ LocalsOK /\ CallbacksOK /\ OnePerTrace /\ TierDisjoint /\ PathInv(s)
  BY DEF OneShardInv, Base, TypeInv, TierInv
<1> DEFINE o == Lookup(primary, id(s))
           out == IF o = None THEN <<>> ELSE <<o>>
<1>2. /\ pc[s] = "deletePrimary" /\ callback[s] = "none" /\ pc'[s] = "deleteSecondary"
      /\ primary' = Without(primary, id(s)) /\ Evict(s, "primary", out)
      /\ UNCHANGED <<secondary, sampled, objectVars, forwarded, dropped, ruledOut>>
  BY <1>1 DEF DeletePrimary, DeleteFrom, At, Goto, LocalsOK, decisionVars, outputVars
<1>3. /\ out \in Seq(Batches) /\ ToSet(primary) = ToSet(primary') \cup ToSet(out)
      /\ \A x \in ToSet(out) : x \in ToSet(primary) /\ TraceOf[x] = id(s)
      /\ NoEntry(primary', id(s))
  BY <1>1, <1>2, Deleted DEF TracesOK, OnePerTrace
<1> HIDE DEF out, o
<1>4. \A x \in ToSet(out) : evictedAlone(x)'
  BY <1>1, <1>2, <1>3 DEF evictedAlone, NoEntry, TierDisjoint
<1>5. ASSUME NEW x \in ToSet(out) PROVE AllGone(x)' \/ TraceOf[x] \in ruledOut'
  <2>1. AllGone(x)' = AllGone(x)
    BY <1>2 DEF AllGone, Gone, objectVars
  <2> QED
    BY <1>1, <1>2, <1>3, <2>1 DEF PathInv, OnlyCached, deleteLabels, entries
<1>6. VictimInv(s)'
  BY <1>1, <1>2, <1>3, <1>4, <1>5, VictimEvict DEF restingLabels
<1>7. ToSet(victims'[s]) = ToSet(out)
  BY <1>1, <1>2 DEF Evict, CallbacksOK
<1> QED
  BY <1>2, <1>3, <1>6, <1>7 DEF Redistributes, entries

\* Delete on the secondary tier, in a release.
LEMMA DeleteSecondaryEvicts ==
  ASSUME NEW s \in Shards, Shards = {s}, OneShardInv(s), DeleteSecondary(s)
  PROVE  /\ VictimInv(s)' /\ Redistributes(s, {})
         /\ NoEntry(primary', id(s)) /\ NoEntry(secondary', id(s))
<1>1. /\ Base /\ TracesOK /\ LocalsOK /\ CallbacksOK /\ OnePerTrace /\ TierDisjoint /\ PathInv(s)
      /\ Learnt(s) /\ TierMatchesPriority
  BY DEF OneShardInv, Base, TypeInv, TierInv, ShardInv
<1> DEFINE o == Lookup(secondary, id(s))
           out == IF o = None THEN <<>> ELSE <<o>>
<1>2. /\ pc[s] = "deleteSecondary" /\ callback[s] = "none"
      /\ secondary' = Without(secondary, id(s)) /\ Evict(s, "secondary", out)
      /\ UNCHANGED <<primary, sampled, objectVars, forwarded, dropped, ruledOut>>
  BY <1>1 DEF DeleteSecondary, DeleteFrom, At, decisionVars, outputVars
<1>3. pc'[s] \in {"putSampled", "sendCurrent", "unlock", "checkSampled"}
  BY <1>1 DEF DeleteSecondary, Continue, Goto, LocalsOK
<1>4. /\ out \in Seq(Batches) /\ ToSet(secondary) = ToSet(secondary') \cup ToSet(out)
      /\ \A x \in ToSet(out) : x \in ToSet(secondary) /\ TraceOf[x] = id(s)
      /\ NoEntry(secondary', id(s))
  BY <1>1, <1>2, Deleted DEF TracesOK, OnePerTrace
<1>5. NoEntry(primary', id(s))
  BY <1>1, <1>2 DEF Learnt
<1> HIDE DEF out, o
<1>6. \A x \in ToSet(out) : evictedAlone(x)'
  BY <1>4, <1>5 DEF evictedAlone, NoEntry
<1>7. \A x \in ToSet(out) : priority'[x] = "Low"
  <2>1. \A x : ~promoting(x)
    BY <1>2 DEF promoting
  <2> QED
    BY <1>1, <1>2, <1>4, <2>1 DEF TierMatchesPriority, objectVars
<1>8. ASSUME NEW x \in ToSet(out) PROVE AllGone(x)' \/ TraceOf[x] \in ruledOut'
  <2>1. AllGone(x)' = AllGone(x)
    BY <1>2 DEF AllGone, Gone, objectVars
  <2> QED
    BY <1>1, <1>2, <1>4, <2>1 DEF PathInv, OnlyCached, deleteLabels, entries
<1>9. VictimInv(s)'
  BY <1>1, <1>2, <1>3, <1>4, <1>6, <1>7, <1>8, VictimEvict DEF restingLabels
<1>10. ToSet(victims'[s]) = ToSet(out)
  BY <1>1, <1>2 DEF Evict, CallbacksOK
<1> QED
  BY <1>2, <1>4, <1>5, <1>9, <1>10 DEF Redistributes, entries

\* The Delete of Put takes out the object a promotion holds, or nothing.
LEMMA PutDeleteEvicts ==
  ASSUME NEW s \in Shards, Shards = {s}, OneShardInv(s), PutDelete(s)
  PROVE  VictimInv(s)' /\ Redistributes(s, {})
<1>1. /\ Base /\ TracesOK /\ LocalsOK /\ CallbacksOK /\ OnePerTrace /\ TierMatchesPriority
      /\ PathInv(s) /\ Undecided(s) /\ OnlyCached(s)
  BY DEF OneShardInv, Base, TypeInv, TierInv, ShardInv, PathInv, putLabels, PutDelete, At
<1>2. /\ pc[s] = "putDelete" /\ callback[s] = "none" /\ pc'[s] = "putInsert"
      /\ cachedData' = cachedData
      /\ UNCHANGED <<sampled, objectVars>>
  BY <1>1 DEF PutDelete, At, Goto, LocalsOK, decisionVars, outputVars, KeepLocals
<1>3. cachedData[s] # None => held(s) = cachedData[s]
  BY DEF held
<1>4. id(s) \notin ToSet(sampled')
  BY <1>1, <1>2 DEF Undecided, UndecidedLabels
<1>5. CASE priority[held(s)] = "Low"
  <2> DEFINE o == Lookup(primary, id(s))
             out == IF o = None THEN <<>> ELSE <<o>>
  <2>1. primary' = Without(primary, id(s)) /\ Evict(s, "primary", out) /\ secondary' = secondary
    BY <1>5 DEF PutDelete, DeleteFrom
  <2>2. /\ out \in Seq(Batches) /\ ToSet(primary) = ToSet(primary') \cup ToSet(out)
        /\ \A x \in ToSet(out) : x = o /\ x \in ToSet(primary) /\ TraceOf[x] = id(s)
    BY <1>1, <2>1, Deleted DEF TracesOK, OnePerTrace
  <2>3. o = None
    <3>1. o # None => o \in ToSet(primary) /\ TraceOf[o] = id(s)
      BY <1>1, LookupProperties DEF TracesOK
    <3> QED
      BY <1>1, <1>3, <1>5, <3>1 DEF OnlyCached, TierMatchesPriority, entries
  <2> HIDE DEF o
  <2>4. out = <<>> /\ ToSet(out) = {}
    BY <2>3 DEF ToSet
  <2>5. victims'[s] = <<>> /\ callback'[s] = "none"
    BY <1>1, <2>1, <2>4 DEF Evict, CallbacksOK
  <2> QED
    BY <1>2, <2>1, <2>2, <2>4, <2>5, VictimNone DEF Redistributes, entries
<1>6. CASE priority[held(s)] # "Low"
  <2> DEFINE o == Lookup(secondary, id(s))
             out == IF o = None THEN <<>> ELSE <<o>>
  <2>1. secondary' = Without(secondary, id(s)) /\ Evict(s, "secondary", out) /\ primary' = primary
    BY <1>6 DEF PutDelete, DeleteFrom
  <2>2. /\ out \in Seq(Batches) /\ ToSet(secondary) = ToSet(secondary') \cup ToSet(out)
        /\ \A x \in ToSet(out) : x = o /\ x \in ToSet(secondary) /\ TraceOf[x] = id(s)
    BY <1>1, <2>1, Deleted DEF TracesOK, OnePerTrace
  <2>3. /\ victims'[s] = out
        /\ callback'[s] = IF out = <<>> THEN "none" ELSE "priority"
    BY <1>1, <2>1 DEF Evict, CallbacksOK
  <2>4. o # None => o = cachedData[s]
    <3>1. o # None => o \in ToSet(secondary) /\ TraceOf[o] = id(s)
      BY <1>1, LookupProperties DEF TracesOK
    <3> QED
      BY <1>1, <3>1 DEF OnlyCached, entries
  <2> HIDE DEF o
  <2>5. out # <<>> => /\ victims'[s] = <<cachedData[s]>> /\ callback'[s] = "priority"
                      /\ priority[cachedData[s]] # "Low"
    BY <1>3, <1>6, <2>3, <2>4
  <2>6. callback'[s] # "none" => promoted(s)'
    BY <1>2, <2>3, <2>5 DEF promoted, objectVars
  <2>7. VictimInv(s)'
    BY <1>2, <1>4, <2>2, <2>3, <2>6 DEF VictimInv, restingLabels
  <2> QED
    BY <1>2, <2>1, <2>2, <2>3, <2>7 DEF Redistributes, entries
<1> QED
  BY <1>5, <1>6

\* What a Put makes of the tier it inserts into.
LEMMA PutEvicts ==
  ASSUME NEW s \in Shards, Shards = {s}, OneShardInv(s), pc[s] = "putInsert",
         NEW q \in Seq(Batches), ToSet(q) \subseteq entries, UniqueKeys(q, TraceOf), NEW cap \in Nat
  PROVE  LET r == Insert(q, Lookup(q, id(s)), held(s))
         IN /\ Spill(r, cap) \in Seq(Batches)
            /\ ToSet(Trim(r, cap)) \cup ToSet(Spill(r, cap)) = ToSet(q) \cup {held(s)}
            /\ \A o \in ToSet(Spill(r, cap)) :
                 NoEntry(Trim(r, cap), TraceOf[o]) /\ TraceOf[o] \notin ToSet(sampled)
<1> DEFINE o == Lookup(q, id(s))
           h == held(s)
           r == Insert(q, o, h)
<1>1. /\ Base /\ TypeInv /\ TierInv /\ OnlyCached(s) /\ Undecided(s) /\ pc[s] \in GroupLabels
  BY DEF OneShardInv, Base, TierInv, ShardInv, PathInv, putLabels, GroupLabels
<1>2. h \in Batches /\ TraceOf[h] = id(s)
  BY <1>1, HeldIsOwn
<1>3. /\ o # None => o \in ToSet(q) /\ TraceOf[o] = id(s)
      /\ o = None => \A x \in ToSet(q) : TraceOf[x] # id(s)
  BY LookupProperties
<1>4. o # None => o = h
  BY <1>1, <1>3 DEF OnlyCached, held
<1> HIDE DEF o, h
<1>5. /\ r \in Seq(Batches) /\ ToSet(r) \subseteq ToSet(q) \cup {h}
      /\ UniqueKeys(r, TraceOf)
  <2>1. (\E x \in ToSet(q) : TraceOf[x] = TraceOf[h]) => o \in ToSet(q) /\ TraceOf[o] = TraceOf[h]
    BY <1>2, <1>3
  <2> QED
    BY <1>2, <2>1, InsertEntries
<1>6. h \in ToSet(r) /\ \A x \in ToSet(q) : x # o => x \in ToSet(r)
  BY <1>2, InsertKeeps
<1>7. None \notin ToSet(q)
  BY ToSetDef, InputAssumption
<1>8. ToSet(r) = ToSet(q) \cup {h}
  BY <1>4, <1>5, <1>6, <1>7
<1> HIDE DEF r
<1>9. /\ Spill(r, cap) \in Seq(Batches)
      /\ ToSet(r) = ToSet(Trim(r, cap)) \cup ToSet(Spill(r, cap))
      /\ \A x \in ToSet(Spill(r, cap)) : NoEntry(Trim(r, cap), TraceOf[x])
  BY <1>5, Capped
<1>10. id(s) \notin ToSet(sampled)
  BY <1>1 DEF Undecided, UndecidedLabels
<1>11. \A x \in ToSet(q) : TraceOf[x] \notin ToSet(sampled)
  BY <1>1, SampledOnlyInRelease DEF releaseLabels
<1>12. /\ Spill(r, cap) \in Seq(Batches)
       /\ ToSet(Trim(r, cap)) \cup ToSet(Spill(r, cap)) = ToSet(q) \cup {h}
       /\ \A x \in ToSet(Spill(r, cap)) :
            NoEntry(Trim(r, cap), TraceOf[x]) /\ TraceOf[x] \notin ToSet(sampled)
  BY <1>2, <1>8, <1>9, <1>10, <1>11
<1> QED
  BY <1>12 DEF r, o, h

\* What Put inserts stays in its tier or is the one that it evicts.
LEMMA PutInsertEvicts ==
  ASSUME NEW s \in Shards, Shards = {s}, OneShardInv(s), PutInsert(s)
  PROVE  VictimInv(s)' /\ Redistributes(s, {held(s)})
<1>1. /\ Base /\ TypeInv /\ TierInv /\ TracesOK /\ LocalsOK /\ CallbacksOK /\ OnePerTrace
      /\ TierDisjoint /\ Learnt(s) /\ TierMatchesPriority
  BY DEF OneShardInv, Base, TypeInv, TierInv, ShardInv
<1>2. /\ pc[s] = "putInsert" /\ callback[s] = "none"
      /\ UNCHANGED <<sampled, objectVars>>
  BY DEF PutInsert, At, decisionVars
<1>3. pc'[s] \in {"unlock", "checkSampled"}
  BY <1>1 DEF PutInsert, Continue, Goto, LocalsOK
<1>4. TraceOf[held(s)] = id(s)
  BY <1>1, <1>2, HeldIsOwn DEF GroupLabels
<1>5. NoEntry(otherTier(s), id(s))
  BY <1>1, <1>2 DEF Learnt
<1>6. CASE priority[held(s)] = "Low"
  <2> DEFINE r == Insert(secondary, Lookup(secondary, id(s)), held(s))
             out == Spill(r, SecondaryCacheSize)
  <2>1. /\ secondary' = Trim(r, SecondaryCacheSize) /\ Evict(s, "secondary", out)
        /\ primary' = primary
    BY <1>6 DEF PutInsert
  <2>2. /\ out \in Seq(Batches)
        /\ ToSet(secondary') \cup ToSet(out) = ToSet(secondary) \cup {held(s)}
        /\ \A x \in ToSet(out) : NoEntry(secondary', TraceOf[x]) /\ TraceOf[x] \notin ToSet(sampled)
    BY <1>1, <1>2, <2>1, PutEvicts, ConfigAssumption DEF TracesOK, OnePerTrace, entries
  <2> HIDE DEF out
  <2>3. \A x \in ToSet(out) : NoEntry(primary', TraceOf[x])
    BY <1>1, <1>4, <1>5, <1>6, <2>1, <2>2 DEF otherTier, NoEntry, TierDisjoint
  <2>4. \A x \in ToSet(out) : evictedAlone(x)'
    BY <2>2, <2>3 DEF evictedAlone, NoEntry
  <2>5. \A x \in ToSet(out) : priority'[x] = "Low"
    <3>1. \A x : ~promoting(x)
      BY <1>2 DEF promoting
    <3> QED
      BY <1>1, <1>2, <1>6, <2>2, <3>1 DEF TierMatchesPriority, objectVars
  <2>6. VictimInv(s)'
    BY <1>1, <1>2, <1>3, <2>1, <2>2, <2>4, <2>5, VictimEvict DEF restingLabels
  <2>7. ToSet(victims'[s]) = ToSet(out)
    BY <1>1, <2>1 DEF Evict, CallbacksOK
  <2> QED
    BY <1>2, <2>1, <2>2, <2>6, <2>7 DEF Redistributes, entries
<1>7. CASE priority[held(s)] # "Low"
  <2> DEFINE r == Insert(primary, Lookup(primary, id(s)), held(s))
             out == Spill(r, primaryCap)
  <2>1. /\ primary' = Trim(r, primaryCap) /\ Evict(s, "primary", out)
        /\ secondary' = secondary
    BY <1>7 DEF PutInsert
  <2>2. /\ out \in Seq(Batches)
        /\ ToSet(primary') \cup ToSet(out) = ToSet(primary) \cup {held(s)}
        /\ \A x \in ToSet(out) : NoEntry(primary', TraceOf[x]) /\ TraceOf[x] \notin ToSet(sampled)
    BY <1>1, <1>2, <2>1, PutEvicts DEF TracesOK, OnePerTrace, entries
  <2> HIDE DEF out
  <2>3. \A x \in ToSet(out) : NoEntry(secondary', TraceOf[x])
    BY <1>1, <1>4, <1>5, <1>7, <2>1, <2>2 DEF otherTier, NoEntry, TierDisjoint
  <2>4. \A x \in ToSet(out) : evictedAlone(x)'
    BY <2>2, <2>3 DEF evictedAlone, NoEntry
  <2>5. VictimInv(s)'
    BY <1>1, <1>2, <1>3, <2>1, <2>2, <2>4, VictimEvict DEF restingLabels
  <2>6. ToSet(victims'[s]) = ToSet(out)
    BY <1>1, <2>1 DEF Evict, CallbacksOK
  <2> QED
    BY <1>2, <2>1, <2>2, <2>5, <2>6 DEF Redistributes, entries
<1> QED
  BY <1>6, <1>7

----------------------------------------------------------------------------
(* The eviction callbacks *)

\* A hit leaves the traces of a decision cache as they are.
LEMMA HitKeeps ==
  ASSUME NEW q \in Seq(Traces), NEW t, IsHit(q, t)
  PROVE  ToSet(Refresh(q, t)) = ToSet(q)
<1>1. t \in ToSet(q) /\ t \in Traces
  BY ToSetDef DEF IsHit
<1>2. ToSet(Refresh(q, t)) = ToSet(q) \cup {t}
  BY <1>1, RefreshEntries
<1> QED
  BY <1>1, <1>2

\* A new decision is the only one that comes in.
LEMMA Recorded ==
  ASSUME NEW q \in Seq(Traces), NEW t \in Traces, NEW cap \in Nat
  PROVE  ToSet(Trim(Refresh(q, t), cap)) \subseteq ToSet(q) \cup {t}
<1>1. Refresh(q, t) \in Seq(Traces) /\ ToSet(Refresh(q, t)) = ToSet(q) \cup {t}
  BY RefreshEntries
<1> QED
  BY <1>1, TrimEntries

\* A callback for the only object of a promotion goes no further.
LEMMA PromotionStops ==
  ASSUME NEW s \in Shards, OneShardInv(s), callback[s] # "none", pc[s] = "putInsert"
  PROVE  /\ callback[s] = "priority" /\ priority[victim(s)] # "Low"
         /\ victim(s) = cachedData[s] /\ Len(victims[s]) = 1
         /\ victims[s] = <<cachedData[s]>>
<1>1. promoted(s)
  BY DEF OneShardInv, VictimInv
<1>2. \A x : Len(<<x>>) = 1 /\ Head(<<x>>) = x
  OBVIOUS
<1> QED
  BY <1>1, <1>2 DEF promoted, victim

\* What EndCallback leaves.
LEMMA EndCallbackLeaves ==
  ASSUME Base, NEW s \in Shards, callback[s] # "none", EndCallback(s)
  PROVE  /\ victims'[s] = Tail(victims[s])
         /\ callback'[s] = IF Len(victims[s]) = 1 THEN "none" ELSE "checkSampled"
         /\ Len(victims[s]) = 1 => victims'[s] = <<>>
         /\ ToSet(victims'[s]) \subseteq ToSet(victims[s])
         /\ \A o \in ToSet(victims[s]) : o = victim(s) \/ o \in ToSet(victims'[s])
         /\ victim(s) \in ToSet(victims[s])
<1>1. CallbacksOK
  BY DEF Base, TypeInv
<1>2. /\ victims'[s] = Tail(victims[s])
      /\ callback'[s] = IF Len(victims[s]) = 1 THEN "none" ELSE "checkSampled"
  BY <1>1 DEF EndCallback, CallbacksOK
<1> DEFINE q == victims[s]
<1>3. q \in Seq(Batches) /\ q # <<>>
  BY <1>1 DEF CallbacksOK, HasVictim
<1> HIDE DEF q
<1>4. /\ Tail(q) \in Seq(Batches) /\ Len(Tail(q)) = Len(q) - 1 /\ Head(q) = q[1]
      /\ 1 \in 1..Len(q)
      /\ \A i \in 1..(Len(q) - 1) : Tail(q)[i] = q[i + 1]
  BY <1>3, TailProperties
<1>5. Len(q) = 1 => Tail(q) = <<>>
  <2>1. \A r \in Seq(Batches) : Len(r) = 0 => r = <<>>
    OBVIOUS
  <2>2. Len(q) = 1 => Len(Tail(q)) = 0
    BY <1>4
  <2> QED
    BY <1>4, <2>1, <2>2, Zenon
<1>6. ASSUME NEW o \in ToSet(Tail(q)) PROVE o \in ToSet(q)
  <2>1. PICK i \in 1..Len(Tail(q)) : Tail(q)[i] = o
    BY <1>4, ToSetDef
  <2>2. i + 1 \in 1..Len(q) /\ q[i + 1] = o
    BY <1>3, <1>4, <2>1
  <2> QED
    BY <1>3, <2>2, ToSetDef
<1>7. ASSUME NEW o \in ToSet(q), o # Head(q) PROVE o \in ToSet(Tail(q))
  <2>1. PICK i \in 1..Len(q) : q[i] = o
    BY <1>3, ToSetDef
  <2>2. i - 1 \in 1..Len(Tail(q)) /\ Tail(q)[i - 1] = o
    BY <1>3, <1>4, <1>7, <2>1
  <2> QED
    BY <1>4, <2>2, ToSetDef
<1>8. Head(q) \in ToSet(q)
  BY <1>3, <1>4, ToSetDef
<1> QED
  BY <1>2, <1>5, <1>6, <1>7, <1>8 DEF q, victim

\* The end of one callback starts the next.
LEMMA VictimEnd ==
  ASSUME NEW s \in Shards, OneShardInv(s), [Next]_vars, callback[s] # "none", EndCallback(s),
         UNCHANGED <<localVars, traceVars, objectVars>>, ToSet(sampled') \subseteq ToSet(sampled)
  PROVE  VictimInv(s)'
<1>1. Base /\ VictimInv(s)
  BY DEF OneShardInv
<1>2. CASE Len(victims[s]) = 1
  BY <1>1, <1>2, EndCallbackLeaves, VictimNone
<1>3. CASE Len(victims[s]) # 1
  <2>1. callback'[s] = "checkSampled" /\ ToSet(victims'[s]) \subseteq ToSet(victims[s])
    BY <1>1, <1>3, EndCallbackLeaves
  <2>2. pc'[s] = pc[s] /\ pc[s] \in restingLabels /\ pc[s] # "putInsert"
    BY <1>1, <1>3, PromotionStops DEF VictimInv, localVars
  <2>3. \A o \in ToSet(victims'[s]) : evictedAlone(o)'
    BY <1>1, <2>1, <2>2 DEF VictimInv, evictedAlone, NoEntry, traceVars
  <2>4. ToSet(victims[s]) \subseteq Batches
    BY <1>1, ToSetDef DEF Base, TypeInv, CallbacksOK
  <2>5. \A o \in ToSet(victims'[s]) :
          TraceOf[o] \in ToSet(sampled') => AllGone(o)' \/ TraceOf[o] \in ruledOut'
    BY <1>1, <2>1, <2>4, GoneStays, OutputsMonotone DEF VictimInv, objectVars
  <2> QED
    BY <2>1, <2>2, <2>3, <2>5 DEF VictimInv
<1> QED
  BY <1>2, <1>3

\* A callback that goes on knows what it has read.
LEMMA VictimGoto ==
  ASSUME NEW s \in Shards, OneShardInv(s), [Next]_vars, callback[s] # "none",
         NEW label \in {"checkSampled", "touchNonSampled", "checkNonSampled", "record"},
         CallbackGoto(s, label), pc[s] # "putInsert",
         UNCHANGED <<localVars, traceVars, objectVars>>, ToSet(sampled') = ToSet(sampled),
         label = "touchNonSampled" => victimId(s) \in ToSet(sampled),
         label \in {"checkNonSampled", "record"} => victimId(s) \notin ToSet(sampled)
  PROVE  VictimInv(s)'
<1>1. Base /\ VictimInv(s)
  BY DEF OneShardInv
<1>2. callback'[s] = label /\ victims'[s] = victims[s] /\ pc'[s] = pc[s] /\ pc[s] \in restingLabels
  BY <1>1 DEF CallbackGoto, Base, TypeInv, CallbacksOK, VictimInv, localVars
<1>3. victimId(s)' = victimId(s)
  BY <1>2 DEF victimId, victim
<1>4. \A o \in ToSet(victims'[s]) : evictedAlone(o)'
  BY <1>1, <1>2 DEF VictimInv, evictedAlone, NoEntry, traceVars
<1>5. ToSet(victims[s]) \subseteq Batches
  BY <1>1, ToSetDef DEF Base, TypeInv, CallbacksOK
<1>6. \A o \in ToSet(victims'[s]) :
        TraceOf[o] \in ToSet(sampled') => AllGone(o)' \/ TraceOf[o] \in ruledOut'
  BY <1>1, <1>2, <1>5, GoneStays, OutputsMonotone DEF VictimInv, objectVars
<1> QED
  BY <1>2, <1>3, <1>4, <1>6 DEF VictimInv

\* What the steps of a callback are, and what they leave to be known.
LEMMA CallbackVictim ==
  ASSUME NEW s \in Shards, OneShardInv(s), [Next]_vars, CallbackStep(s)
  PROVE  /\ VictimInv(s)' /\ callback[s] # "none"
         /\ UNCHANGED <<localVars, traceVars, objectVars, stage, forwarded, dropped>>
         /\ ToSet(sampled') = ToSet(sampled)
<1>1. /\ Base /\ VictimInv(s) /\ CallbacksOK /\ sampled \in Seq(Traces)
  BY DEF OneShardInv, Base, TypeInv, DecisionsOK
<1>2. UNCHANGED <<localVars, traceVars, objectVars, stage, forwarded, dropped>>
  BY DEF CallbackStep, CallbackPriority, CallbackCheckSampled, CallbackCheckNonSampled,
     CallbackRecord, inputVars, outputVars
<1>3. CASE CallbackPriority(s)
  <2>1. callback[s] = "priority" /\ sampled' = sampled
    BY <1>3 DEF CallbackPriority, decisionVars
  <2>2. CASE priority[victim(s)] = "Low"
    <3>1. CallbackGoto(s, "checkSampled")
      BY <1>3, <2>2 DEF CallbackPriority
    <3> QED
      BY <1>2, <2>1, <2>2, <3>1, VictimGoto, PromotionStops
  <2>3. CASE priority[victim(s)] # "Low"
    BY <1>2, <1>3, <2>1, <2>3, VictimEnd DEF CallbackPriority
  <2> QED
    BY <1>2, <2>1, <2>2, <2>3
<1>4. CASE CallbackCheckSampled(s)
  <2>1. callback[s] = "checkSampled" /\ pc[s] # "putInsert"
    BY <1>4, PromotionStops DEF CallbackCheckSampled
  <2>2. CASE IsHit(sampled, victimId(s))
    <3>1. sampled' = Refresh(sampled, victimId(s)) /\ CallbackGoto(s, "touchNonSampled")
      BY <1>4, <2>2 DEF CallbackCheckSampled
    <3>2. ToSet(sampled') = ToSet(sampled)
      BY <1>1, <2>2, <3>1, HitKeeps
    <3> QED
      BY <1>2, <2>1, <2>2, <3>1, <3>2, VictimGoto DEF IsHit
  <2>3. CASE ~IsHit(sampled, victimId(s))
    <3>1. CallbackGoto(s, "checkNonSampled") /\ sampled' = sampled
      BY <1>4, <2>3 DEF CallbackCheckSampled
    <3> QED
      BY <1>2, <2>1, <2>3, <3>1, VictimGoto DEF IsHit
  <2> QED
    BY <2>2, <2>3
<1>5. CASE CallbackCheckNonSampled(s) \/ CallbackRecord(s)
  <2>1. /\ callback[s] \in {"touchNonSampled", "checkNonSampled", "record"}
        /\ sampled' = sampled
        /\ EndCallback(s) \/ (callback[s] = "checkNonSampled" /\ CallbackGoto(s, "record"))
    BY <1>5 DEF CallbackCheckNonSampled, CallbackRecord
  <2>2. CASE EndCallback(s)
    BY <1>2, <2>1, <2>2, VictimEnd
  <2>3. CASE callback[s] = "checkNonSampled" /\ CallbackGoto(s, "record")
    <3>1. victimId(s) \notin ToSet(sampled) /\ pc[s] # "putInsert"
      BY <1>1, <2>3, PromotionStops DEF VictimInv
    <3> QED
      BY <1>2, <2>1, <2>3, <3>1, VictimGoto
  <2> QED
    BY <1>2, <2>1, <2>2, <2>3
<1> QED
  BY <1>3, <1>4, <1>5 DEF CallbackStep

----------------------------------------------------------------------------
(* The other steps *)

\* The moves of a listener that evict nothing.
quietMoves(s) ==
  \/ Tick(s) \/ Receive(s) \/ ReadLock(s) \/ ReadUnlock(s) \/ AnnounceWriter(s) \/ WriteUnlock(s)
  \/ CheckSampled(s) \/ CheckNonSampled(s) \/ NewTraceDataFails(s)
  \/ GetPrimary(s) \/ GetSecondary(s) \/ Decide(s)
  \/ PutSampled(s) \/ SendCached(s) \/ SendCurrent(s) \/ PutNonSampled(s)

\* They start no callback and leave the entries where they are.
LEMMA QuietMove ==
  ASSUME NEW s \in Shards, OneShardInv(s), quietMoves(s)
  PROVE  /\ callback[s] = "none" /\ UNCHANGED callbackVars /\ entries' = entries
         /\ ToSet(victims'[s]) = {} /\ VictimInv(s)'
<1>1. TracesOK
  BY DEF OneShardInv, Base, TypeInv
<1>2. \/ UNCHANGED traceVars \/ GetPrimary(s) \/ GetSecondary(s)
  BY DEF quietMoves, Tick, Receive, ReadLock, ReadUnlock, AnnounceWriter, WriteUnlock,
     CheckSampled, CheckNonSampled, NewTraceDataFails, Decide, PutSampled, SendCached,
     SendCurrent, PutNonSampled
<1>3. callback[s] = "none" /\ UNCHANGED callbackVars
  BY DEF quietMoves, Tick, Receive, ReadLock, ReadUnlock, AnnounceWriter, WriteUnlock,
     CheckSampled, CheckNonSampled, NewTraceDataFails, GetPrimary, GetSecondary, Decide,
     PutSampled, SendCached, SendCurrent, PutNonSampled, At
<1>4. ASSUME NEW q \in Seq(Batches), NEW o, o = Lookup(q, id(s)), o # None
      PROVE  ToSet(Refresh(q, o)) = ToSet(q)
  <2>1. o \in ToSet(q) /\ o \in Batches
    BY <1>4, LookupProperties
  <2>2. ToSet(Refresh(q, o)) = ToSet(q) \cup {o}
    BY <2>1, RefreshEntries
  <2> QED
    BY <2>1, <2>2
<1>5. entries' = entries
  BY <1>1, <1>2, <1>4 DEF GetPrimary, GetSecondary, TracesOK, entries, traceVars
<1>6. victims'[s] = <<>> /\ callback'[s] = "none"
  BY <1>3, NoCallback DEF callbackVars
<1> QED
  BY <1>3, <1>5, <1>6, VictimNone DEF ToSet

\* The steps that are not a listener's: those of the calls, and none at all.
outsideMoves ==
  \/ \E r \in Requests : ConsumeTraces(r)
  \/ \E b \in Batches : EarlyStep(b) \/ AsyncSend(b)
  \/ \E r \in Requests, s \in Shards : Send(r, s) \/ ContextCancelled(r, s)
  \/ UNCHANGED vars

\* They change no decision and no object, and wake the listener at most.
LEMMA OutsideKeeps ==
  ASSUME NEW s \in Shards, Shards = {s}, OneShardInv(s), outsideMoves
  PROVE  /\ UNCHANGED <<cachedData, finalDecision, callbackVars, traceVars, objectVars,
                        ruledOut, dropped>>
         /\ ToSet(sampled') = ToSet(sampled) /\ ToSet(nonSampled') = ToSet(nonSampled)
         /\ \/ pc'[s] = pc[s] /\ gtdArr'[s] = gtdArr[s]
            \/ pc[s] = "listen" /\ pc'[s] = "readLock"
<1>1. sampled \in Seq(Traces) /\ nonSampled \in Seq(Traces) /\ LocalsOK
  BY DEF OneShardInv, Base, TypeInv, DecisionsOK
<1>2. UNCHANGED <<cachedData, finalDecision, callbackVars, traceVars, objectVars, ruledOut, dropped>>
  BY DEF outsideMoves, ConsumeTraces, EarlyStep, EarlySkip, EarlyCheckSampled,
     EarlyCheckNonSampled, AsyncSend, Send, ContextCancelled, vars, localVars, outputVars
<1>3. \/ \E t : IsHit(sampled, t) /\ sampled' = Refresh(sampled, t)
      \/ sampled' = sampled
  BY DEF outsideMoves, ConsumeTraces, EarlyStep, EarlySkip, EarlyCheckSampled,
     EarlyCheckNonSampled, AsyncSend, Send, ContextCancelled, vars, decisionVars
<1>4. \/ \E t : IsHit(nonSampled, t) /\ nonSampled' = Refresh(nonSampled, t)
      \/ nonSampled' = nonSampled
  BY DEF outsideMoves, ConsumeTraces, EarlyStep, EarlySkip, EarlyCheckSampled,
     EarlyCheckNonSampled, AsyncSend, Send, ContextCancelled, vars, decisionVars
<1>5. \/ UNCHANGED <<pc, gtdArr>>
      \/ pc[s] = "listen" /\ Goto(s, "readLock")
  BY DEF outsideMoves, ConsumeTraces, EarlyStep, EarlySkip, EarlyCheckSampled,
     EarlyCheckNonSampled, AsyncSend, Send, ContextCancelled, vars, localVars
<1>6. ToSet(sampled') = ToSet(sampled) /\ ToSet(nonSampled') = ToSet(nonSampled)
  BY <1>1, <1>3, <1>4, HitKeeps
<1> QED
  BY <1>1, <1>2, <1>5, <1>6 DEF Goto, LocalsOK

\* Every step is one of these.
LEMMA StepKinds ==
  ASSUME NEW s, Shards = {s}, [Next]_vars
  PROVE  \/ outsideMoves \/ quietMoves(s) \/ CallbackStep(s)
         \/ Regulate(s) \/ DeletePrimary(s) \/ DeleteSecondary(s) \/ PutDelete(s) \/ PutInsert(s)
  BY DEF Next, outsideMoves, quietMoves, ListenerStep, LockStep, GroupStep, Quiet

\* Nothing is held that was not, but what PutInsert puts in.
LEMMA HoldsStep ==
  ASSUME NEW s \in Shards, Shards = {s}, OneShardInv(s), [Next]_vars
  PROVE  holds(s)' \subseteq holds(s) \cup (IF PutInsert(s) THEN {held(s)} ELSE {})
<1>1. Base /\ LocalsOK /\ TracesOK /\ CallbacksOK
  BY DEF OneShardInv, Base, TypeInv
<1>2. CASE outsideMoves
  <2>1. UNCHANGED <<cachedData, callbackVars, traceVars>>
    BY <1>2, OutsideKeeps
  <2> QED
    BY <2>1 DEF holds, entries, callbackVars, traceVars
<1>3. CASE quietMoves(s)
  <2>1. entries' = entries /\ ToSet(victims'[s]) = {}
    BY <1>3, QuietMove
  <2>2. \/ cachedData'[s] \in {cachedData[s], None}
        \/ cachedData'[s] = Lookup(primary, id(s)) \/ cachedData'[s] = Lookup(secondary, id(s))
    BY <1>1, <1>3 DEF quietMoves, Tick, Receive, ReadLock, ReadUnlock, AnnounceWriter,
       WriteUnlock, CheckSampled, CheckNonSampled, NewTraceDataFails, GetPrimary, GetSecondary,
       Decide, PutSampled, SendCached, SendCurrent, PutNonSampled, Continue, KeepLocals, LocalsOK
  <2>3. cachedData'[s] \in {cachedData[s], None} \cup entries
    BY <1>1, <2>2, LookupProperties DEF TracesOK, entries
  <2> QED
    BY <2>1, <2>3 DEF holds
<1>4. CASE CallbackStep(s)
  <2>1. UNCHANGED <<cachedData, primary, secondary>> /\ callback[s] # "none"
    BY <1>4, CallbackVictim DEF localVars, traceVars
  <2>2. EndCallback(s) \/ victims' = victims
    BY <1>4 DEF CallbackStep, CallbackPriority, CallbackCheckSampled, CallbackCheckNonSampled,
       CallbackRecord, CallbackGoto
  <2>3. ToSet(victims'[s]) \subseteq ToSet(victims[s])
    BY <1>1, <2>1, <2>2, EndCallbackLeaves
  <2> QED
    BY <2>1, <2>3 DEF holds, entries
<1>5. CASE Regulate(s) \/ DeletePrimary(s) \/ DeleteSecondary(s) \/ PutDelete(s)
  <2>1. cachedData'[s] \in {cachedData[s], None}
    BY <1>1, <1>5 DEF Regulate, DeletePrimary, DeleteSecondary, PutDelete, KeepLocals, Continue, LocalsOK
  <2>2. entries' \cup ToSet(victims'[s]) = entries
    BY <1>5, RegulateEvicts, DeletePrimaryEvicts, DeleteSecondaryEvicts, PutDeleteEvicts
       DEF Redistributes
  <2> QED
    BY <2>1, <2>2 DEF holds
<1>6. CASE PutInsert(s)
  <2>1. cachedData'[s] = None
    BY <1>1, <1>6 DEF PutInsert, Continue, LocalsOK
  <2>2. entries' \cup ToSet(victims'[s]) = entries \cup {held(s)}
    BY <1>6, PutInsertEvicts DEF Redistributes
  <2> QED
    BY <1>6, <2>1, <2>2 DEF holds
<1> QED
  BY <1>2, <1>3, <1>4, <1>5, <1>6, StepKinds

\* VictimInv is kept.
LEMMA VictimNext ==
  ASSUME NEW s \in Shards, Shards = {s}, OneShardInv(s), [Next]_vars
  PROVE  VictimInv(s)'
<1>1. Base /\ VictimInv(s)
  BY DEF OneShardInv
<1>2. CASE outsideMoves
  <2>1. /\ UNCHANGED <<cachedData, victims, callback, primary, secondary, objectVars>>
        /\ ToSet(sampled') = ToSet(sampled)
        /\ pc'[s] = pc[s] \/ pc[s] = "listen"
    BY <1>2, OutsideKeeps DEF callbackVars, traceVars
  <2>2. CASE callback[s] = "none"
    BY <2>1, <2>2, NoCallback, VictimNone
  <2>3. CASE callback[s] # "none"
    <3>1. pc'[s] = pc[s] /\ pc[s] \in restingLabels
      BY <1>1, <2>1, <2>3 DEF VictimInv, restingLabels
    <3>2. victim(s)' = victim(s) /\ victimId(s)' = victimId(s) /\ promoted(s)' = promoted(s)
      BY <2>1 DEF victim, victimId, promoted, objectVars
    <3>3. \A o : evictedAlone(o)' = evictedAlone(o)
      BY <2>1 DEF evictedAlone, NoEntry
    <3>4. ToSet(victims[s]) \subseteq Batches
      BY <1>1, ToSetDef DEF Base, TypeInv, CallbacksOK
    <3>5. \A o \in ToSet(victims'[s]) :
            TraceOf[o] \in ToSet(sampled') => AllGone(o)' \/ TraceOf[o] \in ruledOut'
      BY <1>1, <2>1, <3>4, GoneStays, OutputsMonotone DEF VictimInv, objectVars
    <3> QED
      BY <1>1, <2>1, <2>3, <3>1, <3>2, <3>3, <3>5 DEF VictimInv, objectVars
  <2> QED
    BY <2>2, <2>3
<1>3. CASE CallbackStep(s)
  BY <1>3, CallbackVictim
<1> QED
  BY <1>2, <1>3, StepKinds, QuietMove, RegulateEvicts, DeletePrimaryEvicts,
     DeleteSecondaryEvicts, PutDeleteEvicts, PutInsertEvicts

----------------------------------------------------------------------------
(* The way of a group through processTraces *)

WayInv(s) == KindsInv(s) /\ PathInv(s) /\ FreshInv(s)

\* What an object holds is of its trace.
LEMMA SpansOfTrace ==
  ASSUME NEW s \in Shards, Shards = {s}, Base
  PROVE  /\ ownBatches(s) = Batches /\ entries \subseteq Batches
         /\ \A o \in Batches : /\ data[o] \subseteq Batches /\ o \in data[o]
                               /\ \A b \in data[o] : TraceOf[b] = TraceOf[o]
<1>1. ownBatches(s) = Batches
  BY InputAssumption DEF ownBatches
<1>2. entries \subseteq Batches
  BY ToSetDef DEF Base, TypeInv, TracesOK, entries
<1>3. \A o \in Batches : BatchInv(o)
  BY <1>1 DEF Base, DeliveryInv, ShardDelivery
<1> QED
  BY <1>1, <1>2, <1>3 DEF BatchInv, Base, TypeInv, ObjectsOK

\* Entries the listener is neither putting nor deleting have settled.
LEMMA EntriesWait ==
  ASSUME NEW s \in Shards, Shards = {s}, Base, pc[s] \notin putLabels \cup deleteLabels,
         NEW o \in entries, NEW b \in data[o]
  PROVE  waits(b)
  BY SpansOfTrace DEF Base, DeliveryInv, ShardDelivery, EntryInv, entries

\* A listener that does not move keeps what it knows.
LEMMA WayStill ==
  ASSUME NEW s \in Shards, Shards = {s}, OneShardInv(s), [Next]_vars,
         pc'[s] = pc[s], gtdArr'[s] = gtdArr[s],
         UNCHANGED <<cachedData, finalDecision, traceVars, objectVars, dropped>>
  PROVE  WayInv(s)'
<1>1. Base /\ KindsInv(s) /\ PathInv(s) /\ FreshInv(s)
  BY DEF OneShardInv
<1>2. /\ current(s)' = current(s) /\ id(s)' = id(s) /\ held(s)' = held(s) /\ yesPath(s)' = yesPath(s)
      /\ aboutToSend(s)' = aboutToSend(s) /\ entries' = entries /\ OnlyCached(s)' = OnlyCached(s)
  BY DEF current, id, held, yesPath, aboutToSend, entries, traceVars, OnlyCached
<1>3. cachedData[s] # None /\ AllGone(cachedData[s]) => AllGone(cachedData[s])'
  BY <1>1, GoneStays DEF Base, TypeInv, LocalsOK, objectVars
<1>4. KindsInv(s)'
  BY <1>1, <1>2 DEF KindsInv
<1>5. ruledOut \subseteq ruledOut' /\ data' = data
  BY <1>1, OutputsMonotone DEF objectVars
<1>6. PathInv(s)'
  BY <1>1, <1>2, <1>3, <1>5 DEF PathInv
<1>7. \A o : Kept(o)' = Kept(o)
  BY <1>5 DEF Kept
<1>8. FreshInv(s)'
  BY <1>1, <1>2, <1>7 DEF FreshInv
<1> QED
  BY <1>4, <1>6, <1>8 DEF WayInv

\* A listener that is not inside processTraces knows nothing yet.
LEMMA WayIdle ==
  ASSUME NEW s \in Shards, Shards = {s}, OneShardInv(s), pc[s] \notin GroupLabels,
         pc'[s] \notin GroupLabels \ {"checkSampled"},
         UNCHANGED <<cachedData, finalDecision, objectVars, dropped>>, entries' \subseteq entries
  PROVE  WayInv(s)'
<1>1. KindsInv(s) /\ PathInv(s) /\ FreshInv(s) /\ CachedOwn(s)
  BY DEF OneShardInv, Base, TierInv, ShardInv
<1>2. cachedData'[s] = None /\ finalDecision'[s] # "Sampled"
  BY <1>1 DEF CachedOwn, KindsInv, GroupLabels, deleteLabels
<1>3. KindsInv(s)' /\ PathInv(s)'
  BY <1>2 DEF KindsInv, PathInv, GroupLabels, deleteLabels, putLabels
<1>4. \A o : Kept(o)' = Kept(o)
  BY DEF Kept, objectVars
<1>5. FreshInv(s)'
  BY <1>1, <1>2, <1>4 DEF FreshInv, GroupLabels, deleteLabels, putLabels
<1> QED
  BY <1>3, <1>5 DEF WayInv

\* Nor does one that goes on to its next group.
LEMMA WayContinue ==
  ASSUME NEW s \in Shards, Base, Continue(s), \A o \in entries' : Kept(o)'
  PROVE  WayInv(s)'
<1>1. pc'[s] \in {"unlock", "checkSampled"} /\ cachedData'[s] = None /\ finalDecision'[s] = "Pending"
  BY DEF Continue, Goto, Base, TypeInv, LocalsOK
<1>2. KindsInv(s)' /\ PathInv(s)'
  BY <1>1 DEF KindsInv, PathInv, deleteLabels, putLabels
<1>3. FreshInv(s)'
  BY <1>1 DEF FreshInv
<1> QED
  BY <1>2, <1>3 DEF WayInv

\* Where a listener goes for the same group.
LEMMA GotoWay ==
  ASSUME NEW s \in Shards, Base, NEW label, Goto(s, label), UNCHANGED gtdArr
  PROVE  pc'[s] = label /\ current(s)' = current(s) /\ id(s)' = id(s)
  BY DEF Goto, Base, TypeInv, LocalsOK, current, id

\* What a listener holds stays kept where no object changes and nothing is lost.
LEMMA FreshKept ==
  ASSUME NEW s \in Shards, OneShardInv(s), UNCHANGED <<objectVars, dropped>>,
         entries' \subseteq entries, id(s)' = id(s),
         pc[s] \in deleteLabels => pc'[s] \in deleteLabels \/ \A o \in entries' : TraceOf[o] # id(s),
         (aboutToSend(s)' \/ pc'[s] \in putLabels) /\ cachedData'[s] # None =>
           Kept(cachedData'[s])
  PROVE  FreshInv(s)'
<1>1. FreshInv(s)
  BY DEF OneShardInv
<1>2. \A o : Kept(o)' = Kept(o)
  BY DEF Kept, objectVars
<1> QED
  BY <1>1, <1>2 DEF FreshInv

\* The checks of the decision caches.
LEMMA WayChecks ==
  ASSUME NEW s \in Shards, Shards = {s}, OneShardInv(s), CheckSampled(s) \/ CheckNonSampled(s)
  PROVE  WayInv(s)'
<1>1. Base /\ KindsInv(s) /\ PathInv(s) /\ FreshInv(s)
  BY DEF OneShardInv
<1>2. /\ pc[s] \in {"checkSampled", "checkNonSampled"}
      /\ UNCHANGED <<objectVars, dropped>> /\ entries' = entries
  BY DEF CheckSampled, CheckNonSampled, At, outputVars, traceVars, entries
<1>3. \A o \in entries' : Kept(o)'
  BY <1>1, <1>2 DEF FreshInv, Kept, objectVars, deleteLabels
<1>4. CASE Continue(s)
  BY <1>1, <1>3, <1>4, WayContinue
<1>5. CASE ~Continue(s)
  <2>1. /\ KeepLocals
        /\ \/ Goto(s, "checkNonSampled")
           \/ Goto(s, "putNonSampled") /\ KindOf[current(s)] = "nonSampledDecision"
           \/ Goto(s, "getPrimary") /\ KindOf[current(s)] # "nonSampledDecision"
    BY <1>5 DEF CheckSampled, CheckNonSampled
  <2>2. /\ current(s)' = current(s) /\ id(s)' = id(s)
        /\ UNCHANGED <<cachedData, finalDecision>>
        /\ \/ pc'[s] = "checkNonSampled"
           \/ pc'[s] = "putNonSampled" /\ KindOf[current(s)] = "nonSampledDecision"
           \/ pc'[s] = "getPrimary" /\ KindOf[current(s)] # "nonSampledDecision"
    BY <1>1, <2>1, GotoWay DEF KeepLocals
  <2>3. finalDecision'[s] # "Sampled" /\ cachedData'[s] = None
    BY <1>1, <1>2, <2>2 DEF KindsInv, PathInv, deleteLabels
  <2>4. KindsInv(s)'
    BY <2>2, <2>3 DEF KindsInv, yesPath, putLabels
  <2>5. PathInv(s)'
    BY <2>2, <2>3 DEF PathInv, putLabels, deleteLabels
  <2>6. FreshInv(s)'
    BY <1>3, <2>3 DEF FreshInv
  <2> QED
    BY <2>4, <2>5, <2>6 DEF WayInv
<1> QED
  BY <1>4, <1>5

\* The group whose NewTraceData fails is in no object yet.
LEMMA WayNewTraceDataFails ==
  ASSUME NEW s \in Shards, Shards = {s}, OneShardInv(s), NewTraceDataFails(s)
  PROVE  WayInv(s)'
<1>1. Base /\ FreshInv(s)
  BY DEF OneShardInv
<1>2. /\ pc[s] = "getPrimary" /\ pc[s] \in GroupLabels /\ Continue(s)
      /\ dropped' = dropped \cup {current(s)} /\ UNCHANGED objectVars /\ entries' = entries
  BY DEF NewTraceDataFails, At, traceVars, entries, GroupLabels
<1>3. \A o \in entries : \A b \in data[o] : b # current(s)
  <2>1. \A o \in entries : \A b \in data[o] : waits(b)
    BY <1>1, <1>2, EntriesWait DEF putLabels, deleteLabels
  <2>2. stage[current(s)] = "queued"
    BY <1>1, <1>2, CurrentQueued
  <2> QED
    BY <2>1, <2>2 DEF waits
<1>4. \A o \in entries' : Kept(o)'
  BY <1>1, <1>2, <1>3 DEF FreshInv, Kept, objectVars, deleteLabels
<1> QED
  BY <1>1, <1>2, <1>4, WayContinue

\* What Get returns is the only entry of the trace.
LEMMA GotOnly ==
  ASSUME NEW s \in Shards, Base,
         NEW o, \/ o = Lookup(primary, id(s)) /\ o # None
                \/ o = Lookup(secondary, id(s)) /\ NoEntry(primary, id(s))
  PROVE  /\ \A x \in entries : TraceOf[x] = id(s) => x = o
         /\ o # None => o \in entries
<1>1. TracesOK /\ OnePerTrace /\ TierDisjoint
  BY DEF Base, TypeInv, TierInv
<1>2. ASSUME NEW q \in Seq(Batches), UniqueKeys(q, TraceOf), NEW x \in ToSet(q), NEW y \in ToSet(q),
             TraceOf[x] = TraceOf[y]
      PROVE  x = y
  <2>1. PICK i \in 1..Len(q) : q[i] = x
    BY ToSetDef
  <2>2. PICK j \in 1..Len(q) : q[j] = y
    BY ToSetDef
  <2> QED
    BY <1>2, <2>1, <2>2 DEF UniqueKeys
<1>3. CASE o = Lookup(primary, id(s)) /\ o # None
  <2>1. o \in ToSet(primary) /\ TraceOf[o] = id(s)
    BY <1>1, <1>3, LookupProperties DEF TracesOK
  <2> QED
    BY <1>1, <1>2, <2>1 DEF OnePerTrace, TierDisjoint, TracesOK, entries
<1>4. CASE o = Lookup(secondary, id(s)) /\ NoEntry(primary, id(s))
  <2>1. /\ o # None => o \in ToSet(secondary) /\ TraceOf[o] = id(s)
        /\ o = None => \A x \in ToSet(secondary) : TraceOf[x] # id(s)
    BY <1>1, <1>4, LookupProperties DEF TracesOK
  <2> QED
    BY <1>1, <1>2, <1>4, <2>1 DEF OnePerTrace, NoEntry, TracesOK, entries
<1> QED
  BY <1>3, <1>4

\* Get finds the one entry of the trace.
LEMMA WayGet ==
  ASSUME NEW s \in Shards, Shards = {s}, OneShardInv(s), GetPrimary(s) \/ GetSecondary(s)
  PROVE  WayInv(s)'
<1>1. Base /\ KindsInv(s) /\ PathInv(s) /\ FreshInv(s) /\ Learnt(s)
  BY DEF OneShardInv, Base, TierInv, ShardInv
<1>2. /\ pc[s] \in {"getPrimary", "getSecondary"} /\ pc[s] \in GroupLabels
      /\ UNCHANGED <<gtdArr, finalDecision, objectVars, dropped>>
  BY DEF GetPrimary, GetSecondary, At, outputVars, GroupLabels
<1>3. entries' = entries
  BY QuietMove DEF quietMoves
<1>4. current(s)' = current(s) /\ id(s)' = id(s)
  BY <1>2 DEF current, id
<1>5. finalDecision'[s] # "Sampled" /\ KindOf[current(s)] \in {"spans", "sampledDecision"}
  <2>1. KindOf[current(s)] \in Kinds
    BY <1>1, <1>2, CurrentQueued, InputAssumption
  <2> QED
    BY <1>1, <1>2, <2>1 DEF KindsInv, Kinds, deleteLabels
<1>6. CASE pc'[s] = "getSecondary" /\ UNCHANGED cachedData
  <2>1. cachedData'[s] = None
    BY <1>1, <1>2, <1>6 DEF PathInv
  <2>2. KindsInv(s)' /\ PathInv(s)'
    BY <1>4, <1>5, <1>6, <2>1 DEF KindsInv, PathInv, putLabels, deleteLabels
  <2>3. FreshInv(s)'
    BY <1>1, <1>2, <1>3, <1>4, <2>1, FreshKept DEF deleteLabels
  <2> QED
    BY <2>2, <2>3 DEF WayInv
<1>7. ASSUME NEW o, cachedData'[s] = o, pc'[s] = afterGet(s, o),
             \/ o = Lookup(primary, id(s)) /\ o # None
             \/ o = Lookup(secondary, id(s)) /\ NoEntry(primary, id(s))
      PROVE  WayInv(s)'
  <2>1. /\ \A x \in entries : TraceOf[x] = id(s) => x = o
        /\ o # None => o \in entries
    BY <1>1, <1>7, GotOnly
  <2>2. OnlyCached(s)'
    BY <1>3, <1>4, <1>7, <2>1 DEF OnlyCached
  <2>3. \/ pc'[s] = "decide" /\ KindOf[current(s)] = "spans"
        \/ pc'[s] = "putSampled" /\ KindOf[current(s)] = "sampledDecision" /\ o = None
        \/ pc'[s] = "sendCached" /\ KindOf[current(s)] = "sampledDecision"
    BY <1>5, <1>7 DEF afterGet
  <2>4. KindsInv(s)'
    BY <1>4, <1>5, <2>3 DEF KindsInv, yesPath, putLabels
  <2>5. PathInv(s)'
    BY <1>4, <1>7, <2>2, <2>3 DEF PathInv, putLabels, deleteLabels
  <2>6. o # None => Kept(o)
    BY <1>1, <1>2, <2>1 DEF FreshInv, deleteLabels
  <2>7. FreshInv(s)'
    BY <1>2, <1>3, <1>4, <1>7, <2>6, FreshKept DEF deleteLabels
  <2> QED
    BY <2>4, <2>5, <2>7 DEF WayInv
<1>8. CASE GetPrimary(s)
  <2> DEFINE o == Lookup(primary, id(s))
  <2>1. CASE o # None
    <3>1. cachedData' = [cachedData EXCEPT ![s] = o] /\ Goto(s, afterGet(s, o))
      BY <1>8, <2>1 DEF GetPrimary
    <3>2. cachedData'[s] = o /\ pc'[s] = afterGet(s, o)
      BY <1>1, <1>2, <3>1, GotoWay DEF Base, TypeInv, LocalsOK
    <3> QED
      BY <1>7, <2>1, <3>2
  <2>2. CASE o = None
    <3>1. UNCHANGED cachedData /\ Goto(s, "getSecondary")
      BY <1>8, <2>2 DEF GetPrimary
    <3> QED
      BY <1>1, <1>2, <1>6, <3>1, GotoWay
  <2> QED
    BY <2>1, <2>2
<1>9. CASE GetSecondary(s)
  <2> DEFINE o == Lookup(secondary, id(s))
  <2>1. cachedData' = [cachedData EXCEPT ![s] = o] /\ Goto(s, afterGet(s, o)) /\ pc[s] = "getSecondary"
    BY <1>9 DEF GetSecondary, At
  <2>2. cachedData'[s] = o /\ pc'[s] = afterGet(s, o)
    BY <1>1, <1>2, <2>1, GotoWay DEF Base, TypeInv, LocalsOK
  <2>3. NoEntry(primary, id(s))
    BY <1>1, <2>1 DEF Learnt
  <2> QED
    BY <1>7, <2>2, <2>3
<1> QED
  BY <1>8, <1>9


\* Decide chooses the way the group goes on.
LEMMA WayDecide ==
  ASSUME NEW s \in Shards, Shards = {s}, OneShardInv(s), Decide(s)
  PROVE  WayInv(s)'
<1>1. Base /\ KindsInv(s) /\ PathInv(s) /\ FreshInv(s) /\ GoneInv
  BY DEF OneShardInv
<1>2. /\ pc[s] = "decide" /\ pc[s] \in GroupLabels
      /\ UNCHANGED <<gtdArr, cachedData, dropped, ruledOut, forwarded>> /\ entries' = entries
  BY DEF Decide, At, outputVars, traceVars, entries, GroupLabels
<1>3. PICK d \in Decisions :
        /\ finalDecision' = [finalDecision EXCEPT ![s] = d]
        /\ \/ d = "Sampled" /\ Goto(s, "putSampled") /\ UNCHANGED objectVars
           \/ d = "NotSampled" /\ Goto(s, "putNonSampled") /\ UNCHANGED objectVars
           \/ d \in {"LowPriority", "Pending"} /\ Absorb(s, d) /\ Goto(s, "putDelete")
  BY DEF Decide
<1>4. current(s)' = current(s) /\ id(s)' = id(s) /\ held(s)' = held(s) /\ finalDecision'[s] = d
  BY <1>1, <1>2, <1>3 DEF current, id, held, Base, TypeInv, LocalsOK
<1>5. KindOf[current(s)] = "spans" /\ OnlyCached(s)'
  BY <1>1, <1>2, <1>4 DEF KindsInv, PathInv, OnlyCached
<1>6. \A o \in entries : Kept(o)
  BY <1>1, <1>2 DEF FreshInv, deleteLabels
<1>7. cachedData[s] # None => Kept(cachedData[s])
  BY <1>1, <1>2 DEF FreshInv, aboutToSend
<1>8. CASE d \in {"Sampled", "NotSampled"}
  <2>1. /\ UNCHANGED objectVars
        /\ pc'[s] = IF d = "Sampled" THEN "putSampled" ELSE "putNonSampled"
    BY <1>1, <1>2, <1>3, <1>8, GotoWay
  <2>2. KindsInv(s)'
    BY <1>4, <1>5, <1>8, <2>1 DEF KindsInv, yesPath, putLabels
  <2>3. PathInv(s)'
    BY <1>4, <1>5, <2>1 DEF PathInv, putLabels, deleteLabels
  <2>4. FreshInv(s)'
    BY <1>2, <1>4, <1>7, <2>1, FreshKept DEF deleteLabels, Kept, objectVars
  <2> QED
    BY <2>2, <2>3, <2>4 DEF WayInv
<1>9. CASE d \in {"LowPriority", "Pending"}
  <2>1. pc'[s] = "putDelete" /\ Absorb(s, d)
    BY <1>1, <1>2, <1>3, <1>9, GotoWay
  <2>2. held(s) \in Batches /\ data \in [Batches -> SUBSET Batches]
    BY <1>1, <1>2, HeldIsOwn DEF Base, TypeInv, ObjectsOK
  <2>3. /\ current(s) \in data'[held(s)]
        /\ \A o \in Batches : data'[o] \subseteq data[o] \cup {current(s)}
    BY <2>1, <2>2 DEF Absorb
  <2>4. current(s) \notin dropped
    BY <1>1, <1>2, CurrentQueued DEF GoneInv, Base, TypeInv, OutputsOK
  <2>5. \A o \in Batches : Kept(o) => Kept(o)'
    BY <1>2, <2>3, <2>4 DEF Kept
  <2>6. entries \subseteq Batches /\ (cachedData[s] # None => cachedData[s] \in Batches)
    BY <1>1, SpansOfTrace DEF Base, TypeInv, LocalsOK
  <2>7. KindsInv(s)'
    BY <1>4, <1>5, <1>9, <2>1 DEF KindsInv, putLabels
  <2>8. PathInv(s)'
    BY <1>4, <1>5, <2>1, <2>3 DEF PathInv, putLabels, deleteLabels
  <2>9. FreshInv(s)'
    BY <1>2, <1>6, <1>7, <2>1, <2>5, <2>6 DEF FreshInv
  <2> QED
    BY <2>7, <2>8, <2>9 DEF WayInv
<1> QED
  BY <1>3, <1>8, <1>9 DEF Decisions

\* The decision is recorded before the cached data is released.
LEMMA WayPutSampled ==
  ASSUME NEW s \in Shards, Shards = {s}, OneShardInv(s), PutSampled(s)
  PROVE  WayInv(s)'
<1>1. Base /\ KindsInv(s) /\ PathInv(s) /\ FreshInv(s)
  BY DEF OneShardInv
<1>2. pc[s] = "putSampled" /\ UNCHANGED <<objectVars, dropped>> /\ entries' = entries
  BY DEF PutSampled, At, outputVars, traceVars, entries
<1>3. CASE KindOf[current(s)] # "spans"
  <2>1. \A o \in entries' : Kept(o)'
    BY <1>1, <1>2 DEF FreshInv, Kept, objectVars, deleteLabels
  <2> QED
    BY <1>1, <1>3, <2>1, WayContinue DEF PutSampled
<1>4. CASE KindOf[current(s)] = "spans"
  <2>1. Goto(s, afterPutSampled(s)) /\ KeepLocals
    BY <1>4 DEF PutSampled
  <2>2. /\ pc'[s] = IF cachedData[s] # None THEN "sendCached" ELSE "sendCurrent"
        /\ current(s)' = current(s) /\ id(s)' = id(s) /\ UNCHANGED <<cachedData, finalDecision>>
    BY <1>1, <2>1, GotoWay DEF KeepLocals, afterPutSampled
  <2>3. yesPath(s)' /\ OnlyCached(s)'
    BY <1>1, <1>2, <2>2 DEF KindsInv, PathInv, yesPath, OnlyCached
  <2>4. KindsInv(s)'
    BY <1>1, <1>4, <2>2, <2>3 DEF KindsInv, putLabels
  <2>5. PathInv(s)'
    BY <1>4, <2>2, <2>3 DEF PathInv, putLabels, deleteLabels
  <2>6. cachedData[s] # None => Kept(cachedData[s])
    BY <1>1, <1>2, <1>4 DEF FreshInv, aboutToSend
  <2>7. FreshInv(s)'
    BY <1>2, <2>2, <2>6, FreshKept DEF deleteLabels
  <2> QED
    BY <2>4, <2>5, <2>7 DEF WayInv
<1> QED
  BY <1>3, <1>4

\* What was cached is sent, or lost, before it is deleted.
LEMMA WaySendCached ==
  ASSUME NEW s \in Shards, Shards = {s}, OneShardInv(s), SendCached(s)
  PROVE  WayInv(s)' /\ AllGone(cachedData[s])' /\ cachedData[s] # None
<1>1. Base /\ KindsInv(s) /\ PathInv(s) /\ FreshInv(s) /\ HasCached
  BY DEF OneShardInv, Base, TypeInv, LocalsOK
<1>2. /\ pc[s] = "sendCached" /\ pc[s] \in GroupLabels /\ Goto(s, "deletePrimary") /\ KeepLocals
      /\ UNCHANGED objectVars /\ entries' = entries
  BY DEF SendCached, At, traceVars, entries, GroupLabels
<1>3. /\ pc'[s] = "deletePrimary" /\ current(s)' = current(s) /\ id(s)' = id(s)
      /\ UNCHANGED <<cachedData, finalDecision>>
  BY <1>1, <1>2, GotoWay DEF KeepLocals
<1>4. cachedData[s] # None /\ cachedData[s] \in Batches /\ TraceOf[cachedData[s]] = id(s)
  BY <1>1, <1>2 DEF HasCached, Base, TypeInv, LocalsOK, TierInv, ShardInv, CachedOwn
<1>5. data[cachedData[s]] \subseteq Batches
  BY <1>4, <1>1, SpansOfTrace
<1>6. AllGone(cachedData[s])'
  <2>1. CASE Forward(data[cachedData[s]])
    <3>1. \A b \in data[cachedData[s]] : forwarded'[b] = forwarded[b] + 1 /\ forwarded[b] \in Nat
      BY <1>1, <1>5, <2>1 DEF Forward, Base, TypeInv, OutputsOK
    <3>2. \A n \in Nat : n + 1 > 0
      OBVIOUS
    <3>3. \A b \in data[cachedData[s]] : forwarded'[b] > 0
      BY <3>1, <3>2
    <3> QED
      BY <1>2, <1>3, <3>3 DEF AllGone, Gone, objectVars
  <2>2. CASE dropped' = dropped \cup data[cachedData[s]]
    BY <1>2, <1>3, <2>2 DEF AllGone, Gone, objectVars
  <2> QED
    BY <2>1, <2>2 DEF SendCached
<1>7. yesPath(s)' /\ OnlyCached(s)'
  BY <1>1, <1>2, <1>3 DEF KindsInv, PathInv, yesPath, OnlyCached
<1>8. KindsInv(s)'
  BY <1>1, <1>2, <1>3 DEF KindsInv, putLabels, deleteLabels
<1>9. PathInv(s)'
  BY <1>3, <1>4, <1>6, <1>7 DEF PathInv, putLabels, deleteLabels
<1>10. FreshInv(s)'
  <2>1. ASSUME NEW o \in entries, TraceOf[o] # id(s) PROVE Kept(o)'
    <3>1. Kept(o)
      BY <1>1, <1>2 DEF FreshInv, deleteLabels
    <3>2. dropped' = dropped \/ dropped' = dropped \cup data[cachedData[s]]
      BY DEF SendCached
    <3>3. data[o] \cap data[cachedData[s]] = {}
      BY <1>1, <1>4, <2>1, SpansOfTrace
    <3> QED
      BY <1>2, <3>1, <3>2, <3>3 DEF Kept, objectVars
  <2> QED
    BY <1>2, <1>3, <2>1 DEF FreshInv, aboutToSend, deleteLabels, putLabels
<1> QED
  BY <1>4, <1>6, <1>8, <1>9, <1>10 DEF WayInv

\* The end of a sampled group, and a decision against a trace.
LEMMA WaySendOrRelease ==
  ASSUME NEW s \in Shards, Shards = {s}, OneShardInv(s), SendCurrent(s) \/ PutNonSampled(s)
  PROVE  WayInv(s)'
<1>1. Base /\ KindsInv(s) /\ PathInv(s) /\ FreshInv(s)
  BY DEF OneShardInv
<1>2. /\ pc[s] \in {"sendCurrent", "putNonSampled"}
      /\ UNCHANGED <<objectVars, dropped>> /\ entries' = entries
  BY DEF SendCurrent, PutNonSampled, At, traceVars, entries
<1>3. \A o \in entries' : Kept(o)'
  BY <1>1, <1>2 DEF FreshInv, Kept, objectVars, deleteLabels
<1>4. CASE SendCurrent(s)
  BY <1>1, <1>3, <1>4, WayContinue DEF SendCurrent
<1>5. CASE PutNonSampled(s)
  <2>1. pc[s] = "putNonSampled" /\ Goto(s, "deletePrimary") /\ KeepLocals /\ id(s) \in ruledOut'
    BY <1>5 DEF PutNonSampled, At
  <2>2. /\ pc'[s] = "deletePrimary" /\ current(s)' = current(s) /\ id(s)' = id(s)
        /\ UNCHANGED <<cachedData, finalDecision>>
    BY <1>1, <2>1, GotoWay DEF KeepLocals
  <2>3. ~yesPath(s)'
    BY <1>1, <2>1, <2>2 DEF KindsInv, yesPath
  <2>4. KindsInv(s)'
    BY <2>2, <2>3 DEF KindsInv, yesPath, putLabels, deleteLabels
  <2>5. PathInv(s)'
    BY <2>1, <2>2, <2>3 DEF PathInv, putLabels, deleteLabels
  <2>6. FreshInv(s)'
    BY <1>3, <2>2 DEF FreshInv, aboutToSend, putLabels
  <2> QED
    BY <2>4, <2>5, <2>6 DEF WayInv
<1> QED
  BY <1>4, <1>5

\* The deletion of what is left of the trace.
LEMMA WayDelete ==
  ASSUME NEW s \in Shards, Shards = {s}, OneShardInv(s), [Next]_vars,
         DeletePrimary(s) \/ DeleteSecondary(s)
  PROVE  WayInv(s)'
<1>1. Base /\ KindsInv(s) /\ PathInv(s) /\ FreshInv(s)
  BY DEF OneShardInv
<1>2. /\ pc[s] \in deleteLabels /\ pc[s] \in GroupLabels
      /\ UNCHANGED <<objectVars, forwarded, dropped, ruledOut>>
  BY DEF DeletePrimary, DeleteSecondary, At, outputVars, GroupLabels, deleteLabels
<1>3. entries' \subseteq entries
  BY DeletePrimaryEvicts, DeleteSecondaryEvicts DEF Redistributes
<1>4. \A o : AllGone(o)' = AllGone(o)
  BY <1>2 DEF AllGone, Gone, objectVars
<1>5. CASE DeletePrimary(s)
  <2>1. Goto(s, "deleteSecondary") /\ KeepLocals
    BY <1>5 DEF DeletePrimary
  <2>2. /\ pc'[s] = "deleteSecondary" /\ current(s)' = current(s) /\ id(s)' = id(s)
        /\ UNCHANGED <<cachedData, finalDecision>>
    BY <1>1, <2>1, GotoWay DEF KeepLocals
  <2>3. yesPath(s)' = yesPath(s) /\ (OnlyCached(s) => OnlyCached(s)')
    BY <1>3, <2>2 DEF yesPath, OnlyCached
  <2>4. KindsInv(s)'
    BY <1>1, <1>2, <2>2 DEF KindsInv, putLabels, deleteLabels
  <2>5. PathInv(s)'
    BY <1>1, <1>2, <1>4, <2>2, <2>3 DEF PathInv, putLabels, deleteLabels
  <2>6. FreshInv(s)'
    BY <1>2, <1>3, <2>2, FreshKept DEF deleteLabels, putLabels, aboutToSend
  <2> QED
    BY <2>4, <2>5, <2>6 DEF WayInv
<1>6. CASE DeleteSecondary(s)
  <2>1. \A o \in entries' : TraceOf[o] # id(s)
    BY <1>6, DeleteSecondaryEvicts DEF NoEntry, entries
  <2>2. \A o \in entries' : Kept(o)'
    BY <1>1, <1>2, <1>3, <2>1 DEF FreshInv, Kept, objectVars
  <2>3. CASE Continue(s)
    BY <1>1, <2>2, <2>3, WayContinue
  <2>4. CASE ~Continue(s)
    <3>1. /\ KeepLocals
          /\ \/ Goto(s, "putSampled") /\ KindOf[current(s)] = "sampledDecision"
             \/ Goto(s, "sendCurrent") /\ finalDecision[s] = "Sampled"
      BY <1>6, <2>4 DEF DeleteSecondary
    <3>2. /\ current(s)' = current(s) /\ id(s)' = id(s)
          /\ UNCHANGED <<cachedData, finalDecision>>
          /\ \/ pc'[s] = "putSampled" /\ KindOf[current(s)] = "sampledDecision"
             \/ pc'[s] = "sendCurrent" /\ finalDecision[s] = "Sampled"
      BY <1>1, <3>1, GotoWay DEF KeepLocals
    <3>3. yesPath(s) /\ yesPath(s)'
      BY <3>2 DEF yesPath
    <3>4. KindsInv(s)'
      BY <1>1, <3>2, <3>3 DEF KindsInv, putLabels
    <3>5. AllGone(cachedData[s])' /\ OnlyCached(s)'
      BY <1>1, <1>2, <1>3, <1>4, <3>2, <3>3 DEF PathInv, OnlyCached
    <3>6. PathInv(s)'
      BY <3>2, <3>5 DEF PathInv, putLabels, deleteLabels
    <3>7. ~aboutToSend(s)'
      BY <3>2 DEF aboutToSend
    <3>8. FreshInv(s)'
      BY <2>2, <3>2, <3>7 DEF FreshInv, putLabels
    <3> QED
      BY <3>4, <3>6, <3>8 DEF WayInv
  <2> QED
    BY <2>3, <2>4
<1> QED
  BY <1>5, <1>6

\* Put brings in what has not been lost.
LEMMA WayPut ==
  ASSUME NEW s \in Shards, Shards = {s}, OneShardInv(s), PutDelete(s) \/ PutInsert(s)
  PROVE  WayInv(s)' /\ Kept(held(s))
<1>1. Base /\ KindsInv(s) /\ PathInv(s) /\ FreshInv(s) /\ GoneInv
  BY DEF OneShardInv
<1>2. pc[s] \in putLabels /\ pc[s] \in GroupLabels /\ UNCHANGED <<objectVars, dropped>>
  BY DEF PutDelete, PutInsert, At, outputVars, GroupLabels, putLabels
<1>3. Kept(held(s))
  <2>1. CASE cachedData[s] = None
    <3>1. data[held(s)] = {current(s)} /\ stage[current(s)] = "queued"
      BY <1>1, <1>2, <2>1, CurrentQueued DEF held
    <3> QED
      BY <1>1, <3>1 DEF Kept, GoneInv
  <2>2. CASE cachedData[s] # None
    BY <1>1, <1>2, <2>2 DEF FreshInv, held
  <2> QED
    BY <2>1, <2>2
<1>4. CASE PutDelete(s)
  <2>1. Goto(s, "putInsert") /\ KeepLocals
    BY <1>4 DEF PutDelete
  <2>2. /\ pc'[s] = "putInsert" /\ current(s)' = current(s) /\ id(s)' = id(s)
        /\ UNCHANGED <<cachedData, finalDecision>> /\ held(s)' = held(s)
    BY <1>1, <2>1, GotoWay DEF KeepLocals, held
  <2>3. entries' \subseteq entries
    BY <1>4, PutDeleteEvicts DEF Redistributes
  <2>4. OnlyCached(s)' /\ current(s) \in data'[held(s)]
    BY <1>1, <1>2, <2>2, <2>3 DEF PathInv, OnlyCached, objectVars
  <2>5. KindsInv(s)'
    BY <1>1, <1>2, <2>2 DEF KindsInv, putLabels, deleteLabels
  <2>6. PathInv(s)'
    BY <2>2, <2>4 DEF PathInv, putLabels, deleteLabels
  <2>7. FreshInv(s)'
    BY <1>2, <1>3, <2>2, <2>3, FreshKept DEF deleteLabels, putLabels, held, Kept, objectVars
  <2> QED
    BY <1>3, <2>5, <2>6, <2>7 DEF WayInv
<1>5. CASE PutInsert(s)
  <2>1. entries' \subseteq entries \cup {held(s)}
    BY <1>5, PutInsertEvicts DEF Redistributes
  <2>2. \A o \in entries' : Kept(o)'
    BY <1>1, <1>2, <1>3, <2>1 DEF FreshInv, Kept, objectVars, putLabels, deleteLabels
  <2> QED
    BY <1>1, <1>3, <1>5, <2>2, WayContinue DEF PutInsert
<1> QED
  BY <1>4, <1>5

\* The way of a group is kept.
LEMMA WayNext ==
  ASSUME NEW s \in Shards, Shards = {s}, OneShardInv(s), [Next]_vars
  PROVE  WayInv(s)'
<1>1. Base
  BY DEF OneShardInv
<1>2. CASE outsideMoves
  <2>1. /\ UNCHANGED <<cachedData, finalDecision, traceVars, objectVars, dropped>>
        /\ \/ pc'[s] = pc[s] /\ gtdArr'[s] = gtdArr[s]
           \/ pc[s] = "listen" /\ pc'[s] = "readLock"
    BY <1>2, OutsideKeeps
  <2>2. entries' = entries
    BY <2>1 DEF entries, traceVars
  <2> QED
    BY <2>1, <2>2, WayStill, WayIdle DEF GroupLabels
<1>3. CASE CallbackStep(s)
  <2>1. UNCHANGED <<localVars, traceVars, objectVars, dropped>>
    BY <1>3, CallbackVictim
  <2> QED
    BY <2>1, WayStill DEF localVars
<1>4. CASE \/ Tick(s) \/ Receive(s) \/ ReadLock(s) \/ ReadUnlock(s) \/ AnnounceWriter(s)
           \/ WriteUnlock(s) \/ Regulate(s)
  <2>1. entries' \subseteq entries
    BY <1>4, QuietMove, RegulateEvicts DEF quietMoves, Redistributes
  <2>2. pc \in [Shards -> Labels]
    BY <1>1 DEF Base, TypeInv, LocalsOK
  <2>3. /\ pc[s] \notin GroupLabels /\ pc'[s] \notin GroupLabels \ {"checkSampled"}
        /\ UNCHANGED <<cachedData, finalDecision, objectVars, dropped>>
    BY <1>4, <2>2 DEF Tick, Receive, ReadLock, ReadUnlock, AnnounceWriter, WriteUnlock, Regulate,
       At, Goto, KeepLocals, GroupLabels, outputVars
  <2> QED
    BY <2>1, <2>3, WayIdle
<1> QED
  BY <1>2, <1>3, <1>4, StepKinds, WayChecks, WayNewTraceDataFails, WayGet, WayDecide,
     WayPutSampled, WaySendCached, WaySendOrRelease, WayDelete, WayPut DEF quietMoves

----------------------------------------------------------------------------
(* The spans that are held, sent and lost *)

\* Decide alone changes an object, by absorbing the current spans.
LEMMA ObjectsStep ==
  ASSUME NEW s \in Shards, Shards = {s}, OneShardInv(s), [Next]_vars, ~UNCHANGED objectVars
  PROVE  /\ Decide(s) /\ pc[s] = "decide" /\ pc[s] \in GroupLabels
         /\ KindOf[current(s)] = "spans" /\ current(s) \in data'[held(s)]
         /\ \A o \in Batches : data[o] \subseteq data'[o] /\ data'[o] \subseteq data[o] \cup {current(s)}
         /\ \A o \in Batches \ {held(s)} : data'[o] = data[o]
<1>1. Base /\ KindsInv(s)
  BY DEF OneShardInv
<1>2. Decide(s)
  <2>1. ~outsideMoves /\ ~CallbackStep(s)
    BY OutsideKeeps, CallbackVictim
  <2>2. ~PutInsert(s) /\ ~Regulate(s) /\ ~DeletePrimary(s) /\ ~DeleteSecondary(s) /\ ~PutDelete(s)
    BY DEF PutInsert, Regulate, DeletePrimary, DeleteSecondary, PutDelete
  <2>3. quietMoves(s) => Decide(s)
    BY DEF quietMoves, Tick, Receive, ReadLock, ReadUnlock, AnnounceWriter, WriteUnlock,
       CheckSampled, CheckNonSampled, NewTraceDataFails, GetPrimary, GetSecondary, PutSampled,
       SendCached, SendCurrent, PutNonSampled
  <2> QED
    BY <2>1, <2>2, <2>3, StepKinds
<1>3. pc[s] = "decide" /\ pc[s] \in GroupLabels
  BY <1>2 DEF Decide, At, GroupLabels
<1>4. PICK d \in Decisions : Absorb(s, d)
  BY <1>2 DEF Decide
<1>5. held(s) \in Batches /\ data \in [Batches -> SUBSET Batches]
  BY <1>1, <1>3, HeldIsOwn DEF Base, TypeInv, ObjectsOK
<1>6. data' = [data EXCEPT ![held(s)] = @ \cup {current(s)}]
  BY <1>4 DEF Absorb
<1>7. KindOf[current(s)] = "spans"
  BY <1>1, <1>3 DEF KindsInv
<1> QED
  BY <1>2, <1>3, <1>5, <1>6, <1>7

\* What an internal error takes away.
LEMMA DroppedStep ==
  ASSUME NEW s \in Shards, Shards = {s}, OneShardInv(s), [Next]_vars
  PROVE  \/ dropped' = dropped
         \/ NewTraceDataFails(s)
         \/ SendCached(s) /\ dropped' = dropped \cup data[cachedData[s]]
<1>1. outsideMoves \/ CallbackStep(s) => dropped' = dropped
  BY OutsideKeeps, CallbackVictim
<1>2. \/ Regulate(s) \/ DeletePrimary(s) \/ DeleteSecondary(s) \/ PutDelete(s) \/ PutInsert(s)
        => dropped' = dropped
  BY DEF PutInsert, Regulate, DeletePrimary, DeleteSecondary, PutDelete, outputVars
<1>3. quietMoves(s) => dropped' = dropped \/ NewTraceDataFails(s) \/ SendCached(s)
  BY DEF quietMoves, Tick, Receive, ReadLock, ReadUnlock, AnnounceWriter, WriteUnlock,
     CheckSampled, CheckNonSampled, GetPrimary, GetSecondary, Decide, PutSampled,
     SendCurrent, PutNonSampled, outputVars
<1> QED
  BY <1>1, <1>2, <1>3, StepKinds DEF SendCached

\* Which traces the cache of those not sampled comes to know.
LEMMA RuledOutStep ==
  ASSUME NEW s \in Shards, Shards = {s}, OneShardInv(s), [Next]_vars
  PROVE  \/ ToSet(nonSampled') = ToSet(nonSampled) /\ ruledOut' = ruledOut
         \/ /\ PutNonSampled(s) /\ ruledOut' = ruledOut \cup {id(s)}
            /\ ToSet(nonSampled') \subseteq ToSet(nonSampled) \cup {id(s)}
         \/ /\ CallbackRecord(s) /\ ruledOut' = ruledOut \cup {victimId(s)}
            /\ ToSet(nonSampled') \subseteq ToSet(nonSampled) \cup {victimId(s)}
<1>1. Base /\ nonSampled \in Seq(Traces) /\ NonSampledCacheSize \in Nat
  BY ConfigAssumption DEF OneShardInv, Base, TypeInv, DecisionsOK
<1>2. CASE outsideMoves
  BY <1>2, OutsideKeeps
<1>3. CASE CallbackPriority(s) \/ CallbackCheckSampled(s)
  BY <1>3 DEF CallbackPriority, CallbackCheckSampled, decisionVars, outputVars
<1>4. CASE CallbackCheckNonSampled(s)
  BY <1>1, <1>4, HitKeeps DEF CallbackCheckNonSampled, outputVars
<1>5. CASE CallbackRecord(s)
  <2>1. victimId(s) \in Traces
    BY <1>1, <1>5, VictimTyped DEF CallbackRecord, Base, TypeInv
  <2> QED
    BY <1>1, <1>5, <2>1, Recorded DEF CallbackRecord
<1>6. CASE PutNonSampled(s)
  <2>1. id(s) \in Traces
    BY <1>1, <1>6, CurrentQueued DEF PutNonSampled, At, GroupLabels
  <2> QED
    BY <1>1, <1>6, <2>1, Recorded DEF PutNonSampled
<1>7. CASE CheckNonSampled(s)
  BY <1>1, <1>7, HitKeeps DEF CheckNonSampled, outputVars
<1>8. CASE \/ Regulate(s) \/ DeletePrimary(s) \/ DeleteSecondary(s) \/ PutDelete(s) \/ PutInsert(s)
  BY <1>8 DEF PutInsert, Regulate, DeletePrimary, DeleteSecondary, PutDelete, outputVars, decisionVars
<1>9. CASE quietMoves(s) /\ ~PutNonSampled(s) /\ ~CheckNonSampled(s)
  BY <1>9 DEF quietMoves, Tick, Receive, ReadLock, ReadUnlock, AnnounceWriter, WriteUnlock,
     CheckSampled, NewTraceDataFails, GetPrimary, GetSecondary, Decide, PutSampled, SendCached,
     SendCurrent, outputVars, decisionVars
<1> QED
  BY <1>2, <1>3, <1>4, <1>5, <1>6, <1>7, <1>8, <1>9, StepKinds DEF CallbackStep

\* SpansInv is kept.
LEMMA SpansNext ==
  ASSUME NEW s \in Shards, Shards = {s}, OneShardInv(s), [Next]_vars
  PROVE  SpansInv(s)'
<1>1. Base /\ KindsInv(s) /\ SpansInv(s)
  BY DEF OneShardInv
<1>2. ASSUME PutInsert(s) PROVE held(s) \in spanBatches
  <2>1. pc[s] \in putLabels /\ pc[s] \in GroupLabels
    BY <1>2 DEF PutInsert, At, putLabels, GroupLabels
  <2>2. current(s) \in spanBatches
    BY <1>1, <2>1, CurrentQueued DEF KindsInv, spanBatches
  <2> QED
    BY <1>1, <2>2 DEF held, SpansInv, holds
<1>3. holds(s)' \subseteq spanBatches
  BY <1>1, <1>2, HoldsStep DEF SpansInv
<1>4. \A o \in spanBatches : data'[o] \subseteq spanBatches
  <2>1. CASE UNCHANGED objectVars
    BY <1>1, <2>1 DEF SpansInv, objectVars
  <2>2. CASE ~UNCHANGED objectVars
    <3>1. /\ pc[s] \in GroupLabels /\ KindOf[current(s)] = "spans"
          /\ \A o \in Batches : data'[o] \subseteq data[o] \cup {current(s)}
      BY <2>2, ObjectsStep
    <3>2. current(s) \in spanBatches
      BY <1>1, <3>1, CurrentQueued DEF spanBatches
    <3> QED
      BY <1>1, <3>1, <3>2 DEF SpansInv, spanBatches
  <2> QED
    BY <2>1, <2>2
<1> QED
  BY <1>3, <1>4 DEF SpansInv, spanBatches

\* GoneInv is kept.
LEMMA GoneNext ==
  ASSUME NEW s \in Shards, Shards = {s}, OneShardInv(s), [Next]_vars
  PROVE  GoneInv'
<1>1. Base /\ SpansInv(s) /\ GoneInv
  BY DEF OneShardInv
<1>2. ToSet(nonSampled') \subseteq ruledOut'
  BY <1>1, RuledOutStep DEF GoneInv
<1>3. dropped \subseteq Batches
  BY <1>1 DEF Base, TypeInv, OutputsOK
<1>4. \A b \in dropped : stage'[b] = "settled" /\ KindOf[b] = "spans"
  BY <1>1, <1>3, StagesMonotone DEF GoneInv
<1>5. CASE NewTraceDataFails(s)
  <2>1. /\ pc[s] \in GroupLabels /\ KindOf[current(s)] = "spans"
        /\ dropped' = dropped \cup {current(s)} /\ SetStage(current(s), "settled")
    BY <1>5 DEF NewTraceDataFails, At, GroupLabels
  <2>2. stage'[current(s)] = "settled"
    BY <1>1, <2>1, CurrentQueued DEF SetStage, Base, TypeInv, InputOK
  <2> QED
    BY <1>2, <1>4, <2>1, <2>2 DEF GoneInv
<1>6. CASE SendCached(s) /\ dropped' = dropped \cup data[cachedData[s]]
  <2>1. pc[s] = "sendCached" /\ cachedData[s] # None
    BY <1>6, WaySendCached DEF SendCached, At
  <2>2. \A b \in data[cachedData[s]] : waits(b) /\ b \in spanBatches
    BY <1>1, <2>1 DEF Base, DeliveryInv, ShardDelivery, HandInv, aboutToSend, SpansInv, holds
  <2>3. \A b \in data[cachedData[s]] : stage'[b] = "settled" /\ KindOf[b] = "spans"
    BY <1>1, <2>2, StagesMonotone DEF waits, spanBatches
  <2> QED
    BY <1>2, <1>4, <1>6, <2>3 DEF GoneInv
<1> QED
  BY <1>2, <1>4, <1>5, <1>6, DroppedStep DEF GoneInv

\* CleanInv is kept.
LEMMA CleanNext ==
  ASSUME NEW s \in Shards, Shards = {s}, OneShardInv(s), [Next]_vars
  PROVE  CleanInv(s)'
<1> DEFINE labels == {"getPrimary", "getSecondary", "decide"} \cup putLabels
<1>1. Base /\ CleanInv(s) /\ VictimInv(s)
  BY DEF OneShardInv
<1>2. ASSUME pc'[s] \in labels
      PROVE  /\ id(s)' = id(s)
             /\ \/ pc[s] \in labels
                \/ pc[s] = "checkNonSampled" /\ id(s) \notin ToSet(nonSampled)
  <2>1. CASE outsideMoves
    <3>1. pc'[s] = pc[s] /\ gtdArr'[s] = gtdArr[s]
      BY <1>2, <2>1, OutsideKeeps DEF putLabels
    <3> QED
      BY <1>2, <3>1 DEF id, current
  <2>2. CASE CallbackStep(s)
    BY <1>2, <2>2, CallbackVictim DEF localVars, id, current
  <2>3. \A label : Goto(s, label) => pc'[s] = label
    BY <1>1 DEF Base, TypeInv, LocalsOK, Goto
  <2>4. ~Continue(s)
    BY <1>2, <2>3 DEF Continue, putLabels
  <2>5. CASE \/ Tick(s) \/ Receive(s) \/ ReadLock(s) \/ ReadUnlock(s) \/ AnnounceWriter(s)
             \/ WriteUnlock(s) \/ Regulate(s)
    BY <1>2, <2>3, <2>5 DEF Tick, Receive, ReadLock, ReadUnlock, AnnounceWriter, WriteUnlock,
       Regulate, putLabels
  <2>6. CASE CheckNonSampled(s)
    BY <1>2, <2>3, <2>4, <2>6 DEF CheckNonSampled, At, KeepLocals, IsHit, id, current
  <2>7. CASE \/ CheckSampled(s) \/ NewTraceDataFails(s) \/ PutSampled(s) \/ SendCached(s)
             \/ SendCurrent(s) \/ PutNonSampled(s) \/ DeletePrimary(s) \/ DeleteSecondary(s)
             \/ PutInsert(s)
    BY <1>2, <2>3, <2>4, <2>7 DEF CheckSampled, NewTraceDataFails, PutSampled, SendCached,
       SendCurrent, PutNonSampled, DeletePrimary, DeleteSecondary, PutInsert, afterPutSampled,
       putLabels
  <2>8. CASE GetPrimary(s) \/ GetSecondary(s) \/ Decide(s) \/ PutDelete(s)
    BY <2>8 DEF GetPrimary, GetSecondary, Decide, PutDelete, At, KeepLocals, putLabels, id, current
  <2> QED
    BY <2>1, <2>2, <2>5, <2>6, <2>7, <2>8, StepKinds DEF quietMoves
<1>3. ASSUME pc'[s] \in labels PROVE ToSet(nonSampled') = ToSet(nonSampled)
  <2>1. ~PutNonSampled(s)
    BY <1>2, <1>3 DEF PutNonSampled, At, putLabels
  <2>2. ~CallbackRecord(s)
    <3> SUFFICES ASSUME CallbackRecord(s) PROVE FALSE
      OBVIOUS
    <3>1. pc'[s] = pc[s] /\ callback[s] = "record"
      BY DEF CallbackRecord, localVars
    <3>2. pc[s] \in restingLabels /\ pc[s] # "putInsert"
      BY <1>1, <3>1, PromotionStops DEF VictimInv
    <3> QED
      BY <1>3, <3>1, <3>2 DEF restingLabels, putLabels
  <2> QED
    BY <2>1, <2>2, RuledOutStep
<1> QED
  BY <1>1, <1>2, <1>3 DEF CleanInv

\* NonSampledIsReleased is kept.
LEMMA ReleasedNext ==
  ASSUME NEW s \in Shards, Shards = {s}, OneShardInv(s), [Next]_vars
  PROVE  NonSampledIsReleased'
<1>1. /\ Base /\ NonSampledIsReleased /\ CleanInv(s) /\ VictimInv(s)
      /\ LocalsOK /\ CallbacksOK
  BY DEF OneShardInv, Base, TypeInv
<1>2. ASSUME NEW o \in entries, TraceOf[o] \in ToSet(nonSampled)
      PROVE  pc[s] \in deleteLabels /\ TraceOf[o] = id(s)
  BY <1>1, <1>2 DEF NonSampledIsReleased, releasingNonSampled, IsHit, entries, deleteLabels
<1>3. ASSUME \A o \in entries' : TraceOf[o] \in ToSet(nonSampled') =>
               pc'[s] \in deleteLabels /\ TraceOf[o] = id(s)'
      PROVE  NonSampledIsReleased'
  BY <1>3 DEF NonSampledIsReleased, releasingNonSampled, IsHit, entries, deleteLabels
<1>4. CASE PutNonSampled(s)
  <2>1. entries' = entries /\ pc[s] \notin deleteLabels
    BY <1>4, QuietMove DEF quietMoves, PutNonSampled, At, deleteLabels
  <2>2. pc'[s] = "deletePrimary" /\ id(s)' = id(s)
    BY <1>1, <1>4, GotoWay DEF PutNonSampled, KeepLocals
  <2>3. ToSet(nonSampled') \subseteq ToSet(nonSampled) \cup {id(s)}
    BY <1>4, RuledOutStep DEF PutNonSampled, CallbackRecord, At
  <2> QED
    BY <1>2, <1>3, <2>1, <2>2, <2>3 DEF deleteLabels
<1>5. CASE CallbackRecord(s)
  <2>1. entries' = entries /\ pc'[s] = pc[s] /\ id(s)' = id(s)
    BY <1>5 DEF CallbackRecord, localVars, traceVars, entries, id, current
  <2>2. ToSet(nonSampled') \subseteq ToSet(nonSampled) \cup {victimId(s)}
    BY <1>5, RuledOutStep DEF PutNonSampled, CallbackRecord, At
  <2>3. pc[s] # "putInsert" /\ victim(s) \in ToSet(victims[s])
    BY <1>1, <1>5, PromotionStops, EndCallbackLeaves DEF CallbackRecord
  <2>4. \A o \in entries : TraceOf[o] # victimId(s)
    BY <1>1, <2>3 DEF VictimInv, evictedAlone, NoEntry, entries, victimId
  <2> QED
    BY <1>2, <1>3, <2>1, <2>2, <2>4
<1>6. CASE ToSet(nonSampled') = ToSet(nonSampled)
  <2>1. CASE outsideMoves \/ CallbackStep(s)
    <3>1. /\ UNCHANGED traceVars
          /\ \/ pc'[s] = pc[s] /\ gtdArr'[s] = gtdArr[s]
             \/ pc[s] = "listen"
      BY <2>1, OutsideKeeps, CallbackVictim DEF localVars
    <3>2. entries' = entries /\ (pc[s] \in deleteLabels => pc'[s] \in deleteLabels /\ id(s)' = id(s))
      BY <3>1 DEF traceVars, entries, id, current, deleteLabels
    <3> QED
      BY <1>2, <1>3, <1>6, <3>2
  <2>2. CASE (quietMoves(s) /\ ~PutNonSampled(s)) \/ Regulate(s) \/ PutDelete(s)
    <3>1. entries' \subseteq entries
      BY <2>2, QuietMove, RegulateEvicts, PutDeleteEvicts DEF Redistributes
    <3>2. pc[s] \notin deleteLabels
      BY <2>2 DEF quietMoves, Tick, Receive, ReadLock, ReadUnlock, AnnounceWriter, WriteUnlock,
         CheckSampled, CheckNonSampled, NewTraceDataFails, GetPrimary, GetSecondary, Decide,
         PutSampled, SendCached, SendCurrent, Regulate, PutDelete, At, deleteLabels
    <3> QED
      BY <1>2, <1>3, <1>6, <3>1, <3>2
  <2>3. CASE DeletePrimary(s)
    <3>1. entries' \subseteq entries
      BY <2>3, DeletePrimaryEvicts DEF Redistributes
    <3>2. pc'[s] = "deleteSecondary" /\ id(s)' = id(s)
      BY <1>1, <2>3, GotoWay DEF DeletePrimary, KeepLocals
    <3> QED
      BY <1>2, <1>3, <1>6, <3>1, <3>2 DEF deleteLabels
  <2>4. CASE DeleteSecondary(s)
    <3>1. entries' \subseteq entries /\ \A o \in entries' : TraceOf[o] # id(s)
      BY <2>4, DeleteSecondaryEvicts DEF Redistributes, NoEntry, entries
    <3> QED
      BY <1>2, <1>3, <1>6, <3>1
  <2>5. CASE PutInsert(s)
    <3>1. entries' \subseteq entries \cup {held(s)}
      BY <2>5, PutInsertEvicts DEF Redistributes
    <3>2. pc[s] \in putLabels /\ pc[s] \notin deleteLabels /\ pc[s] \in GroupLabels
      BY <2>5 DEF PutInsert, At, putLabels, deleteLabels, GroupLabels
    <3>3. TraceOf[held(s)] \notin ToSet(nonSampled)
      BY <1>1, <3>2, HeldIsOwn DEF CleanInv, Base
    <3> QED
      BY <1>2, <1>3, <1>6, <3>1, <3>2, <3>3
  <2> QED
    BY <1>4, <2>1, <2>2, <2>3, <2>4, <2>5, StepKinds
<1> QED
  BY <1>4, <1>5, <1>6, RuledOutStep

----------------------------------------------------------------------------
(* The invariant of one shard *)

LEMMA OneShardInit ==
  ASSUME NEW s \in Shards, Init
  PROVE  OneShardInv(s)
<1>1. Base
  BY TypeInvInit, TierInvInit, DeliveryInit DEF Base, Init, TierMatchesPriority, ToSet
<1>2. /\ entries = {} /\ ToSet(victims[s]) = {} /\ ToSet(nonSampled) = {} /\ cachedData[s] = None
      /\ pc[s] = "listen" /\ callback[s] = "none" /\ victims[s] = <<>> /\ finalDecision[s] = "Pending"
      /\ dropped = {} /\ \A o \in Batches : data[o] = {o}
  BY DEF Init, ToSet, entries
<1>3. VictimInv(s)
  BY <1>2 DEF VictimInv
<1>4. KindsInv(s) /\ PathInv(s) /\ FreshInv(s) /\ CleanInv(s)
  BY <1>2 DEF KindsInv, PathInv, FreshInv, CleanInv, aboutToSend, putLabels, deleteLabels
<1>5. SpansInv(s) /\ GoneInv /\ NonSampledIsReleased
  BY <1>2 DEF SpansInv, holds, GoneInv, NonSampledIsReleased, spanBatches, IsHit
<1> QED
  BY <1>1, <1>3, <1>4, <1>5 DEF OneShardInv

LEMMA OneShardNext ==
  ASSUME NEW s \in Shards, Shards = {s}, OneShardInv(s), [Next]_vars
  PROVE  OneShardInv(s)'
<1>1. Base'
  BY TypeInvNext, TierInvNext, PriorityNext, DeliveryNext DEF OneShardInv, Base
<1>2. WayInv(s)'
  BY WayNext
<1> QED
  BY <1>1, <1>2, VictimNext, SpansNext, GoneNext, CleanNext, ReleasedNext DEF OneShardInv, WayInv

LEMMA OneShardInvariant ==
  ASSUME NEW s \in Shards, Shards = {s}
  PROVE  Spec => []OneShardInv(s)
<1>1. Init => OneShardInv(s)
  BY OneShardInit
<1>2. OneShardInv(s) /\ [Next]_vars => OneShardInv(s)'
  BY OneShardNext
<1> QED
  BY <1>1, <1>2, PTL DEF Spec

\* With one shard, a trace remembered as not sampled has no spans left in the
\* trace data caches, except while releaseNotSampledTrace is deleting them
\* (processor.go:534-535): no group puts back what an eviction has ruled out.
THEOREM NonSampledReleased ==
  ASSUME NEW s \in Shards, Shards = {s}
  PROVE  Spec => []NonSampledIsReleased
<1>1. OneShardInv(s) => NonSampledIsReleased
  BY DEF OneShardInv
<1> QED
  BY <1>1, OneShardInvariant, PTL

----------------------------------------------------------------------------
(* SpanFate, seen from the shard *)

\* Spans that a call has brought in, that are held, that nobody holds any more.
admitted(b) == stage[b] \notin {"new", "refused"}
isHeld(s, b) == \E o \in holds(s) : b \in data[o]
dead(s, b) == stage[b] = "settled" /\ ~isHeld(s, b)

LEMMA HeldIs ==
  ASSUME NEW s, Shards = {s}, NEW b
  PROVE  /\ inCache(b) \/ inHand(b) <=> isHeld(s, b)
         /\ (inCache(b) \/ inHand(b))' <=> isHeld(s, b)'
<1>1. inCache(b) \/ inHand(b) <=> isHeld(s, b)
  BY DEF inCache, inHand, isHeld, holds, entries
<1>2. (inCache(b) \/ inHand(b))' <=> isHeld(s, b)'
  BY DEF inCache, inHand, isHeld, holds, entries
<1> QED
  BY <1>1, <1>2

\* The refinement mapping in these terms.
LEMMA FateIs ==
  ASSUME NEW s, Shards = {s}
  PROVE  /\ fateInside = {b \in spanBatches : admitted(b) /\ ~dead(s, b) /\ ~Gone(b)}
         /\ fateDiscarded = {b \in spanBatches : dead(s, b) /\ ~Gone(b)}
         /\ fateInside' = {b \in spanBatches : admitted(b)' /\ ~dead(s, b)' /\ ~Gone(b)'}
         /\ fateDiscarded' = {b \in spanBatches : dead(s, b)' /\ ~Gone(b)'}
<1>1. fateInside = {b \in spanBatches : admitted(b) /\ ~dead(s, b) /\ ~Gone(b)}
  BY HeldIs DEF fateInside, fateSent, admitted, dead, Gone
<1>2. fateInside' = {b \in spanBatches : admitted(b)' /\ ~dead(s, b)' /\ ~Gone(b)'}
  BY HeldIs DEF fateInside, fateSent, admitted, dead, Gone, spanBatches
<1>3. \A b \in spanBatches : dead(s, b) => admitted(b)
  BY DEF dead, admitted
<1>4. \A b \in spanBatches : dead(s, b)' => admitted(b)'
  BY DEF dead, admitted
<1>5. fateDiscarded = {b \in spanBatches : dead(s, b) /\ ~Gone(b)}
  BY <1>1, <1>3 DEF fateDiscarded, fateSent, Gone, dead, admitted
<1>6. fateDiscarded' = {b \in spanBatches : dead(s, b)' /\ ~Gone(b)'}
  BY <1>2, <1>4 DEF fateDiscarded, fateSent, Gone, dead, admitted, spanBatches
<1> QED
  BY <1>1, <1>2, <1>5, <1>6

\* What nobody holds any more comes back no more.
LEMMA DeadStays ==
  ASSUME NEW s \in Shards, Shards = {s}, OneShardInv(s), [Next]_vars, NEW b \in Batches, dead(s, b)
  PROVE  dead(s, b)'
<1>1. Base /\ SpansInv(s)
  BY DEF OneShardInv
<1>2. stage[b] = "settled" /\ stage'[b] = "settled" /\ ~isHeld(s, b)
  BY <1>1, StagesMonotone DEF dead
<1>3. SUFFICES ASSUME NEW o \in holds(s)', b \in data'[o] PROVE FALSE
  BY <1>2 DEF dead, isHeld
<1>4. ASSUME pc[s] \in GroupLabels PROVE b # current(s)
  BY <1>1, <1>2, <1>4, CurrentQueued
<1>5. b \in data[o]
  <2>1. o \in Batches
    BY SpansNext DEF SpansInv, spanBatches
  <2>2. CASE UNCHANGED objectVars
    BY <1>3, <2>2 DEF objectVars
  <2>3. CASE ~UNCHANGED objectVars
    BY <1>3, <1>4, <2>1, <2>3, ObjectsStep
  <2> QED
    BY <2>2, <2>3
<1>6. o \in holds(s) \/ (PutInsert(s) /\ o = held(s))
  BY <1>3, HoldsStep
<1>7. CASE o \in holds(s)
  BY <1>2, <1>5, <1>7 DEF isHeld
<1>8. CASE PutInsert(s) /\ o = held(s) /\ o \notin holds(s)
  <2>1. pc[s] \in GroupLabels /\ o = current(s)
    BY <1>8 DEF PutInsert, At, GroupLabels, held, holds
  <2> QED
    BY <1>1, <1>4, <1>5, <2>1, CurrentQueued
<1> QED
  BY <1>6, <1>7, <1>8

\* Nothing is forwarded, lost, taken in, refused or given up.
LEMMA CalmFate ==
  ASSUME NEW s \in Shards, Shards = {s}, OneShardInv(s), [Next]_vars,
         UNCHANGED <<forwarded, dropped, ruledOut>>,
         \A b \in spanBatches : admitted(b)' = admitted(b),
         \A b \in spanBatches : dead(s, b)' /\ ~Gone(b) => dead(s, b)
  PROVE  UNCHANGED Fate!fate
<1>1. \A b \in spanBatches : dead(s, b) => dead(s, b)'
  BY DeadStays DEF spanBatches
<1>2. \A b \in spanBatches : Gone(b)' = Gone(b)
  BY DEF Gone
<1>3. fateInside' = fateInside /\ fateDiscarded' = fateDiscarded
  BY <1>1, <1>2, FateIs
<1>4. fateSent' = fateSent
  BY DEF fateSent, spanBatches
<1> QED
  BY <1>3, <1>4 DEF Fate!fate

\* Spans of one trace are given up, or it is ruled out, or both.
LEMMA QuietFate ==
  ASSUME NEW s \in Shards, Shards = {s}, OneShardInv(s), [Next]_vars,
         UNCHANGED <<forwarded, dropped>>,
         NEW t \in Traces, ruledOut' \in {ruledOut, ruledOut \cup {t}},
         \A b \in spanBatches : admitted(b)' = admitted(b),
         \A b \in spanBatches : dead(s, b)' /\ ~dead(s, b) /\ ~Gone(b) =>
           TraceOf[b] = t /\ t \in ruledOut'
  PROVE  [Fate!Next]_Fate!fate
<1> DEFINE B == {b \in spanBatches : dead(s, b)' /\ ~dead(s, b) /\ ~Gone(b)}
<1>1. \A b \in spanBatches : dead(s, b) => dead(s, b)'
  BY DeadStays DEF spanBatches
<1>2. \A b \in spanBatches : Gone(b)' = Gone(b)
  BY DEF Gone
<1>3. \A b \in spanBatches : dead(s, b)' => admitted(b)
  BY DEF dead, admitted
<1>4. /\ B \subseteq fateInside /\ fateInside' = fateInside \ B
      /\ fateDiscarded' = fateDiscarded \cup B
  BY <1>1, <1>2, <1>3, FateIs
<1>5. fateSent' = fateSent
  BY DEF fateSent, spanBatches
<1>6. CASE B = {}
  <2>1. fateInside' = fateInside /\ fateDiscarded' = fateDiscarded
    BY <1>4, <1>6
  <2>2. CASE ruledOut' = ruledOut
    BY <1>5, <2>1, <2>2 DEF Fate!fate
  <2>3. CASE ruledOut' = ruledOut \cup {t}
    <3>1. Fate!RuleOut(t)
      BY <1>5, <2>1, <2>3 DEF Fate!RuleOut
    <3> QED
      BY <3>1 DEF Fate!Next
  <2> QED
    BY <2>2, <2>3
<1>7. CASE B # {}
  <2>1. {TraceOf[b] : b \in B} = {t} /\ t \in ruledOut'
    BY <1>7
  <2>2. Fate!OneTrace(B)
    BY <2>1 DEF Fate!OneTrace
  <2>3. \A b \in B : TraceOf[b] \in ruledOut'
    BY <2>1
  <2> HIDE DEF B
  <2>4. Fate!Discard(B)
    BY <1>4, <1>5, <2>1, <2>2, <2>3 DEF Fate!Discard
  <2>5. B \in (SUBSET fateInside) \ {{}}
    BY <1>4, <1>7
  <2> QED
    BY <2>4, <2>5 DEF Fate!Next
<1> QED
  BY <1>6, <1>7

\* Spans of one trace are given to the next consumer.
LEMMA ForwardFate ==
  ASSUME NEW s \in Shards, Shards = {s}, OneShardInv(s), [Next]_vars,
         UNCHANGED <<dropped, ruledOut>>,
         NEW F \in SUBSET Batches, Forward(F), NEW t, \A b \in F : TraceOf[b] = t,
         \A b \in F : admitted(b) /\ ~dead(s, b) /\ ~Gone(b),
         \A b \in spanBatches : admitted(b)' = admitted(b),
         \A b \in spanBatches \ F : dead(s, b)' /\ ~Gone(b) => dead(s, b)
  PROVE  [Fate!Next]_Fate!fate
<1> DEFINE B == F \cap spanBatches
<1>1. \A b \in spanBatches : dead(s, b) => dead(s, b)'
  BY DeadStays DEF spanBatches
<1>2. \A b \in Batches : forwarded[b] \in Nat
  BY DEF OneShardInv, Base, TypeInv, OutputsOK
<1>3. \A n \in Nat : n + 1 > 0 /\ n + 0 = n
  OBVIOUS
<1>4. \A b \in Batches : forwarded'[b] > 0 <=> forwarded[b] > 0 \/ b \in F
  BY <1>2, <1>3 DEF Forward
<1>5. \A b \in spanBatches : Gone(b)' <=> Gone(b) \/ b \in F
  BY <1>4 DEF Gone, spanBatches
<1>6. fateSent' = fateSent \cup B
  BY <1>4 DEF fateSent, spanBatches
<1>7. B \subseteq fateInside /\ fateInside' = fateInside \ B /\ fateDiscarded' = fateDiscarded
  BY <1>1, <1>5, FateIs
<1>8. CASE B = {}
  <2>1. fateInside' = fateInside /\ fateSent' = fateSent
    BY <1>6, <1>7, <1>8
  <2> QED
    BY <1>7, <2>1 DEF Fate!fate
<1>9. CASE B # {}
  <2>1. {TraceOf[b] : b \in B} = {t}
    BY <1>9
  <2>2. Fate!OneTrace(B)
    BY <2>1 DEF Fate!OneTrace
  <2> HIDE DEF B
  <2>3. Fate!Forward(B)
    BY <1>6, <1>7, <2>2 DEF Fate!Forward
  <2>4. B \in (SUBSET fateInside) \ {{}}
    BY <1>7, <1>9
  <2> QED
    BY <2>3, <2>4 DEF Fate!Next
<1> QED
  BY <1>8, <1>9

\* An internal error loses spans.
LEMMA LoseFate ==
  ASSUME NEW s \in Shards, Shards = {s}, OneShardInv(s), [Next]_vars,
         UNCHANGED <<forwarded, ruledOut>>,
         NEW F \in SUBSET spanBatches, F # {}, dropped' = dropped \cup F,
         \A b \in F : admitted(b) /\ ~dead(s, b) /\ ~Gone(b),
         \A b \in spanBatches : admitted(b)' = admitted(b),
         \A b \in spanBatches \ F : dead(s, b)' /\ ~Gone(b) => dead(s, b)
  PROVE  [Fate!Next]_Fate!fate
<1>1. \A b \in spanBatches : dead(s, b) => dead(s, b)'
  BY DeadStays DEF spanBatches
<1>2. \A b \in spanBatches : Gone(b)' <=> Gone(b) \/ b \in F
  BY DEF Gone
<1>3. fateSent' = fateSent
  BY DEF fateSent, spanBatches
<1>4. F \subseteq fateInside /\ fateInside' = fateInside \ F /\ fateDiscarded' = fateDiscarded
  BY <1>1, <1>2, FateIs
<1>5. Fate!Lose(F)
  BY <1>3, <1>4 DEF Fate!Lose
<1>6. F \in (SUBSET fateInside) \ {{}}
  BY <1>4
<1> QED
  BY <1>5, <1>6 DEF Fate!Next

----------------------------------------------------------------------------
(* What becomes of the spans in each step *)

\* Spans are given up when they settle, or when what holds them is let go.
LEMMA NewlyDead ==
  ASSUME NEW s \in Shards, Shards = {s}, OneShardInv(s), [Next]_vars,
         NEW b \in Batches, dead(s, b)', ~dead(s, b)
  PROVE  \/ stage'[b] = "settled" /\ stage[b] # "settled"
         \/ \E o \in holds(s) : b \in data[o] /\ o \in Batches /\ o \notin holds(s)'
<1>1. SUFFICES ASSUME stage[b] = "settled"
               PROVE  \E o \in holds(s) : b \in data[o] /\ o \in Batches /\ o \notin holds(s)'
  BY DEF dead
<1>2. PICK o \in holds(s) : b \in data[o]
  BY <1>1 DEF dead, isHeld
<1>3. o \in Batches
  BY <1>2 DEF OneShardInv, SpansInv, spanBatches
<1>4. b \in data'[o]
  BY <1>2, <1>3, ObjectsStep DEF objectVars
<1>5. o \notin holds(s)'
  BY <1>4 DEF dead, isHeld
<1> QED
  BY <1>2, <1>3, <1>5

\* A batch that a listener works on or a call decides has been admitted and is
\* neither gone nor given up before it settles.
LEMMA Unsettled ==
  ASSUME NEW s \in Shards, Shards = {s}, OneShardInv(s), NEW b \in Batches, stage[b] # "settled"
  PROVE  ~dead(s, b) /\ ~Gone(b)
<1>1. BatchInv(b) /\ b \notin dropped
  BY SpansOfTrace DEF OneShardInv, Base, DeliveryInv, ShardDelivery, GoneInv
<1> QED
  BY <1>1 DEF dead, Gone, BatchInv

\* A step of a listener admits nothing: it settles its current batch at most.
LEMMA AdmittedKept ==
  ASSUME NEW s \in Shards, OneShardInv(s), GroupStep(s)
  PROVE  /\ \A b \in Batches : admitted(b)' = admitted(b)
         /\ \A b \in Batches : stage'[b] = stage[b] \/ b = current(s)
<1>1. pc[s] \in GroupLabels /\ InputOK
  BY GroupStepInside DEF OneShardInv, Base, TypeInv
<1>2. current(s) \in Batches /\ stage[current(s)] = "queued"
  BY <1>1, CurrentQueued DEF OneShardInv
<1>3. stage' = stage \/ \E st \in {"async", "settled"} : SetStage(current(s), st)
  <2>1. CASE CheckSampled(s) \/ CheckNonSampled(s) \/ NewTraceDataFails(s)
    BY <2>1 DEF CheckSampled, CheckNonSampled, NewTraceDataFails
  <2>2. CASE GetPrimary(s) \/ GetSecondary(s) \/ Decide(s)
    BY <2>2 DEF GetPrimary, GetSecondary, Decide, inputVars
  <2>3. CASE PutSampled(s) \/ SendCached(s) \/ SendCurrent(s) \/ PutNonSampled(s)
    BY <2>3 DEF PutSampled, SendCached, SendCurrent, PutNonSampled, inputVars
  <2>4. CASE DeletePrimary(s) \/ DeleteSecondary(s) \/ PutDelete(s) \/ PutInsert(s)
    BY <2>4 DEF DeletePrimary, DeleteSecondary, PutDelete, PutInsert, inputVars
  <2> QED
    BY <2>1, <2>2, <2>3, <2>4 DEF GroupStep
<1> QED
  BY <1>1, <1>2, <1>3 DEF SetStage, InputOK, admitted

\* The call takes its spans in.
LEMMA ConsumeFate ==
  ASSUME NEW s \in Shards, Shards = {s}, OneShardInv(s), [Next]_vars,
         NEW r \in Requests, ConsumeTraces(r)
  PROVE  [Fate!Next]_Fate!fate
<1> DEFINE B == batchesOf(r) \cap spanBatches
<1>1. /\ \A b \in batchesOf(r) : stage[b] = "new" /\ b \in Batches
      /\ stage' = [b \in Batches |-> IF b \in batchesOf(r) THEN "early" ELSE stage[b]]
      /\ UNCHANGED <<cachedData, victims, traceVars, data, forwarded, dropped, ruledOut>>
  BY DEF ConsumeTraces, batchesOf, localVars, callbackVars, objectVars, outputVars
<1>2. \A b \in Batches : isHeld(s, b)' = isHeld(s, b) /\ Gone(b)' = Gone(b)
  BY <1>1 DEF isHeld, holds, entries, traceVars, Gone
<1>3. \A b \in spanBatches : dead(s, b)' = dead(s, b)
  BY <1>1, <1>2 DEF dead, spanBatches
<1>4. \A b \in B : ~dead(s, b) /\ ~Gone(b)
  BY <1>1, Unsettled
<1>5. \A b \in spanBatches : admitted(b)' <=> admitted(b) \/ b \in B
  BY <1>1 DEF admitted, spanBatches
<1>6. /\ fateInside' = fateInside \cup B /\ fateDiscarded' = fateDiscarded
      /\ B \cap (fateInside \cup fateDiscarded) = {}
  <2>1. B \cap fateInside = {}
    BY <1>1, FateIs DEF admitted
  <2> QED
    BY <1>2, <1>3, <1>4, <1>5, <2>1, FateIs DEF spanBatches
<1>7. fateSent' = fateSent /\ B \cap (fateSent \cup dropped) = {}
  BY <1>1, <1>4 DEF fateSent, spanBatches, Gone
<1>8. CASE B = {}
  BY <1>1, <1>6, <1>7, <1>8 DEF Fate!fate
<1>9. CASE B # {}
  <2>1. B \in (SUBSET spanBatches) \ {{}}
    BY <1>9
  <2> HIDE DEF B
  <2>2. Fate!TakeIn(B)
    BY <1>1, <1>6, <1>7 DEF Fate!TakeIn
  <2> QED
    BY <2>1, <2>2 DEF Fate!Next
<1> QED
  BY <1>8, <1>9

\* A call whose context ends is told that some of its spans were not taken.
LEMMA CancelFate ==
  ASSUME NEW s \in Shards, Shards = {s}, OneShardInv(s), [Next]_vars,
         NEW r \in Requests, NEW u \in Shards, ContextCancelled(r, u)
  PROVE  [Fate!Next]_Fate!fate
<1> DEFINE B == shardGroup(r, u) \cap spanBatches
<1>1. /\ \A b \in shardGroup(r, u) : stage[b] = "kept" /\ b \in Batches
      /\ stage' = [b \in Batches |-> IF b \in shardGroup(r, u) THEN "refused" ELSE stage[b]]
      /\ UNCHANGED <<cachedData, victims, traceVars, data, forwarded, dropped, ruledOut>>
  BY DEF ContextCancelled, shardGroup, batchesOf, localVars, callbackVars, objectVars, outputVars
<1>2. \A b \in Batches : isHeld(s, b)' = isHeld(s, b) /\ Gone(b)' = Gone(b)
  BY <1>1 DEF isHeld, holds, entries, traceVars, Gone
<1>3. \A b \in spanBatches : dead(s, b)' = dead(s, b)
  BY <1>1, <1>2 DEF dead, spanBatches
<1>4. \A b \in B : admitted(b) /\ ~dead(s, b) /\ ~Gone(b)
  BY <1>1, Unsettled DEF admitted
<1>5. \A b \in spanBatches : admitted(b)' <=> admitted(b) /\ b \notin B
  BY <1>1 DEF admitted, spanBatches
<1>6. B \subseteq fateInside /\ fateInside' = fateInside \ B /\ fateDiscarded' = fateDiscarded
  BY <1>2, <1>3, <1>4, <1>5, FateIs DEF spanBatches
<1>7. fateSent' = fateSent
  BY <1>1 DEF fateSent, spanBatches
<1>8. CASE B = {}
  BY <1>1, <1>6, <1>7, <1>8 DEF Fate!fate
<1>9. CASE B # {}
  <2>1. B \in (SUBSET fateInside) \ {{}}
    BY <1>6, <1>9
  <2> HIDE DEF B
  <2>2. Fate!Refuse(B)
    BY <1>1, <1>6, <1>7 DEF Fate!Refuse
  <2> QED
    BY <2>1, <2>2 DEF Fate!Next
<1> QED
  BY <1>8, <1>9

\* Before its queue and after it, a batch settles by itself.
LEMMA BatchFate ==
  ASSUME NEW s \in Shards, Shards = {s}, OneShardInv(s), [Next]_vars,
         NEW b \in Batches, EarlyStep(b) \/ AsyncSend(b)
  PROVE  [Fate!Next]_Fate!fate
<1>1. /\ stage \in [Batches -> Stages] /\ TraceOf[b] \in Traces
      /\ UNCHANGED <<cachedData, victims, traceVars, data, dropped, ruledOut>>
  BY InputAssumption DEF OneShardInv, Base, TypeInv, InputOK, EarlyStep, EarlySkip,
     EarlyCheckSampled, EarlyCheckNonSampled, AsyncSend, localVars, callbackVars, objectVars, outputVars
<1>2. \A c \in Batches : isHeld(s, c)' = isHeld(s, c)
  BY <1>1 DEF isHeld, holds, entries, traceVars
<1>3. PICK st \in {"kept", "settled", "earlyMiss"} :
        /\ SetStage(b, st) /\ stage[b] \in {"early", "earlyMiss", "async"}
        /\ \/ forwarded' = forwarded /\ st # "settled"
           \/ Forward({b}) /\ st = "settled"
           \/ forwarded' = forwarded /\ st = "settled" /\ TraceOf[b] \in ToSet(nonSampled)
  BY <1>1 DEF EarlyStep, EarlySkip, EarlyCheckSampled, EarlyCheckNonSampled, AsyncSend, IsHit,
     outputVars
<1>4. /\ stage'[b] = st /\ \A c \in Batches \ {b} : stage'[c] = stage[c]
      /\ \A c \in Batches : admitted(c)' = admitted(c)
  BY <1>1, <1>3 DEF SetStage, admitted
<1>5. \A c \in Batches : dead(s, c)' => dead(s, c) \/ (c = b /\ st = "settled")
  BY <1>2, <1>4 DEF dead
<1>6. admitted(b) /\ ~dead(s, b) /\ ~Gone(b)
  BY <1>3, Unsettled DEF admitted
<1>7. CASE forwarded' = forwarded /\ st # "settled"
  BY <1>1, <1>4, <1>5, <1>7, CalmFate DEF spanBatches
<1>8. CASE Forward({b})
  BY <1>1, <1>4, <1>5, <1>6, <1>8, ForwardFate DEF spanBatches
<1>9. CASE forwarded' = forwarded /\ TraceOf[b] \in ToSet(nonSampled)
  <2>1. TraceOf[b] \in ruledOut'
    BY <1>1, <1>9 DEF OneShardInv, GoneInv
  <2> QED
    BY <1>1, <1>4, <1>5, <1>9, <2>1, QuietFate DEF spanBatches
<1> QED
  BY <1>3, <1>7, <1>8, <1>9

\* A call hands its groups to the channel: nothing is lost on the way.
LEMMA SendFate ==
  ASSUME NEW s \in Shards, Shards = {s}, OneShardInv(s), [Next]_vars,
         NEW r \in Requests, NEW u \in Shards, Send(r, u)
  PROVE  [Fate!Next]_Fate!fate
<1>1. /\ \A b \in Batches : stage'[b] = stage[b] \/ (stage[b] = "kept" /\ stage'[b] = "queued")
      /\ UNCHANGED <<cachedData, victims, traceVars, data, forwarded, dropped, ruledOut>>
  BY DEF Send, shardGroup, callbackVars, objectVars, outputVars
<1>2. \A b \in Batches : isHeld(s, b)' = isHeld(s, b)
  BY <1>1 DEF isHeld, holds, entries, traceVars
<1>3. \A b \in Batches : admitted(b)' = admitted(b) /\ dead(s, b)' = dead(s, b)
  BY <1>1, <1>2 DEF admitted, dead
<1> QED
  BY <1>1, <1>3, CalmFate DEF spanBatches

LEMMA OutsideFate ==
  ASSUME NEW s \in Shards, Shards = {s}, OneShardInv(s), [Next]_vars, outsideMoves
  PROVE  [Fate!Next]_Fate!fate
<1>1. ASSUME UNCHANGED vars PROVE [Fate!Next]_Fate!fate
  <2>1. /\ stage' = stage /\ UNCHANGED <<forwarded, dropped, ruledOut>>
        /\ UNCHANGED <<cachedData, victims, traceVars, data>>
    BY <1>1 DEF vars, inputVars, outputVars, localVars, callbackVars, objectVars
  <2>2. \A b \in Batches : isHeld(s, b)' = isHeld(s, b)
    BY <2>1 DEF isHeld, holds, entries, traceVars
  <2> QED
    BY <2>1, <2>2, CalmFate DEF spanBatches, admitted, dead
<1> QED
  BY <1>1, ConsumeFate, CancelFate, BatchFate, SendFate DEF outsideMoves

\* What an eviction gives up is of the trace it has ruled out.
LEMMA CallbackFate ==
  ASSUME NEW s \in Shards, Shards = {s}, OneShardInv(s), [Next]_vars, CallbackStep(s)
  PROVE  [Fate!Next]_Fate!fate
<1>1. /\ Base /\ VictimInv(s) /\ GoneInv /\ callback[s] # "none"
      /\ UNCHANGED <<localVars, traceVars, objectVars, stage, forwarded, dropped>>
  BY CallbackVictim DEF OneShardInv
<1>2. /\ victim(s) \in Batches /\ victimId(s) \in Traces
  BY <1>1, VictimTyped DEF Base, TypeInv
<1>3. EndCallback(s) \/ victims' = victims
  BY DEF CallbackStep, CallbackPriority, CallbackCheckSampled, CallbackCheckNonSampled,
     CallbackRecord, CallbackGoto
<1>4. ASSUME NEW b \in Batches, dead(s, b)', ~dead(s, b)
      PROVE  EndCallback(s) /\ b \in data[victim(s)] /\ victim(s) \notin holds(s)'
  <2>1. PICK o \in holds(s) : b \in data[o] /\ o \notin holds(s)'
    BY <1>1, <1>4, NewlyDead
  <2>2. entries' = entries /\ cachedData' = cachedData
    BY <1>1 DEF localVars, traceVars, entries
  <2>3. o \in ToSet(victims[s]) /\ o \notin ToSet(victims'[s])
    BY <2>1, <2>2 DEF holds
  <2> QED
    BY <1>1, <1>3, <2>1, <2>3, EndCallbackLeaves
<1>5. \A b \in Batches : b \in data[victim(s)] => TraceOf[b] = victimId(s)
  BY <1>1, <1>2, SpansOfTrace DEF victimId
<1>6. \A b \in spanBatches : admitted(b)' = admitted(b)
  BY <1>1 DEF admitted
<1>7. ToSet(nonSampled) \subseteq ruledOut
  BY <1>1 DEF GoneInv
<1>8. CASE CallbackPriority(s) \/ CallbackCheckSampled(s)
  <2>1. ruledOut' = ruledOut
    BY <1>8 DEF CallbackPriority, CallbackCheckSampled, outputVars
  <2>2. ASSUME EndCallback(s) PROVE victim(s) \in holds(s)'
    <3>1. ~CallbackCheckSampled(s)
      <4> SUFFICES ASSUME CallbackCheckSampled(s) PROVE FALSE
        OBVIOUS
      <4>1. callback[s] = "checkSampled" /\ callback'[s] \in {"touchNonSampled", "checkNonSampled"}
        BY <1>1 DEF CallbackCheckSampled, CallbackGoto, Base, TypeInv, CallbacksOK
      <4> QED
        BY <1>1, <2>2, <4>1, EndCallbackLeaves
    <3>2. callback[s] = "priority" /\ priority[victim(s)] # "Low"
      <4>1. CallbackPriority(s) /\ callback[s] = "priority"
        BY <1>8, <3>1 DEF CallbackPriority
      <4>2. callback'[s] = "checkSampled" \/ callback'[s] = "none"
        BY <1>1, <2>2, EndCallbackLeaves
      <4>3. CASE priority[victim(s)] = "Low"
        <5>1. victims' = victims
          BY <4>1, <4>3 DEF CallbackPriority, CallbackGoto
        <5>2. victims'[s] = Tail(victims[s]) /\ victims[s] \in Seq(Batches) /\ victims[s] # <<>>
          BY <1>1, <2>2, EndCallbackLeaves DEF Base, TypeInv, CallbacksOK, HasVictim
        <5>3. \A q \in Seq(Batches) : q # <<>> => Len(Tail(q)) = Len(q) - 1 /\ Len(q) \in Nat
          BY TailProperties
        <5>4. Len(victims[s]) = Len(victims[s]) - 1 /\ Len(victims[s]) \in Nat
          BY <5>1, <5>2, <5>3
        <5> QED
          BY <5>4
      <4> QED
        BY <4>1, <4>3
    <3>3. pc[s] = "putInsert"
      BY <1>1, <3>2 DEF VictimInv
    <3>4. victim(s) = cachedData[s]
      BY <1>1, <3>3, PromotionStops
    <3>5. cachedData'[s] = victim(s) /\ victim(s) # None
      BY <1>1, <1>2, <3>4, InputAssumption DEF localVars
    <3> QED
      BY <3>5 DEF holds
  <2>3. \A b \in spanBatches : dead(s, b)' => dead(s, b)
    BY <1>4, <2>2 DEF spanBatches
  <2> QED
    BY <1>1, <1>6, <2>1, <2>3, CalmFate
<1>9. CASE CallbackCheckNonSampled(s)
  <2>1. callback[s] \in {"touchNonSampled", "checkNonSampled"} /\ ruledOut' = ruledOut
    BY <1>9 DEF CallbackCheckNonSampled, outputVars
  <2>2. CASE victimId(s) \in ToSet(nonSampled)
    BY <1>1, <1>2, <1>4, <1>5, <1>6, <1>7, <2>1, <2>2, QuietFate DEF spanBatches
  <2>3. CASE victimId(s) \notin ToSet(nonSampled) /\ callback[s] = "touchNonSampled"
    <3>1. EndCallback(s)
      BY <1>9, <2>3 DEF CallbackCheckNonSampled, IsHit
    <3>2. victim(s) \in ToSet(victims[s])
      BY <1>1, <3>1, EndCallbackLeaves
    <3>3. AllGone(victim(s)) \/ victimId(s) \in ruledOut
      BY <1>1, <2>3, <3>2 DEF VictimInv, victimId
    <3>4. \A b \in spanBatches : dead(s, b)' /\ ~dead(s, b) /\ ~Gone(b) =>
            TraceOf[b] = victimId(s) /\ victimId(s) \in ruledOut
      BY <1>4, <1>5, <3>3 DEF AllGone, spanBatches
    <3> QED
      BY <1>1, <1>2, <1>6, <2>1, <3>4, QuietFate
  <2>4. CASE victimId(s) \notin ToSet(nonSampled) /\ callback[s] = "checkNonSampled"
    <3>1. CallbackGoto(s, "record")
      BY <1>9, <2>4 DEF CallbackCheckNonSampled, IsHit
    <3>2. ~EndCallback(s)
      <4>1. callback'[s] = "record"
        BY <1>1, <3>1 DEF CallbackGoto, Base, TypeInv, CallbacksOK
      <4> QED
        BY <1>1, <4>1, EndCallbackLeaves
    <3>3. \A b \in spanBatches : dead(s, b)' => dead(s, b)
      BY <1>4, <3>2 DEF spanBatches
    <3> QED
      BY <1>1, <1>6, <2>1, <3>3, CalmFate
  <2> QED
    BY <2>1, <2>2, <2>3, <2>4
<1>10. CASE CallbackRecord(s)
  <2>1. ruledOut' = ruledOut \cup {victimId(s)}
    BY <1>10 DEF CallbackRecord
  <2> QED
    BY <1>1, <1>2, <1>4, <1>5, <1>6, <2>1, QuietFate DEF spanBatches
<1> QED
  BY <1>8, <1>9, <1>10 DEF CallbackStep

\* A listener lets go of what Get returned, and of nothing else.
LEMMA LetsGo ==
  ASSUME NEW s \in Shards, Shards = {s}, OneShardInv(s), [Next]_vars,
         ~outsideMoves, ~CallbackStep(s), NEW o \in holds(s), o \notin holds(s)'
  PROVE  /\ o = cachedData[s] /\ cachedData[s] # None
         /\ cachedData'[s] # cachedData[s] /\ ~PutInsert(s)
<1>1. CASE quietMoves(s)
  <2>1. entries' = entries /\ ToSet(victims[s]) = {}
    BY <1>1, QuietMove, NoCallback
  <2>2. ~PutInsert(s)
    BY <1>1 DEF quietMoves, PutInsert, Tick, Receive, ReadLock, ReadUnlock, AnnounceWriter,
       WriteUnlock, CheckSampled, CheckNonSampled, NewTraceDataFails, GetPrimary, GetSecondary,
       Decide, PutSampled, SendCached, SendCurrent, PutNonSampled, At
  <2> QED
    BY <2>1, <2>2 DEF holds
<1>2. CASE Regulate(s) \/ DeletePrimary(s) \/ DeleteSecondary(s) \/ PutDelete(s)
  <2>1. callback[s] = "none" /\ entries' \cup ToSet(victims'[s]) = entries
    BY <1>2, RegulateEvicts, DeletePrimaryEvicts, DeleteSecondaryEvicts, PutDeleteEvicts
       DEF Redistributes
  <2>2. ~PutInsert(s)
    BY <1>2 DEF Regulate, DeletePrimary, DeleteSecondary, PutDelete, PutInsert, At
  <2> QED
    BY <2>1, <2>2, NoCallback DEF holds
<1>3. CASE PutInsert(s)
  <2>1. callback[s] = "none" /\ entries' \cup ToSet(victims'[s]) = entries \cup {held(s)}
    BY <1>3, PutInsertEvicts DEF Redistributes
  <2> QED
    BY <2>1, NoCallback DEF holds, held
<1> QED
  BY <1>1, <1>2, <1>3, StepKinds

\* The steps of a listener that only hold on to what they have.
LEMMA CalmMoves ==
  ASSUME NEW s \in Shards, Shards = {s}, OneShardInv(s), [Next]_vars,
         \/ Tick(s) \/ Receive(s) \/ LockStep(s)
         \/ CheckSampled(s) \/ GetPrimary(s) \/ GetSecondary(s) \/ Decide(s) \/ PutSampled(s)
         \/ DeletePrimary(s) \/ PutDelete(s) \/ PutInsert(s)
  PROVE  [Fate!Next]_Fate!fate
<1>0. Base /\ PathInv(s)
  BY DEF OneShardInv
<1>1. /\ UNCHANGED <<forwarded, dropped, ruledOut>>
      /\ callback[s] = "none" /\ ~CallbackStep(s)
  BY DEF Tick, Receive, LockStep, ReadLock, ReadUnlock, AnnounceWriter, Regulate, WriteUnlock,
     CheckSampled, GetPrimary, GetSecondary, Decide, PutSampled, DeletePrimary, PutDelete,
     PutInsert, At, outputVars, CallbackStep, CallbackPriority, CallbackCheckSampled,
     CallbackCheckNonSampled, CallbackRecord
<1>2. CASE outsideMoves
  BY <1>2, OutsideFate
<1>3. CASE ~outsideMoves
  <2>1. ASSUME NEW o \in holds(s), o \notin holds(s)'
        PROVE  PutSampled(s) /\ o = cachedData[s] /\ AllGone(o)
    <3>1. /\ o = cachedData[s] /\ cachedData[s] # None
          /\ cachedData'[s] # cachedData[s] /\ ~PutInsert(s)
      BY <1>1, <1>3, <2>1, LetsGo
    <3>2. ~CheckSampled(s) /\ ~GetPrimary(s) /\ ~GetSecondary(s)
      BY <1>0, <3>1 DEF CheckSampled, GetPrimary, GetSecondary, At, PathInv
    <3>3. ~(Tick(s) \/ Receive(s) \/ LockStep(s) \/ Decide(s) \/ DeletePrimary(s) \/ PutDelete(s))
      BY <3>1 DEF Tick, Receive, LockStep, ReadLock, ReadUnlock, AnnounceWriter, Regulate,
         WriteUnlock, Decide, DeletePrimary, PutDelete, KeepLocals
    <3>4. PutSampled(s) /\ KindOf[current(s)] # "spans" /\ pc[s] = "putSampled"
      BY <3>1, <3>2, <3>3 DEF PutSampled, KeepLocals, At
    <3> QED
      BY <1>0, <3>1, <3>4 DEF PathInv
  <2>2. ASSUME NEW b \in spanBatches, stage'[b] = "settled", stage[b] # "settled"
        PROVE  PutInsert(s) /\ b = current(s)
    <3>1. ~(Tick(s) \/ Receive(s) \/ LockStep(s))
      BY <2>2 DEF Tick, Receive, LockStep, ReadLock, ReadUnlock, AnnounceWriter, Regulate,
         WriteUnlock, inputVars
    <3>2. GroupStep(s)
      BY <3>1 DEF GroupStep
    <3>3. b = current(s) /\ pc[s] \in GroupLabels /\ stage \in [Batches -> Stages]
          /\ current(s) \in Batches
      BY <1>0, <2>2, <3>2, AdmittedKept, GroupStepInside, CurrentQueued
         DEF spanBatches, Base, TypeInv, InputOK
    <3>4. ~(GetPrimary(s) \/ GetSecondary(s) \/ Decide(s) \/ DeletePrimary(s) \/ PutDelete(s))
      BY <2>2 DEF GetPrimary, GetSecondary, Decide, DeletePrimary, PutDelete, inputVars
    <3>5. ~CheckSampled(s) /\ ~PutSampled(s)
      BY <2>2, <3>3 DEF CheckSampled, PutSampled, SetStage, spanBatches
    <3> QED
      BY <3>1, <3>3, <3>4, <3>5
  <2>3. ASSUME PutInsert(s), NEW b, b = current(s) PROVE ~dead(s, b)'
    <3>1. b \in data'[held(s)]
      BY <1>0, <2>3 DEF PathInv, PutInsert, At, putLabels, objectVars
    <3>2. held(s) \in holds(s)'
      BY <2>3, PutInsertEvicts DEF Redistributes, holds
    <3> QED
      BY <3>1, <3>2 DEF dead, isHeld
  <2>4. \A b \in spanBatches : dead(s, b)' /\ ~Gone(b) => dead(s, b)
    <3> SUFFICES ASSUME NEW b \in spanBatches, dead(s, b)', ~Gone(b), ~dead(s, b) PROVE FALSE
      OBVIOUS
    <3>1. ~(stage'[b] = "settled" /\ stage[b] # "settled")
      BY <2>2, <2>3
    <3>2. PICK o \in holds(s) : b \in data[o] /\ o \notin holds(s)'
      BY <3>1, NewlyDead DEF spanBatches
    <3> QED
      BY <2>1, <3>2 DEF AllGone
  <2>5. \A b \in spanBatches : admitted(b)' = admitted(b)
    <3>1. CASE Tick(s) \/ Receive(s) \/ LockStep(s)
      BY <3>1 DEF Tick, Receive, LockStep, ReadLock, ReadUnlock, AnnounceWriter, Regulate,
         WriteUnlock, inputVars, admitted
    <3>2. CASE GroupStep(s)
      BY <3>2, AdmittedKept DEF spanBatches
    <3> QED
      BY <3>1, <3>2 DEF GroupStep
  <2> QED
    BY <1>1, <2>4, <2>5, CalmFate
<1> QED
  BY <1>2, <1>3

\* A group of a trace that is ruled out, now or before, is given up.
LEMMA GiveUpFate ==
  ASSUME NEW s \in Shards, Shards = {s}, OneShardInv(s), [Next]_vars,
         CheckNonSampled(s) \/ PutNonSampled(s) \/ DeleteSecondary(s)
  PROVE  [Fate!Next]_Fate!fate
<1>1. Base /\ PathInv(s) /\ GoneInv
  BY DEF OneShardInv
<1>2. /\ pc[s] \in {"checkNonSampled", "putNonSampled", "deleteSecondary"}
      /\ pc[s] \in GroupLabels /\ callback[s] = "none" /\ GroupStep(s)
      /\ UNCHANGED <<objectVars, forwarded, dropped>>
  BY DEF CheckNonSampled, PutNonSampled, DeleteSecondary, At, GroupLabels, GroupStep, outputVars
<1>3. /\ current(s) \in Batches /\ id(s) \in Traces
      /\ \A b \in spanBatches : admitted(b)' = admitted(b)
      /\ \A b \in Batches : stage'[b] = stage[b] \/ b = current(s)
  BY <1>1, <1>2, CurrentQueued, AdmittedKept DEF spanBatches
<1>4. ~CallbackStep(s)
  BY <1>2 DEF CallbackStep, CallbackPriority, CallbackCheckSampled, CallbackCheckNonSampled,
     CallbackRecord
<1>5. cachedData[s] # None => TraceOf[cachedData[s]] = id(s) /\ cachedData[s] \in Batches
  BY <1>1 DEF Base, TypeInv, LocalsOK, TierInv, ShardInv, CachedOwn
<1>6. CASE outsideMoves
  BY <1>6, OutsideFate
<1>7. CASE ~outsideMoves
  <2>1. ASSUME NEW b \in spanBatches, dead(s, b)', ~dead(s, b)
        PROVE  /\ TraceOf[b] = id(s)
               /\ stage' # stage \/ cachedData'[s] # cachedData[s]
    <3>1. CASE stage'[b] = "settled" /\ stage[b] # "settled"
      BY <1>3, <3>1 DEF spanBatches, id
    <3>2. ASSUME NEW o \in holds(s), b \in data[o], o \notin holds(s)'
          PROVE  TraceOf[b] = id(s) /\ cachedData'[s] # cachedData[s]
      <4>1. o = cachedData[s] /\ cachedData[s] # None /\ cachedData'[s] # cachedData[s]
        BY <1>4, <1>7, <3>2, LetsGo
      <4>2. TraceOf[b] = TraceOf[o]
        BY <1>1, <1>5, <3>2, <4>1, SpansOfTrace
      <4> QED
        BY <1>5, <4>1, <4>2
    <3> QED
      BY <2>1, <3>1, <3>2, NewlyDead DEF spanBatches
  <2>2. CASE PutNonSampled(s)
    <3>1. stage' = stage /\ cachedData' = cachedData /\ ruledOut' = ruledOut \cup {id(s)}
      BY <2>2 DEF PutNonSampled, KeepLocals, inputVars
    <3> QED
      BY <1>2, <1>3, <2>1, <3>1, QuietFate
  <2>3. CASE CheckNonSampled(s) \/ DeleteSecondary(s)
    <3>1. ruledOut' = ruledOut
      BY <2>3 DEF CheckNonSampled, DeleteSecondary, outputVars
    <3>2. CASE id(s) \in ruledOut
      BY <1>2, <1>3, <2>1, <3>1, <3>2, QuietFate
    <3>3. CASE id(s) \notin ruledOut
      <4>1. ASSUME CheckNonSampled(s) PROVE stage' = stage /\ cachedData' = cachedData
        <5>1. ~IsHit(nonSampled, id(s))
          BY <1>1, <3>3 DEF GoneInv, IsHit
        <5> QED
          BY <4>1, <5>1 DEF CheckNonSampled, KeepLocals
      <4>2. ASSUME DeleteSecondary(s) PROVE stage' = stage /\ cachedData' = cachedData
        <5>1. yesPath(s)
          BY <1>1, <3>3, <4>2 DEF PathInv, DeleteSecondary, At, deleteLabels
        <5> QED
          BY <4>2, <5>1 DEF DeleteSecondary, KeepLocals, yesPath
      <4>3. \A b \in spanBatches : dead(s, b)' => dead(s, b)
        BY <2>1, <2>3, <4>1, <4>2
      <4> QED
        BY <1>2, <1>3, <3>1, <4>3, CalmFate
    <3> QED
      BY <3>2, <3>3
  <2> QED
    BY <2>2, <2>3
<1> QED
  BY <1>6, <1>7

\* Spans that are sent, or lost instead, were inside until then.
LEMMA SendingFate ==
  ASSUME NEW s \in Shards, Shards = {s}, OneShardInv(s), [Next]_vars,
         NewTraceDataFails(s) \/ SendCached(s) \/ SendCurrent(s)
  PROVE  [Fate!Next]_Fate!fate
<1>1. Base /\ PathInv(s) /\ KindsInv(s) /\ SpansInv(s) /\ FreshInv(s) /\ GoneInv
  BY DEF OneShardInv
<1>2. /\ pc[s] \in {"getPrimary", "sendCached", "sendCurrent"}
      /\ pc[s] \in GroupLabels /\ callback[s] = "none" /\ GroupStep(s)
      /\ UNCHANGED <<objectVars, ruledOut>>
  BY DEF NewTraceDataFails, SendCached, SendCurrent, At, GroupLabels, GroupStep
<1>3. /\ current(s) \in Batches /\ stage[current(s)] = "queued"
      /\ \A b \in spanBatches : admitted(b)' = admitted(b)
      /\ \A b \in Batches : stage'[b] = stage[b] \/ b = current(s)
  BY <1>1, <1>2, CurrentQueued, AdmittedKept DEF spanBatches
<1>4. ~CallbackStep(s)
  BY <1>2 DEF CallbackStep, CallbackPriority, CallbackCheckSampled, CallbackCheckNonSampled,
     CallbackRecord
<1>5. admitted(current(s)) /\ ~dead(s, current(s)) /\ ~Gone(current(s))
  BY <1>3, Unsettled DEF admitted
<1>6. CASE outsideMoves
  BY <1>6, OutsideFate
<1>7. CASE ~outsideMoves
  <2>1. ASSUME NEW b \in spanBatches, dead(s, b)', ~dead(s, b), ~Gone(b)
        PROVE  b = current(s) /\ stage' # stage
    <3>1. CASE stage'[b] = "settled" /\ stage[b] # "settled"
      BY <1>3, <3>1 DEF spanBatches
    <3>2. ASSUME NEW o \in holds(s), b \in data[o], o \notin holds(s)' PROVE FALSE
      <4>1. o = cachedData[s] /\ cachedData[s] # None /\ cachedData'[s] # cachedData[s]
        BY <1>4, <1>7, <3>2, LetsGo
      <4>2. CASE NewTraceDataFails(s)
        BY <1>1, <4>1, <4>2 DEF PathInv, NewTraceDataFails, At
      <4>3. CASE SendCached(s)
        BY <4>1, <4>3 DEF SendCached, KeepLocals
      <4>4. CASE SendCurrent(s)
        BY <1>1, <2>1, <3>2, <4>1, <4>4 DEF PathInv, SendCurrent, At, AllGone
      <4> QED
        BY <4>2, <4>3, <4>4
    <3> QED
      BY <2>1, <3>1, <3>2, NewlyDead DEF spanBatches
  <2>2. CASE NewTraceDataFails(s)
    <3>1. /\ KindOf[current(s)] = "spans" /\ dropped' = dropped \cup {current(s)}
          /\ forwarded' = forwarded
      BY <2>2 DEF NewTraceDataFails
    <3>2. {current(s)} \in SUBSET spanBatches
      BY <1>3, <3>1 DEF spanBatches
    <3> QED
      BY <1>2, <1>3, <1>5, <2>1, <3>1, <3>2, LoseFate
  <2>3. CASE SendCurrent(s)
    <3>1. Forward({current(s)}) /\ dropped' = dropped
      BY <2>3 DEF SendCurrent
    <3> QED
      BY <1>2, <1>3, <1>5, <2>1, <3>1, ForwardFate
  <2>4. CASE SendCached(s)
    <3> DEFINE F == data[cachedData[s]]
    <3>1. /\ pc[s] = "sendCached" /\ cachedData[s] # None /\ aboutToSend(s) /\ stage' = stage
      BY <2>4, WaySendCached DEF SendCached, At, aboutToSend, inputVars
    <3>2. cachedData[s] \in holds(s) /\ cachedData[s] \in spanBatches
      BY <1>1, <3>1 DEF holds, SpansInv
    <3>3. /\ F \in SUBSET spanBatches /\ F # {} /\ F \in SUBSET Batches
          /\ \A b \in F : TraceOf[b] = TraceOf[cachedData[s]]
      BY <1>1, <3>2, SpansOfTrace DEF SpansInv, spanBatches
    <3>4. \A b \in F : waits(b) /\ b \notin dropped /\ isHeld(s, b)
      BY <1>1, <3>1, <3>2 DEF Base, DeliveryInv, ShardDelivery, HandInv, FreshInv, Kept, isHeld
    <3>5. \A b \in F : admitted(b) /\ ~dead(s, b) /\ ~Gone(b)
      BY <3>4 DEF waits, admitted, dead, Gone
    <3>6. \A b \in spanBatches \ F : dead(s, b)' /\ ~Gone(b) => dead(s, b)
      BY <2>1, <3>1
    <3> HIDE DEF F
    <3>7. \/ Forward(F) /\ dropped' = dropped
          \/ dropped' = dropped \cup F /\ forwarded' = forwarded
      BY <2>4 DEF SendCached, F
    <3>8. CASE Forward(F) /\ dropped' = dropped
      BY <1>2, <1>3, <3>3, <3>5, <3>6, <3>8, ForwardFate
    <3>9. CASE dropped' = dropped \cup F /\ forwarded' = forwarded
      BY <1>2, <1>3, <3>3, <3>5, <3>6, <3>9, LoseFate
    <3> QED
      BY <3>7, <3>8, <3>9
  <2> QED
    BY <2>2, <2>3, <2>4
<1> QED
  BY <1>6, <1>7

----------------------------------------------------------------------------
(* The refinement *)

LEMMA FateInit ==
  ASSUME NEW s, Shards = {s}, Init
  PROVE  Fate!Init
<1>1. \A b \in spanBatches : ~admitted(b) /\ ~dead(s, b) /\ b \notin fateSent
  BY DEF Init, admitted, dead, spanBatches, fateSent
<1>2. fateInside = {} /\ fateDiscarded = {} /\ fateSent = {}
  BY <1>1, FateIs DEF fateSent
<1> QED
  BY <1>2 DEF Fate!Init, Init

LEMMA FateStep ==
  ASSUME NEW s \in Shards, Shards = {s}, OneShardInv(s), [Next]_vars
  PROVE  [Fate!Next]_Fate!fate
  BY StepKinds, OutsideFate, CallbackFate, CalmMoves, GiveUpFate, SendingFate
     DEF quietMoves, LockStep

\* With one shard the processor keeps the promise of SpanFate: spans are sent
\* or given up once, never after one another, those that leave together are of
\* one trace, and none are given up before their trace is ruled out.
THEOREM KeepsSpanFate ==
  ASSUME NEW s \in Shards, Shards = {s}
  PROVE  Spec => ImplementsSpanFate
<1>1. OneShardInv(s) /\ [Next]_vars => [Fate!Next]_Fate!fate
  BY FateStep
<1>2. Init => Fate!Init
  BY FateInit
<1> QED
  BY <1>1, <1>2, OneShardInvariant, PTL DEF Spec, ImplementsSpanFate, Fate!Spec

\* What is given up is of a trace that was ruled out.
givenUp == \A b \in fateDiscarded : TraceOf[b] \in ruledOut

LEMMA GivenUpNext ==
  ASSUME givenUp, [Fate!Next]_Fate!fate
  PROVE  givenUp'
<1>1. \/ fateDiscarded' = fateDiscarded /\ ruledOut \subseteq ruledOut'
      \/ \E B : Fate!Discard(B)
  BY DEF Fate!Next, Fate!TakeIn, Fate!Refuse, Fate!Forward, Fate!Lose, Fate!RuleOut, Fate!fate
<1>2. CASE fateDiscarded' = fateDiscarded /\ ruledOut \subseteq ruledOut'
  BY <1>2 DEF givenUp
<1>3. ASSUME NEW B, Fate!Discard(B) PROVE givenUp'
  BY <1>3 DEF givenUp, Fate!Discard
<1> QED
  BY <1>1, <1>2, <1>3

\* With one shard no spans vanish unrecorded: once processed they have been
\* sent, or they are held, or an internal error lost them, or the eviction
\* callback or the decision that gave them up recorded their trace as not
\* sampled (processor.go:640).
THEOREM NothingVanishes ==
  ASSUME NEW s \in Shards, Shards = {s}
  PROVE  Spec => []NoSilentLoss
<1>1. Init => givenUp
  BY FateInit DEF givenUp, Fate!Init
<1>2. givenUp /\ OneShardInv(s) /\ [Next]_vars => givenUp'
  BY FateStep, GivenUpNext
<1>3. givenUp => NoSilentLoss
  BY FateIs, HeldIs DEF givenUp, NoSilentLoss, spanBatches, dead, Gone
<1> QED
  BY <1>1, <1>2, <1>3, OneShardInvariant, PTL DEF Spec

----------------------------------------------------------------------------
(* One verdict *)

\* A decision about to be recorded contradicts none, and no callback can make
\* it: an eviction in the middle of a release would, and only the release that
\* a sampled decision span causes deletes before it records.
VerdictInv(s) ==
  /\ OneVerdict
  /\ pc[s] = "putSampled" => id(s) \notin ToSet(nonSampled) /\ callback[s] = "none"
  /\ pc[s] = "putNonSampled" => id(s) \notin ToSet(sampled)

\* Which trace the cache of those sampled comes to know.
LEMMA SampledStep ==
  ASSUME NEW s \in Shards, Shards = {s}, OneShardInv(s), [Next]_vars
  PROVE  \/ ToSet(sampled') = ToSet(sampled)
         \/ PutSampled(s) /\ ToSet(sampled') \subseteq ToSet(sampled) \cup {id(s)}
<1>1. Base /\ sampled \in Seq(Traces) /\ SampledCacheSize \in Nat
  BY ConfigAssumption DEF OneShardInv, Base, TypeInv, DecisionsOK
<1>2. CASE PutSampled(s)
  <2>1. id(s) \in Traces
    BY <1>1, <1>2, CurrentQueued DEF PutSampled, At, GroupLabels
  <2> QED
    BY <1>1, <1>2, <2>1, Recorded DEF PutSampled
<1>3. CASE CheckSampled(s)
  BY <1>1, <1>3, HitKeeps DEF CheckSampled
<1>4. CASE \/ Regulate(s) \/ DeletePrimary(s) \/ DeleteSecondary(s) \/ PutDelete(s) \/ PutInsert(s)
  BY <1>4 DEF PutInsert, Regulate, DeletePrimary, DeleteSecondary, PutDelete, decisionVars
<1>5. CASE quietMoves(s) /\ ~PutSampled(s) /\ ~CheckSampled(s)
  BY <1>5 DEF quietMoves, Tick, Receive, ReadLock, ReadUnlock, AnnounceWriter, WriteUnlock,
     CheckNonSampled, NewTraceDataFails, GetPrimary, GetSecondary, Decide, SendCached,
     SendCurrent, PutNonSampled, decisionVars
<1> QED
  BY <1>2, <1>3, <1>4, <1>5, StepKinds, OutsideKeeps, CallbackVictim

\* How a listener comes to record a decision.
LEMMA DecisionWays ==
  ASSUME NEW s \in Shards, Shards = {s}, OneShardInv(s), [Next]_vars,
         \A b \in Batches : KindOf[b] # "sampledDecision",
         pc'[s] \in {"putSampled", "putNonSampled"}
  PROVE  /\ id(s)' = id(s)
         /\ \/ pc'[s] = pc[s] /\ (outsideMoves \/ CallbackStep(s))
            \/ pc'[s] = "putSampled" /\ Decide(s)
            \/ pc'[s] = "putNonSampled" /\ (Decide(s) \/ CheckNonSampled(s))
<1>1. Base /\ LocalsOK /\ KindsInv(s)
  BY DEF OneShardInv, Base, TypeInv
<1>2. \A label : Goto(s, label) => pc'[s] = label
  BY <1>1 DEF LocalsOK, Goto
<1>3. ~Continue(s)
  BY <1>2 DEF Continue
<1>4. CASE outsideMoves
  <2>1. pc'[s] = pc[s] /\ gtdArr'[s] = gtdArr[s]
    BY <1>4, OutsideKeeps
  <2> QED
    BY <1>4, <2>1 DEF id, current
<1>5. CASE CallbackStep(s)
  BY <1>5, CallbackVictim DEF localVars, id, current
<1>6. ~(\/ Tick(s) \/ Receive(s) \/ ReadLock(s) \/ ReadUnlock(s) \/ AnnounceWriter(s)
        \/ WriteUnlock(s) \/ Regulate(s) \/ CheckSampled(s) \/ NewTraceDataFails(s))
  BY <1>2, <1>3 DEF Tick, Receive, ReadLock, ReadUnlock, AnnounceWriter, WriteUnlock, Regulate,
     CheckSampled, NewTraceDataFails
<1>7. ~(\/ SendCached(s) \/ SendCurrent(s) \/ PutNonSampled(s) \/ DeletePrimary(s)
        \/ PutDelete(s) \/ PutInsert(s))
  BY <1>2, <1>3 DEF SendCached, SendCurrent, PutNonSampled, DeletePrimary, PutDelete, PutInsert
<1>8. ~PutSampled(s)
  BY <1>2, <1>3 DEF PutSampled, afterPutSampled
<1>9. ~DeleteSecondary(s)
  <2> SUFFICES ASSUME DeleteSecondary(s) PROVE FALSE
    OBVIOUS
  <2>1. KindOf[current(s)] # "sampledDecision"
    BY <1>1, CurrentQueued DEF DeleteSecondary, At, GroupLabels
  <2> QED
    BY <1>2, <1>3, <2>1 DEF DeleteSecondary
<1>10. ~GetPrimary(s) /\ ~GetSecondary(s)
  <2> SUFFICES ASSUME GetPrimary(s) \/ GetSecondary(s) PROVE FALSE
    OBVIOUS
  <2>1. pc[s] \in {"getPrimary", "getSecondary"} /\ pc[s] \in GroupLabels
    BY DEF GetPrimary, GetSecondary, At, GroupLabels
  <2>2. KindOf[current(s)] = "spans"
    <3>1. KindOf[current(s)] \in Kinds /\ KindOf[current(s)] # "sampledDecision"
      BY <1>1, <2>1, CurrentQueued, InputAssumption
    <3> QED
      BY <1>1, <2>1, <3>1 DEF KindsInv, Kinds
  <2>3. \A o : afterGet(s, o) = "decide"
    BY <2>2 DEF afterGet
  <2> QED
    BY <1>2, <2>3 DEF GetPrimary, GetSecondary
<1>11. CASE CheckNonSampled(s) \/ Decide(s)
  <2>1. UNCHANGED gtdArr
    BY <1>3, <1>11 DEF CheckNonSampled, Decide, KeepLocals
  <2>2. CheckNonSampled(s) => pc'[s] # "putSampled"
    BY <1>2, <1>3 DEF CheckNonSampled
  <2> QED
    BY <1>11, <2>1, <2>2 DEF id, current
<1> QED
  BY <1>4, <1>5, <1>6, <1>7, <1>8, <1>9, <1>10, <1>11, StepKinds DEF quietMoves

LEMMA VerdictNext ==
  ASSUME NEW s \in Shards, Shards = {s}, OneShardInv(s), VerdictInv(s), [Next]_vars,
         \A b \in Batches : KindOf[b] # "sampledDecision"
  PROVE  VerdictInv(s)'
<1>1. Base /\ VictimInv(s) /\ CleanInv(s) /\ Undecided(s)
  BY DEF OneShardInv, Base, TierInv, ShardInv
<1>2. OneVerdict'
  <2>1. CASE PutSampled(s)
    <3>1. ToSet(nonSampled') = ToSet(nonSampled) /\ id(s) \notin ToSet(nonSampled)
      BY <2>1 DEF PutSampled, At, VerdictInv
    <3> QED
      BY <2>1, <3>1, SampledStep DEF VerdictInv, OneVerdict
  <2>2. CASE ToSet(sampled') = ToSet(sampled)
    <3>1. ASSUME PutNonSampled(s) PROVE id(s) \notin ToSet(sampled)
      BY <3>1 DEF PutNonSampled, At, VerdictInv
    <3>2. ASSUME CallbackRecord(s) PROVE victimId(s) \notin ToSet(sampled)
      BY <1>1, <3>2 DEF CallbackRecord, VictimInv
    <3> QED
      BY <2>2, <3>1, <3>2, RuledOutStep DEF VerdictInv, OneVerdict
  <2> QED
    BY <2>1, <2>2, SampledStep
<1>3. ASSUME pc'[s] = "putSampled"
      PROVE  id(s)' \notin ToSet(nonSampled') /\ callback'[s] = "none"
  <2>1. CASE pc[s] = "putSampled" /\ (outsideMoves \/ CallbackStep(s))
    <3>1. outsideMoves
      BY <2>1, CallbackVictim DEF VerdictInv
    <3>2. ToSet(nonSampled') = ToSet(nonSampled) /\ UNCHANGED callbackVars
      BY <3>1, OutsideKeeps
    <3> QED
      BY <1>3, <2>1, <3>2, DecisionWays DEF VerdictInv, callbackVars
  <2>2. CASE Decide(s)
    <3>1. /\ pc[s] = "decide" /\ callback[s] = "none"
          /\ UNCHANGED <<callback, nonSampled>>
      BY <2>2 DEF Decide, At, callbackVars, decisionVars
    <3> QED
      BY <1>1, <1>3, <3>1, DecisionWays DEF CleanInv
  <2> QED
    BY <1>3, <2>1, <2>2, DecisionWays
<1>4. ASSUME pc'[s] = "putNonSampled" PROVE id(s)' \notin ToSet(sampled')
  <2>1. CASE pc[s] = "putNonSampled" /\ (outsideMoves \/ CallbackStep(s))
    <3>1. ToSet(sampled') = ToSet(sampled)
      BY <2>1, OutsideKeeps, CallbackVictim
    <3> QED
      BY <1>4, <2>1, <3>1, DecisionWays DEF VerdictInv
  <2>2. CASE Decide(s) \/ CheckNonSampled(s)
    <3>1. pc[s] \in UndecidedLabels /\ UNCHANGED sampled
      BY <2>2 DEF Decide, CheckNonSampled, At, decisionVars, UndecidedLabels
    <3> QED
      BY <1>1, <1>4, <3>1, DecisionWays DEF Undecided
  <2> QED
    BY <1>4, <2>1, <2>2, DecisionWays
<1> QED
  BY <1>2, <1>3, <1>4 DEF VerdictInv

\* With one shard and no sampled decision spans, no trace is remembered both as
\* sampled and as not sampled: the caches decide once (processor.go:55-58).
THEOREM OneVerdictHolds ==
  ASSUME NEW s \in Shards, Shards = {s}, \A b \in Batches : KindOf[b] # "sampledDecision"
  PROVE  Spec => []OneVerdict
<1>1. Init => VerdictInv(s)
  BY DEF Init, VerdictInv, OneVerdict, ToSet
<1>2. OneShardInv(s) /\ VerdictInv(s) /\ [Next]_vars => VerdictInv(s)'
  BY VerdictNext
<1>3. VerdictInv(s) => OneVerdict
  BY DEF VerdictInv
<1> QED
  BY <1>1, <1>2, <1>3, OneShardInvariant, PTL DEF Spec
=====
