-------------------------- MODULE LifecycleProofs --------------------------
(***************************************************************************)
(* A Shutdown that reports success has flushed, for any number of shards,  *)
(* traces and groups and any sizes: what is cached is always in a tier,    *)
(* the flush lists the tiers when no listener runs any more, and what it   *)
(* lists is exported or makes the flush fail.  Then the two nodes of       *)
(* ScaleDown: the peer keeps its word, and with one listener (OneListener) *)
(* both together keep the promise of SpanFate.  Last, the order of the     *)
(* flush.                                                                  *)
(***************************************************************************)
EXTENDS ScaleDown, LRUProofs, FiniteSetTheorems

----------------------------------------------------------------------------
(* More facts on sequences *)

\* The first entry, and the others.
LEMMA HeadAndTail ==
  ASSUME NEW S, NEW q \in Seq(S), q # <<>>
  PROVE  /\ Head(q) \in S /\ Tail(q) \in Seq(S)
         /\ \A x \in ToSet(q) : x = Head(q) \/ x \in ToSet(Tail(q))
<1>1. Head(q) \in S /\ Tail(q) \in Seq(S) /\ Len(Tail(q)) = Len(q) - 1
      /\ Head(q) = q[1] /\ \A i \in 1..(Len(q) - 1) : Tail(q)[i] = q[i + 1]
  OBVIOUS
<1>2. ASSUME NEW x \in ToSet(q), x # Head(q) PROVE x \in ToSet(Tail(q))
  <2>1. PICK i \in 1..Len(q) : q[i] = x
    BY ToSetDef
  <2>2. i - 1 \in 1..Len(Tail(q)) /\ Tail(q)[i - 1] = x
    BY <1>1, <1>2, <2>1
  <2> QED
    BY <1>1, <2>2, ToSetDef
<1> QED
  BY <1>1, <1>2

\* tieredCache.Values has what either tier has.
LEMMA ConcatEntries ==
  ASSUME NEW S, NEW q \in Seq(S), NEW r \in Seq(S)
  PROVE  /\ q \o r \in Seq(S)
         /\ \A x : x \in ToSet(q) \cup ToSet(r) => x \in ToSet(q \o r)
<1>1. /\ q \o r \in Seq(S) /\ Len(q \o r) = Len(q) + Len(r)
      /\ \A i \in 1..Len(q) : (q \o r)[i] = q[i]
      /\ \A i \in 1..Len(r) : (q \o r)[Len(q) + i] = r[i]
  OBVIOUS
<1>2. ASSUME NEW x \in ToSet(q) PROVE x \in ToSet(q \o r)
  <2>1. PICK i \in 1..Len(q) : q[i] = x
    BY ToSetDef
  <2>2. i \in 1..Len(q \o r) /\ (q \o r)[i] = x
    BY <1>1, <2>1
  <2> QED
    BY <1>1, <2>2, ToSetDef
<1>3. ASSUME NEW x \in ToSet(r) PROVE x \in ToSet(q \o r)
  <2>1. PICK i \in 1..Len(r) : r[i] = x
    BY ToSetDef
  <2>2. Len(q) + i \in 1..Len(q \o r) /\ (q \o r)[Len(q) + i] = x
    BY <1>1, <2>1
  <2> QED
    BY <1>1, <2>2, ToSetDef
<1> QED
  BY <1>1, <1>2, <1>3

LEMMA NoEntries == ToSet(<<>>) = {}
  BY DEF ToSet

\* The refreshed sequence has everything it had, and ends in the new entry.
LEMMA RefreshedLast ==
  ASSUME NEW q \in Seq(Traces), NEW t \in Traces
  PROVE  /\ Refresh(q, t) \in Seq(Traces) /\ Refresh(q, t) # <<>>
         /\ Refresh(q, t)[Len(Refresh(q, t))] = t
         /\ ToSet(Refresh(q, t)) = ToSet(q) \cup {t}
<1>1. RemoveFirst(q, t) \in Seq(Traces)
  BY RemoveFirstProperties
<1>2. /\ Refresh(q, t) # <<>> /\ Refresh(q, t)[Len(Refresh(q, t))] = t
  BY <1>1 DEF Refresh
<1> QED
  BY <1>2, RefreshEntries

\* A Get and a Put of a decision cache.
LEMMA Touched ==
  ASSUME NEW q \in Seq(Traces), NEW t \in Traces
  PROVE  /\ Touch(q, t) \in Seq(Traces) /\ ToSet(Touch(q, t)) = ToSet(q)
         /\ q = <<>> => Touch(q, t) = <<>>
<1>1. CASE t \in ToSet(q)
  <2>1. ToSet(q) \cup {t} = ToSet(q)
    BY <1>1
  <2> QED
    BY <1>1, <2>1, RefreshedLast, NoEntries DEF Touch
<1>2. CASE t \notin ToSet(q)
  BY <1>2 DEF Touch
<1> QED
  BY <1>1, <1>2

LEMMA PutEntries ==
  ASSUME NEW q \in Seq(Traces), NEW t \in Traces, NEW size \in Nat \ {0}
  PROVE  /\ Put(q, t, size) \in Seq(Traces) /\ t \in ToSet(Put(q, t, size))
         /\ ToSet(Put(q, t, size)) \subseteq ToSet(q) \cup {t}
         /\ ToSet(q) \subseteq ToSet(Put(q, t, size)) \cup PutEvicts(q, t, size)
         /\ PutEvicts(q, t, size) \subseteq ToSet(q) \cup {t}
<1> DEFINE r == Refresh(q, t)
<1>1. /\ r \in Seq(Traces) /\ r # <<>> /\ r[Len(r)] = t /\ ToSet(r) = ToSet(q) \cup {t}
  BY RefreshedLast
<1> HIDE DEF r
<1>2. /\ Trim(r, size) \in Seq(Traces) /\ t \in ToSet(Trim(r, size))
      /\ ToSet(Trim(r, size)) \subseteq ToSet(r) /\ ToSet(Spill(r, size)) \subseteq ToSet(r)
      /\ \A x \in ToSet(r) : x \in ToSet(Trim(r, size)) \cup ToSet(Spill(r, size))
  BY <1>1, TrimEntries, TrimOrSpill
<1> QED
  BY <1>1, <1>2 DEF Put, PutEvicts, r

----------------------------------------------------------------------------
(* The inductive invariant *)

Stages == {"new", "early", "missed", "kept", "queued", "async", "sent", "ruledOut",
           "cached", "evicted", "vanished", "flushed", "unflushed", "lost"}
Calls == {"none", "checkSampled", "checkNonSampled", "touchNonSampled", "record"}

LifeTypeOK ==
  /\ listener \in [Shards -> {"none", "running", "draining", "done"}]
  /\ queue \in [Shards -> Seq(Groups)]
  /\ evicted \in [Shards -> SUBSET Groups]
  /\ callback \in [Shards -> Calls]
  /\ stage \in [Groups -> Stages]
  /\ primary \in Seq(Traces) /\ secondary \in Seq(Traces) /\ vals \in Seq(Traces)
  /\ sampled \in Seq(Traces) /\ nonSampled \in Seq(Traces)
  /\ ctxDone \in BOOLEAN /\ exportFailed \in BOOLEAN /\ shutdown \in BOOLEAN

\* Until Shutdown is called no channel is closed, and every listener runs; only
\* then are calls of ConsumeTraces under way.
BeforeShutdown ==
  /\ caller \in {"new", "started", "startFailed"} => ~shutdown
  /\ caller = "started" => \A s \in Shards : listener[s] = "running"
  /\ \A g \in Groups : stage[g] \in {"early", "missed", "kept"} => caller = "started"

\* A listener does not end within a callback.
CallbackRuns ==
  \A s \in Shards : callback[s] # "none" => listener[s] \in {"running", "draining"}

\* What waits is in its shard's channel, and a listener that is not there has
\* left nothing behind unless the deadline passed.
Channels ==
  /\ \A g \in Groups : stage[g] = "queued" => g \in ToSet(queue[ShardOf[TraceOf[g]]])
  /\ \A s \in Shards : listener[s] \in {"none", "done"} => queue[s] = <<>> \/ ctxDone

CachedIsHeld ==
  \A g \in Groups :
    stage[g] = "cached" => TraceOf[g] \in ToSet(primary) \cup ToSet(secondary)

inFlush ==
  \/ caller \in {"flushing", "spawning", "joining"}
  \/ caller = "returned" /\ result = "nil" /\ shutdown /\ FlushOnShutdown

\* From the moment the listeners have ended: what is cached is listed or being
\* exported, and once the decisions are exported their caches are empty.
FlushKeepsUp ==
  inFlush =>
    /\ \A s \in Shards : listener[s] \in {"none", "done"}
    /\ \A g \in Groups : stage[g] = "cached" => TraceOf[g] \in ToSet(vals) \cup exporting
    /\ DecisionExport \notin exporting =>
         noDecisions /\ (decisionSpans = taken \/ exportFailed)
    /\ caller = "spawning" => vals # <<>>
    /\ caller \in {"joining", "returned"} => vals = <<>>
    /\ caller = "returned" => exporting = {} /\ ~exportFailed

FailureIsNoted == \A g \in Groups : stage[g] = "unflushed" => exportFailed

LifeInv ==
  /\ LifeTypeOK /\ BeforeShutdown /\ CallbackRuns /\ Channels /\ CachedIsHeld
  /\ FlushKeepsUp /\ FailureIsNoted

LEMMA LifeInvInit == Init => LifeInv
<1> SUFFICES ASSUME Init PROVE LifeInv
  OBVIOUS
<1> USE LifecycleAssumption DEF Init
<1>1. LifeTypeOK
  <2>1. <<>> \in Seq(Groups) /\ <<>> \in Seq(Traces)
    OBVIOUS
  <2>2. listener \in [Shards -> {"none", "running", "draining", "done"}]
    OBVIOUS
  <2>3. queue \in [Shards -> Seq(Groups)]
    BY <2>1
  <2>4. stage \in [Groups -> Stages]
    BY DEF Stages
  <2>5. evicted \in [Shards -> SUBSET Groups] /\ callback \in [Shards -> Calls]
    BY DEF Calls
  <2> QED
    BY <2>1, <2>2, <2>3, <2>4, <2>5 DEF LifeTypeOK
<1>2. /\ BeforeShutdown /\ CallbackRuns /\ Channels /\ CachedIsHeld
      /\ FlushKeepsUp /\ FailureIsNoted
  BY DEF BeforeShutdown, CallbackRuns, Channels, CachedIsHeld, FlushKeepsUp, inFlush, noDecisions, FailureIsNoted
<1> QED
  BY <1>1, <1>2 DEF LifeInv

----------------------------------------------------------------------------
(* The steps of the service, and those of a listener that touch no trace *)

LEMMA StartKeeps == LifeInv /\ Start => LifeInv'
<1> SUFFICES ASSUME LifeInv, Start PROVE LifeInv'
  OBVIOUS
<1> USE LifecycleAssumption
    DEF LifeInv, Start, callbackVars, cacheVars, tierVars, decisionVars, flushVars
<1>1. LifeTypeOK'
  BY DEF LifeTypeOK
<1>2. BeforeShutdown' /\ CallbackRuns' /\ Channels'
  BY DEF LifeTypeOK, BeforeShutdown, CallbackRuns, Channels
<1>3. CachedIsHeld' /\ FlushKeepsUp' /\ FailureIsNoted'
  BY DEF CachedIsHeld, FlushKeepsUp, inFlush, noDecisions, FailureIsNoted
<1> QED
  BY <1>1, <1>2, <1>3

\* The early checks only read the decision caches.
LEMMA EarlyChecksTouch ==
  ASSUME NEW g \in Groups, LifeTypeOK,
         ConsumeTraces(g) \/ EarlyCheckSampled(g) \/ EarlyCheckNonSampled(g)
  PROVE  /\ sampled' \in Seq(Traces) /\ nonSampled' \in Seq(Traces)
         /\ ToSet(sampled') = ToSet(sampled) /\ ToSet(nonSampled') = ToSet(nonSampled)
         /\ noDecisions => noDecisions'
         /\ stage[g] \in {"new", "early", "missed"}
         /\ stage' \in [Groups -> Stages]
         /\ stage'[g] \in {"early", "missed", "kept", "sent", "ruledOut"}
         /\ \A h \in Groups : h # g => stage'[h] = stage[h]
<1>1. TraceOf[g] \in Traces /\ sampled \in Seq(Traces) /\ nonSampled \in Seq(Traces)
  BY LifecycleAssumption DEF LifeTypeOK
<1>2. sampled' \in {sampled, Touch(sampled, TraceOf[g])}
      /\ nonSampled' \in {nonSampled, Touch(nonSampled, TraceOf[g])}
  BY DEF ConsumeTraces, EarlyCheckSampled, EarlyCheckNonSampled, cacheVars, decisionVars
<1>3. PICK st \in {"early", "missed", "kept", "sent", "ruledOut"} :
        stage' = [h \in Groups |-> IF h \in {g} THEN st ELSE stage[h]]
  BY DEF ConsumeTraces, EarlyCheckSampled, EarlyCheckNonSampled, Settle
<1>4. stage[g] \in {"new", "early", "missed"}
  BY DEF ConsumeTraces, EarlyCheckSampled, EarlyCheckNonSampled
<1>5. stage' \in [Groups -> Stages]
  BY <1>3 DEF LifeTypeOK, Stages
<1> QED
  BY <1>1, <1>2, <1>3, <1>4, <1>5, Touched DEF noDecisions

LEMMA EarlyChecksKeep ==
  ASSUME NEW g \in Groups, LifeInv,
         ConsumeTraces(g) \/ EarlyCheckSampled(g) \/ EarlyCheckNonSampled(g)
  PROVE  LifeInv'
<1> USE DEF LifeInv
<1>1. UNCHANGED <<serviceVars, listenVars, tierVars, forgotten, flushVars>>
  BY DEF ConsumeTraces, EarlyCheckSampled, EarlyCheckNonSampled, cacheVars, decisionVars
<1>2. /\ sampled' \in Seq(Traces) /\ nonSampled' \in Seq(Traces)
      /\ noDecisions => noDecisions'
      /\ stage[g] \in {"new", "early", "missed"}
      /\ stage' \in [Groups -> Stages]
      /\ stage'[g] \in {"early", "missed", "kept", "sent", "ruledOut"}
      /\ \A h \in Groups : h # g => stage'[h] = stage[h]
  BY EarlyChecksTouch
<1>3. caller = "started"
  BY DEF ConsumeTraces, EarlyCheckSampled, EarlyCheckNonSampled, BeforeShutdown
<1> USE <1>1 DEF serviceVars, listenVars, callbackVars, tierVars, flushVars
<1>4. LifeTypeOK'
  BY <1>2 DEF LifeTypeOK
<1>5. BeforeShutdown' /\ CallbackRuns' /\ Channels'
  BY <1>2, <1>3 DEF BeforeShutdown, CallbackRuns, Channels
<1>6. CachedIsHeld' /\ FlushKeepsUp' /\ FailureIsNoted'
  BY <1>2 DEF CachedIsHeld, FlushKeepsUp, inFlush, FailureIsNoted
<1> QED
  BY <1>4, <1>5, <1>6

LEMMA SendKeeps ==
  ASSUME NEW g \in Groups, LifeInv, Send(g)
  PROVE  LifeInv'
<1> DEFINE sh == ShardOf[TraceOf[g]]
<1> USE LifecycleAssumption
    DEF LifeInv, Send, Settle, serviceVars, callbackVars, cacheVars, tierVars, decisionVars, flushVars
<1>0. caller = "started"
  BY DEF BeforeShutdown
<1>1. sh \in Shards /\ queue[sh] \in Seq(Groups)
  BY DEF LifeTypeOK
<1>2. /\ Append(queue[sh], g) \in Seq(Groups)
      /\ ToSet(Append(queue[sh], g)) = ToSet(queue[sh]) \cup {g}
  BY <1>1, AppendEntries
<1>3. /\ queue' \in [Shards -> Seq(Groups)]
      /\ queue'[sh] = Append(queue[sh], g)
      /\ \A s \in Shards : s # sh => queue'[s] = queue[s]
  BY <1>1, <1>2 DEF LifeTypeOK
<1>4. /\ stage' \in [Groups -> Stages] /\ stage'[g] = "queued"
      /\ \A h \in Groups : h # g => stage'[h] = stage[h]
  BY DEF LifeTypeOK, Stages
<1>5. LifeTypeOK'
  BY <1>3, <1>4 DEF LifeTypeOK
<1>6. BeforeShutdown' /\ CallbackRuns'
  BY <1>4 DEF BeforeShutdown, CallbackRuns
<1>7. Channels'
  <2>1. \A h \in Groups : stage'[h] = "queued" => h \in ToSet(queue'[ShardOf[TraceOf[h]]])
    BY <1>1, <1>2, <1>3, <1>4 DEF Channels
  <2>2. \A s \in Shards : listener[s] = "running"
    BY <1>0 DEF BeforeShutdown
  <2> QED
    BY <2>1, <2>2 DEF Channels
<1>8. CachedIsHeld' /\ FlushKeepsUp' /\ FailureIsNoted'
  BY <1>0, <1>4 DEF CachedIsHeld, FlushKeepsUp, inFlush, noDecisions, FailureIsNoted
<1> QED
  BY <1>5, <1>6, <1>7, <1>8

LEMMA SeeShutdownKeeps ==
  ASSUME NEW s \in Shards, LifeInv, SeeShutdown(s)
  PROVE  LifeInv'
<1> USE DEF LifeInv, SeeShutdown, serviceVars, callbackVars, cacheVars, tierVars, decisionVars, flushVars
<1>1. LifeTypeOK'
  BY DEF LifeTypeOK
<1>2. BeforeShutdown' /\ CallbackRuns' /\ Channels'
  BY DEF LifeTypeOK, BeforeShutdown, CallbackRuns, Channels
<1>3. CachedIsHeld' /\ FlushKeepsUp' /\ FailureIsNoted'
  BY DEF LifeTypeOK, CachedIsHeld, FlushKeepsUp, inFlush, noDecisions, FailureIsNoted
<1> QED
  BY <1>1, <1>2, <1>3

LEMMA ListenerReturnsKeeps ==
  ASSUME NEW s \in Shards, LifeInv, ListenerReturns(s)
  PROVE  LifeInv'
<1> USE DEF LifeInv, ListenerReturns, serviceVars, callbackVars, cacheVars, tierVars, decisionVars, flushVars
<1>1. LifeTypeOK'
  BY DEF LifeTypeOK
<1>2. BeforeShutdown' /\ CallbackRuns' /\ Channels'
  BY DEF LifeTypeOK, BeforeShutdown, CallbackRuns, Channels
<1>3. CachedIsHeld' /\ FlushKeepsUp' /\ FailureIsNoted'
  BY DEF LifeTypeOK, CachedIsHeld, FlushKeepsUp, inFlush, noDecisions, FailureIsNoted
<1> QED
  BY <1>1, <1>2, <1>3

\* The steps of the caller, of Shutdown and of the deadline that only say where
\* they stand.
LEMMA ServiceKeeps ==
  ASSUME LifeInv, Shutdown \/ ContextEnds \/ GiveUp \/ FlushNext \/ Join
  PROVE  LifeInv'
<1> USE DEF LifeInv, Shutdown, ContextEnds, GiveUp, FlushNext, Join, Return,
            listenVars, callbackVars, cacheVars, tierVars, decisionVars, flushVars
<1>1. LifeTypeOK'
  BY DEF LifeTypeOK
<1>2. BeforeShutdown' /\ CallbackRuns' /\ Channels'
  BY DEF BeforeShutdown, CallbackRuns, Channels
<1>3. CachedIsHeld' /\ FailureIsNoted'
  BY DEF CachedIsHeld, FailureIsNoted
<1>4. CASE Shutdown
  BY <1>1, <1>2, <1>3, <1>4 DEF FlushKeepsUp, inFlush, noDecisions, BeforeShutdown
<1>5. CASE ContextEnds
  BY <1>1, <1>2, <1>3, <1>5 DEF FlushKeepsUp, inFlush, noDecisions
<1>6. CASE GiveUp
  BY <1>1, <1>2, <1>3, <1>6 DEF FlushKeepsUp, inFlush, noDecisions
<1>7. CASE FlushNext
  BY <1>1, <1>2, <1>3, <1>7 DEF FlushKeepsUp, inFlush, noDecisions
<1>8. CASE Join
  BY <1>1, <1>2, <1>3, <1>8 DEF FlushKeepsUp, inFlush, noDecisions
<1> QED
  BY <1>4, <1>5, <1>6, <1>7, <1>8

\* The exit and the panic end what the invariant says of the flush.
LEMMA DieKeeps ==
  ASSUME LifeInv, ShutdownAgain \/ ProcessExits
  PROVE  LifeInv'
<1>1. caller = "returned" /\ \E how \in {"panicked", "exited"} : Die(how)
  BY DEF ShutdownAgain, ProcessExits
<1> USE <1>1 DEF LifeInv, Die, listenVars, callbackVars, cacheVars, tierVars, decisionVars, flushVars
<1>2. LifeTypeOK'
  BY DEF LifeTypeOK, Stages
<1>3. \A g \in Groups : stage'[g] = stage[g] \/ stage'[g] = "lost"
  BY DEF LifeTypeOK
<1>4. BeforeShutdown' /\ CallbackRuns' /\ Channels' /\ CachedIsHeld' /\ FailureIsNoted'
  BY <1>3 DEF BeforeShutdown, CallbackRuns, Channels, CachedIsHeld, FailureIsNoted
<1>5. FlushKeepsUp'
  BY DEF FlushKeepsUp, inFlush
<1> QED
  BY <1>2, <1>4, <1>5

----------------------------------------------------------------------------
(* A listener takes a group *)

\* Of the groups that are cached after the group has been dealt with, each has
\* its trace in a tier; none becomes queued or unflushed.
Dealt(g) ==
  /\ stage' \in [Groups -> Stages]
  /\ \A h \in Groups :
       h # g /\ stage'[h] # stage[h] => stage'[h] \in {"sent", "ruledOut", "evicted"}
  /\ stage'[g] \in {"async", "ruledOut", "sent", "cached"}
  /\ primary' \in Seq(Traces) /\ secondary' \in Seq(Traces)
  /\ sampled' \in Seq(Traces) /\ nonSampled' \in Seq(Traces)
  /\ CachedIsHeld'

LEMMA UseDecisionDeals ==
  ASSUME NEW g \in Groups, LifeTypeOK, CachedIsHeld, UseDecision(g)
  PROVE  Dealt(g)
<1> USE DEF UseDecision, Settle, tierVars
<1>1. stage' \in [Groups -> Stages]
  BY DEF LifeTypeOK, Stages
<1>2. /\ stage'[g] \in {"async", "ruledOut"}
      /\ \A h \in Groups : h # g => stage'[h] = stage[h]
  BY DEF LifeTypeOK
<1>0. TraceOf[g] \in Traces /\ sampled \in Seq(Traces) /\ nonSampled \in Seq(Traces)
  BY LifecycleAssumption DEF LifeTypeOK
<1>3. sampled' \in Seq(Traces) /\ nonSampled' \in Seq(Traces)
  <2>1. /\ Touch(sampled, TraceOf[g]) \in Seq(Traces)
        /\ Touch(nonSampled, TraceOf[g]) \in Seq(Traces)
    BY <1>0, Touched
  <2> QED
    BY <1>0, <2>1
<1> QED
  BY <1>1, <1>2, <1>3 DEF LifeTypeOK, Dealt, CachedIsHeld

\* Both releases take only the trace's own entry out of the tiers, and none of
\* its groups stays cached.
LEMMA DecideDeals ==
  ASSUME NEW g \in Groups, LifeTypeOK, CachedIsHeld, DecideSampled(g) \/ DecideNotSampled(g)
  PROVE  Dealt(g)
<1> DEFINE t == TraceOf[g]
<1> USE LifecycleAssumption DEF DecideSampled, DecideNotSampled, Settle, Release
<1>1. /\ primary' \in Seq(Traces) /\ secondary' \in Seq(Traces)
      /\ \A x \in ToSet(primary) : x # t => x \in ToSet(primary')
      /\ \A x \in ToSet(secondary) : x # t => x \in ToSet(secondary')
  BY RemoveFirstProperties DEF LifeTypeOK
<1>2. PICK st \in {"sent", "ruledOut"} :
        stage' = [h \in Groups |-> IF h \in together(g) THEN st ELSE stage[h]]
  OBVIOUS
<1>3. stage' \in [Groups -> Stages]
  BY <1>2 DEF LifeTypeOK, Stages
<1>4. \A h \in Groups : h \in together(g) => stage'[h] \in {"sent", "ruledOut"}
  BY <1>2
<1>5. \A h \in Groups : h \notin together(g) => stage'[h] = stage[h]
  BY <1>2
<1>6. g \in together(g)
  BY DEF together
<1>7. \A h \in Groups : stage[h] = "cached" /\ TraceOf[h] = t => h \in together(g)
  BY DEF together, cachedGroups
<1>8. CachedIsHeld'
  BY <1>1, <1>4, <1>5, <1>7 DEF CachedIsHeld
<1>9. sampled' \in Seq(Traces) /\ nonSampled' \in Seq(Traces)
  <2>1. /\ Put(sampled, t, SampledSize) \in Seq(Traces)
        /\ Put(nonSampled, t, NonSampledSize) \in Seq(Traces)
    BY PutEntries DEF LifeTypeOK
  <2> QED
    BY <2>1 DEF LifeTypeOK, PutSampled, PutNonSampled
<1> QED
  BY <1>1, <1>3, <1>4, <1>5, <1>6, <1>8, <1>9 DEF Dealt

\* What Keep leaves cached is g, and groups of traces that were not evicted.
LEMMA KeepStages ==
  ASSUME NEW s \in Shards, NEW g \in Groups, NEW out, LifeTypeOK, Keep(s, g, out)
  PROVE  /\ stage' \in [Groups -> Stages]
         /\ stage'[g] = "cached"
         /\ \A h \in Groups : h # g /\ stage'[h] # stage[h] => stage'[h] = "evicted"
         /\ \A h \in Groups : h # g /\ stage'[h] = "cached" =>
              stage[h] = "cached" /\ TraceOf[h] \notin out
         /\ sampled' \in Seq(Traces) /\ nonSampled' \in Seq(Traces)
  BY DEF Keep, LifeTypeOK, Stages, decisionVars

LEMMA KeepDeals ==
  ASSUME NEW s \in Shards, NEW g \in Groups, LifeTypeOK, CachedIsHeld,
         KeepLow(s, g) \/ KeepPending(s, g)
  PROVE  Dealt(g)
<1> DEFINE t == TraceOf[g]
<1>0. t \in Traces /\ primary \in Seq(Traces) /\ secondary \in Seq(Traces)
  BY LifecycleAssumption DEF LifeTypeOK
<1>1. CASE KeepLow(s, g)
  <2> DEFINE q == Refresh(secondary, t)
             e == ToSet(Spill(q, SecondarySize))
  <2>1. /\ q \in Seq(Traces) /\ q # <<>> /\ q[Len(q)] = t
        /\ ToSet(q) = ToSet(secondary) \cup {t}
    BY <1>0, RefreshedLast
  <2>2. secondary' = Trim(q, SecondarySize) /\ Keep(s, g, e) /\ primary' = primary
    BY <1>1 DEF KeepLow
  <2> HIDE DEF q
  <2>3. /\ secondary' \in Seq(Traces) /\ t \in ToSet(secondary')
        /\ \A x \in ToSet(q) : x \in ToSet(secondary') \cup e
    BY <2>1, <2>2, TrimEntries, TrimOrSpill, LifecycleAssumption
  <2> HIDE DEF e
  <2>4. /\ stage' \in [Groups -> Stages]
        /\ stage'[g] = "cached"
        /\ \A h \in Groups : h # g /\ stage'[h] # stage[h] => stage'[h] = "evicted"
        /\ \A h \in Groups : h # g /\ stage'[h] = "cached" =>
             stage[h] = "cached" /\ TraceOf[h] \notin e
        /\ sampled' \in Seq(Traces) /\ nonSampled' \in Seq(Traces)
    BY <2>2, KeepStages
  <2>5. CachedIsHeld'
    BY <2>1, <2>2, <2>3, <2>4 DEF CachedIsHeld
  <2> QED
    BY <1>0, <2>2, <2>3, <2>4, <2>5 DEF Dealt
<1>2. CASE KeepPending(s, g)
  <2> DEFINE q == Refresh(primary, t)
             e == ToSet(Spill(q, PrimarySize))
  <2>1. /\ q \in Seq(Traces) /\ q # <<>> /\ q[Len(q)] = t
        /\ ToSet(q) = ToSet(primary) \cup {t}
    BY <1>0, RefreshedLast
  <2>2. /\ secondary' = RemoveFirst(secondary, t)
        /\ primary' = Trim(q, PrimarySize) /\ Keep(s, g, e)
    BY <1>2 DEF KeepPending
  <2> HIDE DEF q
  <2>3. /\ primary' \in Seq(Traces) /\ t \in ToSet(primary')
        /\ \A x \in ToSet(q) : x \in ToSet(primary') \cup e
    BY <2>1, <2>2, TrimEntries, TrimOrSpill, LifecycleAssumption
  <2>4. /\ secondary' \in Seq(Traces)
        /\ \A x \in ToSet(secondary) : x # t => x \in ToSet(secondary')
    BY <1>0, <2>2, RemoveFirstProperties
  <2> HIDE DEF e
  <2>5. /\ stage' \in [Groups -> Stages]
        /\ stage'[g] = "cached"
        /\ \A h \in Groups : h # g /\ stage'[h] # stage[h] => stage'[h] = "evicted"
        /\ \A h \in Groups : h # g /\ stage'[h] = "cached" =>
             stage[h] = "cached" /\ TraceOf[h] \notin e
        /\ sampled' \in Seq(Traces) /\ nonSampled' \in Seq(Traces)
    BY <2>2, KeepStages
  <2>6. CachedIsHeld'
    BY <2>1, <2>3, <2>4, <2>5 DEF CachedIsHeld
  <2> QED
    BY <2>3, <2>4, <2>5, <2>6 DEF Dealt
<1> QED
  BY <1>1, <1>2

\* The callback of an eviction begins in the listener that took the group, which
\* is not in one.
LEMMA DealingCallbacks ==
  ASSUME NEW s \in Shards, LifeTypeOK, processTraces(s)
  PROVE  /\ evicted' \in [Shards -> SUBSET Groups] /\ callback' \in [Shards -> Calls]
         /\ callback[s] = "none"
         /\ \A r \in Shards : r # s => evicted'[r] = evicted[r] /\ callback'[r] = callback[r]
<1> DEFINE g == Head(queue[s])
<1>1. CASE \E out : Keep(s, g, out)
  <2>1. PICK out : Keep(s, g, out)
    BY <1>1
  <2>2. UNION {cachedGroups(t) : t \in out} \subseteq Groups
    BY DEF cachedGroups
  <2> QED
    BY <2>1, <2>2 DEF processTraces, Keep, LifeTypeOK, Calls
<1>2. CASE UNCHANGED callbackVars
  BY <1>2 DEF callbackVars, LifeTypeOK, processTraces
<1>3. (\E out : Keep(s, g, out)) \/ UNCHANGED callbackVars
  BY DEF processTraces, UseDecision, DecideSampled, DecideNotSampled, KeepLow, KeepPending
<1> QED
  BY <1>1, <1>2, <1>3

LEMMA ProcessTracesKeeps ==
  ASSUME NEW s \in Shards, LifeInv, processTraces(s)
  PROVE  LifeInv'
<1> DEFINE g == Head(queue[s])
<1>1. queue[s] \in Seq(Groups) /\ queue[s] # <<>>
  BY DEF LifeInv, LifeTypeOK, processTraces
<1>2. /\ g \in Groups /\ Tail(queue[s]) \in Seq(Groups)
      /\ \A h \in ToSet(queue[s]) : h = g \/ h \in ToSet(Tail(queue[s]))
  BY <1>1, HeadAndTail
<1>3. \/ UseDecision(g) \/ DecideSampled(g) \/ DecideNotSampled(g)
      \/ KeepLow(s, g) \/ KeepPending(s, g)
  BY DEF processTraces
<1>4. Dealt(g)
  BY <1>2, <1>3, UseDecisionDeals, DecideDeals, KeepDeals DEF LifeInv
<1> HIDE DEF g
<1>5. /\ listener[s] \in {"running", "draining"}
      /\ queue' = [queue EXCEPT ![s] = Tail(queue[s])]
      /\ UNCHANGED <<serviceVars, listener, flushVars>>
  BY DEF processTraces
<1>6. /\ queue' \in [Shards -> Seq(Groups)]
      /\ queue'[s] = Tail(queue[s])
      /\ \A r \in Shards : r # s => queue'[r] = queue[r]
  BY <1>2, <1>5 DEF LifeInv, LifeTypeOK
<1> USE DEF serviceVars, flushVars
<1>13. /\ evicted' \in [Shards -> SUBSET Groups] /\ callback' \in [Shards -> Calls]
       /\ \A r \in Shards : r # s => callback'[r] = callback[r]
  BY DealingCallbacks DEF LifeInv
<1>7. LifeTypeOK'
  BY <1>4, <1>5, <1>6, <1>13 DEF LifeInv, LifeTypeOK, Dealt
<1>8. BeforeShutdown' /\ CallbackRuns'
  BY <1>2, <1>4, <1>5, <1>13 DEF LifeInv, BeforeShutdown, CallbackRuns, Dealt
<1>9. Channels'
  <2>1. \A r \in Shards : listener'[r] \in {"none", "done"} => queue'[r] = <<>> \/ ctxDone'
    BY <1>5, <1>6 DEF LifeInv, Channels
  <2>2. ASSUME NEW h \in Groups, stage'[h] = "queued"
        PROVE  h \in ToSet(queue'[ShardOf[TraceOf[h]]])
    <3>1. h # g /\ stage[h] = "queued"
      BY <1>4, <2>2 DEF Dealt
    <3>2. h \in ToSet(queue[ShardOf[TraceOf[h]]]) /\ ShardOf[TraceOf[h]] \in Shards
      BY <3>1, LifecycleAssumption DEF LifeInv, Channels
    <3> QED
      BY <1>2, <1>6, <3>1, <3>2
  <2> QED
    BY <2>1, <2>2 DEF Channels
<1>10. CachedIsHeld'
  BY <1>4 DEF Dealt
<1>11. FlushKeepsUp'
  <2>1. ~inFlush
    BY <1>5 DEF LifeInv, FlushKeepsUp
  <2> QED
    BY <1>5, <2>1 DEF FlushKeepsUp, inFlush, noDecisions
<1>12. FailureIsNoted'
  BY <1>2, <1>4, <1>5 DEF LifeInv, FailureIsNoted, Dealt
<1> QED
  BY <1>7, <1>8, <1>9, <1>10, <1>11, <1>12 DEF LifeInv

\* A callback gives up what was evicted, and nothing that is cached.
LEMMA CallbackStages ==
  ASSUME NEW s \in Shards, NEW t \in Traces, LifeTypeOK, CallbackStep(s, t)
  PROVE  /\ evicted' \in [Shards -> SUBSET Groups] /\ callback' \in [Shards -> Calls]
         /\ callback[s] # "none"
         /\ \A r \in Shards : r # s => evicted'[r] = evicted[r] /\ callback'[r] = callback[r]
         /\ stage' \in [Groups -> Stages]
         /\ \A h \in Groups : stage'[h] # stage[h] =>
              h \in evicted[s] /\ stage'[h] \in {"vanished", "ruledOut"}
         /\ sampled' \in Seq(Traces) /\ nonSampled' \in Seq(Traces)
<1> USE DEF CallbackStep, CallbackCheckSampled, CallbackCheckNonSampled, CallbackRecord
<1>1. sampled \in Seq(Traces) /\ nonSampled \in Seq(Traces)
      /\ SampledSize \in Nat \ {0} /\ NonSampledSize \in Nat \ {0}
  BY LifecycleAssumption DEF LifeTypeOK
<1>2. sampled' \in Seq(Traces) /\ nonSampled' \in Seq(Traces)
  <2>1. /\ Touch(sampled, t) \in Seq(Traces) /\ Touch(nonSampled, t) \in Seq(Traces)
        /\ Put(nonSampled, t, NonSampledSize) \in Seq(Traces)
    BY <1>1, Touched, PutEntries
  <2> QED
    BY <1>1, <2>1 DEF PutNonSampled
<1>3. callback[s] # "none"
  OBVIOUS
<1>4. CASE UNCHANGED <<evicted, stage>>
  <2>1. \E c \in Calls : callback' = [callback EXCEPT ![s] = c]
    BY <1>4 DEF EndCallback, Calls
  <2> QED
    BY <1>2, <1>3, <1>4, <2>1 DEF LifeTypeOK
<1>5. CASE \E st \in {"vanished", "ruledOut"} : EndCallback(s, st)
  <2>1. PICK st \in {"vanished", "ruledOut"} : EndCallback(s, st)
    BY <1>5
  <2>2. stage' \in [Groups -> Stages]
    BY <2>1 DEF EndCallback, Settle, LifeTypeOK, Stages
  <2>3. \A h \in Groups : stage'[h] # stage[h] => h \in evicted[s] /\ stage'[h] = st
    BY <2>1 DEF EndCallback, Settle
  <2>4. /\ evicted' = [evicted EXCEPT ![s] = {}]
        /\ callback' = [callback EXCEPT ![s] = "none"]
    BY <2>1 DEF EndCallback
  <2> HIDE DEF CallbackStep, CallbackCheckSampled, CallbackCheckNonSampled, CallbackRecord
  <2> QED
    BY <1>2, <1>3, <2>2, <2>3, <2>4 DEF LifeTypeOK, Calls
<1>6. UNCHANGED <<evicted, stage>> \/ \E st \in {"vanished", "ruledOut"} : EndCallback(s, st)
  OBVIOUS
<1> QED
  BY <1>4, <1>5, <1>6

LEMMA CallbackKeeps ==
  ASSUME NEW s \in Shards, NEW t \in Traces, LifeInv, CallbackStep(s, t)
  PROVE  LifeInv'
<1> USE DEF LifeInv
<1>1. /\ evicted' \in [Shards -> SUBSET Groups] /\ callback' \in [Shards -> Calls]
      /\ callback[s] # "none"
      /\ \A r \in Shards : r # s => callback'[r] = callback[r]
      /\ stage' \in [Groups -> Stages]
      /\ \A h \in Groups : stage'[h] # stage[h] => stage'[h] \in {"vanished", "ruledOut"}
      /\ sampled' \in Seq(Traces) /\ nonSampled' \in Seq(Traces)
  BY CallbackStages
<1>2. UNCHANGED <<serviceVars, listener, queue, tierVars, flushVars>>
  BY DEF CallbackStep
<1> USE <1>2 DEF serviceVars, tierVars, flushVars
<1>3. LifeTypeOK'
  BY <1>1 DEF LifeTypeOK
<1>4. BeforeShutdown' /\ CallbackRuns' /\ Channels'
  BY <1>1 DEF BeforeShutdown, CallbackRuns, Channels
<1>5. CachedIsHeld' /\ FailureIsNoted'
  BY <1>1 DEF CachedIsHeld, FailureIsNoted
<1>6. FlushKeepsUp'
  <2>1. ~inFlush
    BY <1>1 DEF FlushKeepsUp, CallbackRuns
  <2> QED
    BY <2>1 DEF FlushKeepsUp, inFlush
<1> QED
  BY <1>3, <1>4, <1>5, <1>6

----------------------------------------------------------------------------
(* The end of the listeners, and the flush *)

LEMMA ListenersDoneKeeps == LifeInv /\ ListenersDone => LifeInv'
<1> SUFFICES ASSUME LifeInv, ListenersDone PROVE LifeInv'
  OBVIOUS
<1> USE DEF LifeInv, ListenersDone, listenVars, callbackVars, cacheVars, tierVars, decisionVars
<1>1. /\ Values \in Seq(Traces)
      /\ \A x : x \in ToSet(primary) \cup ToSet(secondary) => x \in ToSet(Values)
  BY ConcatEntries DEF LifeTypeOK, Values
<1> HIDE DEF Values
<1>2. LifeTypeOK'
  BY <1>1 DEF LifeTypeOK, Return
<1>3. BeforeShutdown' /\ CallbackRuns' /\ Channels' /\ CachedIsHeld' /\ FailureIsNoted'
  BY DEF BeforeShutdown, CallbackRuns, Channels, CachedIsHeld, FailureIsNoted, Return
<1>4. FlushKeepsUp'
  <2>1. CASE FlushOnShutdown
    <3>1. \A h \in Groups : stage'[h] = "cached" => TraceOf[h] \in ToSet(vals')
      BY <1>1, <2>1 DEF CachedIsHeld
    <3> QED
      BY <2>1, <3>1 DEF FlushKeepsUp, inFlush, noDecisions
  <2>2. CASE ~FlushOnShutdown
    BY <2>2 DEF FlushKeepsUp, inFlush, noDecisions, Return
  <2> QED
    BY <2>1, <2>2
<1> QED
  BY <1>2, <1>3, <1>4

LEMMA SpawnKeeps == LifeInv /\ Spawn => LifeInv'
<1> SUFFICES ASSUME LifeInv, Spawn PROVE LifeInv'
  OBVIOUS
<1> USE DEF LifeInv, Spawn, listenVars, callbackVars, cacheVars, tierVars, decisionVars
<1>1. /\ \A r \in Shards : listener[r] \in {"none", "done"}
      /\ \A h \in Groups : stage[h] = "cached" => TraceOf[h] \in ToSet(vals) \cup exporting
      /\ DecisionExport \notin exporting =>
           noDecisions /\ (decisionSpans = taken \/ exportFailed)
      /\ vals # <<>>
  BY DEF FlushKeepsUp, inFlush, noDecisions
<1>2. /\ Tail(vals) \in Seq(Traces)
      /\ \A x \in ToSet(vals) : x = Head(vals) \/ x \in ToSet(Tail(vals))
  BY <1>1, HeadAndTail DEF LifeTypeOK
<1>3. LifeTypeOK'
  BY <1>2 DEF LifeTypeOK
<1>4. BeforeShutdown' /\ CallbackRuns' /\ Channels' /\ CachedIsHeld' /\ FailureIsNoted'
  BY DEF BeforeShutdown, CallbackRuns, Channels, CachedIsHeld, FailureIsNoted
<1>5. \A h \in Groups : stage'[h] = "cached" => TraceOf[h] \in ToSet(vals') \cup exporting'
  BY <1>1, <1>2
<1>6. FlushKeepsUp'
  BY <1>1, <1>5 DEF FlushKeepsUp, noDecisions
<1> QED
  BY <1>3, <1>4, <1>6

LEMMA DecisionsKeep == LifeInv /\ (TakeDecisions \/ ExportDecisions) => LifeInv'
<1> SUFFICES ASSUME LifeInv, TakeDecisions \/ ExportDecisions PROVE LifeInv'
  OBVIOUS
<1> USE DEF LifeInv, TakeDecisions, ExportDecisions, serviceVars, listenVars, callbackVars,
            cacheVars, tierVars, decisionVars
<1>0. \A h \in Groups : TraceOf[h] # DecisionExport
  BY LifecycleAssumption
<1>1. LifeTypeOK'
  <2>1. <<>> \in Seq(Traces)
    OBVIOUS
  <2> QED
    BY <2>1 DEF LifeTypeOK
<1>2. BeforeShutdown' /\ CallbackRuns' /\ Channels' /\ CachedIsHeld' /\ FailureIsNoted'
  BY DEF LifeTypeOK, BeforeShutdown, CallbackRuns, Channels, CachedIsHeld, FailureIsNoted
<1>3. CASE TakeDecisions
  BY <1>1, <1>2, <1>3 DEF FlushKeepsUp, inFlush, noDecisions
<1>4. CASE ExportDecisions
  BY <1>0, <1>1, <1>2, <1>4 DEF FlushKeepsUp, inFlush, noDecisions
<1> QED
  BY <1>3, <1>4

\* Whether it succeeds or not, the export of a trace leaves none of it cached.
LEMMA ExportTraceKeeps ==
  ASSUME NEW t \in Traces, LifeInv, ExportTrace(t)
  PROVE  LifeInv'
<1> USE DEF LifeInv, ExportTrace, Settle, serviceVars, listenVars, callbackVars, cacheVars, tierVars, decisionVars
<1>1. PICK st \in {"flushed", "unflushed"} :
        /\ stage' = [h \in Groups |-> IF h \in cachedGroups(t) THEN st ELSE stage[h]]
        /\ st = "unflushed" => exportFailed'
  OBVIOUS
<1>2. stage' \in [Groups -> Stages]
  BY <1>1 DEF LifeTypeOK, Stages
<1>3. \A h \in Groups : h \in cachedGroups(t) => stage'[h] = st
  BY <1>1
<1>4. \A h \in Groups : h \notin cachedGroups(t) => stage'[h] = stage[h]
  BY <1>1
<1>5. \A h \in Groups : stage'[h] = "cached" => stage[h] = "cached" /\ TraceOf[h] # t
  BY <1>3, <1>4 DEF cachedGroups
<1>6. exportFailed => exportFailed'
  OBVIOUS
<1>7. LifeTypeOK'
  BY <1>2 DEF LifeTypeOK
<1>8. BeforeShutdown' /\ CallbackRuns' /\ Channels' /\ CachedIsHeld' /\ FailureIsNoted'
  BY <1>1, <1>3, <1>4, <1>5, <1>6
     DEF BeforeShutdown, CallbackRuns, Channels, CachedIsHeld, FailureIsNoted
<1>9. FlushKeepsUp'
  <2>1. t # DecisionExport /\ t \in exporting /\ exporting' = exporting \ {t}
    BY LifecycleAssumption
  <2> QED
    BY <1>5, <1>6, <2>1 DEF FlushKeepsUp, inFlush, noDecisions
<1> QED
  BY <1>7, <1>8, <1>9

LEMMA AsyncSendKeeps ==
  ASSUME NEW g \in Groups, LifeInv, AsyncSend(g)
  PROVE  LifeInv'
<1> USE DEF LifeInv, AsyncSend, Settle, serviceVars, listenVars, callbackVars, cacheVars, tierVars, decisionVars, flushVars
<1>1. /\ stage' \in [Groups -> Stages] /\ stage'[g] = "sent"
      /\ \A h \in Groups : h # g => stage'[h] = stage[h]
  BY DEF LifeTypeOK, Stages
<1>2. LifeTypeOK'
  BY <1>1 DEF LifeTypeOK
<1>3. BeforeShutdown' /\ CallbackRuns' /\ Channels' /\ CachedIsHeld' /\ FlushKeepsUp' /\ FailureIsNoted'
  BY <1>1 DEF BeforeShutdown, CallbackRuns, Channels, CachedIsHeld, FlushKeepsUp, inFlush, noDecisions, FailureIsNoted
<1> QED
  BY <1>2, <1>3

----------------------------------------------------------------------------
(* Every step, and the theorem *)

LEMMA LifeInvStep == LifeInv /\ [Next]_vars => LifeInv'
<1> SUFFICES ASSUME LifeInv, [Next]_vars PROVE LifeInv'
  OBVIOUS
<1>1. CASE Start
  BY <1>1, StartKeeps
<1>2. CASE Shutdown \/ ContextEnds
  BY <1>2, ServiceKeeps
<1>3. CASE \E g \in Groups : ConsumeStep(g) \/ AsyncSend(g)
  BY <1>3, EarlyChecksKeep, SendKeeps, AsyncSendKeeps DEF ConsumeStep
<1>4. CASE \E s \in Shards : ListenerStep(s)
  BY <1>4, ProcessTracesKeeps, CallbackKeeps, SeeShutdownKeeps, ListenerReturnsKeeps
     DEF ListenerStep
<1>5. CASE ShutdownStep
  BY <1>5, ListenersDoneKeeps, ServiceKeeps, SpawnKeeps DEF ShutdownStep
<1>6. CASE ExportStep
  BY <1>6, DecisionsKeep, ExportTraceKeeps DEF ExportStep
<1>7. CASE ShutdownAgain \/ ProcessExits
  BY <1>7, DieKeeps
<1>8. CASE UNCHANGED vars
  BY <1>8 DEF LifeInv, LifeTypeOK, BeforeShutdown, CallbackRuns, Channels, CachedIsHeld,
              FlushKeepsUp, inFlush, noDecisions, FailureIsNoted, vars, serviceVars,
              listenVars, callbackVars, cacheVars, tierVars, decisionVars, flushVars
<1> QED
  BY <1>1, <1>2, <1>3, <1>4, <1>5, <1>6, <1>7, <1>8 DEF Next, Gone

\* When Shutdown has returned nil after a flush, what FlushKeepsUp says of the
\* last moment of the flush is what the flush promises.
LEMMA LifeInvImplies == LifeInv => SuccessMeansFlushed
<1> SUFFICES ASSUME LifeInv, caller = "returned", result = "nil", shutdown, FlushOnShutdown
             PROVE  /\ \A g \in Groups : stage[g] \notin {"cached", "unflushed"}
                    /\ \A g \in Groups : stage[g] = "queued" => ctxDone
                    /\ exporting = {}
                    /\ noDecisions /\ decisionSpans = taken
  BY DEF SuccessMeansFlushed
<1>1. /\ \A s \in Shards : listener[s] \in {"none", "done"}
      /\ \A g \in Groups : stage[g] = "cached" => TraceOf[g] \in ToSet(vals) \cup exporting
      /\ DecisionExport \notin exporting =>
           noDecisions /\ (decisionSpans = taken \/ exportFailed)
      /\ vals = <<>> /\ exporting = {} /\ ~exportFailed
  BY DEF LifeInv, FlushKeepsUp, inFlush, noDecisions
<1>2. \A g \in Groups : stage[g] # "cached"
  BY <1>1, NoEntries
<1>3. \A g \in Groups : stage[g] # "unflushed"
  BY <1>1 DEF LifeInv, FailureIsNoted
<1>4. ASSUME NEW g \in Groups, stage[g] = "queued" PROVE ctxDone
  <2>1. ShardOf[TraceOf[g]] \in Shards /\ g \in ToSet(queue[ShardOf[TraceOf[g]]])
    BY <1>4, LifecycleAssumption DEF LifeInv, Channels
  <2>2. queue[ShardOf[TraceOf[g]]] = <<>> \/ ctxDone
    BY <1>1, <2>1 DEF LifeInv, Channels
  <2> QED
    BY <2>1, <2>2, NoEntries
<1> QED
  BY <1>1, <1>2, <1>3, <1>4

\* A Shutdown that reports success with flush_on_shutdown has flushed
\* (Shutdown and flushAll, processor.go): for every number of shards, traces and
\* groups, every size of the tiers, of the channels and of the errgroup.
THEOREM SuccessfulShutdownFlushes == Spec => []SuccessMeansFlushed
<1>1. Init => LifeInv
  BY LifeInvInit
<1>2. LifeInv /\ [Next]_vars => LifeInv'
  BY LifeInvStep
<1>3. LifeInv => SuccessMeansFlushed
  BY LifeInvImplies
<1> QED
  BY <1>1, <1>2, <1>3, PTL DEF Spec

----------------------------------------------------------------------------
(* What happens after the flush, and when it does not happen *)

flushBegun ==
  \/ exporting # {} \/ taken # {} \/ vals # <<>>
  \/ \E g \in Groups : stage[g] \in {"flushed", "unflushed"}

\* The flush comes after the listeners' end, which clears started; a call that
\* ended in an error before it ran into the deadline.
FlushComesLast ==
  /\ flushBegun => /\ \A s \in Shards : listener[s] \in {"none", "done"}
                   /\ caller \notin {"new", "started", "startFailed", "waiting"}
                   /\ ~started
  /\ caller \in {"flushing", "spawning", "joining"} => ~started
  /\ caller = "returned" /\ result = "error" /\ started => ctxDone

DecisionsMoveOnce == taken # {} => noDecisions

AsyncIsSampled ==
  \A g \in Groups :
    stage[g] = "async" =>
      TraceOf[g] \in ToSet(sampled) \/ <<"sampled", TraceOf[g]>> \in taken \cup forgotten

\* What has been evicted is in a callback that has not ended.
EvictedIsInCallback ==
  \A g \in Groups :
    stage[g] = "evicted" => \E s \in Shards : g \in evicted[s] /\ callback[s] # "none"

LostAtTheEnd == \A g \in Groups : stage[g] = "lost" => ~Alive

EndInv ==
  /\ FlushComesLast /\ DecisionsMoveOnce /\ AsyncIsSampled /\ EvictedIsInCallback
  /\ LostAtTheEnd /\ PanicsOnlyBeforeFlush /\ OnlyLateSpansAreLost /\ SampledIsNotFlushed

LEMMA EndInvInit == Init => EndInv
<1> SUFFICES ASSUME Init PROVE EndInv
  OBVIOUS
<1> USE DEF Init
<1>1. \A g \in Groups : stage[g] = "new"
  OBVIOUS
<1>2. FlushComesLast
  BY <1>1 DEF FlushComesLast, flushBegun
<1>3. DecisionsMoveOnce /\ AsyncIsSampled /\ EvictedIsInCallback /\ LostAtTheEnd
  BY <1>1 DEF DecisionsMoveOnce, noDecisions, AsyncIsSampled, EvictedIsInCallback, LostAtTheEnd
<1>4. PanicsOnlyBeforeFlush /\ OnlyLateSpansAreLost /\ SampledIsNotFlushed
  BY <1>1 DEF PanicsOnlyBeforeFlush, OnlyLateSpansAreLost, SampledIsNotFlushed
<1> QED
  BY <1>2, <1>3, <1>4 DEF EndInv

\* The steps of the service and of its caller move no spans and no decisions.
LEMMA ServiceEnds ==
  ASSUME EndInv, Alive,
         Start \/ Shutdown \/ ContextEnds \/ GiveUp \/ FlushNext \/ Join
  PROVE  EndInv'
<1> USE DEF EndInv
<1>1. /\ stage' = stage /\ sampled' = sampled /\ nonSampled' = nonSampled /\ taken' = taken
      /\ vals' = vals /\ exporting' = exporting /\ decisionSpans' = decisionSpans
      /\ forgotten' = forgotten /\ evicted' = evicted /\ callback' = callback
  BY DEF Start, Shutdown, ContextEnds, GiveUp, FlushNext, Join, listenVars, callbackVars,
         cacheVars, tierVars, decisionVars, flushVars
<1>2. Alive'
  BY DEF Start, Shutdown, ContextEnds, GiveUp, FlushNext, Join, Return, Alive
<1>3. \A g \in Groups : stage'[g] # "lost"
  BY <1>1 DEF LostAtTheEnd
<1>4. FlushComesLast'
  <2>1. CASE Start
    BY <1>1, <2>1 DEF FlushComesLast, flushBegun, Start
  <2>2. CASE Shutdown
    BY <1>1, <2>2 DEF FlushComesLast, flushBegun, Shutdown, listenVars, Return
  <2>3. CASE ContextEnds
    BY <1>1, <2>3 DEF FlushComesLast, flushBegun, ContextEnds, listenVars
  <2>4. CASE GiveUp
    BY <1>1, <2>4 DEF FlushComesLast, flushBegun, GiveUp, listenVars, Return
  <2>5. CASE FlushNext
    BY <1>1, <2>5 DEF FlushComesLast, flushBegun, FlushNext, listenVars
  <2>6. CASE Join
    BY <1>1, <2>6 DEF FlushComesLast, flushBegun, Join, listenVars, Return
  <2> QED
    BY <2>1, <2>2, <2>3, <2>4, <2>5, <2>6
<1>5. DecisionsMoveOnce' /\ AsyncIsSampled' /\ EvictedIsInCallback' /\ SampledIsNotFlushed'
  BY <1>1 DEF DecisionsMoveOnce, noDecisions, AsyncIsSampled, EvictedIsInCallback,
        SampledIsNotFlushed
<1>6. LostAtTheEnd' /\ OnlyLateSpansAreLost'
  BY <1>3 DEF LostAtTheEnd, OnlyLateSpansAreLost
<1>7. PanicsOnlyBeforeFlush'
  BY <1>2 DEF Alive, PanicsOnlyBeforeFlush
<1> QED
  BY <1>4, <1>5, <1>6, <1>7

\* A step of the process that lives loses nothing and does not panic.
LEMMA LivingSteps ==
  ASSUME Alive, caller' = caller,
         \A g \in Groups : stage'[g] = "lost" => stage[g] = "lost",
         LostAtTheEnd
  PROVE  LostAtTheEnd' /\ OnlyLateSpansAreLost' /\ PanicsOnlyBeforeFlush'
  BY DEF Alive, LostAtTheEnd, OnlyLateSpansAreLost, PanicsOnlyBeforeFlush

LEMMA ListenerEnds ==
  ASSUME NEW s \in Shards, EndInv, Alive, SeeShutdown(s) \/ ListenerReturns(s)
  PROVE  EndInv'
<1> USE DEF EndInv, SeeShutdown, ListenerReturns, serviceVars, callbackVars, cacheVars,
            tierVars, decisionVars, flushVars
<1>1. FlushComesLast'
  BY DEF FlushComesLast, flushBegun
<1>2. DecisionsMoveOnce' /\ AsyncIsSampled' /\ EvictedIsInCallback' /\ SampledIsNotFlushed'
  BY DEF DecisionsMoveOnce, noDecisions, AsyncIsSampled, EvictedIsInCallback,
         SampledIsNotFlushed
<1>3. LostAtTheEnd' /\ OnlyLateSpansAreLost' /\ PanicsOnlyBeforeFlush'
  BY LivingSteps
<1> QED
  BY <1>1, <1>2, <1>3

\* A group that arrives, and spans that a call or a goroutine sends.
LEMMA ArrivalEnds ==
  ASSUME NEW g \in Groups, LifeTypeOK, EndInv, Alive, ConsumeStep(g) \/ AsyncSend(g)
  PROVE  EndInv'
<1> USE DEF EndInv
<1>1. /\ UNCHANGED <<serviceVars, listener, callbackVars, tierVars, forgotten, flushVars>>
      /\ ToSet(sampled') = ToSet(sampled)
      /\ noDecisions => noDecisions'
      /\ stage'[g] \in {"early", "missed", "kept", "queued", "sent", "ruledOut"}
      /\ \A h \in Groups : h # g => stage'[h] = stage[h]
  <2>1. CASE ConsumeTraces(g) \/ EarlyCheckSampled(g) \/ EarlyCheckNonSampled(g)
    <3>1. UNCHANGED <<serviceVars, listenVars, tierVars, forgotten, flushVars>>
      BY <2>1 DEF ConsumeTraces, EarlyCheckSampled, EarlyCheckNonSampled, cacheVars, decisionVars
    <3> QED
      BY <2>1, <3>1, EarlyChecksTouch DEF listenVars
  <2>2. CASE Send(g) \/ AsyncSend(g)
    BY <2>2 DEF Send, AsyncSend, Settle, listenVars, cacheVars, tierVars, decisionVars,
          noDecisions, LifeTypeOK
  <2> QED
    BY <2>1, <2>2 DEF ConsumeStep
<1> USE DEF serviceVars, callbackVars, tierVars, flushVars
<1>2. FlushComesLast'
  BY <1>1 DEF FlushComesLast, flushBegun
<1>3. DecisionsMoveOnce' /\ AsyncIsSampled' /\ EvictedIsInCallback' /\ SampledIsNotFlushed'
  BY <1>1 DEF DecisionsMoveOnce, AsyncIsSampled, EvictedIsInCallback, SampledIsNotFlushed
<1>4. LostAtTheEnd' /\ OnlyLateSpansAreLost' /\ PanicsOnlyBeforeFlush'
  BY <1>1, LivingSteps
<1> QED
  BY <1>2, <1>3, <1>4

\* A sampled decision that leaves its cache is remembered as forgotten.
LEMMA SampledIsKept ==
  ASSUME NEW t \in Traces, LifeTypeOK, PutSampled(t)
  PROVE  /\ ToSet(sampled') \subseteq ToSet(sampled) \cup {t}
         /\ \A x \in ToSet(sampled) : x \in ToSet(sampled') \/ <<"sampled", x>> \in forgotten'
         /\ forgotten \subseteq forgotten'
<1>1. /\ ToSet(Put(sampled, t, SampledSize)) \subseteq ToSet(sampled) \cup {t}
      /\ ToSet(sampled) \subseteq
           ToSet(Put(sampled, t, SampledSize)) \cup PutEvicts(sampled, t, SampledSize)
  BY PutEntries, LifecycleAssumption DEF LifeTypeOK
<1> QED
  BY <1>1 DEF PutSampled

LEMMA ProcessDecisions ==
  ASSUME NEW s \in Shards, NEW g \in Groups, LifeTypeOK,
         \/ UseDecision(g) \/ DecideSampled(g) \/ DecideNotSampled(g)
         \/ KeepLow(s, g) \/ KeepPending(s, g)
  PROVE  /\ \A x \in ToSet(sampled) : x \in ToSet(sampled') \/ <<"sampled", x>> \in forgotten'
         /\ forgotten \subseteq forgotten'
         /\ ToSet(sampled') \subseteq ToSet(sampled) \/ DecideSampled(g)
         /\ ToSet(sampled') \subseteq ToSet(sampled) \cup {TraceOf[g]}
<1>0. TraceOf[g] \in Traces /\ sampled \in Seq(Traces)
  BY LifecycleAssumption DEF LifeTypeOK
<1>1. CASE UseDecision(g)
  <2>1. ToSet(Touch(sampled, TraceOf[g])) = ToSet(sampled)
    BY <1>0, Touched
  <2> QED
    BY <1>1, <2>1 DEF UseDecision
<1>2. CASE DecideSampled(g)
  BY <1>0, <1>2, SampledIsKept DEF DecideSampled
<1>3. CASE DecideNotSampled(g) \/ KeepLow(s, g) \/ KeepPending(s, g)
  BY <1>3 DEF DecideNotSampled, PutNonSampled, KeepLow, KeepPending, Keep, decisionVars
<1> QED
  BY <1>1, <1>2, <1>3

\* What Keep evicts is in the callback of the listener, which was in none.
LEMMA ProcessEvicts ==
  ASSUME NEW s \in Shards, LifeInv, EvictedIsInCallback, processTraces(s)
  PROVE  EvictedIsInCallback'
<1> DEFINE g == Head(queue[s])
<1> USE DEF LifeInv
<1>1. g \in Groups
  BY HeadAndTail DEF LifeTypeOK, processTraces
<1>2. /\ callback[s] = "none"
      /\ \A r \in Shards : r # s => evicted'[r] = evicted[r] /\ callback'[r] = callback[r]
  BY DealingCallbacks
<1>3. \/ UseDecision(g) \/ DecideSampled(g) \/ DecideNotSampled(g)
      \/ KeepLow(s, g) \/ KeepPending(s, g)
  BY DEF processTraces
<1> HIDE DEF g
<1>4. ASSUME NEW h \in Groups, stage'[h] = "evicted"
      PROVE  stage[h] = "evicted" \/ (h \in evicted'[s] /\ callback'[s] # "none")
  <2>1. CASE UseDecision(g) \/ DecideSampled(g) \/ DecideNotSampled(g)
    BY <1>4, <2>1 DEF UseDecision, DecideSampled, DecideNotSampled, Settle
  <2>2. CASE \E out : Keep(s, g, out)
    <3>1. PICK out : Keep(s, g, out)
      BY <2>2
    <3>2. CASE stage[h] # "evicted"
      <4>1. stage[h] = "cached" /\ TraceOf[h] \in out
        BY <1>4, <3>1, <3>2 DEF Keep
      <4>2. h \in UNION {cachedGroups(t) : t \in out}
        BY <4>1 DEF cachedGroups
      <4>3. evicted'[s] = UNION {cachedGroups(t) : t \in out} /\ callback'[s] = "checkSampled"
        BY <3>1, <4>1 DEF Keep, LifeTypeOK
      <4> QED
        BY <4>2, <4>3
    <3> QED
      BY <3>2
  <2> QED
    BY <1>3, <2>1, <2>2 DEF KeepLow, KeepPending
<1> QED
  BY <1>2, <1>4 DEF EvictedIsInCallback

\* No listener works after the flush has begun, so the decisions it makes and the
\* spans it caches are before the flush.
LEMMA ProcessTracesEnds ==
  ASSUME NEW s \in Shards, LifeInv, EndInv, Alive, processTraces(s)
  PROVE  EndInv'
<1> DEFINE g == Head(queue[s])
           t == TraceOf[g]
<1>1. g \in Groups
  BY HeadAndTail DEF LifeInv, LifeTypeOK, processTraces
<1>2. /\ listener[s] \in {"running", "draining"}
      /\ UNCHANGED <<serviceVars, listener, flushVars>>
      /\ \/ UseDecision(g)
         \/ /\ t \notin ToSet(sampled) \cup ToSet(nonSampled)
            /\ \/ DecideSampled(g) \/ DecideNotSampled(g)
               \/ KeepLow(s, g) \/ KeepPending(s, g)
  BY DEF processTraces
<1>3. Dealt(g)
  BY <1>1, <1>2, UseDecisionDeals, DecideDeals, KeepDeals DEF LifeInv
<1> HIDE DEF g
<1> USE DEF serviceVars, flushVars
<1>4. ~flushBegun
  BY <1>2 DEF EndInv, FlushComesLast
<1>5. ~flushBegun'
  <2>1. \A h \in Groups : stage'[h] \notin {"flushed", "unflushed"}
    BY <1>1, <1>3, <1>4 DEF Dealt, flushBegun
  <2> QED
    BY <1>2, <1>4, <2>1 DEF flushBegun
<1>6. FlushComesLast'
  BY <1>2, <1>5 DEF EndInv, FlushComesLast
<1>7. DecisionsMoveOnce' /\ EvictedIsInCallback'
  BY <1>5, ProcessEvicts DEF EndInv, DecisionsMoveOnce, flushBegun
<1>8. LostAtTheEnd' /\ OnlyLateSpansAreLost' /\ PanicsOnlyBeforeFlush'
  <2>1. \A h \in Groups : stage'[h] = "lost" => stage[h] = "lost"
    BY <1>1, <1>3 DEF Dealt
  <2> QED
    BY <1>2, <2>1, LivingSteps DEF EndInv
<1>9. /\ \A x \in ToSet(sampled) : x \in ToSet(sampled') \/ <<"sampled", x>> \in forgotten'
      /\ forgotten \subseteq forgotten'
      /\ ToSet(sampled') \subseteq ToSet(sampled) \/ DecideSampled(g)
      /\ ToSet(sampled') \subseteq ToSet(sampled) \cup {t}
      /\ taken' = {} /\ taken = {}
  <2>1. \/ UseDecision(g) \/ DecideSampled(g) \/ DecideNotSampled(g)
        \/ KeepLow(s, g) \/ KeepPending(s, g)
    BY <1>2
  <2> QED
    BY <1>1, <1>5, <1>2, <1>4, <2>1, ProcessDecisions DEF flushBegun, LifeInv
<1>10. stage'[g] = "async" => t \in ToSet(sampled)
  BY <1>1, <1>2 DEF UseDecision, DecideSampled, DecideNotSampled, KeepLow, KeepPending,
        Keep, Settle, together, LifeInv, LifeTypeOK
<1>11. AsyncIsSampled'
  <2>1. ASSUME NEW h \in Groups, stage'[h] = "async"
        PROVE  TraceOf[h] \in ToSet(sampled') \/ <<"sampled", TraceOf[h]>> \in forgotten'
    <3>1. h = g \/ stage[h] = "async"
      BY <1>3, <2>1 DEF Dealt
    <3>2. TraceOf[h] \in ToSet(sampled) \/ <<"sampled", TraceOf[h]>> \in forgotten
      BY <1>9, <1>10, <2>1, <3>1 DEF EndInv, AsyncIsSampled
    <3> QED
      BY <1>9, <3>2
  <2> QED
    BY <2>1 DEF AsyncIsSampled
<1>12. ASSUME NEW h \in Groups, stage'[h] = "cached" PROVE TraceOf[h] \notin ToSet(sampled')
  <2>1. h = g \/ stage[h] = "cached"
    BY <1>3, <1>12 DEF Dealt
  <2>2. CASE UseDecision(g)
    <3>1. h # g
      BY <1>1, <1>12, <2>2 DEF UseDecision, Settle, LifeInv, LifeTypeOK
    <3>2. ~DecideSampled(g)
      BY <1>1, <2>2 DEF UseDecision, Settle, DecideSampled, together, LifeInv, LifeTypeOK
    <3> QED
      BY <1>9, <2>1, <3>1, <3>2 DEF EndInv, SampledIsNotFlushed
  <2>3. CASE DecideSampled(g)
    <3>1. h \notin together(g) /\ stage[h] = "cached"
      BY <1>12, <2>3 DEF DecideSampled, Settle
    <3>2. TraceOf[h] # t
      BY <3>1 DEF together, cachedGroups
    <3> QED
      BY <1>9, <3>1, <3>2 DEF EndInv, SampledIsNotFlushed
  <2>4. CASE DecideNotSampled(g)
    <3>1. stage[h] = "cached" /\ sampled' = sampled
      BY <1>12, <2>4 DEF DecideNotSampled, Settle, PutNonSampled
    <3> QED
      BY <3>1 DEF EndInv, SampledIsNotFlushed
  <2>5. CASE t \notin ToSet(sampled) /\ (KeepLow(s, g) \/ KeepPending(s, g))
    <3>1. sampled' = sampled
      BY <2>5 DEF KeepLow, KeepPending, Keep, decisionVars
    <3> QED
      BY <2>1, <2>5, <3>1 DEF EndInv, SampledIsNotFlushed
  <2> QED
    BY <1>2, <2>2, <2>3, <2>4, <2>5
<1>13. SampledIsNotFlushed'
  <2>1. \A h \in Groups : stage'[h] # "flushed"
    BY <1>5 DEF flushBegun
  <2> QED
    BY <1>9, <1>12, <2>1 DEF SampledIsNotFlushed
<1> QED
  BY <1>6, <1>7, <1>8, <1>11, <1>13 DEF EndInv

\* Nor is an eviction callback under way then.
LEMMA CallbackEnds ==
  ASSUME NEW s \in Shards, NEW t \in Traces, LifeInv, EndInv, Alive, CallbackStep(s, t)
  PROVE  EndInv'
<1> USE DEF EndInv
<1>1. /\ callback[s] # "none"
      /\ \A r \in Shards : r # s => evicted'[r] = evicted[r] /\ callback'[r] = callback[r]
      /\ \A h \in Groups : stage'[h] # stage[h] =>
           h \in evicted[s] /\ stage'[h] \in {"vanished", "ruledOut"}
  BY CallbackStages DEF LifeInv
<1>2. UNCHANGED <<serviceVars, listener, queue, tierVars, flushVars>>
  BY DEF CallbackStep
<1> USE DEF serviceVars, flushVars
<1>3. ~flushBegun
  BY <1>1 DEF LifeInv, CallbackRuns, FlushComesLast
<1>4. ~flushBegun'
  BY <1>1, <1>2, <1>3 DEF flushBegun
<1>5. FlushComesLast' /\ DecisionsMoveOnce'
  BY <1>2, <1>4 DEF FlushComesLast, DecisionsMoveOnce, flushBegun
<1>6. LostAtTheEnd' /\ OnlyLateSpansAreLost' /\ PanicsOnlyBeforeFlush'
  BY <1>1, <1>2, LivingSteps
<1>7. ToSet(sampled') = ToSet(sampled) /\ forgotten \subseteq forgotten'
  <2>1. ToSet(Touch(sampled, t)) = ToSet(sampled)
    BY Touched DEF LifeInv, LifeTypeOK
  <2> QED
    BY <2>1 DEF CallbackStep, CallbackCheckSampled, CallbackCheckNonSampled, CallbackRecord,
          PutNonSampled
<1>8. AsyncIsSampled' /\ SampledIsNotFlushed'
  BY <1>1, <1>2, <1>7 DEF AsyncIsSampled, SampledIsNotFlushed
<1>9. EvictedIsInCallback'
  <2>1. \/ evicted'[s] = evicted[s] /\ callback'[s] # "none"
        \/ \A h \in evicted[s] : stage'[h] # "evicted"
    <3>1. CASE \E st \in {"vanished", "ruledOut"} : EndCallback(s, st)
      BY <3>1 DEF EndCallback, Settle, LifeInv, LifeTypeOK
    <3>2. CASE UNCHANGED evicted
               /\ \E c \in Calls \ {"none"} : callback' = [callback EXCEPT ![s] = c]
      BY <3>2 DEF LifeInv, LifeTypeOK
    <3>3. \/ \E st \in {"vanished", "ruledOut"} : EndCallback(s, st)
          \/ UNCHANGED evicted
             /\ \E c \in Calls \ {"none"} : callback' = [callback EXCEPT ![s] = c]
      BY DEF CallbackStep, CallbackCheckSampled, CallbackCheckNonSampled, CallbackRecord, Calls
    <3> QED
      BY <3>1, <3>2, <3>3
  <2> QED
    BY <1>1, <2>1 DEF EvictedIsInCallback
<1> QED
  BY <1>5, <1>6, <1>8, <1>9

LEMMA FlushStepEnds ==
  ASSUME LifeInv, EndInv, Alive, ListenersDone \/ Spawn
  PROVE  EndInv'
<1> USE DEF EndInv, ListenersDone, Spawn, listenVars, callbackVars, cacheVars, tierVars,
            decisionVars
<1>1. FlushComesLast'
  <2>1. CASE ListenersDone
    BY <2>1 DEF FlushComesLast, flushBegun, Return
  <2>2. CASE Spawn
    BY <2>2 DEF LifeInv, FlushKeepsUp, inFlush, FlushComesLast, flushBegun
  <2> QED
    BY <2>1, <2>2
<1>2. DecisionsMoveOnce' /\ AsyncIsSampled' /\ EvictedIsInCallback' /\ SampledIsNotFlushed'
  BY DEF DecisionsMoveOnce, noDecisions, AsyncIsSampled, EvictedIsInCallback,
         SampledIsNotFlushed
<1>3. \A g \in Groups : stage'[g] # "lost"
  BY DEF LostAtTheEnd
<1>4. caller' \notin {"panicked", "exited"}
  BY DEF Return
<1> QED
  BY <1>1, <1>2, <1>3, <1>4 DEF LostAtTheEnd, OnlyLateSpansAreLost, PanicsOnlyBeforeFlush

\* The decisions move from the caches to what has been taken, as a whole.
LEMMA DecisionsEnd ==
  ASSUME LifeTypeOK, EndInv, Alive, TakeDecisions \/ ExportDecisions
  PROVE  EndInv'
<1> USE DEF EndInv, serviceVars, listenVars, callbackVars, cacheVars, tierVars, decisionVars
<1>1. /\ stage' = stage /\ caller' = caller /\ exporting # {}
      /\ UNCHANGED <<serviceVars, listenVars, forgotten, vals>>
  BY DEF TakeDecisions, ExportDecisions
<1>2. FlushComesLast' /\ EvictedIsInCallback'
  BY <1>1 DEF FlushComesLast, flushBegun, EvictedIsInCallback
<1>3. LostAtTheEnd' /\ OnlyLateSpansAreLost' /\ PanicsOnlyBeforeFlush'
  BY <1>1, LivingSteps
<1>4. CASE TakeDecisions
  <2>1. /\ taken = {} /\ noDecisions' /\ ToSet(sampled') = {}
        /\ \A t : <<"sampled", t>> \in taken' <=> t \in ToSet(sampled)
    BY <1>4, NoEntries DEF TakeDecisions, DecisionsMoveOnce, noDecisions
  <2>2. DecisionsMoveOnce' /\ AsyncIsSampled' /\ SampledIsNotFlushed'
    BY <1>1, <2>1 DEF DecisionsMoveOnce, AsyncIsSampled, SampledIsNotFlushed
  <2> QED
    BY <1>2, <1>3, <2>2
<1>5. CASE ExportDecisions
  <2>1. DecisionsMoveOnce' /\ AsyncIsSampled' /\ SampledIsNotFlushed'
    BY <1>1, <1>5 DEF ExportDecisions, DecisionsMoveOnce, noDecisions, AsyncIsSampled,
          SampledIsNotFlushed
  <2> QED
    BY <1>2, <1>3, <2>1
<1> QED
  BY <1>4, <1>5

LEMMA ExportTraceEnds ==
  ASSUME NEW t \in Traces, LifeTypeOK, EndInv, Alive, ExportTrace(t)
  PROVE  EndInv'
<1> USE DEF EndInv, ExportTrace, Settle, serviceVars, listenVars, callbackVars, cacheVars,
            tierVars, decisionVars
<1>1. \A h \in Groups :
        \/ stage'[h] = stage[h]
        \/ stage[h] = "cached" /\ stage'[h] \in {"flushed", "unflushed"}
  BY DEF LifeTypeOK, cachedGroups
<1>2. FlushComesLast'
  BY DEF FlushComesLast, flushBegun
<1>3. DecisionsMoveOnce' /\ AsyncIsSampled' /\ EvictedIsInCallback' /\ SampledIsNotFlushed'
  BY <1>1 DEF DecisionsMoveOnce, noDecisions, AsyncIsSampled, EvictedIsInCallback,
        SampledIsNotFlushed
<1>4. LostAtTheEnd' /\ OnlyLateSpansAreLost' /\ PanicsOnlyBeforeFlush'
  BY <1>1, LivingSteps
<1> QED
  BY <1>2, <1>3, <1>4

\* At the end: after a flush that succeeded only late spans of sampled traces are
\* still in the process, and a second Shutdown panics only if there was no flush.
LEMMA DieEnds ==
  ASSUME LifeInv, EndInv, ShutdownAgain \/ ProcessExits
  PROVE  EndInv'
<1> PICK how \in {"panicked", "exited"} : Die(how)
  BY DEF ShutdownAgain, ProcessExits
<1> USE DEF EndInv, Die, listenVars, callbackVars, cacheVars, tierVars, decisionVars, flushVars
<1>1. /\ \A h \in Groups : stage'[h] = "lost" =>
           stage[h] \in {"queued", "async", "cached", "evicted", "lost"}
      /\ \A h \in Groups : stage'[h] # "lost" => stage'[h] = stage[h]
  BY DEF LifeInv, LifeTypeOK
<1>2. caller = "returned"
  BY DEF ShutdownAgain, ProcessExits
<1>3. FlushComesLast'
  BY <1>1 DEF FlushComesLast, flushBegun
<1>4. /\ DecisionsMoveOnce' /\ AsyncIsSampled' /\ EvictedIsInCallback'
      /\ SampledIsNotFlushed' /\ LostAtTheEnd'
  BY <1>1 DEF DecisionsMoveOnce, noDecisions, AsyncIsSampled, EvictedIsInCallback,
        SampledIsNotFlushed, LostAtTheEnd, Alive
<1>5. PanicsOnlyBeforeFlush'
  <2>1. CASE ShutdownAgain
    BY <2>1 DEF ShutdownAgain, FlushComesLast, flushBegun, PanicsOnlyBeforeFlush
  <2>2. CASE ProcessExits
    BY <2>2 DEF ProcessExits, PanicsOnlyBeforeFlush
  <2> QED
    BY <2>1, <2>2
<1>6. OnlyLateSpansAreLost'
  <2> SUFFICES ASSUME NEW h \in Groups, stage'[h] = "lost", result = "nil", shutdown,
                      FlushOnShutdown
               PROVE  ctxDone \/ <<"sampled", TraceOf[h]>> \in decisionSpans \cup forgotten
    BY DEF OnlyLateSpansAreLost
  <2>1. /\ stage[h] # "cached"
        /\ stage[h] = "queued" => ctxDone
        /\ noDecisions /\ decisionSpans = taken
    BY <1>2, LifeInvImplies DEF SuccessMeansFlushed
  <2>2. stage[h] # "lost"
    BY <1>2 DEF LostAtTheEnd, Alive
  <2>3. stage[h] = "async" => <<"sampled", TraceOf[h]>> \in taken \cup forgotten
    BY <2>1, NoEntries DEF AsyncIsSampled, noDecisions
  <2>4. stage[h] # "evicted"
    <3>1. \A s \in Shards : listener[s] \in {"none", "done"}
      BY <1>2 DEF LifeInv, FlushKeepsUp, inFlush
    <3> QED
      BY <3>1 DEF EvictedIsInCallback, LifeInv, CallbackRuns
  <2> QED
    BY <1>1, <2>1, <2>2, <2>3, <2>4
<1> QED
  BY <1>3, <1>4, <1>5, <1>6

LEMMA EndInvStep == LifeInv /\ EndInv /\ [Next]_vars => EndInv'
<1> SUFFICES ASSUME LifeInv, EndInv, [Next]_vars PROVE EndInv'
  OBVIOUS
<1>1. CASE Start \/ Shutdown \/ (Alive /\ ContextEnds)
  BY <1>1, ServiceEnds DEF Start, Shutdown, Alive
<1>2. CASE \E g \in Groups : ConsumeStep(g) \/ (Alive /\ AsyncSend(g))
  <2>1. PICK g \in Groups : ConsumeStep(g) \/ (Alive /\ AsyncSend(g))
    BY <1>2
  <2>2. ConsumeStep(g) => caller = "started"
    BY DEF ConsumeStep, ConsumeTraces, EarlyCheckSampled, EarlyCheckNonSampled, Send,
           LifeInv, BeforeShutdown
  <2> QED
    BY <2>1, <2>2, ArrivalEnds DEF LifeInv, Alive
<1>3. CASE \E s \in Shards : ListenerStep(s)
  BY <1>3, ProcessTracesEnds, CallbackEnds, ListenerEnds DEF ListenerStep
<1>4. CASE ListenersDone \/ Spawn
  BY <1>4, FlushStepEnds DEF ListenersDone, Spawn, Alive
<1>5. CASE GiveUp \/ FlushNext \/ Join
  BY <1>5, ServiceEnds DEF GiveUp, FlushNext, Join, Alive
<1>6. CASE ExportStep
  BY <1>6, DecisionsEnd, ExportTraceEnds DEF LifeInv, ExportStep
<1>7. CASE ShutdownAgain \/ ProcessExits
  BY <1>7, DieEnds
<1>8. CASE UNCHANGED vars
  BY <1>8 DEF EndInv, FlushComesLast, flushBegun, DecisionsMoveOnce, noDecisions,
        AsyncIsSampled, EvictedIsInCallback, LostAtTheEnd, Alive, PanicsOnlyBeforeFlush,
        OnlyLateSpansAreLost, SampledIsNotFlushed, vars, serviceVars, listenVars,
        callbackVars, cacheVars, tierVars, decisionVars, flushVars
<1> QED
  BY <1>1, <1>2, <1>3, <1>4, <1>5, <1>6, <1>7, <1>8 DEF Next, ShutdownStep, Gone

\* Late spans of traces that were sampled, and what the deadline left in a channel,
\* are all that an exit after a successful flush takes along (processor.go:449); the
\* decision of such a trace has been exported, or had been evicted from its cache.
THEOREM ExitLosesOnlyLateSpans == Spec => []OnlyLateSpansAreLost
<1>1. Init => LifeInv /\ EndInv
  BY LifeInvInit, EndInvInit
<1>2. (LifeInv /\ EndInv) /\ [Next]_vars => (LifeInv /\ EndInv)'
  BY LifeInvStep, EndInvStep
<1>3. LifeInv /\ EndInv => OnlyLateSpansAreLost
  BY DEF EndInv
<1> QED
  BY <1>1, <1>2, <1>3, PTL DEF Spec

\* The second close of the channel (processor.go:219) can only follow a Shutdown
\* that gave up on its listeners.
THEOREM PanicMeansNoFlush == Spec => []PanicsOnlyBeforeFlush
<1>1. Init => LifeInv /\ EndInv
  BY LifeInvInit, EndInvInit
<1>2. (LifeInv /\ EndInv) /\ [Next]_vars => (LifeInv /\ EndInv)'
  BY LifeInvStep, EndInvStep
<1>3. LifeInv /\ EndInv => PanicsOnlyBeforeFlush
  BY DEF EndInv
<1> QED
  BY <1>1, <1>2, <1>3, PTL DEF Spec

\* No trace goes to the next node both as decided and as pending
\* (flushAll, processor.go).
THEOREM DecidedIsNotPending == Spec => []SampledIsNotFlushed
<1>1. Init => LifeInv /\ EndInv
  BY LifeInvInit, EndInvInit
<1>2. (LifeInv /\ EndInv) /\ [Next]_vars => (LifeInv /\ EndInv)'
  BY LifeInvStep, EndInvStep
<1>3. LifeInv /\ EndInv => SampledIsNotFlushed
  BY DEF EndInv
<1> QED
  BY <1>1, <1>2, <1>3, PTL DEF Spec

----------------------------------------------------------------------------
\* What follows is about the two nodes of ScaleDown.  To the node that shuts down
\* the peer is invisible: it takes its own steps, or none.
LEMMA NodeRuns == [ScaleDownNext]_allVars => [Next]_vars
  BY DEF ScaleDownNext, PeerStep, PeerConsumes, PeerChecksSampled, PeerChecksNonSampled,
         PeerProcesses, PeerEvicts, PeerForgets, PeerHears, PeerDeletes, PeerPutsSampled, allVars

----------------------------------------------------------------------------
(* The peer is of one mind *)

PeerStages == {"none", "early", "missed", "queued", "cached", "sent", "ruledOut", "dropped"}

\* While it is at one it neither caches spans of its trace nor gives any up, and
\* what it had given up before was forgotten, or the span would be ignored.
HearsOne ==
  /\ \A a, b \in hearing : a = b
  /\ \A g \in Groups : PeerIsAt(TraceOf[g]) =>
       /\ peer[g] # "cached"
       /\ peer[g] = "ruledOut" => <<"nonSampled", TraceOf[g]>> \in peerForgot

\* What the peer has cached belongs to a trace it has no verdict for: every step
\* that reaches one settles all that is cached of the trace.
PeerInv ==
  /\ peer \in [Groups -> PeerStages]
  /\ HearsOne
  /\ \A g \in Groups : peer[g] = "cached" => ~decided(TraceOf[g])
  /\ PeerIsOfOneMind

LEMMA PeerInvInit == ScaleDownInit => PeerInv
  BY DEF ScaleDownInit, PeerInv, PeerStages, HearsOne, PeerIsAt, decided, PeerIsOfOneMind

\* A set of groups is settled, and everything else stays where it was.
LEMMA PeerSettled ==
  ASSUME NEW G, NEW st \in PeerStages, peer \in [Groups -> PeerStages], PeerSettles(G, st)
  PROVE  /\ peer' \in [Groups -> PeerStages]
         /\ \A h \in Groups : h \in G => peer'[h] = st
         /\ \A h \in Groups : h \notin G => peer'[h] = peer[h]
<1>1. peer' = [h \in Groups |-> IF h \in G THEN st ELSE peer[h]]
  BY DEF PeerSettles
<1> QED
  BY <1>1

\* Spans that arrive, and the early checks of the call that brings them.
LEMMA ConsumesOneMind ==
  ASSUME NEW g \in Groups, PeerInv,
         PeerConsumes(g) \/ PeerChecksSampled(g) \/ PeerChecksNonSampled(g)
  PROVE  PeerInv'
<1>1. PICK st \in {"early", "missed", "sent", "dropped", "queued"} :
        /\ PeerSettles({g}, st)
        /\ st = "sent" => TraceOf[g] \in peerSampled
  BY DEF PeerConsumes, PeerChecksSampled, PeerChecksNonSampled
<1>2. UNCHANGED <<peerDecisions, hearing>>
  BY DEF PeerConsumes, PeerChecksSampled, PeerChecksNonSampled
<1>3. /\ peer' \in [Groups -> PeerStages] /\ peer'[g] = st
      /\ \A h \in Groups : h # g => peer'[h] = peer[h]
  BY <1>1, PeerSettled DEF PeerInv, PeerStages
<1>4. HearsOne'
  BY <1>2, <1>3 DEF PeerInv, HearsOne, PeerIsAt, peerDecisions
<1> QED
  BY <1>1, <1>2, <1>3, <1>4 DEF PeerInv, PeerIsOfOneMind, PeerIsAt, decided, peerDecisions

\* The four ways in which the peer deals with what it received.
Follows(g) ==
  /\ decided(TraceOf[g])
  /\ PeerSettles({g}, IF TraceOf[g] \in peerSampled THEN "sent" ELSE "ruledOut")
  /\ UNCHANGED <<peerSampled, peerNonSampled>>
Samples(g) ==
  /\ ~decided(TraceOf[g])
  /\ peerSampled' = peerSampled \cup {TraceOf[g]}
  /\ PeerSettles({g} \cup cachedAtPeer(TraceOf[g]), "sent")
  /\ UNCHANGED peerNonSampled
RulesOut(g) ==
  /\ ~decided(TraceOf[g])
  /\ peerNonSampled' = peerNonSampled \cup {TraceOf[g]}
  /\ PeerSettles({g} \cup cachedAtPeer(TraceOf[g]), "ruledOut")
  /\ UNCHANGED peerSampled
Caches(g) ==
  /\ ~decided(TraceOf[g])
  /\ PeerSettles({g}, "cached")
  /\ UNCHANGED <<peerSampled, peerNonSampled>>

LEMMA PeerWays ==
  ASSUME NEW g \in Groups, PeerProcesses(g)
  PROVE  /\ peer[g] = "queued" /\ PeerListens /\ UNCHANGED <<vars, peerForgot, heard, hearing>>
         /\ Follows(g) \/ Samples(g) \/ RulesOut(g) \/ Caches(g)
  BY DEF PeerProcesses, Follows, Samples, RulesOut, Caches

LEMMA ProcessesOneMind ==
  ASSUME NEW g \in Groups, PeerInv, PeerProcesses(g)
  PROVE  PeerInv'
<1> DEFINE t == TraceOf[g]
           C == cachedAtPeer(t)
<1> USE DEF PeerInv
<1>1. \A h \in Groups : peer[h] = "cached" /\ TraceOf[h] = t => h \in C
  BY DEF cachedAtPeer
<1>2. \A h \in C : TraceOf[h] = t
  BY DEF cachedAtPeer
<1>7. hearing = {} /\ UNCHANGED <<peerForgot, hearing>>
  BY PeerWays DEF PeerListens
<1>8. HearsOne'
  BY <1>7 DEF HearsOne, PeerIsAt
<1>3. CASE Follows(g)
  <2>1. /\ peer' \in [Groups -> PeerStages]
        /\ peer'[g] = IF t \in peerSampled THEN "sent" ELSE "ruledOut"
        /\ \A h \in Groups : h # g => peer'[h] = peer[h]
    <3>1. (IF t \in peerSampled THEN "sent" ELSE "ruledOut") \in PeerStages
      BY DEF PeerStages
    <3> QED
      BY <1>3, <3>1, PeerSettled DEF Follows
  <2> QED
    BY <1>3, <2>1, <1>7, <1>8 DEF Follows, decided, PeerIsOfOneMind, PeerIsAt
<1>4. CASE Samples(g)
  <2>1. /\ peer' \in [Groups -> PeerStages]
        /\ \A h \in Groups : h \in {g} \cup C => peer'[h] = "sent"
        /\ \A h \in Groups : h \notin {g} \cup C => peer'[h] = peer[h]
    BY <1>4, PeerSettled DEF Samples, PeerStages
  <2> QED
    BY <1>1, <1>2, <1>4, <2>1, <1>7, <1>8 DEF Samples, decided, PeerIsOfOneMind, PeerIsAt
<1>5. CASE RulesOut(g)
  <2>1. /\ peer' \in [Groups -> PeerStages]
        /\ \A h \in Groups : h \in {g} \cup C => peer'[h] = "ruledOut"
        /\ \A h \in Groups : h \notin {g} \cup C => peer'[h] = peer[h]
    BY <1>5, PeerSettled DEF RulesOut, PeerStages
  <2> QED
    BY <1>1, <1>2, <1>5, <2>1, <1>7, <1>8 DEF RulesOut, decided, PeerIsOfOneMind, PeerIsAt
<1>6. CASE Caches(g)
  <2>1. /\ peer' \in [Groups -> PeerStages] /\ peer'[g] = "cached"
        /\ \A h \in Groups : h # g => peer'[h] = peer[h]
    BY <1>6, PeerSettled DEF Caches, PeerStages
  <2> QED
    BY <1>6, <2>1, <1>7, <1>8 DEF Caches, decided, PeerIsOfOneMind, PeerIsAt
<1> QED
  BY <1>3, <1>4, <1>5, <1>6, PeerWays

LEMMA EvictsOneMind ==
  ASSUME NEW t \in Traces, PeerInv, PeerEvicts(t)
  PROVE  PeerInv'
<1> USE DEF PeerInv, PeerEvicts
<1>1. /\ peer' \in [Groups -> PeerStages]
      /\ \A h \in Groups : h \in cachedAtPeer(t) => peer'[h] = "ruledOut"
      /\ \A h \in Groups : h \notin cachedAtPeer(t) => peer'[h] = peer[h]
  BY PeerSettled DEF PeerStages
<1>2. \A h \in Groups : h \in cachedAtPeer(t) <=> peer[h] = "cached" /\ TraceOf[h] = t
  BY DEF cachedAtPeer
<1>3. \E h \in Groups : h \in cachedAtPeer(t)
  BY DEF cachedAtPeer
<1>4. ~decided(t)
  BY <1>2, <1>3
<1>5. HearsOne'
  BY DEF PeerListens, HearsOne, PeerIsAt
<1> QED
  BY <1>1, <1>2, <1>4, <1>5 DEF decided, PeerListens, PeerIsOfOneMind, PeerIsAt

\* A decision that is forgotten is remembered as such.
LEMMA ForgetsOneMind ==
  ASSUME NEW t \in Traces, PeerInv, PeerForgets(t)
  PROVE  PeerInv'
<1> USE DEF PeerInv, PeerForgets
<1>1. HearsOne'
  BY DEF PeerListens, HearsOne, PeerIsAt
<1> QED
  BY <1>1 DEF decided, PeerListens, PeerIsOfOneMind, PeerIsAt

LEMMA HearsOneMind ==
  ASSUME NEW d, PeerInv, PeerHears(d)
  PROVE  PeerInv'
<1> DEFINE t == d[2]
<1> USE DEF PeerInv
<1>1. \A h \in Groups : h \in cachedAtPeer(t) <=> peer[h] = "cached" /\ TraceOf[h] = t
  BY DEF cachedAtPeer
<1>2. hearing = {} /\ UNCHANGED <<peerSampled, peerForgot>>
  BY DEF PeerHears, PeerListens
<1>3. CASE decided(t) /\ UNCHANGED <<peer, peerNonSampled, hearing>>
  BY <1>2, <1>3 DEF decided, HearsOne, PeerIsAt, PeerIsOfOneMind
<1>4. CASE /\ ~decided(t)
           /\ PeerSettles(cachedAtPeer(t), "sent")
           /\ hearing' = {<<IF cachedAtPeer(t) = {} THEN "put" ELSE "delete", t>>}
           /\ UNCHANGED peerNonSampled
  <2>1. /\ peer' \in [Groups -> PeerStages]
        /\ \A h \in Groups : h \in cachedAtPeer(t) => peer'[h] = "sent"
        /\ \A h \in Groups : h \notin cachedAtPeer(t) => peer'[h] = peer[h]
    BY <1>4, PeerSettled DEF PeerStages
  <2>2. PICK c \in {"put", "delete"} : hearing' = {<<c, t>>}
    BY <1>4
  <2>3. \A u : PeerIsAt(u)' <=> u = t
    BY <2>2 DEF PeerIsAt
  <2>4. \A h \in Groups : TraceOf[h] = t /\ peer[h] = "ruledOut" =>
          <<"nonSampled", t>> \in peerForgot
    BY <1>4 DEF decided, PeerIsOfOneMind, PeerIsAt
  <2>5. HearsOne'
    BY <1>1, <1>2, <2>1, <2>2, <2>3, <2>4 DEF HearsOne
  <2>6. \A h \in Groups : peer'[h] = "sent" =>
          \/ TraceOf[h] = t
          \/ TraceOf[h] \in peerSampled \/ <<"sampled", TraceOf[h]>> \in peerForgot
    BY <1>1, <1>2, <2>1 DEF PeerIsOfOneMind, PeerIsAt
  <2>7. PeerIsOfOneMind'
    BY <1>2, <1>4, <2>1, <2>3, <2>6 DEF PeerIsOfOneMind, PeerIsAt
  <2> QED
    BY <1>1, <1>2, <1>4, <2>1, <2>5, <2>7 DEF decided
<1>5. CASE /\ ~decided(t)
           /\ PeerSettles(cachedAtPeer(t), "ruledOut")
           /\ peerNonSampled' = peerNonSampled \cup {t}
           /\ UNCHANGED hearing
  <2>1. /\ peer' \in [Groups -> PeerStages]
        /\ \A h \in Groups : h \in cachedAtPeer(t) => peer'[h] = "ruledOut"
        /\ \A h \in Groups : h \notin cachedAtPeer(t) => peer'[h] = peer[h]
    BY <1>5, PeerSettled DEF PeerStages
  <2>2. HearsOne'
    BY <1>2, <1>5 DEF HearsOne, PeerIsAt
  <2> QED
    BY <1>1, <1>2, <1>5, <2>1, <2>2 DEF decided, PeerIsOfOneMind, PeerIsAt
<1> QED
  BY <1>3, <1>4, <1>5 DEF PeerHears

\* The rest of a positive decision span.
LEMMA PutsOneMind ==
  ASSUME NEW t, PeerInv, PeerDeletes(t) \/ PeerPutsSampled(t)
  PROVE  PeerInv'
<1> USE DEF PeerInv
<1>1. /\ PeerIsAt(t) /\ \A u : PeerIsAt(u) => u = t
      /\ UNCHANGED <<peer, peerForgot>>
  BY DEF PeerDeletes, PeerPutsSampled, HearsOne, PeerIsAt
<1>2. \A h \in Groups : TraceOf[h] = t =>
        /\ peer[h] # "cached"
        /\ peer[h] = "ruledOut" => <<"nonSampled", t>> \in peerForgot
  BY <1>1 DEF HearsOne
<1>3. CASE PeerDeletes(t)
  <2>1. \A u : PeerIsAt(u)' <=> u = t
    BY <1>3 DEF PeerDeletes, PeerIsAt
  <2>2. HearsOne'
    BY <1>1, <1>2, <1>3, <2>1 DEF PeerDeletes, HearsOne
  <2> QED
    BY <1>1, <1>2, <1>3, <2>1, <2>2 DEF PeerDeletes, decided, PeerIsOfOneMind, PeerIsAt
<1>4. CASE PeerPutsSampled(t)
  <2>1. HearsOne'
    BY <1>4 DEF PeerPutsSampled, HearsOne, PeerIsAt
  <2>2. \A h \in Groups : peer[h] = "sent" /\ TraceOf[h] # t =>
          TraceOf[h] \in peerSampled \/ <<"sampled", TraceOf[h]>> \in peerForgot
    BY <1>1 DEF PeerIsOfOneMind, PeerIsAt
  <2> QED
    BY <1>1, <1>2, <1>4, <2>1, <2>2 DEF PeerPutsSampled, decided, PeerIsOfOneMind, PeerIsAt
<1> QED
  BY <1>3, <1>4

LEMMA PeerInvStep == PeerInv /\ [ScaleDownNext]_allVars => PeerInv'
<1> SUFFICES ASSUME PeerInv, [ScaleDownNext]_allVars PROVE PeerInv'
  OBVIOUS
<1>1. CASE PeerStep
  BY <1>1, ConsumesOneMind, ProcessesOneMind, HearsOneMind, PutsOneMind DEF PeerStep
<1>2. CASE \E t \in Traces : PeerEvicts(t) \/ PeerForgets(t)
  BY <1>2, EvictsOneMind, ForgetsOneMind
<1>3. CASE UNCHANGED peerVars
  BY <1>3 DEF PeerInv, HearsOne, PeerIsAt, PeerIsOfOneMind, decided, peerVars, peerDecisions
<1> QED
  BY <1>1, <1>2, <1>3 DEF ScaleDownNext, PeerRests, allVars, peerVars

\* Whatever order decision spans and spans arrive in, and whatever a peer of one
\* listener decides, evicts or forgets meanwhile, what its listener made of a
\* trace's spans is what it has recorded of it (processor.go:434-435), or had.
THEOREM PeerKeepsItsWord == ScaleDownSpec => []PeerIsOfOneMind
<1>1. ScaleDownInit => PeerInv
  BY PeerInvInit
<1>2. PeerInv /\ [ScaleDownNext]_allVars => PeerInv'
  BY PeerInvStep
<1>3. PeerInv => PeerIsOfOneMind
  BY DEF PeerInv
<1> QED
  BY <1>1, <1>2, <1>3, PTL DEF ScaleDownSpec

----------------------------------------------------------------------------
(* What the node that shuts down holds, and what it hands over *)

Verdicts == {"sampled", "nonSampled"} \X Traces

Once(q) == \A i, j \in 1..Len(q) : q[i] = q[j] => i = j

\* A group waits once, in the channel of its trace's shard.
InLine ==
  /\ \A s \in Shards : Once(queue[s])
  /\ Alive => \A s \in Shards : \A g \in ToSet(queue[s]) :
       stage[g] = "queued" /\ ShardOf[TraceOf[g]] = s

WithinSize == Len(primary) <= PrimarySize /\ Len(secondary) <= SecondarySize

OfTraces == taken \subseteq Verdicts /\ decisionSpans \subseteq Verdicts

OneListener == \A r, s \in Shards : r = s

\* With one listener nobody samples a trace whose eviction is being recorded.
CallbackIsAlone ==
  \A s \in Shards : callback[s] # "none" =>
    /\ callback[s] # "touchNonSampled"
    /\ Alive => \A h \in evicted[s] : stage[h] = "evicted" /\ TraceOf[h] \notin ToSet(sampled)

NodeInv == InLine /\ WithinSize /\ OfTraces /\ CallbackIsAlone

LEMMA NodeInvInit == Init => NodeInv
<1> SUFFICES ASSUME Init PROVE NodeInv
  OBVIOUS
<1>1. InLine
  BY NoEntries DEF Init, InLine, Once
<1>2. WithinSize
  BY LifecycleAssumption DEF Init, WithinSize
<1>3. OfTraces /\ CallbackIsAlone
  BY DEF Init, OfTraces, CallbackIsAlone
<1> QED
  BY <1>1, <1>2, <1>3 DEF NodeInv

\* Of the groups other than the one that is dealt with, only cached ones move.
LEMMA OthersCached ==
  ASSUME NEW s \in Shards, NEW g \in Groups, LifeTypeOK,
         \/ UseDecision(g) \/ DecideSampled(g) \/ DecideNotSampled(g)
         \/ KeepLow(s, g) \/ KeepPending(s, g)
  PROVE  \A h \in Groups : h # g /\ stage'[h] # stage[h] => stage[h] = "cached"
<1>1. CASE UseDecision(g)
  BY <1>1 DEF UseDecision, Settle, LifeTypeOK
<1>2. CASE DecideSampled(g)
  BY <1>2 DEF DecideSampled, Settle, LifeTypeOK, together, cachedGroups
<1>3. CASE DecideNotSampled(g)
  BY <1>3 DEF DecideNotSampled, Settle, LifeTypeOK, together, cachedGroups
<1>4. CASE KeepLow(s, g) \/ KeepPending(s, g)
  BY <1>4 DEF KeepLow, KeepPending, Keep, LifeTypeOK
<1> QED
  BY <1>1, <1>2, <1>3, <1>4

\* Without its first entry a channel has no repetition either, and with a new
\* last one.
LEMMA TailOnce ==
  ASSUME NEW S, NEW q \in Seq(S), q # <<>>, Once(q)
  PROVE  Once(Tail(q)) /\ \A x \in ToSet(Tail(q)) : x \in ToSet(q) /\ x # Head(q)
<1>1. /\ Tail(q) \in Seq(S) /\ Len(Tail(q)) = Len(q) - 1 /\ Head(q) = q[1]
      /\ \A i \in 1..(Len(q) - 1) : Tail(q)[i] = q[i + 1]
      /\ Len(q) \in Nat /\ Len(q) # 0
  OBVIOUS
<1>2. ASSUME NEW r, r = Tail(q) PROVE Once(r) /\ \A x \in ToSet(r) : x \in ToSet(q) /\ x # Head(q)
  <2>1. /\ r \in Seq(S) /\ Len(r) = Len(q) - 1
        /\ \A i \in 1..(Len(q) - 1) : r[i] = q[i + 1]
    BY <1>1, <1>2
  <2>2. ASSUME NEW i \in 1..Len(r), NEW j \in 1..Len(r), r[i] = r[j] PROVE i = j
    <3>1. i + 1 \in 1..Len(q) /\ j + 1 \in 1..Len(q) /\ q[i + 1] = q[j + 1]
      BY <1>1, <2>1, <2>2
    <3> QED
      BY <3>1 DEF Once
  <2>3. ASSUME NEW x \in ToSet(r) PROVE x \in ToSet(q) /\ x # Head(q)
    <3>1. PICK i \in 1..Len(r) : r[i] = x
      BY <2>1, ToSetDef
    <3>2. i + 1 \in 1..Len(q) /\ q[i + 1] = x /\ 1 \in 1..Len(q) /\ i + 1 # 1
      BY <1>1, <2>1, <3>1
    <3> QED
      BY <1>1, <3>2, ToSetDef DEF Once
  <2> QED
    BY <2>2, <2>3 DEF Once
<1> QED
  BY <1>2

LEMMA AppendOnce ==
  ASSUME NEW S, NEW q \in Seq(S), NEW e \in S, e \notin ToSet(q), Once(q)
  PROVE  Once(Append(q, e))
<1>1. /\ Len(Append(q, e)) = Len(q) + 1 /\ Len(q) \in Nat
      /\ \A i \in 1..Len(q) : Append(q, e)[i] = q[i]
      /\ Append(q, e)[Len(q) + 1] = e
  OBVIOUS
<1>2. \A i \in 1..Len(q) : q[i] # e
  BY ToSetDef
<1>3. ASSUME NEW r, r = Append(q, e) PROVE Once(r)
  <2>1. SUFFICES ASSUME NEW i \in 1..Len(r), NEW j \in 1..Len(r), r[i] = r[j] PROVE i = j
    BY DEF Once
  <2>2. /\ i = Len(q) + 1 \/ i \in 1..Len(q)
        /\ j = Len(q) + 1 \/ j \in 1..Len(q)
    BY <1>1, <1>3
  <2> QED
    BY <1>1, <1>2, <1>3, <2>1, <2>2 DEF Once
<1> QED
  BY <1>3

\* The steps of the node that neither take a group in nor out of a channel.
CalmNode ==
  /\ queue' = queue /\ primary' = primary /\ secondary' = secondary
  /\ Alive' => Alive /\ \A h \in Groups : stage[h] = "queued" => stage'[h] = "queued"

LEMMA CalmSteps ==
  ASSUME LifeTypeOK, CallbackIsAlone,
         \/ Start \/ Shutdown \/ (Alive /\ ContextEnds)
         \/ \E g \in Groups :
              ConsumeTraces(g) \/ EarlyCheckSampled(g) \/ EarlyCheckNonSampled(g)
         \/ \E g \in Groups : Alive /\ AsyncSend(g)
         \/ \E s \in Shards : Alive /\ (SeeShutdown(s) \/ ListenerReturns(s))
         \/ \E s \in Shards : \E t \in Traces : Alive /\ CallbackStep(s, t)
         \/ ShutdownStep \/ ExportStep \/ ShutdownAgain \/ ProcessExits \/ UNCHANGED vars
  PROVE  CalmNode
<1> USE DEF listenVars, callbackVars, cacheVars, tierVars, flushVars, serviceVars, Alive
<1>1. CASE Start \/ Shutdown \/ (Alive /\ ContextEnds)
  BY <1>1 DEF Start, Shutdown, ContextEnds, Return, CalmNode
<1>2. CASE \E g \in Groups : Alive /\ AsyncSend(g)
  BY <1>2 DEF AsyncSend, Settle, CalmNode, LifeTypeOK
<1>3. CASE \E s \in Shards : Alive /\ (SeeShutdown(s) \/ ListenerReturns(s))
  BY <1>3 DEF SeeShutdown, ListenerReturns, CalmNode
<1>4. CASE ShutdownStep
  BY <1>4 DEF ShutdownStep, ListenersDone, GiveUp, FlushNext, Spawn, Join, Return, CalmNode
<1>5. CASE ExportStep
  <2>1. CASE TakeDecisions \/ ExportDecisions
    BY <1>5, <2>1 DEF ExportStep, TakeDecisions, ExportDecisions, CalmNode
  <2>2. CASE \E t \in Traces : ExportTrace(t)
    BY <1>5, <2>2 DEF ExportStep, ExportTrace, Settle, cachedGroups, CalmNode, LifeTypeOK
  <2> QED
    BY <1>5, <2>1, <2>2 DEF ExportStep
<1>6. CASE ShutdownAgain \/ ProcessExits
  BY <1>6 DEF ShutdownAgain, ProcessExits, Die, CalmNode
<1>7. CASE UNCHANGED vars
  BY <1>7 DEF vars, CalmNode
<1>8. CASE \E g \in Groups :
             ConsumeTraces(g) \/ EarlyCheckSampled(g) \/ EarlyCheckNonSampled(g)
  <2>1. PICK g \in Groups :
               ConsumeTraces(g) \/ EarlyCheckSampled(g) \/ EarlyCheckNonSampled(g)
    BY <1>8
  <2>2. UNCHANGED <<serviceVars, listenVars, tierVars>>
    BY <2>1 DEF ConsumeTraces, EarlyCheckSampled, EarlyCheckNonSampled
  <2>3. /\ stage[g] \in {"new", "early", "missed"}
        /\ \A h \in Groups : h # g => stage'[h] = stage[h]
    BY <2>1, EarlyChecksTouch
  <2> QED
    BY <2>2, <2>3 DEF CalmNode
<1>9. CASE \E s \in Shards : \E t \in Traces : Alive /\ CallbackStep(s, t)
  <2>1. PICK s \in Shards, t \in Traces : Alive /\ CallbackStep(s, t)
    BY <1>9
  <2>2. UNCHANGED <<serviceVars, queue, tierVars>>
    BY <2>1 DEF CallbackStep
  <2>3. callback[s] # "none" /\ \A h \in Groups : stage'[h] # stage[h] => h \in evicted[s]
    BY <2>1, CallbackStages
  <2>4. \A h \in Groups : stage'[h] # stage[h] => stage[h] = "evicted"
    BY <2>1, <2>3 DEF CallbackIsAlone
  <2> QED
    BY <2>2, <2>4 DEF CalmNode
<1> QED
  BY <1>1, <1>2, <1>3, <1>4, <1>5, <1>6, <1>7, <1>8, <1>9

LEMMA SendInLine ==
  ASSUME NEW g \in Groups, LifeInv, InLine, Send(g)
  PROVE  InLine'
<1> DEFINE sh == ShardOf[TraceOf[g]]
           q == queue[sh]
<1> USE DEF Send, serviceVars, cacheVars, tierVars, decisionVars, flushVars
<1>1. LifeTypeOK /\ sh \in Shards /\ q \in Seq(Groups) /\ Alive
  <2>1. caller = "started"
    BY DEF LifeInv, BeforeShutdown
  <2> QED
    BY <2>1, LifecycleAssumption DEF LifeInv, LifeTypeOK, Alive
<1>2. g \notin ToSet(q)
  BY <1>1 DEF InLine
<1>3. /\ queue'[sh] = Append(q, g)
      /\ \A s \in Shards : s # sh => queue'[s] = queue[s]
  BY <1>1 DEF LifeTypeOK
<1>4. /\ stage'[g] = "queued"
      /\ \A h \in Groups : stage[h] = "queued" => stage'[h] = "queued"
  BY <1>1 DEF LifeTypeOK, Settle
<1>5. ToSet(Append(q, g)) = ToSet(q) \cup {g}
  BY <1>1, AppendEntries
<1>6. Once(Append(q, g))
  BY <1>1, <1>2, AppendOnce DEF InLine
<1>7. ASSUME NEW s \in Shards PROVE Once(queue'[s])
  <2>1. CASE s = sh
    BY <1>3, <1>6, <2>1
  <2>2. CASE s # sh
    BY <1>3, <2>2 DEF InLine
  <2> QED
    BY <2>1, <2>2
<1>8. ASSUME NEW s \in Shards, NEW h \in ToSet(queue'[s])
      PROVE  stage'[h] = "queued" /\ ShardOf[TraceOf[h]] = s
  <2>1. h \in Groups
    <3>1. queue[s] \in Seq(Groups) /\ Append(q, g) \in Seq(Groups)
      BY <1>1 DEF LifeTypeOK
    <3> QED
      BY <1>3, <1>5, <1>8, <3>1, ToSetDef
  <2>2. CASE h \in ToSet(queue[s])
    BY <1>1, <1>4, <2>1, <2>2 DEF InLine
  <2>3. CASE s = sh /\ h = g
    BY <1>4, <2>3
  <2> QED
    BY <1>3, <1>5, <1>8, <2>2, <2>3
<1> QED
  BY <1>7, <1>8 DEF InLine

LEMMA ProcessInLine ==
  ASSUME NEW s \in Shards, LifeInv, InLine, Alive, processTraces(s)
  PROVE  InLine'
<1> DEFINE g == Head(queue[s])
<1>1. queue[s] \in Seq(Groups) /\ queue[s] # <<>> /\ g \in Groups
  BY HeadAndTail DEF LifeInv, LifeTypeOK, processTraces
<1>2. /\ queue'[s] = Tail(queue[s])
      /\ \A r \in Shards : r # s => queue'[r] = queue[r]
  BY DEF processTraces, LifeInv, LifeTypeOK
<1>3. /\ Once(Tail(queue[s]))
      /\ \A x \in ToSet(Tail(queue[s])) : x \in ToSet(queue[s]) /\ x # g
  BY <1>1, TailOnce DEF InLine
<1>4. \A h \in Groups : h # g /\ stage[h] = "queued" => stage'[h] = "queued"
  BY <1>1, OthersCached DEF processTraces, LifeInv
<1>5. stage[g] = "queued" /\ ShardOf[TraceOf[g]] = s
  <2>1. g \in ToSet(queue[s])
    BY <1>1, ToSetDef
  <2> QED
    BY <2>1 DEF InLine
<1> HIDE DEF g
<1>6. ASSUME NEW r \in Shards PROVE Once(queue'[r])
  <2>1. CASE r = s
    BY <1>2, <1>3, <2>1
  <2>2. CASE r # s
    BY <1>2, <2>2 DEF InLine
  <2> QED
    BY <2>1, <2>2
<1>7. ASSUME NEW r \in Shards, NEW h \in ToSet(queue'[r])
      PROVE  stage'[h] = "queued" /\ ShardOf[TraceOf[h]] = r
  <2>1. h \in ToSet(queue[r]) /\ h # g
    <3>1. CASE r = s
      BY <1>2, <1>3, <1>7, <3>1
    <3>2. CASE r # s
      <4>1. h \in ToSet(queue[r])
        BY <1>2, <1>7, <3>2
      <4> QED
        BY <1>5, <3>2, <4>1 DEF InLine
    <3> QED
      BY <3>1, <3>2
  <2>2. h \in Groups
    BY <2>1, ToSetDef DEF LifeInv, LifeTypeOK
  <2> QED
    BY <1>4, <2>1, <2>2 DEF InLine
<1> QED
  BY <1>6, <1>7 DEF InLine

LEMMA CalmInLine ==
  ASSUME LifeTypeOK, InLine, CalmNode
  PROVE  InLine'
<1>1. ASSUME NEW s \in Shards PROVE Once(queue'[s])
  BY DEF InLine, CalmNode
<1>2. ASSUME Alive', NEW s \in Shards, NEW g \in ToSet(queue'[s])
      PROVE  stage'[g] = "queued" /\ ShardOf[TraceOf[g]] = s
  <2>1. g \in ToSet(queue[s])
    BY <1>2 DEF CalmNode
  <2>2. g \in Groups
    BY <2>1, ToSetDef DEF LifeTypeOK
  <2> QED
    BY <1>2, <2>1, <2>2 DEF InLine, CalmNode
<1> QED
  BY <1>1, <1>2 DEF InLine

\* The group a listener takes is one that waits.
LEMMA FirstInLine ==
  ASSUME NEW s \in Shards, LifeInv, InLine, Alive, processTraces(s)
  PROVE  Head(queue[s]) \in Groups /\ stage[Head(queue[s])] = "queued"
<1>1. queue[s] \in Seq(Groups) /\ queue[s] # <<>>
  BY DEF LifeInv, LifeTypeOK, processTraces
<1>2. Head(queue[s]) \in Groups /\ Head(queue[s]) \in ToSet(queue[s])
  BY <1>1, HeadAndTail, ToSetDef
<1> QED
  BY <1>2 DEF InLine

\* A tier is trimmed whenever an entry is put into it, and otherwise shrinks.
LEMMA ProcessWithinSize ==
  ASSUME NEW s \in Shards, LifeInv, WithinSize, processTraces(s)
  PROVE  WithinSize'
<1> DEFINE g == Head(queue[s])
           t == TraceOf[g]
<1>1. t \in Traces /\ primary \in Seq(Traces) /\ secondary \in Seq(Traces)
  BY HeadAndTail, LifecycleAssumption DEF LifeInv, LifeTypeOK, processTraces
<1>2. /\ Len(RemoveFirst(primary, t)) <= PrimarySize
      /\ Len(RemoveFirst(secondary, t)) <= SecondarySize
  <2>1. /\ Len(RemoveFirst(primary, t)) <= Len(primary)
        /\ Len(RemoveFirst(secondary, t)) <= Len(secondary)
        /\ Len(RemoveFirst(primary, t)) \in Nat /\ Len(RemoveFirst(secondary, t)) \in Nat
    BY <1>1, RemoveFirstProperties
  <2> QED
    BY <1>1, <2>1, LifecycleAssumption DEF WithinSize
<1>3. /\ Refresh(primary, t) \in Seq(Traces) /\ Refresh(secondary, t) \in Seq(Traces)
  BY <1>1, RefreshEntries
<1>4. /\ Len(Trim(Refresh(primary, t), PrimarySize)) <= PrimarySize
      /\ Len(Trim(Refresh(secondary, t), SecondarySize)) <= SecondarySize
  BY <1>3, TrimEntries, LifecycleAssumption
<1>5. \/ UseDecision(g) \/ DecideSampled(g) \/ DecideNotSampled(g)
      \/ KeepLow(s, g) \/ KeepPending(s, g)
  BY DEF processTraces
<1> HIDE DEF g
<1>6. CASE UseDecision(g)
  BY <1>6 DEF UseDecision, cacheVars, tierVars, WithinSize
<1>7. CASE DecideSampled(g) \/ DecideNotSampled(g)
  BY <1>2, <1>7 DEF DecideSampled, DecideNotSampled, Release, WithinSize
<1>8. CASE KeepLow(s, g)
  BY <1>4, <1>8 DEF KeepLow, WithinSize
<1>9. CASE KeepPending(s, g)
  BY <1>2, <1>4, <1>9 DEF KeepPending, WithinSize
<1> QED
  BY <1>5, <1>6, <1>7, <1>8, <1>9

LEMMA OfTracesKept ==
  ASSUME LifeTypeOK, OfTraces, [Next]_vars
  PROVE  OfTraces'
<1>1. CASE UNCHANGED <<taken, decisionSpans>>
  BY <1>1 DEF OfTraces
<1>2. CASE TakeDecisions
  <2>1. ToSet(sampled) \subseteq Traces /\ ToSet(nonSampled) \subseteq Traces
    BY ToSetDef DEF LifeTypeOK
  <2> QED
    BY <1>2, <2>1 DEF TakeDecisions, OfTraces, Verdicts
<1>3. CASE ExportDecisions
  BY <1>3 DEF ExportDecisions, OfTraces
<1>4. ASSUME NEW g \in Groups, ConsumeStep(g) \/ AsyncSend(g)
      PROVE  UNCHANGED <<taken, decisionSpans>>
  BY <1>4 DEF ConsumeStep, ConsumeTraces, EarlyCheckSampled, EarlyCheckNonSampled, Send,
        AsyncSend, flushVars
<1>5. ASSUME NEW s \in Shards, ListenerStep(s) PROVE UNCHANGED <<taken, decisionSpans>>
  BY <1>5 DEF ListenerStep, processTraces, SeeShutdown, ListenerReturns, CallbackStep, flushVars
<1>6. ASSUME NEW t \in Traces, ExportTrace(t) PROVE UNCHANGED <<taken, decisionSpans>>
  BY <1>6 DEF ExportTrace
<1>7. CASE Start \/ Shutdown \/ ContextEnds \/ ShutdownStep \/ ShutdownAgain \/ ProcessExits
           \/ UNCHANGED vars
  BY <1>7, <1>1 DEF Start, Shutdown, ContextEnds, ShutdownStep, ListenersDone, GiveUp,
        FlushNext, Spawn, Join, ShutdownAgain, ProcessExits, Die, vars, flushVars
<1> QED
  BY <1>1, <1>2, <1>3, <1>4, <1>5, <1>6, <1>7 DEF Next, ExportStep, Gone

\* The steps of others than the listener neither touch its callback nor sample a
\* trace.
LEMMA OthersLeaveCallback ==
  ASSUME CallbackIsAlone, UNCHANGED callbackVars, ToSet(sampled') \subseteq ToSet(sampled),
         Alive' => Alive /\ \A h \in Groups : stage[h] = "evicted" => stage'[h] = "evicted",
         LifeTypeOK
  PROVE  CallbackIsAlone'
<1> SUFFICES ASSUME NEW s \in Shards, callback'[s] # "none"
             PROVE  /\ callback'[s] # "touchNonSampled"
                    /\ Alive' => \A h \in evicted'[s] :
                                   stage'[h] = "evicted" /\ TraceOf[h] \notin ToSet(sampled')
  BY DEF CallbackIsAlone
<1>1. evicted'[s] = evicted[s] /\ callback'[s] = callback[s] /\ evicted[s] \subseteq Groups
  BY DEF callbackVars, LifeTypeOK
<1> QED
  BY <1>1 DEF CallbackIsAlone

LEMMA CalmCallback ==
  ASSUME LifeTypeOK, CallbackIsAlone,
         \/ Start \/ Shutdown \/ (Alive /\ ContextEnds)
         \/ \E g \in Groups : ConsumeStep(g) \/ (Alive /\ AsyncSend(g))
         \/ \E s \in Shards : Alive /\ (SeeShutdown(s) \/ ListenerReturns(s))
         \/ ShutdownStep \/ ExportStep \/ ShutdownAgain \/ ProcessExits \/ UNCHANGED vars
  PROVE  CallbackIsAlone'
<1> USE DEF listenVars, callbackVars, cacheVars, decisionVars, serviceVars, Alive
<1> DEFINE Goal ==
      /\ UNCHANGED callbackVars
      /\ ToSet(sampled') \subseteq ToSet(sampled)
      /\ Alive' => Alive /\ \A h \in Groups : stage[h] = "evicted" => stage'[h] = "evicted"
<1>1. CASE Start \/ Shutdown \/ (Alive /\ ContextEnds)
  <2>1. Goal
    BY <1>1 DEF Start, Shutdown, ContextEnds, Return
  <2> QED
    BY <2>1, OthersLeaveCallback
<1>2. CASE \E g \in Groups : ConsumeStep(g) \/ (Alive /\ AsyncSend(g))
  <2>1. PICK g \in Groups : ConsumeStep(g) \/ (Alive /\ AsyncSend(g))
    BY <1>2
  <2>2. CASE ConsumeTraces(g) \/ EarlyCheckSampled(g) \/ EarlyCheckNonSampled(g)
    <3>1. UNCHANGED <<serviceVars, listenVars>>
      BY <2>2 DEF ConsumeTraces, EarlyCheckSampled, EarlyCheckNonSampled
    <3>2. Goal
      BY <2>2, <3>1, EarlyChecksTouch
    <3> QED
      BY <3>2, OthersLeaveCallback
  <2>3. CASE Send(g) \/ AsyncSend(g)
    <3>1. Goal
      BY <2>3 DEF Send, AsyncSend, Settle, LifeTypeOK
    <3> QED
      BY <3>1, OthersLeaveCallback
  <2> QED
    BY <2>1, <2>2, <2>3 DEF ConsumeStep
<1>3. CASE \E s \in Shards : Alive /\ (SeeShutdown(s) \/ ListenerReturns(s))
  <2>1. Goal
    BY <1>3 DEF SeeShutdown, ListenerReturns
  <2> QED
    BY <2>1, OthersLeaveCallback
<1>4. CASE ShutdownStep
  <2>1. Goal
    BY <1>4 DEF ShutdownStep, ListenersDone, GiveUp, FlushNext, Spawn, Join, Return
  <2> QED
    BY <2>1, OthersLeaveCallback
<1>5. CASE ExportStep
  <2>1. CASE TakeDecisions \/ ExportDecisions
    <3>1. Goal
      BY <1>5, <2>1, NoEntries DEF ExportStep, TakeDecisions, ExportDecisions
    <3> QED
      BY <3>1, OthersLeaveCallback
  <2>2. CASE \E t \in Traces : ExportTrace(t)
    <3>1. Goal
      BY <1>5, <2>2 DEF ExportStep, ExportTrace, Settle, cachedGroups, LifeTypeOK
    <3> QED
      BY <3>1, OthersLeaveCallback
  <2> QED
    BY <1>5, <2>1, <2>2 DEF ExportStep
<1>6. CASE ShutdownAgain \/ ProcessExits
  <2>1. Goal
    BY <1>6 DEF ShutdownAgain, ProcessExits, Die
  <2> QED
    BY <2>1, OthersLeaveCallback
<1>7. CASE UNCHANGED vars
  <2>1. Goal
    BY <1>7 DEF vars
  <2> QED
    BY <2>1, OthersLeaveCallback
<1> QED
  BY <1>1, <1>2, <1>3, <1>4, <1>5, <1>6, <1>7

\* What Keep evicts was cached, so its trace was not sampled.
LEMMA ProcessCallback ==
  ASSUME OneListener, NEW s \in Shards, LifeInv, EndInv, InLine, Alive, processTraces(s)
  PROVE  CallbackIsAlone'
<1> DEFINE g == Head(queue[s])
<1>1. /\ callback[s] = "none" /\ callback' \in [Shards -> Calls]
      /\ \A r \in Shards : r = s
  BY DealingCallbacks DEF OneListener, LifeInv
<1>2. g \in Groups /\ stage[g] = "queued"
  BY FirstInLine
<1>3. CASE UNCHANGED callbackVars
  BY <1>1, <1>3 DEF callbackVars, CallbackIsAlone
<1>4. CASE \E out : Keep(s, g, out)
  <2>1. PICK out : Keep(s, g, out)
    BY <1>4
  <2>2. /\ callback'[s] \in {"none", "checkSampled"}
        /\ evicted'[s] = UNION {cachedGroups(t) : t \in out}
        /\ sampled' = sampled
    BY <2>1 DEF Keep, decisionVars, LifeInv, LifeTypeOK
  <2>3. ASSUME NEW h \in evicted'[s]
        PROVE  stage'[h] = "evicted" /\ TraceOf[h] \notin ToSet(sampled')
    <3>1. h \in Groups /\ stage[h] = "cached" /\ TraceOf[h] \in out
      BY <2>2, <2>3 DEF cachedGroups
    <3>2. stage'[h] = "evicted"
      BY <1>2, <2>1, <3>1 DEF Keep
    <3>3. TraceOf[h] \notin ToSet(sampled)
      BY <3>1 DEF EndInv, SampledIsNotFlushed
    <3> QED
      BY <2>2, <3>2, <3>3
  <2> QED
    BY <1>1, <2>2, <2>3 DEF CallbackIsAlone
<1>5. (\E out : Keep(s, g, out)) \/ UNCHANGED callbackVars
  BY DEF processTraces, UseDecision, DecideSampled, DecideNotSampled, KeepLow, KeepPending
<1> QED
  BY <1>3, <1>4, <1>5

\* The callback never finds the trace sampled.
LEMMA CallbackAlone ==
  ASSUME OneListener, NEW s \in Shards, NEW t \in Traces, LifeInv, CallbackIsAlone, Alive,
         CallbackStep(s, t)
  PROVE  CallbackIsAlone'
<1>1. /\ t \notin ToSet(sampled) /\ callback[s] # "touchNonSampled"
      /\ \A h \in evicted[s] : stage[h] = "evicted" /\ TraceOf[h] \notin ToSet(sampled)
      /\ \A r \in Shards : r = s
      /\ callback[s] # "none"
  <2>1. callback[s] # "none"
    BY CallbackStages DEF LifeInv
  <2> QED
    BY <2>1 DEF CallbackStep, EvictedTrace, CallbackIsAlone, OneListener
<1>2. ToSet(sampled') = ToSet(sampled)
  <2>1. ToSet(Touch(sampled, t)) = ToSet(sampled)
    BY Touched DEF LifeInv, LifeTypeOK
  <2> QED
    BY <2>1 DEF CallbackStep, CallbackCheckSampled, CallbackCheckNonSampled, CallbackRecord,
          PutNonSampled
<1>3. CASE UNCHANGED <<evicted, stage>>
           /\ \E c \in {"checkNonSampled", "record"} : callback' = [callback EXCEPT ![s] = c]
  <2>1. callback'[s] # "touchNonSampled" /\ evicted'[s] = evicted[s]
    BY <1>3 DEF LifeInv, LifeTypeOK
  <2> QED
    BY <1>1, <1>2, <1>3, <2>1 DEF CallbackIsAlone
<1>4. CASE \E st : EndCallback(s, st)
  <2>1. callback'[s] = "none"
    BY <1>4 DEF EndCallback, LifeInv, LifeTypeOK
  <2> QED
    BY <1>1, <2>1 DEF CallbackIsAlone
<1>5. \/ \E st : EndCallback(s, st)
      \/ UNCHANGED <<evicted, stage>>
         /\ \E c \in {"checkNonSampled", "record"} : callback' = [callback EXCEPT ![s] = c]
  BY <1>1 DEF CallbackStep, CallbackCheckSampled, CallbackCheckNonSampled, CallbackRecord
<1> QED
  BY <1>3, <1>4, <1>5

LEMMA NodeInvStep ==
  ASSUME OneListener, LifeInv, EndInv, NodeInv, [Next]_vars
  PROVE  NodeInv'
<1> USE DEF NodeInv
<1>0. OfTraces'
  BY OfTracesKept DEF LifeInv
<1>1. CASE \E g \in Groups : Send(g)
  <2>1. InLine'
    BY <1>1, SendInLine
  <2>2. CallbackIsAlone'
    BY <1>1, CalmCallback DEF LifeInv, ConsumeStep
  <2> QED
    BY <1>0, <1>1, <2>1, <2>2 DEF WithinSize, Send, cacheVars, tierVars
<1>2. CASE \E s \in Shards : Alive /\ processTraces(s)
  BY <1>0, <1>2, ProcessInLine, ProcessWithinSize, ProcessCallback
<1>3. CASE \/ Start \/ Shutdown \/ (Alive /\ ContextEnds)
           \/ \E g \in Groups :
                ConsumeTraces(g) \/ EarlyCheckSampled(g) \/ EarlyCheckNonSampled(g)
           \/ \E g \in Groups : Alive /\ AsyncSend(g)
           \/ \E s \in Shards : Alive /\ (SeeShutdown(s) \/ ListenerReturns(s))
           \/ ShutdownStep \/ ExportStep \/ ShutdownAgain \/ ProcessExits \/ UNCHANGED vars
  <2>1. CalmNode
    BY <1>3, CalmSteps DEF LifeInv
  <2>2. CallbackIsAlone'
    BY <1>3, CalmCallback DEF LifeInv, ConsumeStep
  <2> QED
    BY <1>0, <2>1, <2>2, CalmInLine DEF LifeInv, WithinSize, CalmNode
<1>4. CASE \E s \in Shards : \E t \in Traces : Alive /\ CallbackStep(s, t)
  <2>1. CalmNode
    BY <1>4, CalmSteps DEF LifeInv
  <2>2. CallbackIsAlone'
    BY <1>4, CallbackAlone
  <2> QED
    BY <1>0, <2>1, <2>2, CalmInLine DEF LifeInv, WithinSize, CalmNode
<1> QED
  BY <1>1, <1>2, <1>3, <1>4 DEF Next, ListenerStep, ConsumeStep, Gone

----------------------------------------------------------------------------
(* What moves from one node to the other *)

\* The peer has only what the node has flushed or never took in.
Between ==
  \A g \in Groups : peer[g] # "none" =>
    \/ stage[g] = "flushed"
    \/ stage[g] = "new" /\ caller \notin {"new", "started"}

HandInv == LifeInv /\ EndInv /\ NodeInv /\ PeerInv /\ Between

LEMMA HandInvInit == ScaleDownInit => HandInv
<1>1. ScaleDownInit => Init /\ Between
  BY DEF ScaleDownInit, Between
<1> QED
  BY <1>1, LifeInvInit, EndInvInit, NodeInvInit, PeerInvInit DEF ScaleDownInit, HandInv

\* A node takes no group back that it has flushed, nor one that arrives after it
\* was told to stop.
LEMMA NodeBetween ==
  ASSUME LifeInv, NodeInv, [Next]_vars
  PROVE  /\ \A g \in Groups : stage[g] = "flushed" => stage'[g] = "flushed"
         /\ caller \notin {"new", "started"} =>
              /\ caller' \notin {"new", "started"}
              /\ \A g \in Groups : stage[g] = "new" => stage'[g] = "new"
<1> USE DEF listenVars, cacheVars, flushVars, serviceVars
<1>1. CASE Start \/ Shutdown \/ (Alive /\ ContextEnds)
  BY <1>1 DEF Start, Shutdown, ContextEnds, Return
<1>2. CASE \E g \in Groups : ConsumeStep(g) \/ (Alive /\ AsyncSend(g))
  <2>1. PICK g \in Groups : ConsumeStep(g) \/ (Alive /\ AsyncSend(g))
    BY <1>2
  <2>2. /\ stage[g] \notin {"new", "flushed"} \/ (stage[g] = "new" /\ caller = "started")
        /\ \A h \in Groups : h # g => stage'[h] = stage[h]
        /\ caller' = caller
    BY <2>1 DEF ConsumeStep, ConsumeTraces, EarlyCheckSampled, EarlyCheckNonSampled, Send,
          AsyncSend, Settle, LifeInv, LifeTypeOK
  <2> QED
    BY <2>2
<1>3. CASE \E s \in Shards : Alive /\ (SeeShutdown(s) \/ ListenerReturns(s))
  BY <1>3 DEF SeeShutdown, ListenerReturns
<1>4. CASE ShutdownStep
  BY <1>4 DEF ShutdownStep, ListenersDone, GiveUp, FlushNext, Spawn, Join, Return
<1>5. CASE ExportStep
  <2>1. CASE TakeDecisions \/ ExportDecisions
    BY <2>1 DEF TakeDecisions, ExportDecisions
  <2>2. CASE \E t \in Traces : ExportTrace(t)
    BY <2>2 DEF ExportTrace, Settle, cachedGroups, LifeInv, LifeTypeOK
  <2> QED
    BY <1>5, <2>1, <2>2 DEF ExportStep
<1>6. CASE ShutdownAgain \/ ProcessExits
  BY <1>6 DEF ShutdownAgain, ProcessExits, Die
<1>7. CASE UNCHANGED vars
  BY <1>7 DEF vars
<1>8. CASE \E s \in Shards : Alive /\ processTraces(s)
  <2>1. PICK s \in Shards : Alive /\ processTraces(s)
    BY <1>8
  <2>2. Head(queue[s]) \in Groups /\ stage[Head(queue[s])] = "queued"
    BY <2>1, FirstInLine DEF NodeInv
  <2>3. \A h \in Groups : h # Head(queue[s]) /\ stage'[h] # stage[h] => stage[h] = "cached"
    BY <2>1, <2>2, OthersCached DEF processTraces, LifeInv
  <2>4. caller' = caller
    BY <2>1 DEF processTraces
  <2> QED
    BY <2>2, <2>3, <2>4
<1>9. CASE \E s \in Shards : \E t \in Traces : Alive /\ CallbackStep(s, t)
  <2>1. PICK s \in Shards, t \in Traces : Alive /\ CallbackStep(s, t)
    BY <1>9
  <2>2. callback[s] # "none" /\ \A h \in Groups : stage'[h] # stage[h] => h \in evicted[s]
    BY <2>1, CallbackStages DEF LifeInv
  <2>3. \A h \in Groups : stage'[h] # stage[h] => stage[h] = "evicted"
    BY <2>1, <2>2 DEF NodeInv, CallbackIsAlone
  <2>4. caller' = caller
    BY <2>1 DEF CallbackStep
  <2> QED
    BY <2>3, <2>4
<1> QED
  BY <1>1, <1>2, <1>3, <1>4, <1>5, <1>6, <1>7, <1>8, <1>9 DEF Next, ListenerStep, Gone

LEMMA BetweenStep ==
  ASSUME LifeInv, NodeInv, PeerInv, Between, [ScaleDownNext]_allVars
  PROVE  Between'
<1>1. CASE UNCHANGED peer /\ [Next]_vars
  BY <1>1, NodeBetween DEF Between
<1>2. CASE \E g \in Groups : PeerConsumes(g)
  BY <1>2 DEF PeerConsumes, PeerSettles, Between, PeerInv, vars, serviceVars
<1>3. CASE UNCHANGED vars /\ \A h \in Groups : peer'[h] # peer[h] => peer[h] # "none"
  BY <1>3 DEF Between, vars, serviceVars
<1>4. ASSUME NEW g \in Groups, PeerProcesses(g)
      PROVE  UNCHANGED vars /\ \A h \in Groups : peer'[h] # peer[h] => peer[h] # "none"
  BY <1>4, PeerWays DEF Follows, Samples, RulesOut, Caches, PeerSettles, cachedAtPeer, PeerInv
<1>5. ASSUME NEW t, PeerEvicts(t)
      PROVE  UNCHANGED vars /\ \A h \in Groups : peer'[h] # peer[h] => peer[h] # "none"
  BY <1>5 DEF PeerEvicts, PeerSettles, cachedAtPeer, PeerInv
<1>6. ASSUME NEW d, PeerHears(d)
      PROVE  UNCHANGED vars /\ \A h \in Groups : peer'[h] # peer[h] => peer[h] # "none"
  BY <1>6 DEF PeerHears, PeerSettles, cachedAtPeer, PeerInv
<1>8. ASSUME NEW g \in Groups, PeerChecksSampled(g) \/ PeerChecksNonSampled(g)
      PROVE  UNCHANGED vars /\ \A h \in Groups : peer'[h] # peer[h] => peer[h] # "none"
  BY <1>8 DEF PeerChecksSampled, PeerChecksNonSampled, PeerSettles, PeerInv
<1>9. ASSUME NEW t, PeerForgets(t) \/ PeerDeletes(t) \/ PeerPutsSampled(t)
      PROVE  UNCHANGED vars /\ UNCHANGED peer
  BY <1>9 DEF PeerForgets, PeerDeletes, PeerPutsSampled
<1>7. \/ UNCHANGED peer /\ [Next]_vars
      \/ \E g \in Groups :
           PeerConsumes(g) \/ PeerChecksSampled(g) \/ PeerChecksNonSampled(g) \/ PeerProcesses(g)
      \/ \E t \in Traces : \/ PeerEvicts(t) \/ PeerForgets(t) \/ PeerDeletes(t)
                          \/ PeerPutsSampled(t)
      \/ \E d \in decisionSpans : PeerHears(d)
  BY DEF ScaleDownNext, PeerStep, PeerRests, allVars, peerVars
<1> QED
  BY <1>1, <1>2, <1>3, <1>4, <1>5, <1>6, <1>7, <1>8, <1>9

LEMMA HandInvStep ==
  ASSUME OneListener, HandInv, [ScaleDownNext]_allVars
  PROVE  HandInv'
<1>1. [Next]_vars
  BY NodeRuns
<1> QED
  BY <1>1, LifeInvStep, EndInvStep, NodeInvStep, PeerInvStep, BetweenStep DEF HandInv

----------------------------------------------------------------------------
(* Two nodes keep the promise of one: the abstract steps *)

held == takenIn \ (sentByEither \cup lostByNode \cup discardedByEither)
ruled == ruledOutByNode \cup ruledOutByPeer

FateStep == Fate!Next \/ UNCHANGED Fate!fate

\* Of what is inside, S is sent, L is lost and D is discarded.
Leaves(S, L, D) ==
  /\ S \cup L \cup D \subseteq held
  /\ takenIn' = takenIn
  /\ sentByEither' = sentByEither \cup S
  /\ lostByNode' = lostByNode \cup L
  /\ discardedByEither' = discardedByEither \cup D

LEMMA LeavesHeld ==
  ASSUME NEW S, NEW L, NEW D, Leaves(S, L, D)
  PROVE  held' = held \ (S \cup L \cup D) /\ held \subseteq Groups
  BY DEF Leaves, held, takenIn

LEMMA CalmHand ==
  ASSUME Leaves({}, {}, {}), ruled' = ruled
  PROVE  FateStep
<1>1. held' = held
  BY LeavesHeld
<1> QED
  BY <1>1 DEF Leaves, FateStep, Fate!fate, held, ruled

LEMMA SendHand ==
  ASSUME NEW B, NEW t, Leaves(B, {}, {}), \A b \in B : TraceOf[b] = t, ruled' = ruled
  PROVE  FateStep
<1>1. held' = held \ B /\ B \in SUBSET held
  <2>1. held' = held \ (B \cup {} \cup {})
    BY LeavesHeld
  <2>2. B \cup {} \cup {} = B
    OBVIOUS
  <2> QED
    BY <2>1, <2>2 DEF Leaves
<1>2. CASE B = {}
  BY <1>2, CalmHand
<1>3. CASE B # {}
  <2>1. Fate!Forward(B)
    BY <1>1 DEF Leaves, Fate!Forward, Fate!OneTrace, held, ruled
  <2>2. \E C \in (SUBSET held) \ {{}} : Fate!Forward(C)
    BY <1>1, <1>3, <2>1
  <2> QED
    BY <2>2 DEF FateStep, Fate!Next, held
<1> QED
  BY <1>2, <1>3

LEMMA LoseHand ==
  ASSUME NEW B, Leaves({}, B, {}), ruled' = ruled
  PROVE  FateStep
<1>1. held' = held \ B /\ B \in SUBSET held
  <2>1. held' = held \ ({} \cup B \cup {})
    BY LeavesHeld
  <2>2. {} \cup B \cup {} = B
    OBVIOUS
  <2> QED
    BY <2>1, <2>2 DEF Leaves
<1>2. CASE B = {}
  BY <1>2, CalmHand
<1>3. CASE B # {}
  <2>1. Fate!Lose(B)
    BY <1>1 DEF Leaves, Fate!Lose, held, ruled
  <2>2. \E C \in (SUBSET held) \ {{}} : Fate!Lose(C)
    BY <1>1, <1>3, <2>1
  <2> QED
    BY <2>2 DEF FateStep, Fate!Next, held
<1> QED
  BY <1>2, <1>3

LEMMA DiscardHand ==
  ASSUME NEW B, NEW t \in Traces, Leaves({}, {}, B), \A b \in B : TraceOf[b] = t,
         ruled' \in {ruled, ruled \cup {t}}, B # {} => t \in ruled'
  PROVE  FateStep
<1>1. held' = held \ B /\ B \in SUBSET held
  <2>1. held' = held \ ({} \cup {} \cup B)
    BY LeavesHeld
  <2>2. {} \cup {} \cup B = B
    OBVIOUS
  <2> QED
    BY <2>1, <2>2 DEF Leaves
<1>2. CASE B = {} /\ ruled' = ruled
  BY <1>2, CalmHand
<1>3. CASE B = {} /\ ruled' = ruled \cup {t}
  <2>1. Fate!RuleOut(t)
    BY <1>1, <1>3 DEF Leaves, Fate!RuleOut, held, ruled
  <2> QED
    BY <2>1 DEF FateStep, Fate!Next
<1>4. CASE B # {}
  <2>1. {TraceOf[b] : b \in B} = {t}
    BY <1>4
  <2>2. Fate!Discard(B)
    BY <1>1, <1>4, <2>1 DEF Leaves, Fate!Discard, Fate!OneTrace, held, ruled
  <2>3. \E C \in (SUBSET held) \ {{}} : Fate!Discard(C)
    BY <1>1, <1>4, <2>2
  <2> QED
    BY <2>3 DEF FateStep, Fate!Next, held
<1> QED
  BY <1>2, <1>3, <1>4

LEMMA TakeHand ==
  ASSUME NEW g \in Groups, g \notin takenIn, takenIn' = takenIn \cup {g},
         g \notin sentByEither \cup lostByNode \cup discardedByEither,
         UNCHANGED <<sentByEither, lostByNode, discardedByEither>>, ruled' = ruled
  PROVE  FateStep
<1>1. held' = held \cup {g} /\ g \notin held
  BY DEF held
<1>2. Fate!TakeIn({g})
  BY <1>1 DEF Fate!TakeIn, held, ruled
<1>3. {g} \in (SUBSET Groups) \ {{}}
  OBVIOUS
<1> QED
  BY <1>2, <1>3 DEF FateStep, Fate!Next

----------------------------------------------------------------------------
(* The steps of the nodes, as moves of groups *)

Inside == {"early", "missed", "kept", "queued", "async", "cached", "evicted", "flushed"}
Left == {"sent", "ruledOut", "lost", "unflushed"}
InPeer == {"early", "missed", "queued", "cached"}

\* The groups of B leave the node that holds them for st, and no others.
NodeMoves(B, st) ==
  /\ B \in SUBSET Groups /\ st \in Left /\ peer' = peer
  /\ \A h \in B : stage[h] \in Inside \ {"flushed"} /\ stage'[h] = st
  /\ \A h \in Groups \ B : stage'[h] = stage[h] \/ (stage[h] \in Inside /\ stage'[h] \in Inside)

PeerMoves(B, st) ==
  /\ B \in SUBSET Groups /\ st \in {"sent", "ruledOut", "dropped"} /\ stage' = stage
  /\ \A h \in B : peer[h] \in InPeer /\ peer'[h] = st
  /\ \A h \in Groups \ B :
       peer'[h] = peer[h] \/ (peer[h] \in InPeer /\ peer'[h] \in InPeer)

LEMMA NodeMovesLeave ==
  ASSUME NEW B, NEW st, PeerInv, Between, NodeMoves(B, st)
  PROVE  Leaves(IF st = "sent" THEN B ELSE {},
                IF st \in {"lost", "unflushed"} THEN B ELSE {},
                IF st = "ruledOut" THEN B ELSE {})
<1> USE DEF NodeMoves, Inside, Left
<1>1. \A h \in B : peer[h] = "none"
  BY DEF Between
<1>2. takenIn' = takenIn
  BY DEF takenIn
<1>3. B \subseteq held
  BY <1>1 DEF held, takenIn, sentByEither, lostByNode, discardedByEither
<1>4. sentByEither' = sentByEither \cup (IF st = "sent" THEN B ELSE {})
  BY <1>1 DEF sentByEither
<1>5. lostByNode' = lostByNode \cup (IF st \in {"lost", "unflushed"} THEN B ELSE {})
  BY <1>1 DEF lostByNode
<1>6. discardedByEither' = discardedByEither \cup (IF st = "ruledOut" THEN B ELSE {})
  BY <1>1 DEF discardedByEither
<1> QED
  BY <1>2, <1>3, <1>4, <1>5, <1>6 DEF Leaves

LEMMA PeerMovesLeave ==
  ASSUME NEW B, NEW st, PeerInv, Between, PeerMoves(B, st)
  PROVE  Leaves(IF st = "sent" THEN B ELSE {}, {}, IF st # "sent" THEN B ELSE {})
<1> USE DEF PeerMoves, InPeer
<1>1. \A h \in B : stage[h] \in {"flushed", "new"}
  BY DEF Between
<1>2. takenIn' = takenIn
  BY DEF takenIn
<1>3. B \subseteq held
  BY <1>1 DEF held, takenIn, sentByEither, lostByNode, discardedByEither
<1>4. sentByEither' = sentByEither \cup (IF st = "sent" THEN B ELSE {})
  BY <1>1 DEF sentByEither
<1>5. lostByNode' = lostByNode
  BY DEF lostByNode
<1>6. discardedByEither' = discardedByEither \cup (IF st # "sent" THEN B ELSE {})
  BY <1>1 DEF discardedByEither
<1> QED
  BY <1>2, <1>3, <1>4, <1>5, <1>6 DEF Leaves

----------------------------------------------------------------------------
(* The steps of the node *)

\* While no group leaves the node and no trace is ruled out, the promise rests.
LEMMA NodeCalm ==
  ASSUME HandInv, PeerRests, ruledOutByNode' = ruledOutByNode,
         \A h \in Groups : stage'[h] = stage[h] \/ (stage[h] \in Inside /\ stage'[h] \in Inside)
  PROVE  FateStep
<1>1. NodeMoves({}, "lost")
  BY DEF NodeMoves, PeerRests, peerVars, Left
<1>2. Leaves({}, {}, {})
  BY <1>1, NodeMovesLeave DEF HandInv
<1>3. ruled' = ruled
  BY DEF ruled, ruledOutByPeer, PeerRests, peerVars, peerDecisions
<1> QED
  BY <1>2, <1>3, CalmHand

\* A Get does not change what the node has ruled out, and a Put adds its trace:
\* what leaves the cache is remembered as forgotten.
LEMMA RulesTouched ==
  ASSUME ToSet(nonSampled') = ToSet(nonSampled), UNCHANGED <<taken, forgotten>>
  PROVE  ruledOutByNode' = ruledOutByNode
  BY DEF ruledOutByNode

LEMMA RulesPut ==
  ASSUME NEW t \in Traces, LifeTypeOK, PutNonSampled(t), UNCHANGED taken
  PROVE  ruledOutByNode' = ruledOutByNode \cup {t}
<1> DEFINE put == Put(nonSampled, t, NonSampledSize)
           out == PutEvicts(nonSampled, t, NonSampledSize)
<1>1. /\ t \in ToSet(put) /\ ToSet(put) \subseteq ToSet(nonSampled) \cup {t}
      /\ ToSet(nonSampled) \subseteq ToSet(put) \cup out
      /\ out \subseteq ToSet(nonSampled) \cup {t}
      /\ ToSet(nonSampled) \subseteq Traces
  BY PutEntries, ToSetDef, LifecycleAssumption DEF LifeTypeOK
<1>2. nonSampled' = put /\ forgotten' = forgotten \cup ({"nonSampled"} \X out)
  BY DEF PutNonSampled
<1> HIDE DEF put, out
<1>3. \A x : <<"nonSampled", x>> \in forgotten' <=> <<"nonSampled", x>> \in forgotten \/ x \in out
  BY <1>2
<1>4. \A x \in Traces : x \in ruledOutByNode' <=>
        x \in ToSet(put) \/ <<"nonSampled", x>> \in taken \/ <<"nonSampled", x>> \in forgotten'
  BY <1>2 DEF ruledOutByNode
<1>5. \A x \in Traces : x \in ruledOutByNode <=>
        x \in ToSet(nonSampled) \/ <<"nonSampled", x>> \in taken \cup forgotten
  BY DEF ruledOutByNode
<1>6. ruledOutByNode' \subseteq Traces /\ ruledOutByNode \subseteq Traces
  BY <1>1, <1>2 DEF ruledOutByNode
<1> QED
  BY <1>1, <1>3, <1>4, <1>5, <1>6

LEMMA RulesSampled ==
  ASSUME NEW t, PutSampled(t), UNCHANGED taken
  PROVE  ruledOutByNode' = ruledOutByNode
<1>1. \A x : <<"nonSampled", x>> \in forgotten' <=> <<"nonSampled", x>> \in forgotten
  BY DEF PutSampled
<1> QED
  BY <1>1 DEF PutSampled, ruledOutByNode

LEMMA PeerKeepsRuled ==
  ASSUME PeerRests
  PROVE  /\ ruledOutByPeer' = ruledOutByPeer
         /\ ruledOutByNode' = ruledOutByNode => ruled' = ruled
         /\ \A t : ruledOutByNode' = ruledOutByNode \cup {t} => ruled' = ruled \cup {t}
  BY DEF ruled, ruledOutByPeer, PeerRests, peerVars, peerDecisions

LEMMA ServiceHand ==
  ASSUME HandInv, PeerRests,
         \/ Start \/ Shutdown \/ ContextEnds \/ ShutdownStep \/ ExportDecisions
         \/ \E s \in Shards : SeeShutdown(s) \/ ListenerReturns(s)
         \/ UNCHANGED vars
  PROVE  FateStep
<1>1. UNCHANGED <<stage, nonSampled, taken, forgotten>>
  BY DEF Start, Shutdown, ContextEnds, ShutdownStep, ListenersDone, GiveUp, FlushNext, Spawn,
         Join, ExportDecisions, SeeShutdown, ListenerReturns, cacheVars, decisionVars,
         flushVars, vars
<1>2. ruledOutByNode' = ruledOutByNode
  BY <1>1, RulesTouched
<1> QED
  BY <1>1, <1>2, NodeCalm

LEMMA ConsumeHand ==
  ASSUME NEW g \in Groups, HandInv, PeerRests, ConsumeTraces(g)
  PROVE  FateStep
<1>1. /\ stage[g] = "new" /\ stage'[g] = "early" /\ peer[g] = "none" /\ peer' = peer
      /\ \A h \in Groups : h # g => stage'[h] = stage[h]
      /\ UNCHANGED <<nonSampled, taken, forgotten>>
  BY DEF ConsumeTraces, Settle, cacheVars, decisionVars, flushVars, PeerRests, peerVars,
         HandInv, Between, LifeInv, LifeTypeOK
<1>2. /\ g \notin takenIn /\ takenIn' = takenIn \cup {g}
      /\ g \notin sentByEither \cup lostByNode \cup discardedByEither
      /\ UNCHANGED <<sentByEither, lostByNode, discardedByEither>>
  BY <1>1 DEF takenIn, sentByEither, lostByNode, discardedByEither
<1>3. ruled' = ruled
  BY <1>1, RulesTouched, PeerKeepsRuled
<1> QED
  BY <1>2, <1>3, TakeHand

\* The early checks send the group, give it up, or let it go on to its channel.
LEMMA EarlyHand ==
  ASSUME NEW g \in Groups, HandInv, PeerRests,
         EarlyCheckSampled(g) \/ EarlyCheckNonSampled(g) \/ Send(g)
  PROVE  FateStep
<1>1. /\ stage[g] \in {"early", "missed", "kept"} /\ peer' = peer
      /\ \A h \in Groups : h # g => stage'[h] = stage[h]
  BY DEF EarlyCheckSampled, EarlyCheckNonSampled, Send, Settle, PeerRests, peerVars,
         HandInv, LifeInv, LifeTypeOK
<1>2. /\ ToSet(nonSampled') = ToSet(nonSampled) /\ UNCHANGED <<taken, forgotten>>
      /\ TraceOf[g] \in Traces
  <2>1. CASE Send(g)
    BY <2>1, LifecycleAssumption DEF Send, cacheVars, decisionVars, flushVars
  <2>2. CASE EarlyCheckSampled(g) \/ EarlyCheckNonSampled(g)
    <3>1. ToSet(nonSampled') = ToSet(nonSampled)
      BY <2>2, EarlyChecksTouch DEF HandInv, LifeInv
    <3> QED
      BY <2>2, <3>1, LifecycleAssumption DEF EarlyCheckSampled, EarlyCheckNonSampled, flushVars
  <2> QED
    BY <2>1, <2>2
<1>3. ruledOutByNode' = ruledOutByNode /\ ruled' = ruled
  BY <1>2, RulesTouched, PeerKeepsRuled
<1>4. CASE stage'[g] \in {"missed", "kept", "queued"}
  BY <1>1, <1>3, <1>4, NodeCalm DEF Inside
<1>5. CASE stage'[g] = "sent"
  <2>1. NodeMoves({g}, "sent")
    BY <1>1, <1>5 DEF NodeMoves, Inside, Left
  <2>2. Leaves({g}, {}, {})
    BY <2>1, NodeMovesLeave DEF HandInv
  <2> QED
    BY <1>3, <2>2, SendHand
<1>6. CASE stage'[g] = "ruledOut" /\ TraceOf[g] \in ToSet(nonSampled)
  <2>1. NodeMoves({g}, "ruledOut")
    BY <1>1, <1>6 DEF NodeMoves, Inside, Left
  <2>2. Leaves({}, {}, {g})
    BY <2>1, NodeMovesLeave DEF HandInv
  <2>3. TraceOf[g] \in ruled'
    BY <1>3, <1>6 DEF ruled, ruledOutByNode
  <2> QED
    BY <1>2, <1>3, <2>2, <2>3, DiscardHand
<1>7. \/ stage'[g] \in {"missed", "kept", "queued", "sent"}
      \/ stage'[g] = "ruledOut" /\ TraceOf[g] \in ToSet(nonSampled)
  BY DEF EarlyCheckSampled, EarlyCheckNonSampled, Send, Settle, HandInv, LifeInv, LifeTypeOK
<1> QED
  BY <1>4, <1>5, <1>6, <1>7

LEMMA AsyncHand ==
  ASSUME NEW g \in Groups, HandInv, PeerRests, AsyncSend(g)
  PROVE  FateStep
<1>1. NodeMoves({g}, "sent") /\ UNCHANGED <<nonSampled, taken, forgotten>>
  BY DEF AsyncSend, Settle, NodeMoves, Inside, Left, cacheVars, decisionVars, flushVars,
         PeerRests, peerVars, HandInv, LifeInv, LifeTypeOK
<1>2. Leaves({g}, {}, {})
  BY <1>1, NodeMovesLeave DEF HandInv
<1>3. ruled' = ruled
  BY <1>1, RulesTouched, PeerKeepsRuled
<1> QED
  BY <1>2, <1>3, SendHand

\* A group that is cached sends others into a callback at most.
LEMMA KeepHand ==
  ASSUME NEW s \in Shards, NEW g \in Groups, NEW out, HandInv, PeerRests, Keep(s, g, out),
         stage[g] = "queued", UNCHANGED taken
  PROVE  FateStep
<1>1. /\ \A h \in Groups : stage'[h] = stage[h] \/ (stage[h] \in Inside /\ stage'[h] \in Inside)
      /\ UNCHANGED <<nonSampled, forgotten>>
  BY DEF Keep, Inside, decisionVars
<1>2. ruledOutByNode' = ruledOutByNode
  BY <1>1, RulesTouched
<1> QED
  BY <1>1, <1>2, NodeCalm

LEMMA ProcessHand ==
  ASSUME NEW s \in Shards, HandInv, PeerRests, Alive, processTraces(s)
  PROVE  FateStep
<1> DEFINE g == Head(queue[s])
           t == TraceOf[g]
<1>1. /\ g \in Groups /\ stage[g] = "queued"
      /\ \/ UseDecision(g) \/ DecideSampled(g) \/ DecideNotSampled(g)
         \/ KeepLow(s, g) \/ KeepPending(s, g)
      /\ taken' = taken
  BY FirstInLine DEF HandInv, NodeInv, processTraces, flushVars
<1> HIDE DEF g
<1>2. t \in Traces
  BY <1>1, LifecycleAssumption
<1>11. peer' = peer
  BY DEF PeerRests, peerVars
<1>3. CASE UseDecision(g)
  <2>1. ToSet(nonSampled') = ToSet(nonSampled) /\ forgotten' = forgotten
    <3>1. ToSet(Touch(nonSampled, t)) = ToSet(nonSampled)
      BY <1>2, Touched DEF HandInv, LifeInv, LifeTypeOK
    <3> QED
      BY <1>3, <3>1 DEF UseDecision
  <2>2. ruledOutByNode' = ruledOutByNode /\ ruled' = ruled
    BY <1>1, <2>1, RulesTouched, PeerKeepsRuled
  <2>3. CASE Settle({g}, "async")
    BY <1>1, <2>2, <2>3, NodeCalm DEF Settle, Inside
  <2>4. CASE t \in ToSet(nonSampled) /\ Settle({g}, "ruledOut")
    <3>1. NodeMoves({g}, "ruledOut")
      BY <1>1, <1>11, <2>4 DEF NodeMoves, Left, Inside, Settle
    <3>2. Leaves({}, {}, {g})
      BY <3>1, NodeMovesLeave DEF HandInv
    <3>3. t \in ruled'
      BY <2>2, <2>4 DEF ruled, ruledOutByNode
    <3> QED
      BY <1>2, <2>2, <3>2, <3>3, DiscardHand
  <2> QED
    BY <1>3, <2>3, <2>4 DEF UseDecision
<1>4. /\ together(g) \in SUBSET Groups /\ \A b \in together(g) : TraceOf[b] = t
      /\ \A b \in together(g) : stage[b] \in {"queued", "cached"}
  BY <1>1 DEF together, cachedGroups
<1>5. CASE DecideSampled(g)
  <2>1. NodeMoves(together(g), "sent")
    BY <1>4, <1>5, <1>11 DEF DecideSampled, Settle, NodeMoves, Left, Inside
  <2>2. Leaves(together(g), {}, {})
    BY <2>1, NodeMovesLeave DEF HandInv
  <2>3. ruled' = ruled
    BY <1>1, <1>5, RulesSampled, PeerKeepsRuled DEF DecideSampled
  <2> QED
    BY <1>4, <2>2, <2>3, SendHand
<1>6. CASE DecideNotSampled(g)
  <2>1. NodeMoves(together(g), "ruledOut")
    BY <1>4, <1>6, <1>11 DEF DecideNotSampled, Settle, NodeMoves, Left, Inside
  <2>2. Leaves({}, {}, together(g))
    BY <2>1, NodeMovesLeave DEF HandInv
  <2>3. ruled' = ruled \cup {t}
    BY <1>1, <1>2, <1>6, RulesPut, PeerKeepsRuled DEF DecideNotSampled, HandInv, LifeInv
  <2> QED
    BY <1>2, <1>4, <2>2, <2>3, DiscardHand
<1>7. CASE \E out : Keep(s, g, out)
  BY <1>1, <1>7, KeepHand
<1> QED
  BY <1>1, <1>3, <1>5, <1>6, <1>7 DEF KeepLow, KeepPending

\* The callback gives the evicted spans up once their trace is ruled out.
LEMMA CallbackHand ==
  ASSUME NEW s \in Shards, NEW t \in Traces, HandInv, PeerRests, Alive, CallbackStep(s, t)
  PROVE  FateStep
<1> DEFINE B == evicted[s]
<1>1. callback[s] # "none"
  BY CallbackStages DEF HandInv, LifeInv
<1>2. /\ B \in SUBSET Groups /\ \A h \in B : stage[h] = "evicted" /\ TraceOf[h] = t
      /\ callback[s] # "touchNonSampled"
      /\ t \notin ToSet(sampled)
      /\ taken' = taken /\ peer' = peer
  BY <1>1 DEF CallbackStep, EvictedTrace, HandInv, NodeInv, CallbackIsAlone, LifeInv,
        LifeTypeOK, flushVars, PeerRests, peerVars
<1>3. CASE UNCHANGED <<stage, forgotten>> /\ nonSampled' \in {nonSampled, Touch(nonSampled, t)}
  <2>1. ToSet(nonSampled') = ToSet(nonSampled)
    BY <1>3, Touched DEF HandInv, LifeInv, LifeTypeOK
  <2>2. ruledOutByNode' = ruledOutByNode
    BY <1>2, <1>3, <2>1, RulesTouched
  <2> QED
    BY <1>3, <2>2, NodeCalm
<1>4. ASSUME Settle(B, "ruledOut"),
             ruledOutByNode' \in {ruledOutByNode, ruledOutByNode \cup {t}}, t \in ruledOutByNode'
      PROVE  FateStep
  <2>1. NodeMoves(B, "ruledOut")
    BY <1>2, <1>4 DEF Settle, NodeMoves, Left, Inside
  <2>2. Leaves({}, {}, B)
    BY <2>1, NodeMovesLeave DEF HandInv
  <2>3. ruled' \in {ruled, ruled \cup {t}} /\ t \in ruled'
    BY <1>4, PeerKeepsRuled DEF ruled
  <2> HIDE DEF B
  <2> QED
    BY <1>2, <2>2, <2>3, DiscardHand
<1>5. CASE CallbackCheckSampled(s, t)
  BY <1>3, <1>5 DEF CallbackCheckSampled
<1>6. CASE CallbackCheckNonSampled(s, t)
  <2>1. CASE t \in ToSet(nonSampled)
    <3>1. Settle(B, "ruledOut")
      BY <1>2, <1>6, <2>1 DEF CallbackCheckNonSampled, EndCallback
    <3>2. ToSet(nonSampled') = ToSet(nonSampled) /\ forgotten' = forgotten
      BY <1>6, Touched DEF CallbackCheckNonSampled, HandInv, LifeInv, LifeTypeOK
    <3>3. ruledOutByNode' = ruledOutByNode
      BY <1>2, <3>2, RulesTouched
    <3>4. t \in ruledOutByNode'
      BY <2>1, <3>3 DEF ruledOutByNode
    <3> QED
      BY <1>4, <3>1, <3>3, <3>4
  <2>2. CASE t \notin ToSet(nonSampled)
    BY <1>2, <1>3, <1>6, <2>2 DEF CallbackCheckNonSampled
  <2> QED
    BY <2>1, <2>2
<1>7. CASE CallbackRecord(s, t)
  <2>1. Settle(B, "ruledOut") /\ PutNonSampled(t)
    BY <1>7 DEF CallbackRecord, EndCallback
  <2>2. ruledOutByNode' = ruledOutByNode \cup {t}
    BY <1>2, <2>1, RulesPut DEF HandInv, LifeInv
  <2> QED
    BY <1>4, <2>1, <2>2
<1> QED
  BY <1>5, <1>6, <1>7 DEF CallbackStep

\* The decisions move from a cache to what is taken, all at once.
LEMMA TakeDecisionsHand ==
  ASSUME HandInv, PeerRests, TakeDecisions
  PROVE  FateStep
<1>1. taken = {}
  BY DEF TakeDecisions, HandInv, EndInv, DecisionsMoveOnce
<1>2. /\ ToSet(nonSampled') = {} /\ ToSet(nonSampled) \subseteq Traces
      /\ \A t \in Traces : <<"nonSampled", t>> \in taken' <=> t \in ToSet(nonSampled)
      /\ forgotten' = forgotten
  BY NoEntries, ToSetDef DEF TakeDecisions, HandInv, LifeInv, LifeTypeOK
<1>3. ruledOutByNode' = ruledOutByNode
  BY <1>1, <1>2 DEF ruledOutByNode
<1>4. ruled' = ruled
  BY <1>3, PeerKeepsRuled
<1>5. NodeMoves({}, "lost")
  BY DEF NodeMoves, TakeDecisions, PeerRests, peerVars, Left
<1>6. Leaves({}, {}, {})
  BY <1>5, NodeMovesLeave DEF HandInv
<1> QED
  BY <1>4, <1>6, CalmHand

LEMMA ExportTraceHand ==
  ASSUME NEW t \in Traces, HandInv, PeerRests, ExportTrace(t)
  PROVE  FateStep
<1> DEFINE C == cachedGroups(t)
<1>1. /\ UNCHANGED <<nonSampled, taken, forgotten, peer>>
      /\ Settle(C, "flushed") \/ Settle(C, "unflushed")
  BY DEF ExportTrace, cacheVars, decisionVars, PeerRests, peerVars
<1>5. ruledOutByNode' = ruledOutByNode /\ ruled' = ruled
  BY <1>1, RulesTouched, PeerKeepsRuled
<1>2. C \in SUBSET Groups /\ \A h \in C : stage[h] = "cached"
  BY DEF cachedGroups
<1>3. CASE Settle(C, "flushed")
  <2>1. \A h \in Groups : stage'[h] = stage[h] \/ (stage[h] \in Inside /\ stage'[h] \in Inside)
    BY <1>2, <1>3 DEF Settle, Inside
  <2> QED
    BY <1>5, <2>1, NodeCalm
<1>4. CASE Settle(C, "unflushed")
  <2>1. NodeMoves(C, "unflushed")
    BY <1>1, <1>2, <1>4 DEF Settle, NodeMoves, Left, Inside
  <2>2. Leaves({}, C, {})
    BY <2>1, NodeMovesLeave DEF HandInv
  <2> QED
    BY <1>5, <2>2, LoseHand
<1> QED
  BY <1>1, <1>3, <1>4

LEMMA DieHand ==
  ASSUME HandInv, PeerRests, ShutdownAgain \/ ProcessExits
  PROVE  FateStep
<1> DEFINE B == {h \in Groups : stage[h] \in {"queued", "async", "cached", "evicted"}}
<1>1. /\ stage' = [h \in Groups |->
                     IF stage[h] \in {"queued", "async", "cached", "evicted"} THEN "lost"
                     ELSE stage[h]]
      /\ UNCHANGED <<nonSampled, taken, forgotten, peer>>
  BY DEF ShutdownAgain, ProcessExits, Die, cacheVars, decisionVars, flushVars, PeerRests, peerVars
<1>2. NodeMoves(B, "lost")
  BY <1>1 DEF NodeMoves, Left, Inside
<1>3. Leaves({}, B, {})
  BY <1>2, NodeMovesLeave DEF HandInv
<1>4. ruled' = ruled
  BY <1>1, RulesTouched, PeerKeepsRuled
<1> HIDE DEF B
<1> QED
  BY <1>3, <1>4, LoseHand

LEMMA NodeHand == HandInv /\ PeerRests /\ [Next]_vars => FateStep
<1> SUFFICES ASSUME HandInv, PeerRests, [Next]_vars PROVE FateStep
  OBVIOUS
<1>1. CASE \/ Start \/ Shutdown \/ (Alive /\ ContextEnds) \/ ShutdownStep
           \/ \E s \in Shards : Alive /\ (SeeShutdown(s) \/ ListenerReturns(s))
           \/ UNCHANGED vars
  BY <1>1, ServiceHand
<1>2. CASE \E g \in Groups : ConsumeStep(g) \/ (Alive /\ AsyncSend(g))
  BY <1>2, ConsumeHand, EarlyHand, AsyncHand DEF ConsumeStep
<1>3. CASE \E s \in Shards : Alive /\ processTraces(s)
  BY <1>3, ProcessHand
<1>6. CASE \E s \in Shards : \E t \in Traces : Alive /\ CallbackStep(s, t)
  BY <1>6, CallbackHand
<1>4. CASE ExportStep
  BY <1>4, TakeDecisionsHand, ServiceHand, ExportTraceHand DEF ExportStep
<1>5. CASE ShutdownAgain \/ ProcessExits
  BY <1>5, DieHand
<1> QED
  BY <1>1, <1>2, <1>3, <1>4, <1>5, <1>6 DEF Next, ListenerStep, Gone

----------------------------------------------------------------------------
(* The steps of the peer *)

LEMMA NodeKeepsRuled ==
  ASSUME UNCHANGED vars
  PROVE  /\ stage' = stage /\ ruledOutByNode' = ruledOutByNode
         /\ ruledOutByPeer' = ruledOutByPeer => ruled' = ruled
         /\ \A t : ruledOutByPeer' = ruledOutByPeer \cup {t} => ruled' = ruled \cup {t}
  BY DEF vars, cacheVars, decisionVars, flushVars, ruledOutByNode, ruled

\* What was flushed has never left; what was routed to the peer is new.
LEMMA PeerConsumesHand ==
  ASSUME NEW g \in Groups, HandInv, PeerConsumes(g)
  PROVE  FateStep
<1>1. /\ peer[g] = "none" /\ peer'[g] = "early" /\ \A h \in Groups : h # g => peer'[h] = peer[h]
      /\ stage[g] \in {"flushed", "new"}
      /\ UNCHANGED <<stage, vars, peerDecisions>>
  BY DEF PeerConsumes, PeerSettles, vars, HandInv, PeerInv
<1>2. /\ UNCHANGED <<sentByEither, lostByNode, discardedByEither>>
      /\ g \notin sentByEither \cup lostByNode \cup discardedByEither
  BY <1>1 DEF sentByEither, lostByNode, discardedByEither
<1>3. ruled' = ruled
  BY <1>1, NodeKeepsRuled DEF ruled, ruledOutByPeer, peerDecisions
<1>4. CASE stage[g] = "flushed"
  <2>1. takenIn' = takenIn
    BY <1>1, <1>4 DEF takenIn
  <2>2. Leaves({}, {}, {})
    BY <1>2, <2>1 DEF Leaves
  <2> QED
    BY <1>3, <2>2, CalmHand
<1>5. CASE stage[g] = "new"
  <2>1. g \notin takenIn /\ takenIn' = takenIn \cup {g}
    BY <1>1, <1>5 DEF takenIn
  <2> QED
    BY <1>2, <1>3, <2>1, TakeHand
<1> QED
  BY <1>1, <1>4, <1>5

\* The peer's early checks, with the verdict they find.
LEMMA PeerChecksHand ==
  ASSUME NEW g \in Groups, HandInv, PeerChecksSampled(g) \/ PeerChecksNonSampled(g)
  PROVE  FateStep
<1>1. /\ peer[g] \in {"early", "missed"} /\ \A h \in Groups : h # g => peer'[h] = peer[h]
      /\ \/ peer'[g] \in {"missed", "queued", "sent"}
         \/ peer'[g] = "dropped" /\ TraceOf[g] \in peerNonSampled
      /\ UNCHANGED vars /\ UNCHANGED peerDecisions
  BY DEF PeerChecksSampled, PeerChecksNonSampled, PeerSettles, HandInv, PeerInv
<1>2. stage' = stage /\ ruled' = ruled /\ TraceOf[g] \in Traces
  BY <1>1, NodeKeepsRuled, LifecycleAssumption DEF ruledOutByPeer, peerDecisions
<1>3. CASE peer'[g] \in {"missed", "queued"}
  <2>1. PeerMoves({}, "sent")
    BY <1>1, <1>2, <1>3 DEF PeerMoves, InPeer
  <2>2. Leaves({}, {}, {})
    BY <2>1, PeerMovesLeave DEF HandInv
  <2> QED
    BY <1>2, <2>2, CalmHand
<1>4. CASE peer'[g] = "sent"
  <2>1. PeerMoves({g}, "sent")
    BY <1>1, <1>2, <1>4 DEF PeerMoves, InPeer
  <2>2. Leaves({g}, {}, {})
    BY <2>1, PeerMovesLeave DEF HandInv
  <2> QED
    BY <1>2, <2>2, SendHand
<1>5. CASE peer'[g] = "dropped" /\ TraceOf[g] \in peerNonSampled
  <2>1. PeerMoves({g}, "dropped")
    BY <1>1, <1>2, <1>5 DEF PeerMoves, InPeer
  <2>2. Leaves({}, {}, {g})
    BY <2>1, PeerMovesLeave DEF HandInv
  <2>3. TraceOf[g] \in ruled'
    BY <1>2, <1>5 DEF ruled, ruledOutByPeer
  <2> QED
    BY <1>2, <2>2, <2>3, DiscardHand
<1> QED
  BY <1>1, <1>3, <1>4, <1>5

\* What the peer has cached of a trace.
LEMMA AtPeer ==
  ASSUME NEW t
  PROVE  /\ cachedAtPeer(t) \in SUBSET Groups
         /\ \A h \in cachedAtPeer(t) : peer[h] = "cached" /\ TraceOf[h] = t
  BY DEF cachedAtPeer

LEMMA PeerProcessesHand ==
  ASSUME NEW g \in Groups, HandInv, PeerProcesses(g)
  PROVE  FateStep
<1> DEFINE t == TraceOf[g]
           C == {g} \cup cachedAtPeer(t)
<1>1. /\ peer[g] = "queued" /\ UNCHANGED vars /\ stage' = stage /\ t \in Traces
      /\ Follows(g) \/ Samples(g) \/ RulesOut(g) \/ Caches(g)
      /\ peerForgot' = peerForgot
  BY PeerWays, NodeKeepsRuled, LifecycleAssumption
<1>2. /\ C \in SUBSET Groups /\ \A h \in C : peer[h] \in {"queued", "cached"} /\ TraceOf[h] = t
  BY <1>1, AtPeer
<1>3. /\ peerNonSampled' = peerNonSampled => ruled' = ruled
      /\ peerNonSampled' = peerNonSampled \cup {t} => ruled' = ruled \cup {t}
  <2>1. peerNonSampled' = peerNonSampled => ruledOutByPeer' = ruledOutByPeer
    BY <1>1 DEF ruledOutByPeer
  <2>2. peerNonSampled' = peerNonSampled \cup {t} => ruledOutByPeer' = ruledOutByPeer \cup {t}
    BY <1>1 DEF ruledOutByPeer
  <2> QED
    BY <1>1, <2>1, <2>2, NodeKeepsRuled
<1>4. CASE Follows(g)
  <2>1. ruled' = ruled
    BY <1>3, <1>4 DEF Follows
  <2>2. CASE t \in peerSampled
    <3>1. PeerMoves({g}, "sent")
      BY <1>1, <1>4, <2>2 DEF PeerMoves, InPeer, Follows, PeerSettles
    <3>2. Leaves({g}, {}, {})
      BY <3>1, PeerMovesLeave DEF HandInv
    <3> QED
      BY <2>1, <3>2, SendHand
  <2>3. CASE t \notin peerSampled
    <3>1. PeerMoves({g}, "ruledOut")
      BY <1>1, <1>4, <2>3 DEF PeerMoves, InPeer, Follows, PeerSettles
    <3>2. Leaves({}, {}, {g})
      BY <3>1, PeerMovesLeave DEF HandInv
    <3>3. t \in ruled'
      BY <1>4, <2>1, <2>3 DEF Follows, decided, ruled, ruledOutByPeer
    <3> QED
      BY <1>1, <2>1, <3>2, <3>3, DiscardHand
  <2> QED
    BY <2>2, <2>3
<1>5. CASE Samples(g)
  <2>1. PeerMoves(C, "sent")
    BY <1>1, <1>2, <1>5 DEF PeerMoves, InPeer, Samples, PeerSettles
  <2>2. Leaves(C, {}, {})
    BY <2>1, PeerMovesLeave DEF HandInv
  <2>3. ruled' = ruled
    BY <1>3, <1>5 DEF Samples
  <2> QED
    BY <1>2, <2>2, <2>3, SendHand
<1>6. CASE RulesOut(g)
  <2>1. PeerMoves(C, "ruledOut")
    BY <1>1, <1>2, <1>6 DEF PeerMoves, InPeer, RulesOut, PeerSettles
  <2>2. Leaves({}, {}, C)
    BY <2>1, PeerMovesLeave DEF HandInv
  <2>3. ruled' = ruled \cup {t}
    BY <1>3, <1>6 DEF RulesOut
  <2> HIDE DEF C
  <2> QED
    BY <1>1, <1>2, <2>2, <2>3, DiscardHand
<1>7. CASE Caches(g)
  <2>1. PeerMoves({}, "sent")
    BY <1>1, <1>7 DEF PeerMoves, InPeer, Caches, PeerSettles
  <2>2. Leaves({}, {}, {})
    BY <2>1, PeerMovesLeave DEF HandInv
  <2>3. ruled' = ruled
    BY <1>3, <1>7 DEF Caches
  <2> QED
    BY <2>2, <2>3, CalmHand
<1> QED
  BY <1>1, <1>4, <1>5, <1>6, <1>7

\* What the peer has cached of a trace is ruled out, which had no verdict.
LEMMA PeerRulesOutHand ==
  ASSUME NEW t \in Traces, HandInv, UNCHANGED <<vars, peerForgot>>,
         PeerSettles(cachedAtPeer(t), "ruledOut"),
         peerNonSampled' = peerNonSampled \cup {t}
  PROVE  FateStep
<1> DEFINE C == cachedAtPeer(t)
<1>1. stage' = stage
  BY NodeKeepsRuled
<1>2. PeerMoves(C, "ruledOut")
  BY <1>1, AtPeer DEF PeerMoves, InPeer, PeerSettles
<1>3. Leaves({}, {}, C)
  BY <1>2, PeerMovesLeave DEF HandInv
<1>4. ruled' = ruled \cup {t}
  <2>1. ruledOutByPeer' = ruledOutByPeer \cup {t}
    BY DEF ruledOutByPeer
  <2> QED
    BY <2>1, NodeKeepsRuled
<1>5. \A b \in C : TraceOf[b] = t
  BY AtPeer
<1> HIDE DEF C
<1> QED
  BY <1>3, <1>4, <1>5, DiscardHand

LEMMA PeerEvictsHand ==
  ASSUME NEW t \in Traces, HandInv, PeerEvicts(t)
  PROVE  FateStep
  BY PeerRulesOutHand DEF PeerEvicts

\* A forgotten trace stays ruled out, and a deletion rules one out that has no
\* spans at the peer.
LEMMA PeerRecordsHand ==
  ASSUME NEW t \in Traces, HandInv, PeerForgets(t) \/ PeerDeletes(t) \/ PeerPutsSampled(t)
  PROVE  FateStep
<1>1. UNCHANGED vars /\ UNCHANGED peer
  BY DEF PeerForgets, PeerDeletes, PeerPutsSampled
<1>2. Leaves({}, {}, {})
  <2>1. PeerMoves({}, "sent")
    BY <1>1, NodeKeepsRuled DEF PeerMoves
  <2> QED
    BY <2>1, PeerMovesLeave DEF HandInv
<1>3. ruledOutByPeer' \in {ruledOutByPeer, ruledOutByPeer \cup {t}}
  <2>1. CASE PeerForgets(t)
    <3>1. /\ \A u \in Traces : <<"nonSampled", u>> \in peerForgot' \/ u \in peerNonSampled' <=>
                              <<"nonSampled", u>> \in peerForgot \/ u \in peerNonSampled
          /\ \A u : u \notin Traces => (u \in peerNonSampled' <=> u \in peerNonSampled)
      BY <2>1 DEF PeerForgets
    <3> QED
      BY <3>1 DEF ruledOutByPeer
  <2>2. CASE PeerDeletes(t)
    BY <2>2 DEF PeerDeletes, ruledOutByPeer
  <2>3. CASE PeerPutsSampled(t)
    BY <2>3 DEF PeerPutsSampled, ruledOutByPeer
  <2> QED
    BY <2>1, <2>2, <2>3
<1>4. ruled' \in {ruled, ruled \cup {t}}
  BY <1>1, <1>3, NodeKeepsRuled
<1> QED
  BY <1>2, <1>4, DiscardHand

LEMMA PeerHearsHand ==
  ASSUME NEW d \in decisionSpans, HandInv, PeerHears(d)
  PROVE  FateStep
<1> DEFINE t == d[2]
           C == cachedAtPeer(t)
<1>1. t \in Traces
  BY DEF HandInv, NodeInv, OfTraces, Verdicts
<1>2. UNCHANGED vars /\ stage' = stage /\ peerForgot' = peerForgot
  BY NodeKeepsRuled DEF PeerHears
<1>3. peerNonSampled' = peerNonSampled => ruled' = ruled
  BY <1>2, NodeKeepsRuled DEF ruledOutByPeer
<1>4. CASE decided(t) /\ UNCHANGED <<peer, peerNonSampled>>
  <2>1. PeerMoves({}, "sent")
    BY <1>2, <1>4 DEF PeerMoves
  <2>2. Leaves({}, {}, {})
    BY <2>1, PeerMovesLeave DEF HandInv
  <2> QED
    BY <1>3, <1>4, <2>2, CalmHand
<1>5. CASE PeerSettles(C, "sent") /\ UNCHANGED peerNonSampled
  <2>1. PeerMoves(C, "sent")
    BY <1>2, <1>5, AtPeer DEF PeerMoves, InPeer, PeerSettles
  <2>2. Leaves(C, {}, {})
    BY <2>1, PeerMovesLeave DEF HandInv
  <2>4. \A b \in C : TraceOf[b] = t
    BY AtPeer
  <2> QED
    BY <1>3, <1>5, <2>2, <2>4, SendHand
<1>6. CASE PeerSettles(C, "ruledOut") /\ peerNonSampled' = peerNonSampled \cup {t}
  BY <1>1, <1>2, <1>6, PeerRulesOutHand
<1> QED
  BY <1>4, <1>5, <1>6 DEF PeerHears

LEMMA HandSimulates == HandInv /\ [ScaleDownNext]_allVars => [Fate!Next]_(Fate!fate)
<1> SUFFICES ASSUME HandInv, [ScaleDownNext]_allVars PROVE FateStep
  BY DEF FateStep
<1>1. CASE PeerRests /\ [Next]_vars
  BY <1>1, NodeHand
<1>2. CASE PeerStep
  BY <1>2, PeerConsumesHand, PeerChecksHand, PeerProcessesHand, PeerHearsHand, PeerRecordsHand
     DEF PeerStep
<1>3. CASE \E t \in Traces : PeerEvicts(t) \/ PeerForgets(t)
  BY <1>3, PeerEvictsHand, PeerRecordsHand
<1> QED
  BY <1>1, <1>2, <1>3 DEF ScaleDownNext, PeerRests, allVars

\* Two nodes of one listener each keep the promise of one (SpanFate): whatever
\* Shutdown moves from one to the other, whatever either forgets, and whenever
\* decision spans arrive, no spans are sent by both or after one gave them up, and
\* none are given up before a node ruled their trace out (flushAll, cachedDecision
\* and cacheEvictionCallback, processor.go).
THEOREM NodesKeepSpanFate ==
  ASSUME OneListener
  PROVE  ScaleDownSpec => NodesImplementSpanFate
<1>1. ScaleDownInit => HandInv
  BY HandInvInit
<1>2. HandInv /\ [ScaleDownNext]_allVars => HandInv'
  BY HandInvStep
<1>3. ScaleDownInit => Fate!Init
  BY NoEntries DEF ScaleDownInit, Init, Fate!Init, takenIn, sentByEither, lostByNode,
         discardedByEither, ruledOutByNode, ruledOutByPeer
<1>4. HandInv /\ [ScaleDownNext]_allVars => [Fate!Next]_(Fate!fate)
  BY HandSimulates
<1> QED
  BY <1>1, <1>2, <1>3, <1>4, PTL DEF ScaleDownSpec, NodesImplementSpanFate, Fate!Spec

----------------------------------------------------------------------------
(* The order of the flush *)

\* A trace is in one tier, once, so that its place in Values is its own.
TiersOnce ==
  /\ Once(primary) /\ Once(secondary)
  /\ \A x \in ToSet(primary) : x \notin ToSet(secondary)

LEMMA OnceByKeys ==
  ASSUME NEW S, NEW q \in Seq(S)
  PROVE  Once(q) <=> UniqueKeys(q, [x \in S |-> x])
<1>1. \A i \in 1..Len(q) : q[i] \in S /\ [x \in S |-> x][q[i]] = q[i]
  OBVIOUS
<1> QED
  BY <1>1 DEF Once, UniqueKeys

\* What the operations of a tier keep.
LEMMA RemoveOnce ==
  ASSUME NEW S, NEW q \in Seq(S), NEW e \in S, Once(q)
  PROVE  /\ RemoveFirst(q, e) \in Seq(S) /\ Once(RemoveFirst(q, e))
         /\ ToSet(RemoveFirst(q, e)) \subseteq ToSet(q) /\ e \notin ToSet(RemoveFirst(q, e))
<1> DEFINE K == [x \in S |-> x]
           r == RemoveFirst(q, e)
<1>1. UniqueKeys(q, K)
  BY OnceByKeys
<1> HIDE DEF K, r
<1>2. /\ r \in Seq(S) /\ ToSet(r) \subseteq ToSet(q) /\ UniqueKeys(r, K)
      /\ e \in ToSet(q) => \A x \in ToSet(r) : K[x] # K[e]
  BY <1>1, RemoveFirstProperties DEF r
<1>3. Once(r)
  BY <1>2, OnceByKeys DEF K
<1>4. e \notin ToSet(r)
  BY <1>2
<1> QED
  BY <1>2, <1>3, <1>4 DEF r

LEMMA RefreshOnce ==
  ASSUME NEW S, NEW q \in Seq(S), NEW e \in S, Once(q)
  PROVE  Refresh(q, e) \in Seq(S) /\ Once(Refresh(q, e)) /\ ToSet(Refresh(q, e)) = ToSet(q) \cup {e}
<1>1. /\ RemoveFirst(q, e) \in Seq(S) /\ Once(RemoveFirst(q, e))
      /\ e \notin ToSet(RemoveFirst(q, e))
  BY RemoveOnce
<1>2. Once(Append(RemoveFirst(q, e), e))
  BY <1>1, AppendOnce
<1> QED
  BY <1>2, RefreshEntries DEF Refresh

LEMMA TrimOnce ==
  ASSUME NEW S, NEW q \in Seq(S), NEW cap \in Nat, Once(q)
  PROVE  Once(Trim(q, cap)) /\ ToSet(Trim(q, cap)) \subseteq ToSet(q)
<1> DEFINE K == [x \in S |-> x]
<1>1. UniqueKeys(q, K)
  BY OnceByKeys
<1> HIDE DEF K
<1>2. /\ Trim(q, cap) \in Seq(S) /\ ToSet(Trim(q, cap)) \subseteq ToSet(q)
      /\ UniqueKeys(Trim(q, cap), K)
  BY <1>1, TrimEntries
<1> QED
  BY <1>2, OnceByKeys DEF K

LEMMA ConcatOnce ==
  ASSUME NEW S, NEW q \in Seq(S), NEW r \in Seq(S), Once(q), Once(r),
         \A x \in ToSet(q) : x \notin ToSet(r)
  PROVE  Once(q \o r)
<1>1. /\ Len(q \o r) = Len(q) + Len(r) /\ Len(q) \in Nat /\ Len(r) \in Nat
      /\ \A i \in 1..Len(q) : (q \o r)[i] = q[i]
      /\ \A i \in 1..Len(r) : (q \o r)[Len(q) + i] = r[i]
  OBVIOUS
<1>2. \A i \in 1..Len(q), j \in 1..Len(r) : q[i] # r[j]
  BY ToSetDef
<1>3. ASSUME NEW v, v = q \o r PROVE Once(v)
  <2>1. SUFFICES ASSUME NEW i \in 1..Len(v), NEW j \in 1..Len(v), v[i] = v[j] PROVE i = j
    BY DEF Once
  <2>2. /\ i \in 1..Len(q) \/ (i - Len(q) \in 1..Len(r) /\ i = Len(q) + (i - Len(q)))
        /\ j \in 1..Len(q) \/ (j - Len(q) \in 1..Len(r) /\ j = Len(q) + (j - Len(q)))
    BY <1>1, <1>3
  <2>3. /\ i \in 1..Len(q) => v[i] = q[i]
        /\ j \in 1..Len(q) => v[j] = q[j]
        /\ i - Len(q) \in 1..Len(r) => v[i] = r[i - Len(q)]
        /\ j - Len(q) \in 1..Len(r) => v[j] = r[j - Len(q)]
    BY <1>1, <1>3, <2>2
  <2>4. CASE i \in 1..Len(q) /\ j \in 1..Len(q)
    BY <2>1, <2>3, <2>4 DEF Once
  <2>5. CASE i - Len(q) \in 1..Len(r) /\ j - Len(q) \in 1..Len(r)
    <3>1. i - Len(q) = j - Len(q)
      BY <2>1, <2>3, <2>5 DEF Once
    <3> QED
      BY <1>1, <3>1
  <2>6. CASE i \in 1..Len(q) /\ j - Len(q) \in 1..Len(r)
    BY <1>2, <2>1, <2>3, <2>6
  <2>7. CASE j \in 1..Len(q) /\ i - Len(q) \in 1..Len(r)
    BY <1>2, <2>1, <2>3, <2>7
  <2> QED
    BY <2>2, <2>4, <2>5, <2>6, <2>7
<1> QED
  BY <1>3

LEMMA ProcessTiersOnce ==
  ASSUME NEW s \in Shards, LifeInv, TiersOnce, processTraces(s)
  PROVE  TiersOnce'
<1> DEFINE g == Head(queue[s])
           t == TraceOf[g]
<1>1. t \in Traces /\ primary \in Seq(Traces) /\ secondary \in Seq(Traces)
  BY HeadAndTail, LifecycleAssumption DEF LifeInv, LifeTypeOK, processTraces
<1>2. /\ Once(RemoveFirst(primary, t)) /\ Once(RemoveFirst(secondary, t))
      /\ ToSet(RemoveFirst(primary, t)) \subseteq ToSet(primary)
      /\ ToSet(RemoveFirst(secondary, t)) \subseteq ToSet(secondary)
      /\ t \notin ToSet(RemoveFirst(secondary, t))
  BY <1>1, RemoveOnce DEF TiersOnce
<1>3. /\ Refresh(primary, t) \in Seq(Traces) /\ Once(Refresh(primary, t))
      /\ ToSet(Refresh(primary, t)) = ToSet(primary) \cup {t}
      /\ Refresh(secondary, t) \in Seq(Traces) /\ Once(Refresh(secondary, t))
      /\ ToSet(Refresh(secondary, t)) = ToSet(secondary) \cup {t}
  BY <1>1, RefreshOnce DEF TiersOnce
<1>4. /\ Once(Trim(Refresh(primary, t), PrimarySize))
      /\ ToSet(Trim(Refresh(primary, t), PrimarySize)) \subseteq ToSet(primary) \cup {t}
      /\ Once(Trim(Refresh(secondary, t), SecondarySize))
      /\ ToSet(Trim(Refresh(secondary, t), SecondarySize)) \subseteq ToSet(secondary) \cup {t}
  <2>1. PrimarySize \in Nat /\ SecondarySize \in Nat
    BY LifecycleAssumption
  <2>2. /\ Once(Trim(Refresh(primary, t), PrimarySize))
        /\ ToSet(Trim(Refresh(primary, t), PrimarySize)) \subseteq ToSet(Refresh(primary, t))
    BY <1>3, <2>1, TrimOnce
  <2>3. /\ Once(Trim(Refresh(secondary, t), SecondarySize))
        /\ ToSet(Trim(Refresh(secondary, t), SecondarySize)) \subseteq ToSet(Refresh(secondary, t))
    BY <1>3, <2>1, TrimOnce
  <2> QED
    BY <1>3, <2>2, <2>3
<1>5. \/ UseDecision(g) \/ DecideSampled(g) \/ DecideNotSampled(g)
      \/ KeepLow(s, g) \/ KeepPending(s, g)
  BY DEF processTraces
<1> HIDE DEF g
<1>6. CASE UseDecision(g)
  BY <1>6 DEF UseDecision, cacheVars, tierVars, TiersOnce
<1>7. CASE DecideSampled(g) \/ DecideNotSampled(g)
  BY <1>2, <1>7 DEF DecideSampled, DecideNotSampled, Release, TiersOnce
<1>8. CASE KeepLow(s, g)
  BY <1>4, <1>8 DEF KeepLow, TiersOnce
<1>9. CASE KeepPending(s, g)
  BY <1>2, <1>4, <1>9 DEF KeepPending, TiersOnce
<1> QED
  BY <1>5, <1>6, <1>7, <1>8, <1>9

\* The traces leave vals in the order of Values, and what is being exported comes
\* before what is not; no more than FlushLimit are exported at a time.
ended == Len(Values) - Len(vals)
FlushOrder ==
  flushBegun =>
    /\ Len(vals) <= Len(Values)
    /\ \A i \in 1..Len(vals) : vals[i] = Values[ended + i]
    /\ \A x \in exporting \ {DecisionExport} : \E i \in 1..ended : Values[i] = x

FlushLimited == IsFiniteSet(exporting) /\ Cardinality(exporting) <= FlushLimit

OrderInv == TiersOnce /\ FlushOrder /\ FlushLimited

LEMMA OrderInvInit == Init => OrderInv
<1> SUFFICES ASSUME Init PROVE OrderInv
  OBVIOUS
<1>1. TiersOnce
  BY NoEntries DEF Init, TiersOnce, Once
<1>2. FlushOrder
  BY DEF Init, FlushOrder, flushBegun
<1>3. FlushLimited
  BY FS_EmptySet, LifecycleAssumption DEF Init, FlushLimited
<1> QED
  BY <1>1, <1>2, <1>3 DEF OrderInv

\* What neither a listener nor the flush does.
LEMMA OrderRests ==
  ASSUME OrderInv, flushBegun' => flushBegun,
         UNCHANGED <<primary, secondary, vals, exporting>>
  PROVE  OrderInv'
<1>1. Values' = Values /\ ended' = ended
  BY DEF Values, ended
<1>2. TiersOnce'
  BY DEF OrderInv, TiersOnce
<1>3. FlushOrder'
  BY <1>1 DEF OrderInv, FlushOrder
<1>4. FlushLimited'
  BY DEF OrderInv, FlushLimited
<1> QED
  BY <1>2, <1>3, <1>4 DEF OrderInv

\* No listener works once the flush has begun.
LEMMA ProcessOrder ==
  ASSUME NEW s \in Shards, LifeInv, EndInv', OrderInv, processTraces(s)
  PROVE  OrderInv'
<1>1. ~flushBegun'
  BY DEF processTraces, EndInv, FlushComesLast
<1>2. TiersOnce'
  BY ProcessTiersOnce DEF OrderInv
<1>3. FlushLimited'
  BY DEF processTraces, flushVars, OrderInv, FlushLimited
<1> QED
  BY <1>1, <1>2, <1>3 DEF OrderInv, FlushOrder

\* At first nothing has left vals, and one goroutine is there.
LEMMA ListenersDoneOrder == LifeInv /\ OrderInv /\ ListenersDone => OrderInv'
<1> SUFFICES ASSUME LifeInv, OrderInv, ListenersDone PROVE OrderInv'
  OBVIOUS
<1>1. UNCHANGED <<primary, secondary, stage, taken>> /\ Values' = Values
  BY DEF ListenersDone, cacheVars, tierVars, Values
<1>2. CASE FlushOnShutdown
  <2>1. vals' = Values /\ exporting' = {DecisionExport}
    BY <1>2 DEF ListenersDone
  <2>2. Values \in Seq(Traces)
    BY ConcatEntries DEF LifeInv, LifeTypeOK, Values
  <2>3. FlushOrder'
    <3>1. Len(Values) \in Nat /\ ended' = 0
      BY <1>1, <2>1, <2>2 DEF ended
    <3> HIDE DEF Values
    <3> QED
      BY <1>1, <2>1, <3>1 DEF FlushOrder
  <2>4. FlushLimited'
    <3>1. IsFiniteSet({DecisionExport}) /\ Cardinality({DecisionExport}) = 1
      BY FS_Singleton
    <3>2. 1 <= FlushLimit
      BY LifecycleAssumption
    <3> QED
      BY <2>1, <3>1, <3>2 DEF FlushLimited
  <2> QED
    BY <1>1, <2>3, <2>4 DEF OrderInv, TiersOnce
<1>3. CASE ~FlushOnShutdown
  <2>1. UNCHANGED <<vals, exporting>>
    BY <1>3 DEF ListenersDone
  <2> QED
    BY <1>1, <2>1, OrderRests DEF flushBegun
<1> QED
  BY <1>2, <1>3

LEMMA SpawnOrder == LifeInv /\ OrderInv /\ Spawn => OrderInv'
<1> SUFFICES ASSUME LifeInv, OrderInv, Spawn PROVE OrderInv'
  OBVIOUS
<1>1. vals \in Seq(Traces) /\ vals # <<>> /\ Values \in Seq(Traces) /\ flushBegun
  BY ConcatEntries DEF Spawn, LifeInv, LifeTypeOK, FlushKeepsUp, inFlush, flushBegun, Values
<1>2. /\ Values' = Values /\ TiersOnce'
      /\ vals' = Tail(vals) /\ exporting' = exporting \cup {Head(vals)}
      /\ Cardinality(exporting) < FlushLimit
  BY DEF Spawn, cacheVars, tierVars, Values, TiersOnce, OrderInv
<1> HIDE DEF Values
<1>3. /\ Len(vals) \in Nat /\ Len(vals) # 0 /\ Head(vals) = vals[1]
      /\ Len(vals') = Len(vals) - 1
      /\ \A i \in 1..(Len(vals) - 1) : vals'[i] = vals[i + 1]
  <2>1. \A q \in Seq(Traces) : q # <<>> =>
          /\ Len(q) \in Nat /\ Len(q) # 0 /\ Head(q) = q[1]
          /\ Len(Tail(q)) = Len(q) - 1
          /\ \A i \in 1..(Len(q) - 1) : Tail(q)[i] = q[i + 1]
    OBVIOUS
  <2> QED
    BY <1>1, <1>2, <2>1
<1>4. /\ Len(vals) <= Len(Values) /\ Len(Values) \in Nat
      /\ \A i \in 1..Len(vals) : vals[i] = Values[ended + i]
      /\ \A x \in exporting \ {DecisionExport} : \E i \in 1..ended : Values[i] = x
  BY <1>1 DEF OrderInv, FlushOrder
<1>5. ended \in Nat /\ ended' = ended + 1
  BY <1>2, <1>3, <1>4 DEF ended
<1>6. FlushOrder'
  <2>1. Len(vals') <= Len(Values')
    BY <1>2, <1>3, <1>4
  <2>2. ASSUME NEW i \in 1..Len(vals') PROVE vals'[i] = Values'[ended' + i]
    <3>1. i + 1 \in 1..Len(vals) /\ vals'[i] = vals[i + 1] /\ ended + (i + 1) = ended' + i
      BY <1>3, <1>5
    <3> QED
      BY <1>2, <1>4, <3>1
  <2>3. ASSUME NEW x \in exporting' \ {DecisionExport}
        PROVE  \E i \in 1..ended' : Values'[i] = x
    <3>1. CASE x \in exporting
      BY <1>2, <1>4, <1>5, <3>1
    <3>2. CASE x = Head(vals)
      <4>1. x = Values[ended + 1] /\ ended + 1 \in 1..ended'
        BY <1>3, <1>4, <1>5, <3>2
      <4> QED
        BY <1>2, <4>1
    <3> QED
      BY <1>2, <3>1, <3>2
  <2> QED
    BY <2>1, <2>2, <2>3 DEF FlushOrder
<1>7. FlushLimited'
  <2>1. /\ IsFiniteSet(exporting) /\ Cardinality(exporting) \in Nat
    BY FS_CardinalityType DEF OrderInv, FlushLimited
  <2>2. /\ IsFiniteSet(exporting')
        /\ Cardinality(exporting') \in {Cardinality(exporting), Cardinality(exporting) + 1}
    BY <1>2, <2>1, FS_AddElement
  <2> QED
    BY <1>2, <2>1, <2>2, LifecycleAssumption DEF FlushLimited
<1> QED
  BY <1>2, <1>6, <1>7 DEF OrderInv

\* An export that ends makes room for another.
LEMMA ExportOrder ==
  ASSUME OrderInv, ExportStep
  PROVE  OrderInv'
<1>1. /\ UNCHANGED <<primary, secondary, vals>> /\ exporting' \subseteq exporting
      /\ flushBegun
  BY DEF ExportStep, TakeDecisions, ExportDecisions, ExportTrace, cacheVars, tierVars, flushBegun
<1>2. Values' = Values /\ ended' = ended /\ TiersOnce'
  BY <1>1 DEF Values, ended, TiersOnce, OrderInv
<1>3. FlushOrder'
  BY <1>1, <1>2 DEF OrderInv, FlushOrder
<1>4. FlushLimited'
  <2>1. /\ IsFiniteSet(exporting') /\ Cardinality(exporting') <= Cardinality(exporting)
        /\ Cardinality(exporting') \in Nat /\ Cardinality(exporting) \in Nat
    BY <1>1, FS_Subset, FS_CardinalityType DEF OrderInv, FlushLimited
  <2> QED
    BY <2>1, LifecycleAssumption DEF OrderInv, FlushLimited
<1> QED
  BY <1>2, <1>3, <1>4 DEF OrderInv

LEMMA CalmOrder ==
  ASSUME LifeInv, OrderInv,
         \/ Start \/ Shutdown \/ ContextEnds \/ GiveUp \/ FlushNext \/ Join
         \/ \E g \in Groups : ConsumeStep(g) \/ AsyncSend(g)
         \/ \E s \in Shards : SeeShutdown(s) \/ ListenerReturns(s)
         \/ \E s \in Shards, t \in Traces : CallbackStep(s, t)
         \/ ShutdownAgain \/ ProcessExits \/ UNCHANGED vars
  PROVE  OrderInv'
<1>1. UNCHANGED <<primary, secondary, vals, exporting, taken>>
  <2>1. CASE \E g \in Groups : ConsumeStep(g) \/ AsyncSend(g)
    BY <2>1 DEF ConsumeStep, ConsumeTraces, EarlyCheckSampled, EarlyCheckNonSampled, Send,
       AsyncSend, cacheVars, tierVars, flushVars
  <2>2. CASE \E s \in Shards, t \in Traces : CallbackStep(s, t)
    BY <2>2 DEF CallbackStep, tierVars, flushVars
  <2>3. CASE \/ Start \/ Shutdown \/ ContextEnds \/ GiveUp \/ FlushNext \/ Join
             \/ \E s \in Shards : SeeShutdown(s) \/ ListenerReturns(s)
             \/ ShutdownAgain \/ ProcessExits \/ UNCHANGED vars
    BY <2>3 DEF Start, Shutdown, ContextEnds, GiveUp, FlushNext, Join, SeeShutdown,
       ListenerReturns, ShutdownAgain, ProcessExits, Die, cacheVars, tierVars, flushVars, vars
  <2> QED
    BY <2>1, <2>2, <2>3
<1>2. ASSUME NEW h \in Groups, stage'[h] \in {"flushed", "unflushed"}
      PROVE  stage[h] \in {"flushed", "unflushed"}
  <2>1. CASE UNCHANGED stage
    BY <1>2, <2>1
  <2>2. CASE \E g \in Groups : ConsumeStep(g) \/ AsyncSend(g)
    BY <1>2, <2>2 DEF ConsumeStep, ConsumeTraces, EarlyCheckSampled, EarlyCheckNonSampled, Send,
       AsyncSend, Settle, LifeInv, LifeTypeOK
  <2>3. CASE \E s \in Shards, t \in Traces : CallbackStep(s, t)
    BY <1>2, <2>3, CallbackStages DEF LifeInv
  <2>4. CASE ShutdownAgain \/ ProcessExits
    BY <1>2, <2>4 DEF ShutdownAgain, ProcessExits, Die
  <2> QED
    BY <2>1, <2>2, <2>3, <2>4 DEF Start, Shutdown, ContextEnds, GiveUp, FlushNext, Join,
       SeeShutdown, ListenerReturns, vars
<1> QED
  BY <1>1, <1>2, OrderRests DEF flushBegun

LEMMA OrderInvStep == LifeInv /\ EndInv /\ OrderInv /\ [Next]_vars => OrderInv'
<1> SUFFICES ASSUME LifeInv, EndInv, OrderInv, [Next]_vars PROVE OrderInv'
  OBVIOUS
<1>1. EndInv'
  BY EndInvStep
<1> QED
  BY <1>1, ProcessOrder, ListenersDoneOrder, SpawnOrder, ExportOrder, CalmOrder
     DEF Next, ListenerStep, ShutdownStep, Gone

\* The place of a trace in a sequence that has it once.
LEMMA PlaceOf ==
  ASSUME NEW S, NEW q \in Seq(S), Once(q), NEW p \in 1..Len(q), NEW t, q[p] = t
  PROVE  LET I == {i \in 1..Len(q) : q[i] = t} IN (IF I # {} THEN Min(I) ELSE 0) = p
<1>1. {i \in 1..Len(q) : q[i] = t} = {p}
  BY DEF Once
<1>2. \A I : I = {p} => (IF I # {} THEN Min(I) ELSE 0) = p
  BY DEF Min
<1> QED
  BY <1>1, <1>2

\* Of what comes before a trace that is being exported, all that is unfinished is
\* being exported too.
LEMMA FewOvertaken ==
  ASSUME LifeInv, OrderInv, NEW t \in exporting \ {DecisionExport}
  PROVE  Cardinality(startedBefore(t) \cap unfinished) < FlushLimit
<1>1. /\ Values \in Seq(Traces) /\ Once(Values) /\ vals \in Seq(Traces)
      /\ Len(Values) \in Nat /\ Len(vals) \in Nat
  BY ConcatOnce, ConcatEntries DEF LifeInv, LifeTypeOK, OrderInv, TiersOnce, Values
<1> HIDE DEF Values
<1>2. /\ Len(vals) <= Len(Values)
      /\ \A i \in 1..Len(vals) : vals[i] = Values[ended + i]
      /\ \A x \in exporting \ {DecisionExport} : \E i \in 1..ended : Values[i] = x
  BY DEF OrderInv, FlushOrder, flushBegun
<1>3. ended \in Nat /\ ended <= Len(Values) /\ ended + Len(vals) = Len(Values)
  BY <1>1, <1>2 DEF ended
<1>4. PICK p \in 1..ended : Values[p] = t
  BY <1>2
<1>5. p \in 1..Len(Values)
  BY <1>1, <1>3
<1>6. startedBefore(t) = {DecisionExport} \cup {Values[i] : i \in 1..(p - 1)}
  <2> DEFINE I == {i \in 1..Len(Values) : Values[i] = t}
             k == IF I # {} THEN Min(I) ELSE 0
  <2>1. k = p
    BY <1>1, <1>4, <1>5, PlaceOf
  <2>2. startedBefore(t) = {DecisionExport} \cup {Values[i] : i \in 1..k - 1}
    BY DEF startedBefore, SelectInSeq
  <2> HIDE DEF k
  <2> QED
    BY <2>1, <2>2
<1>7. ASSUME NEW x \in startedBefore(t) \cap unfinished PROVE x \in exporting /\ x # t
  <2>1. CASE x = DecisionExport
    <3>1. x \notin ToSet(vals)
      BY <1>1, <2>1, ToSetDef, LifecycleAssumption
    <3> QED
      BY <1>7, <2>1, <3>1 DEF unfinished
  <2>2. CASE \E i \in 1..(p - 1) : x = Values[i]
    <3>1. PICK i \in 1..(p - 1) : x = Values[i]
      BY <2>2
    <3>2. i \in 1..Len(Values) /\ i # p /\ i <= ended
      BY <1>1, <1>3, <1>4, <3>1
    <3>3. x # t
      BY <1>1, <1>4, <1>5, <3>1, <3>2 DEF Once
    <3>4. x \notin ToSet(vals)
      <4>1. SUFFICES ASSUME NEW j \in 1..Len(vals), vals[j] = x PROVE FALSE
        BY <1>1, ToSetDef
      <4>2. Values[ended + j] = x /\ ended + j \in 1..Len(Values) /\ ended + j # i
        BY <1>1, <1>2, <1>3, <3>2, <4>1
      <4> QED
        BY <1>1, <3>1, <3>2, <4>2 DEF Once
    <3> QED
      BY <1>7, <3>3, <3>4 DEF unfinished
  <2> QED
    BY <1>6, <1>7, <2>1, <2>2
<1>8. /\ IsFiniteSet(exporting) /\ Cardinality(exporting) \in Nat
      /\ Cardinality(exporting) <= FlushLimit
  BY FS_CardinalityType DEF OrderInv, FlushLimited
<1>9. /\ IsFiniteSet(exporting \ {t}) /\ Cardinality(exporting \ {t}) = Cardinality(exporting) - 1
  BY <1>8, FS_RemoveElement
<1>10. startedBefore(t) \cap unfinished \in SUBSET (exporting \ {t})
  BY <1>7
<1> DEFINE F == startedBefore(t) \cap unfinished
<1> HIDE DEF F
<1>11. Cardinality(F) <= Cardinality(exporting \ {t}) /\ Cardinality(F) \in Nat
  BY <1>9, <1>10, FS_Subset, FS_CardinalityType DEF F
<1> QED
  BY <1>8, <1>9, <1>11, LifecycleAssumption DEF F

\* Exports run concurrently, yet a trace overtakes fewer than FlushLimit of those
\* that come before it, the decision spans and the older traces (DESIGN.md:166;
\* flushAll, processor.go): for every number of traces and every limit.
THEOREM FlushIsRoughlyOldestFirst == Spec => RoughlyOldestFirst
<1>1. Init => LifeInv /\ EndInv /\ OrderInv
  BY LifeInvInit, EndInvInit, OrderInvInit
<1>2. (LifeInv /\ EndInv /\ OrderInv) /\ [Next]_vars => (LifeInv /\ EndInv /\ OrderInv)'
  BY LifeInvStep, EndInvStep, OrderInvStep
<1>3. (LifeInv /\ EndInv /\ OrderInv) /\ [Next]_vars =>
        [\A t \in (exporting \ exporting') \ {DecisionExport} :
           Cardinality(startedBefore(t) \cap unfinished) < FlushLimit]_vars
  BY FewOvertaken
<1> QED
  BY <1>1, <1>2, <1>3, PTL DEF Spec, RoughlyOldestFirst
============================================================================
