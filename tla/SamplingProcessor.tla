------------------------- MODULE SamplingProcessor -------------------------
(***************************************************************************)
(* The running atlassianSamplingProcessor (processor.go): concurrent       *)
(* ConsumeTraces calls, the shard listeners they feed, the four LRU caches *)
(* all shards share, the eviction callbacks and the memory regulator.      *)
(*                                                                         *)
(* A batch is one groupedTraceData: the spans of one trace that one call   *)
(* brings in under one resource.  It also names the TraceData object made  *)
(* from it, so a cache entry, which in the code is a pointer to such an    *)
(* object, is a batch, and data[o] is the set of batches whose spans the   *)
(* object holds.  Every call on a cache is one step, because the cache is  *)
(* locked only for that call; two shards interleave between such steps.    *)
(***************************************************************************)
EXTENDS LRU, FiniteSets

CONSTANTS
  Traces, Batches, Requests, Shards,
  TraceOf,           \* the trace id of a batch
  RequestOf,         \* the ConsumeTraces call that brings a batch in
  KindOf,            \* ordinary spans, or the decision span of a flush
  ShardOf,           \* shardIDForTrace
  PrimaryCacheSize, SecondaryCacheSize, SampledCacheSize, NonSampledCacheSize,
  PreprocessBufferSize,
  CompressionEnabled,
  TargetHeap, HeapReadings,
  MaxTicks,          \* bound on the number of regulator runs
  None               \* no entry, no shard

Kinds      == {"spans", "sampledDecision", "nonSampledDecision"}
Priorities == {"Low", "Unspecified"}

\* The decisions of MakeDecision; which one it takes is the policies' choice.
Decisions  == {"Sampled", "NotSampled", "LowPriority", "Pending"}

ASSUME InputAssumption ==
  /\ IsFiniteSet(Batches)
  /\ TraceOf \in [Batches -> Traces]
  /\ RequestOf \in [Batches -> Requests]
  /\ KindOf \in [Batches -> Kinds]
  /\ ShardOf \in [Traces -> Shards]
  /\ None \notin Batches \cup Shards

\* Config.Validate, and lru.New, which refuses a capacity of 0.
ASSUME ConfigAssumption ==
  /\ PrimaryCacheSize \in Nat
  /\ SecondaryCacheSize \in Nat \ {0}
  /\ SecondaryCacheSize <= PrimaryCacheSize \div 2
  /\ SampledCacheSize \in Nat \ {0}
  /\ NonSampledCacheSize \in Nat \ {0}
  /\ PreprocessBufferSize \in Nat
  /\ CompressionEnabled \in BOOLEAN
  /\ TargetHeap \in Nat \ {0}
  /\ HeapReadings \subseteq Nat
  /\ MaxTicks \in Nat

memRegulator == INSTANCE Regulator
  WITH MinSize <- PrimaryCacheSize \div 4, MaxSize <- PrimaryCacheSize

VARIABLES
  stage,       \* how far each batch has come
  chan,        \* shards: the channel each shard listener reads from
  pc,          \* the next step of each shard listener
  gtdArr,      \* the groups it still has to process; the first is current
  cachedData,  \* what traceData.Get returned for the current group
  finalDecision, \* what MakeDecision returned for the current group
  victims,     \* entries it removed whose eviction callback has not ended
  callback,    \* the next step of the callback for the first victim
  primary, primaryCap, secondary, \* traceData: entries are TraceData objects
  sampled, nonSampled,            \* the decision caches: entries are trace ids
  priority, data,                 \* the state of each TraceData object
  readers, writer,                \* globalLock
  ticks,       \* regulator runs so far
  forwarded,   \* how often the spans of a batch were given to asp.next
  ruledOut,    \* history: the traces ever recorded as not sampled
  dropped      \* the batches whose spans an internal error lost

inputVars  == <<stage, chan>>
localVars  == <<pc, gtdArr, cachedData, finalDecision>>
callbackVars == <<victims, callback>>
traceVars  == <<primary, primaryCap, secondary>>
decisionVars == <<sampled, nonSampled>>
objectVars == <<priority, data>>
lockVars   == <<readers, writer, ticks>>
outputVars == <<forwarded, ruledOut, dropped>>
vars == <<inputVars, localVars, callbackVars, traceVars, decisionVars,
          objectVars, lockVars, outputVars>>

Init ==
  /\ stage = [b \in Batches |-> "new"]
  /\ chan = [s \in Shards |-> <<>>]
  /\ pc = [s \in Shards |-> "listen"]
  /\ gtdArr = [s \in Shards |-> <<>>]
  /\ cachedData = [s \in Shards |-> None]
  /\ finalDecision = [s \in Shards |-> "Pending"]
  /\ victims = [s \in Shards |-> <<>>]
  /\ callback = [s \in Shards |-> "none"]
  /\ primary = <<>>
  /\ primaryCap = (6 * PrimaryCacheSize) \div 10
  /\ secondary = <<>>
  /\ sampled = <<>>
  /\ nonSampled = <<>>
  /\ priority = [b \in Batches |-> "Unspecified"]
  /\ data = [b \in Batches |-> {b}]
  /\ readers = {}
  /\ writer = None
  /\ ticks = 0
  /\ forwarded = [b \in Batches |-> 0]
  /\ ruledOut = {}
  /\ dropped = {}

----------------------------------------------------------------------------
(* Helpers *)

\* The entry a cache of TraceData holds for a trace, or None.
Lookup(q, t) ==
  IF \E o \in ToSet(q) : TraceOf[o] = t
  THEN CHOOSE o \in ToSet(q) : TraceOf[o] = t
  ELSE None

IsHit(q, t) == t \in ToSet(q)

Forward(B) == forwarded' = [b \in Batches |-> forwarded[b] + IF b \in B THEN 1 ELSE 0]

SetStage(b, st) == stage' = [stage EXCEPT ![b] = st]

current(s) == Head(gtdArr[s])
id(s)      == TraceOf[current(s)]

\* A listener is at a step of its main loop and no callback is running in it.
At(s, label) == pc[s] = label /\ callback[s] = "none"
Goto(s, label) == pc' = [pc EXCEPT ![s] = label]

\* The end of one iteration of the loop over gtdArr.
Continue(s) ==
  /\ gtdArr' = [gtdArr EXCEPT ![s] = Tail(@)]
  /\ cachedData' = [cachedData EXCEPT ![s] = None]
  /\ finalDecision' = [finalDecision EXCEPT ![s] = "Pending"]
  /\ Goto(s, IF Len(gtdArr[s]) = 1 THEN "unlock" ELSE "checkSampled")

KeepLocals == UNCHANGED <<gtdArr, cachedData, finalDecision>>

\* golang-lru calls onEvicted for each entry in out, after its own unlock.
Evict(s, tier, out) ==
  /\ victims' = [victims EXCEPT ![s] = out]
  /\ callback' = [callback EXCEPT ![s] =
        IF out = <<>> THEN "none"
        ELSE IF tier = "secondary" THEN "priority" ELSE "checkSampled"]

\* Delete(id) on one tier: an entry that is there leaves through the callback.
DeleteFrom(s, tier, q) ==
  LET o == Lookup(q, id(s))
  IN Evict(s, tier, IF o = None THEN <<>> ELSE <<o>>)

\* What Delete(id) leaves in a tier.  Mutant: a Delete that removes nothing.
WithoutNothing(q, t) == q
Without(q, t) == RemoveFirst(q, Lookup(q, t))

----------------------------------------------------------------------------
(* ConsumeTraces, in the goroutine of the caller *)

batchesOf(r) == {b \in Batches : RequestOf[b] = r}

\* The groups of the call that are left for shard s after the early checks.
shardGroup(r, s) ==
  {b \in batchesOf(r) : stage[b] = "kept" /\ ShardOf[TraceOf[b]] = s}

ConsumeTraces(r) ==
  /\ batchesOf(r) # {}
  /\ \A b \in batchesOf(r) : stage[b] = "new"
  /\ stage' = [b \in Batches |-> IF b \in batchesOf(r) THEN "early" ELSE stage[b]]
  /\ UNCHANGED <<chan, localVars, callbackVars, traceVars, decisionVars,
                 objectVars, lockVars, outputVars>>

\* earlyDecisionChecks takes the groups one after the other.  A decision span
\* is left for the shard listener.
EarlySkip(b) ==
  /\ stage[b] = "early"
  /\ KindOf[b] # "spans"
  /\ SetStage(b, "kept")
  /\ UNCHANGED <<chan, localVars, callbackVars, traceVars, decisionVars,
                 objectVars, lockVars, outputVars>>

\* Mutant: a sampled group that is exported early stays in the map.
EarlyCheckSampledKeeps(b) ==
  /\ stage[b] = "early"
  /\ KindOf[b] = "spans"
  /\ \A c \in batchesOf(RequestOf[b]) : stage[c] # "earlyMiss"
  /\ IF IsHit(sampled, TraceOf[b])
     THEN Forward({b}) /\ SetStage(b, "kept")
     ELSE SetStage(b, "earlyMiss") /\ UNCHANGED forwarded
  /\ UNCHANGED <<chan, localVars, callbackVars, traceVars, decisionVars,
                 objectVars, lockVars, ruledOut, dropped>>

EarlyCheckSampled(b) ==
  /\ stage[b] = "early"
  /\ KindOf[b] = "spans"
  /\ \A c \in batchesOf(RequestOf[b]) : stage[c] # "earlyMiss"
  /\ IF IsHit(sampled, TraceOf[b])
     THEN /\ sampled' = Refresh(sampled, TraceOf[b])
          /\ Forward({b})
          /\ SetStage(b, "settled")
     ELSE /\ SetStage(b, "earlyMiss")
          /\ UNCHANGED <<sampled, forwarded>>
  /\ UNCHANGED <<chan, localVars, callbackVars, traceVars, nonSampled,
                 objectVars, lockVars, ruledOut, dropped>>

EarlyCheckNonSampled(b) ==
  /\ stage[b] = "earlyMiss"
  /\ IF IsHit(nonSampled, TraceOf[b])
     THEN /\ nonSampled' = Refresh(nonSampled, TraceOf[b])
          /\ SetStage(b, "settled")
     ELSE /\ SetStage(b, "kept")
          /\ UNCHANGED nonSampled
  /\ UNCHANGED <<chan, localVars, callbackVars, traceVars, sampled,
                 objectVars, lockVars, outputVars>>

ReadyToSend(r, s) ==
  /\ \A b \in batchesOf(r) : stage[b] \notin {"new", "early", "earlyMiss"}
  /\ shardGroup(r, s) # {}

\* The shards are sent to in parallel.  Iteration over a Go map orders the
\* groups.  An unbuffered channel hands them to a listener that waits for them.
Send(r, s) ==
  /\ ReadyToSend(r, s)
  /\ stage' = [b \in Batches |->
                 IF b \in shardGroup(r, s) THEN "queued" ELSE stage[b]]
  /\ \E arr \in SetToSeqs(shardGroup(r, s)) :
       \/ /\ Len(chan[s]) < PreprocessBufferSize
          /\ chan' = [chan EXCEPT ![s] = Append(@, arr)]
          /\ UNCHANGED <<pc, gtdArr>>
       \/ /\ PreprocessBufferSize = 0
          /\ pc[s] = "listen"
          /\ gtdArr' = [gtdArr EXCEPT ![s] = arr]
          /\ Goto(s, "readLock")
          /\ UNCHANGED chan
  /\ UNCHANGED <<cachedData, finalDecision, callbackVars, traceVars,
                 decisionVars, objectVars, lockVars, outputVars>>

\* The caller's context ends first: ConsumeTraces returns an error.
ContextCancelled(r, s) ==
  /\ ReadyToSend(r, s)
  /\ stage' = [b \in Batches |->
                 IF b \in shardGroup(r, s) THEN "refused" ELSE stage[b]]
  /\ UNCHANGED <<chan, localVars, callbackVars, traceVars, decisionVars,
                 objectVars, lockVars, outputVars>>

----------------------------------------------------------------------------
(* shardListener and the global lock *)

Receive(s) ==
  /\ At(s, "listen")
  /\ chan[s] # <<>>
  /\ gtdArr' = [gtdArr EXCEPT ![s] = Head(chan[s])]
  /\ chan' = [chan EXCEPT ![s] = Tail(@)]
  /\ Goto(s, "readLock")
  /\ UNCHANGED <<stage, cachedData, finalDecision, callbackVars, traceVars,
                 decisionVars, objectVars, lockVars, outputVars>>

\* RLock waits while a writer holds the lock or has announced itself.
ReadLock(s) ==
  /\ At(s, "readLock")
  /\ writer = None
  /\ readers' = readers \cup {s}
  /\ Goto(s, "checkSampled")
  /\ KeepLocals
  /\ UNCHANGED <<inputVars, callbackVars, traceVars, decisionVars, objectVars,
                 writer, ticks, outputVars>>

ReadUnlock(s) ==
  /\ At(s, "unlock")
  /\ readers' = readers \ {s}
  /\ Goto(s, "listen")
  /\ KeepLocals
  /\ UNCHANGED <<inputVars, callbackVars, traceVars, decisionVars, objectVars,
                 writer, ticks, outputVars>>

\* The ticker fires: this listener runs the regulator under the write lock.
Tick(s) ==
  /\ At(s, "listen")
  /\ ticks < MaxTicks
  /\ ticks' = ticks + 1
  /\ Goto(s, "writeLock")
  /\ KeepLocals
  /\ UNCHANGED <<inputVars, callbackVars, traceVars, decisionVars, objectVars,
                 readers, writer, outputVars>>

\* Lock first bars new readers, then waits for the present ones.
AnnounceWriter(s) ==
  /\ At(s, "writeLock")
  /\ writer = None
  /\ writer' = s
  /\ Goto(s, "regulate")
  /\ KeepLocals
  /\ UNCHANGED <<inputVars, callbackVars, traceVars, decisionVars, objectVars,
                 readers, ticks, outputVars>>

\* Mutant: the writer does not wait for the readers.
readersIgnored == TRUE
readersGone == readers = {}

\* The entries lruCache.Resize leaves.  Mutant: only the size field is set.
resizedField(size) == primary
resized(size) == Trim(primary, size)

Regulate(s) ==
  /\ At(s, "regulate")
  /\ readersGone
  /\ \E heap \in HeapReadings :
       \E size \in memRegulator!RegulateCacheSize(primaryCap, heap) :
         /\ primaryCap' = size
         /\ primary' = resized(size)
         /\ Evict(s, "primary", Spill(primary, size))
  /\ Goto(s, "writeUnlock")
  /\ KeepLocals
  /\ UNCHANGED <<inputVars, secondary, decisionVars, objectVars, lockVars,
                 outputVars>>

\* Mutant: the listener regulates again instead of returning to its select.
WriteUnlockRepeats(s) ==
  /\ At(s, "writeUnlock")
  /\ writer' = None
  /\ Goto(s, "writeLock")
  /\ KeepLocals
  /\ UNCHANGED <<inputVars, callbackVars, traceVars, decisionVars, objectVars,
                 readers, ticks, outputVars>>

WriteUnlock(s) ==
  /\ At(s, "writeUnlock")
  /\ writer' = None
  /\ Goto(s, "listen")
  /\ KeepLocals
  /\ UNCHANGED <<inputVars, callbackVars, traceVars, decisionVars, objectVars,
                 readers, ticks, outputVars>>

----------------------------------------------------------------------------
(* cachedDecision, for the current group *)

\* Spans of a sampled trace are sent by a goroutine of their own.
CheckSampled(s) ==
  /\ At(s, "checkSampled")
  /\ IF IsHit(sampled, id(s))
     THEN /\ sampled' = Refresh(sampled, id(s))
          /\ SetStage(current(s),
                IF KindOf[current(s)] = "spans" THEN "async" ELSE "settled")
          /\ Continue(s)
     ELSE /\ Goto(s, "checkNonSampled")
          /\ UNCHANGED <<stage, sampled>> /\ KeepLocals
  /\ UNCHANGED <<chan, callbackVars, traceVars, nonSampled, objectVars,
                 lockVars, outputVars>>

CheckNonSampled(s) ==
  /\ At(s, "checkNonSampled")
  /\ IF IsHit(nonSampled, id(s))
     THEN /\ nonSampled' = Refresh(nonSampled, id(s))
          /\ SetStage(current(s), "settled")
          /\ Continue(s)
     ELSE /\ Goto(s, IF KindOf[current(s)] = "nonSampledDecision"
                     THEN "putNonSampled" ELSE "getPrimary")
          /\ UNCHANGED <<stage, nonSampled>> /\ KeepLocals
  /\ UNCHANGED <<chan, callbackVars, traceVars, sampled, objectVars,
                 lockVars, outputVars>>

AsyncSend(b) ==
  /\ stage[b] = "async"
  /\ SetStage(b, "settled")
  /\ Forward({b})
  /\ UNCHANGED <<chan, localVars, callbackVars, traceVars, decisionVars,
                 objectVars, lockVars, ruledOut, dropped>>

----------------------------------------------------------------------------
(* The rest of processTraces, for the current group *)

\* NewTraceData can only fail when it compresses.
NewTraceDataFails(s) ==
  /\ At(s, "getPrimary")
  /\ KindOf[current(s)] = "spans"
  /\ CompressionEnabled
  /\ dropped' = dropped \cup {current(s)}
  /\ SetStage(current(s), "settled")
  /\ Continue(s)
  /\ UNCHANGED <<chan, callbackVars, traceVars, decisionVars, objectVars,
                 lockVars, forwarded, ruledOut>>

\* A decision span with value true releases and sends what Get returns; spans
\* are evaluated with its metadata.
afterGet(s, o) ==
  IF KindOf[current(s)] = "spans" THEN "decide"
  ELSE IF o = None THEN "putSampled" ELSE "sendCached"

\* traceData.Get asks the primary tier, and the secondary one on a miss.
GetPrimary(s) ==
  /\ At(s, "getPrimary")
  /\ LET o == Lookup(primary, id(s))
     IN IF o # None
        THEN /\ primary' = Refresh(primary, o)
             /\ cachedData' = [cachedData EXCEPT ![s] = o]
             /\ Goto(s, afterGet(s, o))
        ELSE /\ Goto(s, "getSecondary")
             /\ UNCHANGED <<primary, cachedData>>
  /\ UNCHANGED <<inputVars, gtdArr, finalDecision, callbackVars, primaryCap,
                 secondary, decisionVars, objectVars, lockVars, outputVars>>

GetSecondary(s) ==
  /\ At(s, "getSecondary")
  /\ LET o == Lookup(secondary, id(s))
     IN /\ secondary' = IF o # None THEN Refresh(secondary, o) ELSE secondary
        /\ cachedData' = [cachedData EXCEPT ![s] = o]
        /\ Goto(s, afterGet(s, o))
  /\ UNCHANGED <<inputVars, gtdArr, finalDecision, callbackVars, primary,
                 primaryCap, decisionVars, objectVars, lockVars, outputVars>>

\* The object that holds the pending spans once the current ones are absorbed.
held(s) == IF cachedData[s] = None THEN current(s) ELSE cachedData[s]

\* AbsorbTraceData merges into the cached object and keeps the higher priority.
\* Mutants: the priority of the current spans wins; their data is not merged.
AbsorbOverwrites(s, d) ==
  /\ priority' = [priority EXCEPT ![held(s)] = IF d = "LowPriority" THEN "Low" ELSE "Unspecified"]
  /\ data' = [data EXCEPT ![held(s)] = @ \cup {current(s)}]
AbsorbMetadataOnly(s, d) == priority' = [priority EXCEPT ![held(s)] = "Unspecified"] /\ UNCHANGED data

Absorb(s, d) ==
  LET isLow == d = "LowPriority" /\ (cachedData[s] # None => priority[cachedData[s]] = "Low")
  IN /\ priority' = [priority EXCEPT ![held(s)] = IF isLow THEN "Low" ELSE "Unspecified"]
     /\ data' = [data EXCEPT ![held(s)] = @ \cup {current(s)}]

Decide(s) ==
  /\ At(s, "decide")
  /\ \E d \in Decisions :
       /\ finalDecision' = [finalDecision EXCEPT ![s] = d]
       /\ \/ d = "Sampled" /\ Goto(s, "putSampled") /\ UNCHANGED objectVars
          \/ d = "NotSampled" /\ Goto(s, "putNonSampled") /\ UNCHANGED objectVars
          \/ /\ d \in {"LowPriority", "Pending"}
             /\ Absorb(s, d)
             /\ Goto(s, "putDelete")
  /\ UNCHANGED <<inputVars, gtdArr, cachedData, callbackVars, traceVars,
                 decisionVars, lockVars, outputVars>>

\* Mutant: the cached data is not released.
afterPutSampledForgets(s) == "sendCurrent"
afterPutSampled(s) == IF cachedData[s] # None THEN "sendCached" ELSE "sendCurrent"

\* Case Sampled records the decision before it releases the cached data; a
\* decision span with value true records it last.
PutSampled(s) ==
  /\ At(s, "putSampled")
  /\ sampled' = Trim(Refresh(sampled, id(s)), SampledCacheSize)
  /\ IF KindOf[current(s)] = "spans"
     THEN /\ Goto(s, afterPutSampled(s))
          /\ KeepLocals
          /\ UNCHANGED stage
     ELSE SetStage(current(s), "settled") /\ Continue(s)
  /\ UNCHANGED <<chan, callbackVars, traceVars, nonSampled, objectVars,
                 lockVars, outputVars>>

\* GetTraces can only fail when it decompresses; the cached spans are then lost.
SendCached(s) ==
  /\ At(s, "sendCached")
  /\ \/ Forward(data[cachedData[s]]) /\ UNCHANGED dropped
     \/ /\ CompressionEnabled
        /\ dropped' = dropped \cup data[cachedData[s]]
        /\ UNCHANGED forwarded
  /\ Goto(s, "deletePrimary")
  /\ KeepLocals
  /\ UNCHANGED <<inputVars, callbackVars, traceVars, decisionVars, objectVars,
                 lockVars, ruledOut>>

SendCurrent(s) ==
  /\ At(s, "sendCurrent")
  /\ Forward({current(s)})
  /\ SetStage(current(s), "settled")
  /\ Continue(s)
  /\ UNCHANGED <<chan, callbackVars, traceVars, decisionVars, objectVars,
                 lockVars, ruledOut, dropped>>

\* releaseNotSampledTrace, which goes on to delete the trace's data.
PutNonSampled(s) ==
  /\ At(s, "putNonSampled")
  /\ nonSampled' = Trim(Refresh(nonSampled, id(s)), NonSampledCacheSize)
  /\ ruledOut' = ruledOut \cup {id(s)}
  /\ Goto(s, "deletePrimary")
  /\ KeepLocals
  /\ UNCHANGED <<inputVars, callbackVars, traceVars, sampled, objectVars,
                 lockVars, forwarded, dropped>>

\* traceData.Delete removes the trace from both tiers.
DeletePrimary(s) ==
  /\ At(s, "deletePrimary")
  /\ primary' = Without(primary, id(s))
  /\ DeleteFrom(s, "primary", primary)
  /\ Goto(s, "deleteSecondary")
  /\ KeepLocals
  /\ UNCHANGED <<inputVars, primaryCap, secondary, decisionVars, objectVars,
                 lockVars, outputVars>>

DeleteSecondary(s) ==
  /\ At(s, "deleteSecondary")
  /\ secondary' = Without(secondary, id(s))
  /\ DeleteFrom(s, "secondary", secondary)
  /\ CASE KindOf[current(s)] = "sampledDecision" ->
            Goto(s, "putSampled") /\ KeepLocals /\ UNCHANGED stage
       [] finalDecision[s] = "Sampled" ->
            Goto(s, "sendCurrent") /\ KeepLocals /\ UNCHANGED stage
       [] OTHER -> SetStage(current(s), "settled") /\ Continue(s)
  /\ UNCHANGED <<chan, primary, primaryCap, decisionVars, objectVars,
                 lockVars, outputVars>>

\* traceData.Put chooses the tier by priority and clears the other one first.
\* Mutant: the other tier is not cleared.
PutDeleteForgotten(s) ==
  /\ At(s, "putDelete")
  /\ Goto(s, "putInsert")
  /\ KeepLocals
  /\ UNCHANGED <<inputVars, callbackVars, traceVars, decisionVars, objectVars,
                 lockVars, outputVars>>

PutDelete(s) ==
  /\ At(s, "putDelete")
  /\ IF priority[held(s)] = "Low"
     THEN /\ primary' = Without(primary, id(s))
          /\ DeleteFrom(s, "primary", primary)
          /\ UNCHANGED secondary
     ELSE /\ secondary' = Without(secondary, id(s))
          /\ DeleteFrom(s, "secondary", secondary)
          /\ UNCHANGED primary
  /\ Goto(s, "putInsert")
  /\ KeepLocals
  /\ UNCHANGED <<inputVars, primaryCap, decisionVars, objectVars, lockVars,
                 outputVars>>

PutInsert(s) ==
  /\ At(s, "putInsert")
  /\ IF priority[held(s)] = "Low"
     THEN LET q == Insert(secondary, Lookup(secondary, id(s)), held(s))
          IN /\ secondary' = Trim(q, SecondaryCacheSize)
             /\ Evict(s, "secondary", Spill(q, SecondaryCacheSize))
             /\ UNCHANGED primary
     ELSE LET q == Insert(primary, Lookup(primary, id(s)), held(s))
          IN /\ primary' = Trim(q, primaryCap)
             /\ Evict(s, "primary", Spill(q, primaryCap))
             /\ UNCHANGED secondary
  /\ SetStage(current(s), "settled")
  /\ Continue(s)
  /\ UNCHANGED <<chan, primaryCap, decisionVars, objectVars, lockVars,
                 outputVars>>

----------------------------------------------------------------------------
(* The eviction callbacks of the two tiers *)

EndCallback(s) ==
  /\ victims' = [victims EXCEPT ![s] = Tail(@)]
  /\ callback' = [callback EXCEPT ![s] =
                    IF Len(victims[s]) = 1 THEN "none" ELSE "checkSampled"]

victim(s) == Head(victims[s])
victimId(s) == TraceOf[victim(s)]
CallbackGoto(s, label) ==
  callback' = [callback EXCEPT ![s] = label] /\ UNCHANGED victims

\* secondaryEvictionCallback: a promoted trace is not evicted.
\* Mutant: the test of the priority is inverted.
CallbackPriorityInverted(s) ==
  /\ callback[s] = "priority"
  /\ IF priority[victim(s)] # "Low" THEN CallbackGoto(s, "checkSampled")
     ELSE EndCallback(s)
  /\ UNCHANGED <<inputVars, localVars, traceVars, decisionVars, objectVars,
                 lockVars, outputVars>>

CallbackPriority(s) ==
  /\ callback[s] = "priority"
  /\ IF priority[victim(s)] = "Low" THEN CallbackGoto(s, "checkSampled")
     ELSE EndCallback(s)
  /\ UNCHANGED <<inputVars, localVars, traceVars, decisionVars, objectVars,
                 lockVars, outputVars>>

\* cacheEvictionCallback reads both decision caches whatever the first says.
\* Mutant: the sampled decisions are not asked.
CallbackSkipsSampled(s) ==
  /\ callback[s] = "checkSampled"
  /\ CallbackGoto(s, "checkNonSampled")
  /\ UNCHANGED <<inputVars, localVars, traceVars, decisionVars, objectVars,
                 lockVars, outputVars>>

CallbackCheckSampled(s) ==
  /\ callback[s] = "checkSampled"
  /\ IF IsHit(sampled, victimId(s))
     THEN sampled' = Refresh(sampled, victimId(s)) /\ CallbackGoto(s, "touchNonSampled")
     ELSE CallbackGoto(s, "checkNonSampled") /\ UNCHANGED sampled
  /\ UNCHANGED <<inputVars, localVars, traceVars, nonSampled, objectVars,
                 lockVars, outputVars>>

CallbackCheckNonSampled(s) ==
  /\ callback[s] \in {"touchNonSampled", "checkNonSampled"}
  /\ IF IsHit(nonSampled, victimId(s))
     THEN nonSampled' = Refresh(nonSampled, victimId(s)) /\ EndCallback(s)
     ELSE /\ IF callback[s] = "touchNonSampled" THEN EndCallback(s)
             ELSE CallbackGoto(s, "record")
          /\ UNCHANGED nonSampled
  /\ UNCHANGED <<inputVars, localVars, traceVars, sampled, objectVars,
                 lockVars, outputVars>>

\* Neither cache knows the trace: this is a natural eviction.
CallbackRecord(s) ==
  /\ callback[s] = "record"
  /\ nonSampled' = Trim(Refresh(nonSampled, victimId(s)), NonSampledCacheSize)
  /\ ruledOut' = ruledOut \cup {victimId(s)}
  /\ EndCallback(s)
  /\ UNCHANGED <<inputVars, localVars, traceVars, sampled, objectVars,
                 lockVars, forwarded, dropped>>

----------------------------------------------------------------------------
CallbackStep(s) ==
  \/ CallbackPriority(s) \/ CallbackCheckSampled(s)
  \/ CallbackCheckNonSampled(s) \/ CallbackRecord(s)

GroupStep(s) ==
  \/ CheckSampled(s) \/ CheckNonSampled(s) \/ NewTraceDataFails(s)
  \/ GetPrimary(s) \/ GetSecondary(s) \/ Decide(s)
  \/ PutSampled(s) \/ SendCached(s) \/ SendCurrent(s) \/ PutNonSampled(s)
  \/ DeletePrimary(s) \/ DeleteSecondary(s) \/ PutDelete(s) \/ PutInsert(s)

LockStep(s) ==
  \/ ReadLock(s) \/ ReadUnlock(s)
  \/ AnnounceWriter(s) \/ Regulate(s) \/ WriteUnlock(s)

ListenerStep(s) == Receive(s) \/ LockStep(s) \/ GroupStep(s) \/ CallbackStep(s)

EarlyStep(b) == EarlySkip(b) \/ EarlyCheckSampled(b) \/ EarlyCheckNonSampled(b)

\* Every call has returned and every listener waits for what will not come.
Quiet ==
  /\ \A b \in Batches : stage[b] \in {"settled", "refused"}
  /\ \A s \in Shards : pc[s] = "listen" /\ callback[s] = "none"
  /\ ticks = MaxTicks
  /\ UNCHANGED vars

Next ==
  \/ \E r \in Requests : ConsumeTraces(r)
  \/ \E b \in Batches : EarlyStep(b) \/ AsyncSend(b)
  \/ \E r \in Requests, s \in Shards : Send(r, s) \/ ContextCancelled(r, s)
  \/ \E s \in Shards : Tick(s) \/ ListenerStep(s)
  \/ Quiet

Spec == Init /\ [][Next]_vars

\* The Go scheduler runs every goroutine that can run, asp.next returns, and a
\* channel that a listener reads from is sent to.  Ticks and new calls are the
\* environment's.
Fairness ==
  /\ \A b \in Batches : WF_vars(EarlyStep(b)) /\ WF_vars(AsyncSend(b))
  /\ \A r \in Requests, s \in Shards : WF_vars(Send(r, s))
  /\ \A s \in Shards : WF_vars(ListenerStep(s))

FairSpec == Spec /\ Fairness
============================================================================
