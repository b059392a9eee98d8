------------------------ MODULE ProcessorProperties ------------------------
(***************************************************************************)
(* What the running processor must never do, and what it must end up       *)
(* doing, over the interleavings of SamplingProcessor.                     *)
(***************************************************************************)
EXTENDS SamplingProcessor

Stages == {"new", "early", "earlyMiss", "kept", "refused", "queued", "async",
           "settled"}
Labels == {"listen", "readLock", "unlock", "writeLock", "regulate",
           "writeUnlock", "checkSampled", "checkNonSampled", "getPrimary",
           "getSecondary", "decide", "putSampled", "sendCached", "sendCurrent",
           "putNonSampled", "deletePrimary", "deleteSecondary", "putDelete",
           "putInsert"}
CallbackLabels == {"none", "priority", "checkSampled", "touchNonSampled",
                   "checkNonSampled", "record"}

\* The type invariant: every variable of SamplingProcessor holds a value the
\* code can give it, and no cache holds more entries than its capacity.
TypeOK ==
  /\ stage \in [Batches -> Stages]
  /\ chan \in [Shards -> Seq(Seq(Batches))]
  /\ pc \in [Shards -> Labels]
  /\ gtdArr \in [Shards -> Seq(Batches)]
  /\ cachedData \in [Shards -> Batches \cup {None}]
  /\ finalDecision \in [Shards -> Decisions]
  /\ victims \in [Shards -> Seq(Batches)]
  /\ callback \in [Shards -> CallbackLabels]
  /\ primary \in Seq(Batches) /\ Len(primary) <= primaryCap
  /\ primaryCap \in Nat
  /\ secondary \in Seq(Batches) /\ Len(secondary) <= SecondaryCacheSize
  /\ sampled \in Seq(Traces) /\ Len(sampled) <= SampledCacheSize
  /\ nonSampled \in Seq(Traces) /\ Len(nonSampled) <= NonSampledCacheSize
  /\ priority \in [Batches -> Priorities]
  /\ data \in [Batches -> SUBSET Batches]
  /\ readers \subseteq Shards
  /\ writer \in Shards \cup {None}
  /\ ticks \in 0..MaxTicks
  /\ forwarded \in [Batches -> Nat]
  /\ ruledOut \subseteq Traces
  /\ dropped \subseteq Batches

----------------------------------------------------------------------------
(* Safety, for any number of shards *)

\* "to prevent a key appearing in both primary and secondary"
\* (tiered_cache.go:38-40): whatever the other shards evict between the Delete
\* and the Put that traceData.Put is made of, no trace is in both tiers.
TierDisjoint ==
  \A o \in ToSet(primary), p \in ToSet(secondary) : TraceOf[o] # TraceOf[p]

promoting(o) ==
  \E s \in Shards : pc[s] = "putDelete" /\ cachedData[s] = o

\* The tier an object is in follows its priority, which absorbing spans raises
\* in place: only between AbsorbTraceData and the Delete of its own Put can an
\* object of the secondary tier be other than low, so secondaryEvictionCallback
\* takes no natural eviction for a promotion that nobody is making.
TierMatchesPriority ==
  /\ \A o \in ToSet(primary) : priority[o] = "Unspecified"
  /\ \A o \in ToSet(secondary) : priority[o] = "Low" \/ promoting(o)

releasing(t) ==
  \E s \in Shards : /\ pc[s] \in {"sendCached", "deletePrimary", "deleteSecondary"}
                    /\ id(s) = t

\* A trace remembered as sampled has no spans left waiting in the trace data
\* caches, where they would never be sent, except while its own shard is
\* releasing them (processTraces, case Sampled, and cachedDecision).
SampledIsReleased ==
  \A o \in ToSet(primary) \cup ToSet(secondary) :
    IsHit(sampled, TraceOf[o]) => releasing(TraceOf[o])

\* The spans of a batch reach the next consumer at most once, whichever of the
\* early check, the async send, the release of cached data or the send of the
\* current trace gives them away.
ForwardedAtMostOnce == \A b \in Batches : forwarded[b] <= 1

\* "cache size regulation needs global write lock because it will affect data
\* owned by other shards" (processor.go:304): the capacity changes only while
\* no shard is between the first and the last step of a processTraces call.
ResizeStopsTheWorld ==
  [][primaryCap' # primaryCap =>
       \A s \in Shards : pc[s] \in {"listen", "readLock", "writeLock", "regulate"}]_vars

----------------------------------------------------------------------------
(* Safety that only one shard guarantees *)

\* sampledDecisionCache "holds the set of trace IDs that were sampled" and
\* nonSampledDecisionCache those "that were not sampled" (processor.go:55-58):
\* no trace is in both.
OneVerdict == ToSet(sampled) \cap ToSet(nonSampled) = {}

releasingNonSampled(t) ==
  \E s \in Shards : pc[s] \in {"deletePrimary", "deleteSecondary"} /\ id(s) = t

\* A trace remembered as not sampled has no spans left in the trace data
\* caches, except while releaseNotSampledTrace is deleting them.
NonSampledIsReleased ==
  \A o \in ToSet(primary) \cup ToSet(secondary) :
    IsHit(nonSampled, TraceOf[o]) => releasingNonSampled(TraceOf[o])

\* Where the spans of a batch still are, once its own iteration is over: in an
\* object in a cache, held by the shard at work on it, or under eviction.
inCache(b) ==
  \E o \in ToSet(primary) \cup ToSet(secondary) : b \in data[o]
inHand(b) ==
  \E s \in Shards :
    \/ cachedData[s] # None /\ b \in data[cachedData[s]]
    \/ \E o \in ToSet(victims[s]) : b \in data[o]

\* "Once a trace is evicted from this cache, it is considered not sampled"
\* (DESIGN.md:119): no spans vanish unrecorded.  Once processed they have been
\* sent, or they are still held, or their trace was recorded as not sampled, or
\* an internal error lost them.
NoSilentLoss ==
  \A b \in Batches :
    stage[b] = "settled" /\ KindOf[b] = "spans" =>
      \/ forwarded[b] > 0
      \/ inCache(b) \/ inHand(b)
      \/ TraceOf[b] \in ruledOut
      \/ b \in dropped

\* The refinement mapping to SpanFate: a batch of spans is inside from the
\* call that brings it in until it is sent, lost or no longer held by anyone.
spanBatches == {b \in Batches : KindOf[b] = "spans"}
fateSent    == {b \in spanBatches : forwarded[b] > 0}
fateInside  ==
  {b \in spanBatches : /\ stage[b] \notin {"new", "refused"}
                       /\ stage[b] = "settled" => inCache(b) \/ inHand(b)
                       /\ b \notin fateSent \cup dropped}
fateDiscarded ==
  {b \in spanBatches : stage[b] = "settled"} \ (fateInside \cup fateSent \cup dropped)

Fate == INSTANCE SpanFate
  WITH Batches <- spanBatches,
       inside <- fateInside, sent <- fateSent, lost <- dropped,
       discarded <- fateDiscarded, ruledOut <- ruledOut

\* The processor keeps the promise of SpanFate: no spans are sent twice, sent
\* after having been given up, or given up before their trace is ruled out.
ImplementsSpanFate == Fate!Spec

----------------------------------------------------------------------------
(* Liveness, under FairSpec *)

\* Every batch a listener may read from its channel is eventually processed:
\* no shard waits for ever for the lock, the regulator or another shard.
EveryBatchSettles ==
  \A b \in Batches : stage[b] = "queued" ~> stage[b] = "settled"
============================================================================
