----------------------------- MODULE Lifecycle -----------------------------
(***************************************************************************)
(* Start, the drain of the channels, Shutdown and flushAll (processor.go). *)
(*                                                                         *)
(* A group is the spans one ConsumeTraces call brings for one trace.  The  *)
(* early checks of the calls run beside the listeners, a step for each     *)
(* read.  What a listener does with a group up to the eviction it causes   *)
(* is one step, and each call of the eviction callback is one.  One        *)
(* listener is alone in writing the caches, so with one this is exact.     *)
(* With several it leaves out what one writes between two calls of another *)
(* on the caches before an eviction (SamplingProcessor has that): the      *)
(* properties below are about the end, when no listener runs, and those of *)
(* ScaleDown that follow every group are stated for one listener.          *)
(*                                                                         *)
(* A tier is the sequence of the ids of its traces, oldest first.  No      *)
(* compression, so cached data can be read.  The collector stops the       *)
(* receivers before it calls Shutdown, and exits after it.                 *)
(***************************************************************************)
EXTENDS LRU, FiniteSets

CONSTANTS
  Groups, Traces, Shards,
  TraceOf, ShardOf,
  PrimarySize, SecondarySize, \* capacities of the tiers
  SampledSize, NonSampledSize, \* capacities of the decision caches
  PreprocessBufferSize, \* an unbuffered channel holds nothing to drain
  FlushOnShutdown,
  FlushLimit,           \* group.SetLimit
  DecisionExport        \* the goroutine that exports the decision spans

ASSUME LifecycleAssumption ==
  /\ IsFiniteSet(Groups)
  /\ TraceOf \in [Groups -> Traces]
  /\ ShardOf \in [Traces -> Shards]
  /\ PrimarySize \in Nat \ {0} /\ SecondarySize \in Nat \ {0}
  /\ SampledSize \in Nat \ {0} /\ NonSampledSize \in Nat \ {0}
  /\ PreprocessBufferSize \in Nat \ {0}
  /\ FlushOnShutdown \in BOOLEAN
  /\ FlushLimit \in Nat \ {0}
  /\ DecisionExport \notin Traces

VARIABLES
  started, shutdown,   \* the flag, and whether the channel is closed
  caller,              \* where the calls of Start and Shutdown stand
  result,              \* what Shutdown returned
  ctxDone,             \* Shutdown's context has ended
  listener, queue,     \* each shard listener and its channel
  evicted,             \* the groups whose eviction callback a listener is in
  callback,            \* the next step of that callback
  stage,               \* where the spans of each group are
  primary, secondary,  \* the tiers of the trace data cache
  sampled, nonSampled, \* the decision caches, which forget
  forgotten,           \* history: the decisions that were evicted from them
  vals,                \* flushAll: the traces it has not started to export
  exporting,           \* flushAll: the goroutines of its errgroup
  taken,               \* the decisions taken out of the caches
  decisionSpans,       \* those the next consumer got
  exportFailed

serviceVars == <<started, shutdown, caller, result, ctxDone>>
callbackVars == <<evicted, callback>>
listenVars  == <<listener, queue, callbackVars>>
tierVars    == <<primary, secondary>>
decisionVars == <<sampled, nonSampled, forgotten>>
cacheVars   == <<tierVars, decisionVars>>
flushVars   == <<vals, exporting, taken, decisionSpans, exportFailed>>
vars == <<serviceVars, listenVars, stage, cacheVars, flushVars>>

Init ==
  /\ started = FALSE /\ shutdown = FALSE
  /\ caller = "new" /\ result = "none" /\ ctxDone = FALSE
  /\ listener = [s \in Shards |-> "none"]
  /\ queue = [s \in Shards |-> <<>>]
  /\ evicted = [s \in Shards |-> {}]
  /\ callback = [s \in Shards |-> "none"]
  /\ stage = [g \in Groups |-> "new"]
  /\ primary = <<>> /\ secondary = <<>>
  /\ sampled = <<>> /\ nonSampled = <<>> /\ forgotten = {}
  /\ vals = <<>> /\ exporting = {} /\ taken = {}
  /\ decisionSpans = {} /\ exportFailed = FALSE

----------------------------------------------------------------------------
(* Start and ConsumeTraces *)

\* The decider may fail to start: then no listener runs, and started stays set.
Start ==
  /\ caller = "new"
  /\ started' = TRUE
  /\ \/ caller' = "started" /\ listener' = [s \in Shards |-> "running"]
     \/ caller' = "startFailed" /\ UNCHANGED listener
  /\ UNCHANGED <<shutdown, result, ctxDone, queue, callbackVars, stage, cacheVars, flushVars>>

Settle(G, st) == stage' = [h \in Groups |-> IF h \in G THEN st ELSE stage[h]]

\* Get of a decision cache, and what Put makes of one and what it evicts.
Touch(q, t) == IF t \in ToSet(q) THEN Refresh(q, t) ELSE q
Put(q, t, size) == Trim(Refresh(q, t), size)
PutEvicts(q, t, size) == ToSet(Spill(Refresh(q, t), size))

ConsumeTraces(g) ==
  /\ caller = "started"
  /\ stage[g] = "new"
  /\ Settle({g}, "early")
  /\ UNCHANGED <<serviceVars, listenVars, cacheVars, flushVars>>

\* earlyDecisionChecks: spans of a sampled trace are sent by the caller.
EarlyCheckSampled(g) ==
  /\ stage[g] = "early"
  /\ sampled' = Touch(sampled, TraceOf[g])
  /\ Settle({g}, IF TraceOf[g] \in ToSet(sampled) THEN "sent" ELSE "missed")
  /\ UNCHANGED <<serviceVars, listenVars, tierVars, nonSampled, forgotten, flushVars>>

EarlyCheckNonSampled(g) ==
  /\ stage[g] = "missed"
  /\ nonSampled' = Touch(nonSampled, TraceOf[g])
  /\ Settle({g}, IF TraceOf[g] \in ToSet(nonSampled) THEN "ruledOut" ELSE "kept")
  /\ UNCHANGED <<serviceVars, listenVars, tierVars, sampled, forgotten, flushVars>>

Send(g) ==
  /\ stage[g] = "kept"
  /\ Len(queue[ShardOf[TraceOf[g]]]) < PreprocessBufferSize
  /\ Settle({g}, "queued")
  /\ queue' = [queue EXCEPT ![ShardOf[TraceOf[g]]] = Append(@, g)]
  /\ UNCHANGED <<serviceVars, listener, callbackVars, cacheVars, flushVars>>

ConsumeStep(g) ==
  ConsumeTraces(g) \/ EarlyCheckSampled(g) \/ EarlyCheckNonSampled(g) \/ Send(g)

----------------------------------------------------------------------------
(* The shard listeners *)

\* The groups g joins in the cache, and g itself.
cachedGroups(t) == {g \in Groups : stage[g] = "cached" /\ TraceOf[g] = t}
together(g) == {g} \cup cachedGroups(TraceOf[g])

\* A cached decision settles the group; late spans of a sampled trace are sent
\* by a goroutine that nobody waits for.
UseDecision(g) ==
  /\ \/ /\ TraceOf[g] \in ToSet(sampled)
        /\ sampled' = Touch(sampled, TraceOf[g])
        /\ Settle({g}, "async")
        /\ UNCHANGED nonSampled
     \/ /\ TraceOf[g] \in ToSet(nonSampled) \ ToSet(sampled)
        /\ nonSampled' = Touch(nonSampled, TraceOf[g])
        /\ Settle({g}, "ruledOut")
        /\ UNCHANGED sampled
  /\ UNCHANGED <<tierVars, callbackVars, forgotten>>

\* traceData.Delete, whose callback finds the decision just recorded.
Release(t) ==
  /\ primary' = RemoveFirst(primary, t)
  /\ secondary' = RemoveFirst(secondary, t)

PutSampled(t) ==
  /\ sampled' = Put(sampled, t, SampledSize)
  /\ forgotten' = forgotten \cup ({"sampled"} \X PutEvicts(sampled, t, SampledSize))
  /\ UNCHANGED nonSampled

PutNonSampled(t) ==
  /\ nonSampled' = Put(nonSampled, t, NonSampledSize)
  /\ forgotten' = forgotten \cup ({"nonSampled"} \X PutEvicts(nonSampled, t, NonSampledSize))
  /\ UNCHANGED sampled

\* Mutant: the data that was cached stays there.
DecideSampledKeeps(g) ==
  /\ PutSampled(TraceOf[g])
  /\ Settle({g}, "sent")
  /\ UNCHANGED <<tierVars, callbackVars>>

DecideSampled(g) ==
  /\ PutSampled(TraceOf[g])
  /\ Release(TraceOf[g])
  /\ Settle(together(g), "sent")
  /\ UNCHANGED callbackVars

DecideNotSampled(g) ==
  /\ PutNonSampled(TraceOf[g])
  /\ Release(TraceOf[g])
  /\ Settle(together(g), "ruledOut")
  /\ UNCHANGED callbackVars

\* The group is cached, and the callback of what its Put evicts begins.
Keep(s, g, out) ==
  /\ evicted' = [evicted EXCEPT ![s] = UNION {cachedGroups(t) : t \in out}]
  /\ callback' = [callback EXCEPT ![s] = IF out = {} THEN "none" ELSE "checkSampled"]
  /\ stage' = [h \in Groups |->
                 IF h = g THEN "cached"
                 ELSE IF stage[h] = "cached" /\ TraceOf[h] \in out THEN "evicted"
                 ELSE stage[h]]
  /\ UNCHANGED decisionVars

\* tieredCache.Put.  The higher of two priorities prevails, so a low one counts
\* only for a trace that is not in the primary tier.
KeepLow(s, g) ==
  LET q == Refresh(secondary, TraceOf[g])
  IN /\ TraceOf[g] \notin ToSet(primary)
     /\ secondary' = Trim(q, SecondarySize)
     /\ Keep(s, g, ToSet(Spill(q, SecondarySize)))
     /\ UNCHANGED primary

KeepPending(s, g) ==
  LET q == Refresh(primary, TraceOf[g])
  IN /\ secondary' = RemoveFirst(secondary, TraceOf[g])
     /\ primary' = Trim(q, PrimarySize)
     /\ Keep(s, g, ToSet(Spill(q, PrimarySize)))

\* Before and after the shutdown signal, a group that waits may be received.
processTraces(s) ==
  LET g == Head(queue[s])
  IN /\ listener[s] \in {"running", "draining"}
     /\ callback[s] = "none"
     /\ queue[s] # <<>>
     /\ queue' = [queue EXCEPT ![s] = Tail(@)]
     /\ \/ UseDecision(g)
        \/ /\ TraceOf[g] \notin ToSet(sampled) \cup ToSet(nonSampled)
           /\ \/ DecideSampled(g) \/ DecideNotSampled(g)
              \/ KeepLow(s, g) \/ KeepPending(s, g)
     /\ UNCHANGED <<serviceVars, listener, flushVars>>

\* cacheEvictionCallback, for the evicted trace t, reads both decision caches.
EvictedTrace(s, t) == {TraceOf[g] : g \in evicted[s]} = {t}

EndCallback(s, st) ==
  /\ callback' = [callback EXCEPT ![s] = "none"]
  /\ evicted' = [evicted EXCEPT ![s] = {}]
  /\ Settle(evicted[s], st)

CallbackCheckSampled(s, t) ==
  /\ callback[s] = "checkSampled"
  /\ sampled' = Touch(sampled, t)
  /\ callback' = [callback EXCEPT ![s] =
        IF t \in ToSet(sampled) THEN "touchNonSampled" ELSE "checkNonSampled"]
  /\ UNCHANGED <<nonSampled, forgotten, evicted, stage>>

\* What is taken for an explicit deletion, though nothing was done with the
\* evicted spans, vanishes if the decision is to sample.
CallbackCheckNonSampled(s, t) ==
  /\ callback[s] \in {"touchNonSampled", "checkNonSampled"}
  /\ nonSampled' = Touch(nonSampled, t)
  /\ IF callback[s] = "checkNonSampled" /\ t \notin ToSet(nonSampled)
     THEN callback' = [callback EXCEPT ![s] = "record"] /\ UNCHANGED <<evicted, stage>>
     ELSE EndCallback(s, IF callback[s] = "touchNonSampled" THEN "vanished" ELSE "ruledOut")
  /\ UNCHANGED <<sampled, forgotten>>

\* Mutant: the evicted trace is not recorded.
CallbackForgets(s, t) ==
  /\ callback[s] = "record"
  /\ EndCallback(s, "ruledOut")
  /\ UNCHANGED decisionVars

CallbackRecord(s, t) ==
  /\ callback[s] = "record"
  /\ PutNonSampled(t)
  /\ EndCallback(s, "ruledOut")

CallbackStep(s, t) ==
  /\ EvictedTrace(s, t)
  /\ \/ CallbackCheckSampled(s, t) \/ CallbackCheckNonSampled(s, t)
     \/ CallbackRecord(s, t)
  /\ UNCHANGED <<serviceVars, listener, queue, tierVars, flushVars>>

SeeShutdown(s) ==
  /\ listener[s] = "running" /\ callback[s] = "none"
  /\ shutdown
  /\ listener' = [listener EXCEPT ![s] = "draining"]
  /\ UNCHANGED <<serviceVars, queue, callbackVars, stage, cacheVars, flushVars>>

\* Mutant: the listener does not look at what its channel still holds.
ListenerReturnsEarly(s) ==
  /\ listener[s] = "draining" /\ callback[s] = "none"
  /\ listener' = [listener EXCEPT ![s] = "done"]
  /\ UNCHANGED <<serviceVars, queue, callbackVars, stage, cacheVars, flushVars>>

\* The channel is empty, or the listener's own deadline, which is later than
\* Shutdown's, has passed.
ListenerReturns(s) ==
  /\ listener[s] = "draining" /\ callback[s] = "none"
  /\ queue[s] = <<>> \/ ctxDone
  /\ listener' = [listener EXCEPT ![s] = "done"]
  /\ UNCHANGED <<serviceVars, queue, callbackVars, stage, cacheVars, flushVars>>

AsyncSend(g) ==
  /\ stage[g] = "async"
  /\ Settle({g}, "sent")
  /\ UNCHANGED <<serviceVars, listenVars, cacheVars, flushVars>>

----------------------------------------------------------------------------
(* Shutdown *)

\* Mutant: the secondary tier is forgotten.
ValuesOfPrimary == primary

\* tieredCache.Values
Values == primary \o secondary

Return(r) == caller' = "returned" /\ result' = r

\* The receivers have been stopped: no call of ConsumeTraces is under way.
Shutdown ==
  /\ caller \in {"new", "started", "startFailed"}
  /\ \A g \in Groups : stage[g] \notin {"early", "missed", "kept"}
  /\ IF ~started
     THEN Return("nil") /\ UNCHANGED shutdown
     ELSE shutdown' = TRUE /\ caller' = "waiting" /\ UNCHANGED result
  /\ UNCHANGED <<started, ctxDone, listenVars, stage, cacheVars, flushVars>>

\* The parent context is cancelled, or 50 seconds have passed.
ContextEnds ==
  /\ shutdown /\ ~ctxDone
  /\ ctxDone' = TRUE
  /\ UNCHANGED <<started, shutdown, caller, result, listenVars, stage, cacheVars, flushVars>>

\* Mutant: listeners that were never started are waited for too.
ListenersDoneAll ==
  /\ caller = "waiting"
  /\ \A s \in Shards : listener[s] = "done"
  /\ started' = FALSE
  /\ caller' = IF FlushOnShutdown THEN "flushing" ELSE "returned"
  /\ result' = IF FlushOnShutdown THEN result ELSE "nil"
  /\ vals' = Values
  /\ exporting' = IF FlushOnShutdown THEN {DecisionExport} ELSE {}
  /\ UNCHANGED <<shutdown, ctxDone, listenVars, stage, cacheVars, taken,
                 decisionSpans, exportFailed>>

\* Mutant: started is left for the flush to clear.
ListenersDoneStarted ==
  /\ caller = "waiting"
  /\ \A s \in Shards : listener[s] \in {"none", "done"}
  /\ IF FlushOnShutdown
     THEN /\ caller' = "flushing"
          /\ vals' = Values
          /\ exporting' = {DecisionExport}
          /\ UNCHANGED result
     ELSE Return("nil") /\ UNCHANGED <<vals, exporting>>
  /\ UNCHANGED <<started, shutdown, ctxDone, listenVars, stage, cacheVars, taken,
                 decisionSpans, exportFailed>>

ListenersDone ==
  /\ caller = "waiting"
  /\ \A s \in Shards : listener[s] \in {"none", "done"}
  /\ started' = FALSE
  /\ IF FlushOnShutdown
     THEN /\ caller' = "flushing"
          /\ vals' = Values
          /\ exporting' = {DecisionExport}
          /\ UNCHANGED result
     ELSE Return("nil") /\ UNCHANGED <<vals, exporting>>
  /\ UNCHANGED <<shutdown, ctxDone, listenVars, stage, cacheVars, taken,
                 decisionSpans, exportFailed>>

\* Every place where Shutdown and flushAll select on the context.
GiveUp ==
  /\ ctxDone
  /\ caller \in {"waiting", "joining"} \/ (caller = "flushing" /\ vals # <<>>)
  /\ Return("error")
  /\ UNCHANGED <<started, shutdown, ctxDone, listenVars, stage, cacheVars, flushVars>>

----------------------------------------------------------------------------
(* flushAll *)

\* The context is only looked at before group.Go, which waits for a free slot.
FlushNext ==
  /\ caller = "flushing"
  /\ vals # <<>> => ~ctxDone
  /\ caller' = IF vals = <<>> THEN "joining" ELSE "spawning"
  /\ UNCHANGED <<started, shutdown, result, ctxDone, listenVars, stage, cacheVars, flushVars>>

\* Mutant: the errgroup has no limit.
SpawnUnlimited ==
  /\ caller = "spawning"
  /\ caller' = "flushing"
  /\ vals' = Tail(vals)
  /\ exporting' = exporting \cup {Head(vals)}
  /\ UNCHANGED <<started, shutdown, result, ctxDone, listenVars, stage, cacheVars,
                 taken, decisionSpans, exportFailed>>

Spawn ==
  /\ caller = "spawning"
  /\ Cardinality(exporting) < FlushLimit
  /\ caller' = "flushing"
  /\ vals' = Tail(vals)
  /\ exporting' = exporting \cup {Head(vals)}
  /\ UNCHANGED <<started, shutdown, result, ctxDone, listenVars, stage, cacheVars,
                 taken, decisionSpans, exportFailed>>

noDecisions == sampled = <<>> /\ nonSampled = <<>>

\* The decisions leave their caches before they are exported.
TakeDecisions ==
  /\ DecisionExport \in exporting
  /\ ~noDecisions
  /\ taken' = ({"sampled"} \X ToSet(sampled)) \cup ({"nonSampled"} \X ToSet(nonSampled))
  /\ sampled' = <<>> /\ nonSampled' = <<>>
  /\ UNCHANGED <<serviceVars, listenVars, stage, tierVars, forgotten, vals, exporting,
                 decisionSpans, exportFailed>>

ExportDecisions ==
  /\ DecisionExport \in exporting
  /\ noDecisions
  /\ exporting' = exporting \ {DecisionExport}
  /\ \/ decisionSpans' = taken /\ UNCHANGED exportFailed
     \/ exportFailed' = TRUE /\ UNCHANGED decisionSpans
  /\ UNCHANGED <<serviceVars, listenVars, stage, cacheVars, vals, taken>>

\* Mutant: the error of an export is only logged.
ExportTraceSwallows(t) ==
  /\ t \in exporting
  /\ exporting' = exporting \ {t}
  /\ Settle(cachedGroups(t), "flushed") \/ Settle(cachedGroups(t), "unflushed")
  /\ UNCHANGED <<serviceVars, listenVars, cacheVars, vals, taken, decisionSpans, exportFailed>>

\* GetTraces or the next consumer may fail.
ExportTrace(t) ==
  /\ t \in exporting
  /\ exporting' = exporting \ {t}
  /\ \/ Settle(cachedGroups(t), "flushed") /\ UNCHANGED exportFailed
     \/ Settle(cachedGroups(t), "unflushed") /\ exportFailed' = TRUE
  /\ UNCHANGED <<serviceVars, listenVars, cacheVars, vals, taken, decisionSpans>>

Join ==
  /\ caller = "joining"
  /\ exporting = {}
  /\ Return(IF exportFailed THEN "error" ELSE "nil")
  /\ UNCHANGED <<started, shutdown, ctxDone, listenVars, stage, cacheVars, flushVars>>

----------------------------------------------------------------------------
(* The end *)

\* With the process go its goroutines and what they have not given away.
Die(how) ==
  /\ caller' = how
  /\ stage' = [g \in Groups |->
                 IF stage[g] \in {"queued", "async", "cached", "evicted"} THEN "lost" ELSE stage[g]]
  /\ UNCHANGED <<started, shutdown, result, ctxDone, listenVars, cacheVars, flushVars>>

\* A caller that has been given an error may try again.  Shutdown returns nil
\* at once if the listeners were seen to end, and otherwise closes the closed
\* channel, which panics.
ShutdownAgain ==
  /\ caller = "returned" /\ result = "error"
  /\ started
  /\ Die("panicked")

ProcessExits == caller = "returned" /\ Die("exited")

Alive == caller \notin {"panicked", "exited"}

Gone == ~Alive /\ UNCHANGED vars

----------------------------------------------------------------------------
ListenerStep(s) ==
  /\ Alive
  /\ \/ processTraces(s) \/ SeeShutdown(s) \/ ListenerReturns(s)
     \/ \E t \in Traces : CallbackStep(s, t)
ShutdownStep == ListenersDone \/ GiveUp \/ FlushNext \/ Spawn \/ Join
ExportStep == Alive /\ (TakeDecisions \/ ExportDecisions \/ \E t \in Traces : ExportTrace(t))

Next ==
  \/ Start \/ Shutdown \/ (Alive /\ ContextEnds)
  \/ \E g \in Groups : ConsumeStep(g) \/ (Alive /\ AsyncSend(g))
  \/ \E s \in Shards : ListenerStep(s)
  \/ ShutdownStep \/ ExportStep
  \/ ShutdownAgain \/ ProcessExits \/ Gone

Spec == Init /\ [][Next]_vars

\* The scheduler runs every goroutine, and the next consumer returns.  Nothing
\* is assumed of the context: Shutdown must not need its deadline.
Fairness ==
  /\ \A s \in Shards : WF_vars(ListenerStep(s))
  /\ WF_vars(ShutdownStep) /\ WF_vars(ExportStep)

FairLifecycle == Spec /\ Fairness

----------------------------------------------------------------------------
\* A Shutdown that reports success with flush_on_shutdown has flushed: no spans
\* are left in a cache or failed to leave it, none wait in a channel unless the
\* deadline passed, no export is still running, and every decision went out as
\* a decision span ("to prevent data loss when a node running this component
\* shuts down", README.md, flush_on_shutdown).
SuccessMeansFlushed ==
  caller = "returned" /\ result = "nil" /\ shutdown /\ FlushOnShutdown =>
    /\ \A g \in Groups : stage[g] \notin {"cached", "unflushed"}
    /\ \A g \in Groups : stage[g] = "queued" => ctxDone
    /\ exporting = {}
    /\ noDecisions /\ decisionSpans = taken

\* What the exit of the process takes along after a successful flush is late
\* spans of traces that were sampled, whose send nobody waits for
\* (processor.go:449), and what the deadline left in a channel; never spans of
\* a trace without a verdict that had reached a cache.  Such a trace went to the
\* peer as a decision span, unless its decision had been evicted from the
\* sampled decision cache (processor.go:142) before the flush read it.
OnlyLateSpansAreLost ==
  \A g \in Groups :
    stage[g] = "lost" /\ result = "nil" /\ shutdown /\ FlushOnShutdown =>
      ctxDone \/ <<"sampled", TraceOf[g]>> \in decisionSpans \cup forgotten

\* Shutdown is safe to repeat once it has seen its listeners end, whatever the
\* flush then reports: the call that closes the channel a second time (processor.go:219)
\* is one after a Shutdown that gave up on the listeners, before any flush.
PanicsOnlyBeforeFlush ==
  caller = "panicked" =>
    result = "error" /\ ctxDone /\ vals = <<>> /\ exporting \cup taken = {}

\* Shutdown returns although listeners drain, exports queue for slots and the
\* context may never end.
ShutdownReturns == caller = "waiting" ~> caller = "returned"

unfinished == exporting \cup ToSet(vals)
startedBefore(t) ==
  {DecisionExport} \cup {Values[i] : i \in 1..SelectInSeq(Values, LAMBDA u : u = t) - 1}

\* "data is flushed in order, oldest first, newest last. This is intended to
\* preserve the rough existing order" (DESIGN.md:166): exports run concurrently,
\* but a trace overtakes at most FlushLimit - 1 of the exports that come before
\* its own, the decision spans and the traces that are older in the order of Values.
RoughlyOldestFirst ==
  [][\A t \in (exporting \ exporting') \ {DecisionExport} :
       Cardinality(startedBefore(t) \cap unfinished) < FlushLimit]_vars

\* A trace that was sampled is not flushed as pending too: when its decision is
\* handed over, no spans of it are cached for another node to judge afresh.
SampledIsNotFlushed ==
  \A g \in Groups : stage[g] \in {"cached", "flushed"} =>
    TraceOf[g] \notin ToSet(sampled) /\ <<"sampled", TraceOf[g]>> \notin taken
============================================================================
