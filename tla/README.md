# TLA+ models of the Atlassian sampling processor

The Atlassian sampling processor is a tail sampler for the OpenTelemetry
collector. It holds the spans of a trace back until a policy decides to sample
the trace or the caches run out of room, and it remembers what it decided for
the spans that come late. This directory models that machinery in TLA+, checks
it on small instances with TLC and proves the central invariants with TLAPS.

Paths below are relative to `src/pkg/processor/atlassiansamplingprocessor/`
unless they start with `src/`.

## 1. The system

| Component | State | Operations |
|---|---|---|
| Core, `processor.go` | one channel per shard, locals of each listener, the references it holds into the caches | `ConsumeTraces`, `earlyDecisionChecks`, `shardListener`, `processTraces`, `cachedDecision`, `sendSampledTraceData`, `releaseNotSampledTrace` |
| Trace data cache, `internal/cache/tiered_cache.go`, `lru_cache.go` | a primary and a secondary LRU of `*TraceData`, the capacity of the first one variable | `Get`, `Put`, `Delete`, `Resize`, `Values`; callbacks on every removal |
| Decision caches | two LRUs of trace ids, sampled and not sampled | `Get`, `Put`, `Keys`, `Clear` |
| Eviction callbacks, `processor.go:626-674` | none of their own | tell an eviction from an explicit deletion by looking for a decision, and record an evicted trace as not sampled |
| Trace data, `internal/tracedata` | spans (maybe compressed), span count, times, priority, name of the policy that lowered it | `NewTraceData`, `MergeWith`, `AbsorbTraceData`, `GetTraces` |
| Decider and evaluators, `decider.go`, `internal/evaluators` | the ordered policies; a rate getter in each started `remote_probabilistic` | `Start`, `MakeDecision`, `Evaluate` |
| Memory regulator, `internal/memory` | the capacity it sets | `RegulateCacheSize` |
| Global lock | a `sync.RWMutex` | read-locked by `processTraces`, write-locked around the regulator |
| Lifecycle | `started`, the shutdown channel, the wait group, the context of `Shutdown` | `Start`, `Shutdown`, the drain, `flushAll` |
| Configuration, `config.go`, `policy.go`, `config_policy.go`, `factory.go` | none once the processor is built | `createDefaultConfig`, `Validate`, `newAtlassianSamplingProcessor` and the constructors it calls |

How they interact: callers of `ConsumeTraces` group spans by trace, answer what
a decision cache already answers, and hand the rest to the channel of the
trace's shard. Each listener takes the read lock for one array of groups, so all
listeners run at once on the same four caches. A removal from a cache runs its
callback in the goroutine that caused it, *after* the cache's own mutex is
released; the callback reads and writes the decision caches. Any listener that
receives a tick takes the write lock and lets the regulator resize the primary
cache, which evicts. On shutdown the listeners drain their channels, and the
caches are exported by a group of goroutines. What they export, traces and
decision spans, is routed to another node with the same processor, which gets
the spans that arrive from then on too.

What is hard: a listener's view of the cache (`cachedData`) is a reference that
another shard's insertion may evict between any two calls; eviction and
deletion are told apart after the fact; the priority that says which tier an
object belongs to is changed in place before the object is moved; decisions can
be forgotten; compressed data can turn out unreadable; integer truncation sits
in a control loop; shutdown races with a deadline, and a node that takes over
gets verdicts and spans in any order. The list with source lines is
`hazards` in `PROJECT.json`.

What makes it correct, by component:

- core: spans are sent at most once, are never lost without a record, and a
  decided trace leaves nothing in the caches; every queued group is processed;
- tiers: a trace is in at most one tier, the one of its priority;
- decisions: a trace has one verdict;
- lock: a resize never overlaps a `processTraces` call;
- regulator: within its bounds, never against the pressure, reaches both ends;
- metadata and policies: merged metadata is that of the spans, but for what starts
  of 0 do to the earliest start; how spans are cut
  into batches does not hide them from a policy; a lowered trace is kept low by
  the policy that lowered it;
- lifecycle: `Shutdown` returns, success means that everything was flushed, and
  what is flushed is not left behind on the way to the peer, sent twice or judged
  twice;
- configuration: what `Validate` accepts can be built.

## 2. Modules

| Module | Models | Shape |
|---|---|---|
| `LRU` | golang-lru as the code uses it | sequences, least recently used first: `Refresh`, `Insert`, `Trim`, `Spill` |
| `Regulator` | `regulator.go` | operators; truncation and float rounding included |
| `RegulatorLoop` | regulator and a heap that changes at will | state machine |
| `SamplingProcessor` | the running processor | state machine, one action per cache call |
| `ProcessorProperties` | | what must hold of `SamplingProcessor` |
| `SpanFate` | what the processor promises for the spans given to it | abstract specification |
| `Policies` | metadata, evaluators, decider | operators |
| `Configuration` | defaults, `Validate`, the constructors | operators over `Policies` |
| `TraceDecision` | a configuration is validated, built and started; then one trace: batches, decisions, decision spans, placeholders, eviction | state machine over `Configuration` |
| `Lifecycle` | Start, early checks, drain, eviction callbacks, Shutdown, flush of both tiers, exit | state machine over `LRU` |
| `ScaleDown` | a `Lifecycle` node and the peer that takes over | state machine, implements `SpanFate` with one listener per node |
| `MCProcessor`, `MCTraceDecision`, `MCLifecycle`, `MCScaleDown` | | instances for TLC |
| `LRUProofs`, `TypeProofs`, `TierProofs`, `DeliveryProofs`, `OneShardProofs`, `RegulatorProofs`, `DecisionProofs`, `LifecycleProofs` | | theorems, section 4 |

`PROJECT.json` maps every definition to its source lines.

### SamplingProcessor

A *batch* is one `groupedTraceData`. It also names the `TraceData` object made
from it: cache entries are batches, `data[o]` is the set of batches whose spans
object `o` holds and `priority[o]` its priority, so that an object shared by a
cache, a listener's local and a callback is really shared. Shard `s` has a
program counter `pc[s]`, the rest of its array `gtdArr[s]`, `cachedData[s]`,
`finalDecision[s]`, and for callbacks `victims[s]` and `callback[s]`: while a
callback runs, the main loop of that shard stands still and the other shards do
not. The actions follow the code:

- `ConsumeTraces`, `EarlySkip`, `EarlyCheckSampled`, `EarlyCheckNonSampled`,
  `Send`, `ContextCancelled`: the caller's goroutine;
- `Receive`, `ReadLock`, `ReadUnlock`, `Tick`, `AnnounceWriter`, `Regulate`,
  `WriteUnlock`: the listener loop and the lock. An announced writer bars new
  readers and waits for the present ones, as `sync.RWMutex` does;
- `CheckSampled`, `CheckNonSampled`, `AsyncSend`: `cachedDecision`, with the
  goroutine it starts;
- `NewTraceDataFails`, `GetPrimary`, `GetSecondary`, `Decide`, `PutSampled`,
  `SendCached`, `SendCurrent`, `PutNonSampled`, `DeletePrimary`,
  `DeleteSecondary`, `PutDelete`, `PutInsert`: one iteration of `processTraces`,
  decision spans included;
- `CallbackPriority`, `CallbackCheckSampled`, `CallbackCheckNonSampled`,
  `CallbackRecord`: the eviction callbacks.

Abstractions: `MakeDecision` returns any of its four decisions (`Policies` says
which). The order of groups in an array is any order, as it comes from iterating
over a Go map. Errors of the next consumer are only logged by the code, so a send
counts as delivered. The placeholder span of `emit_single_span_for_not_sampled`
is in `TraceDecision`. History variables: `forwarded`, `ruledOut`, `dropped`.

### Policies, Configuration and TraceDecision

A span is a record of what evaluators read: root or not, times, status, what the
OTTL conditions say of it, its threshold. The hash of the trace id and its
rightmost bits are constants of the model, and so are rates in percent of
`MaxHash`.

A configuration is a record of what `Validate` and the constructors look at; of
a regular expression or an OTTL condition that is whether it is empty or
malformed. `Configuration` keeps the order in which the code finds things wrong:
what `Validate` rejects never reaches a constructor, so a constructor's own check
may be looser (an empty pattern) or find what `Validate` does not look for (the
sizes of the decision caches, the policies).

`TraceDecision` is a collector that tries a configuration (`ValidateConfig`,
`Create`, `StartDecider`, and `Reconfigure` after a failure). Once the processor
runs, batches of spans go to the decider the way `processTraces` passes them on,
with the two merges that make up `mergedMetadata` and the cached metadata, with
the placeholder span of `releaseNotSampledTrace`, a decision span, eviction and
forgetting.

### Lifecycle and ScaleDown

A *group* is the spans one `ConsumeTraces` call brings for one trace; `stage` says
where they are. The early checks of a call read one decision cache after the
other, beside the listeners (`ConsumeTraces`, `EarlyCheckSampled`,
`EarlyCheckNonSampled`, `Send`). The tiers and the decision caches are LRU
sequences, so decisions are forgotten (`forgotten` remembers which were). What
`processTraces` does with a group up to the eviction it causes is one step, and
the eviction callback is one step for each call it makes: while listener `s` is in
it, `evicted[s]` are the groups that left the cache and `callback[s]` the call that
comes next, and the other listeners go on. A callback that finds the trace sampled
in the meantime takes the eviction for a deletion, and the spans are `"vanished"`.

With several listeners this leaves out what one of them writes between the calls
another makes *before* its eviction, for instance between `Get` and `Put`
(`SamplingProcessor` has every such step). So the properties checked of `Lifecycle`
are about the end, when no listener runs, and hold whatever the listeners did to
one another: `SuccessMeansFlushed` says that nothing is left in a cache, not that
nothing vanished before. What follows every group is checked and proved for one
listener per node, where the steps are exact.

The collector stops the receivers before it calls `Shutdown`, so that no call is
under way, and exits after it; a caller that got an error may call `Shutdown` again
(`ShutdownAgain`), and `Die` is what the end of the process does to spans that
are still in it. The context may end at any time. `flushAll` starts one
goroutine for the decisions and one for each trace of `Values`, the primary tier
before the secondary one, at most `FlushLimit` at a time, each of which may fail.
The capacity of the channels is at least 1: an unbuffered one holds nothing to
drain.

`ScaleDown` adds the peer, which consumes what was flushed, the groups the node
did not take, and the decision spans, in any order, and goes on to decide, evict
and forget. `PeerHears`, `PeerDeletes` and `PeerPutsSampled` have the detail of
`cachedDecision` that `decision_span` is about: a positive decision span that finds
cached data leaves the trace in both decision caches, and early checks may read the
first of the two records before the second. `NodesImplementSpanFate` maps the two
nodes to one `SpanFate`, the specification `SamplingProcessor` implements as well.

## 3. Runs

Passing runs:

| Run | Instance | Shows |
|---|---|---|
| `two_shards` | 2 shards, 2 traces, 4 batches and a decision span, tiers of one entry | `TierDisjoint`, `TierMatchesPriority`, `SampledIsReleased`, `ForwardedAtMostOnce` while each insertion evicts what the other shard may hold |
| `one_shard` | 1 shard, 3 traces, 5 batches, failing compression, one resize, decision caches of one entry | `OneVerdict`, `NonSampledIsReleased`, `NoSilentLoss`, and the refinement `ImplementsSpanFate` |
| `regulated` | 2 shards, 2 regulator runs, fair | `TypeOK`, `ResizeStopsTheWorld`, `EveryBatchSettles` |
| `regulator_large` | all sizes 60..240, 12 readings around the thresholds | `RegulatorTypeOK`, `MorePressureNeverLarger`, `FollowsPressure`, `ShedsUnderPressure`, `GrowsBack` |
| `decision` | some 45 configurations, most of them wrong; 10 policies, up to 5 pending spans | `ValidatedSizesWork`, `PlaceholderStandsAlone`, `MetadataIsExact`, `BatchingDoesNotMatter`, `LowPriorityIsConsistent` |
| `shutdown` | 2 listeners, 4 groups of 3 traces, tiers and decision caches of one entry, 2 export slots, fair | `SuccessMeansFlushed`, `OnlyLateSpansAreLost`, `PanicsOnlyBeforeFlush`, `SampledIsNotFlushed`, `RoughlyOldestFirst`, `ShutdownReturns` |
| `scale_down` | a node and a peer of one listener each, 3 groups of 2 traces, tiers and decision caches of one entry, fair | `PeerIsOfOneMind`, `NothingIsStranded`, and the refinement `NodesImplementSpanFate` |

Runs in which TLC refutes what a comment or a document says; `findings` in
`PROJECT.json` has the quotations:

| Run | Property | What happens |
|---|---|---|
| `race_loss` | `NoSilentLoss` | an evicted trace is decided Sampled by its owner before the callback looks for a decision; the callback takes the eviction for a deletion, and the evicted spans vanish |
| `decision_span` | `OneVerdict` | a decision span deletes the cached data before it records the decision; the callback records the trace as not sampled as well |
| `regulator_small` | `GrowsBack` | below 50 entries growth by 2% truncates to none |
| `root_spans_low` | `RootSpansStaysLow` | the merged priority `root_spans` reads is never Low |
| `nested_start` | `EveryEvaluatorStarted` | sub-policies are never started, so a nested `remote_probabilistic` never asks its rate getter |

`NoSilentLoss` and `NonSampledIsReleased` hold with one shard, and so does
`OneVerdict` without a positive decision span; with more they need not: these are
the races of the shared caches. For the same reason `scale_down` has one listener
per node: with two, `race_loss` is a counterexample of `NodesImplementSpanFate` and
`PeerIsOfOneMind` too.

`NewTraceData` takes a start of 0 for one not set yet (tracedata.go:37), so a span
without a timestamp counts only if it is the last of its batch, and one that does
not count hides the spans before it. `MetadataIsExact` says what is left: the
earliest start is exact when every span has one, and else that of some span seen.

`TierDisjoint`, `TierMatchesPriority`, `SampledIsReleased`,
`ForwardedAtMostOnce` and `ResizeStopsTheWorld` hold with several shards.

### Bounds, and why they are enough

The races need an object that one shard holds and another evicts: two shards,
tiers of one entry (`PrimaryCacheSize` 2 gives an initial capacity of
`60% = 1`), one trace on each shard with a second batch to merge. A third batch
of one trace only repeats the merge of the second.
Decision caches of one entry make forgetting happen. `MaxTicks` bounds the
regulator runs; two of them let the capacity go down (to 0, for sizes below 4)
and up again. `HeapReadings` in `RegulatorLarge` has values on both sides of each
threshold, and all sizes are reachable. In `Decision`, `MaxSpans = 5` reaches the
span-count policy, which samples at five, and three merges, and a span without a
start stands alone, between two others of its batch, and is merged; sizes 0 to 5 by 0 to
3 have every case of `Validate` and every rounding of 60%, a half and a quarter.
In `Shutdown`, two slots for the decision export and two traces make `group.Go`
wait; two traces of one shard and one of the other evict each other from tiers of
one entry and each other's decisions from caches of one entry, before, in and after
the callbacks. In `ScaleDown` two groups of one trace meet on the node, on the peer,
or one on each, and the second trace evicts them or their decision.

No run uses symmetry: the constants `TraceOf` and `ShardOf` tell the model
values apart. Deadlock is checked in every run: `Quiet` and `Gone` are
the steps of a processor that has nothing left to do and of one that has exited.

### Fairness

`SamplingProcessor!FairSpec` has weak fairness for each listener and goroutine:
the Go scheduler runs every runnable goroutine, `sync.RWMutex` does not starve
writers, and a writer waits only for the readers that are present. A `ConsumeTraces`
call under way goes on; that calls are made, or not cancelled, is not assumed. `RegulatorLoop!FairSpec` assumes that the ticker's tick is
eventually taken by some listener. `Lifecycle!Fairness` has weak fairness for
each listener, for `Shutdown` and for the exports, which says that the next
consumer returns; nothing is assumed of the context, so `ShutdownReturns` does
not lean on the deadline. `ScaleDown!FairSpec` adds that what was exported
arrives and that the peer's listener runs; that the peer evicts, forgets or reaches
a verdict is not assumed.

## 4. Proofs

All theorems hold for every value of the constants that satisfies the named
assumptions: `InputAssumption` (finitely many batches; every batch has a trace, a
call and a kind, every trace a shard), `ConfigAssumption` (`Config.Validate`),
`SizeAssumption`, `HeapAssumption`, `QuarterAssumption` (what
`newAtlassianSamplingProcessor` passes to the regulator), `LifecycleAssumption`,
`ConfigsAssumption` (sizes are integers, policies have names, those with
sub-policies have a list of them and the two that read the first one have one),
`BatchesAssumption` (a batch has spans; their starts may be 0), `NoTraceAssumption`.
TLC evaluates them in the runs. Three theorems have a hypothesis besides, stated in
the theorem: one shard for the theorems of `OneShardProofs`, one listener
(`OneListener`) for `NodesKeepSpanFate`, and no sampled decision span for
`OneVerdictHolds`. `PeerKeepsItsWord` is about a peer of one listener, which is how
`ScaleDown` models it.

- **`LRUProofs`**: what `RemoveFirst`, `Refresh`, `Insert`, `Trim` and `Spill`
  return, keep and bound: elements, lengths, at most one entry per key.
- **`TypeProofs!TypeCorrect`** (`TypeOK`). `TypeOK` is not inductive: a step that
  reads the head of `gtdArr[s]` needs it nonempty. `TypeInv` adds that arrays in
  channels are nonempty, that a listener inside an iteration has a current group
  (`HasCurrent`), that `sendCached` has cached data (`HasCached`), and that a
  running callback has a victim (`HasVictim`). One lemma per action.
- **`TypeProofs!RegulatorExcludesShards`** (`ResizeStopsTheWorld`). `LockInv`: who
  is inside `processTraces` is in `readers`, and who regulates is the `writer`.
  The capacity changes only in `Regulate`, which requires no readers.
- **`TierProofs!NeverInBothTiers`** (`TierDisjoint`) and
  **`SampledLeavesNothingBehind`** (`SampledIsReleased`), from one inductive
  invariant. `TierInv` says: groups are in the channel and array of their trace's
  shard (`OwnChannel`, `OwnGroups`); what a listener holds belongs to its trace
  (`CachedOwn`); each tier has at most one entry per trace; at each step of
  `processTraces` a listener knows enough of the caches to go on (`Learnt`: after
  the miss on the primary tier its trace is not there, between the two halves of
  `Put` it is not in the other tier) and its trace is undecided until it decides
  it (`Undecided`). Other shards can only remove a trace, never add it, which is
  why what a shard has learnt stays true and the races above cannot break these
  two properties.
- **`DeliveryProofs!TierFollowsPriority`** (`TierMatchesPriority`). Inductive
  beside `TierInv`: `Decide` changes only the priority of what its own shard holds,
  which is in no tier when `Get` missed, and the `Delete` of the promotion removes
  it from the secondary tier before the promotion ends.
- **`DeliveryProofs!SpansAreSentOnce`** (`ForwardedAtMostOnce`). At most one send is
  not inductive: it depends on where a batch can still be found. `DeliveryInv` says,
  shard by shard, that a batch which has not settled was not sent and is alone in
  its object (`BatchInv`), that a queued batch is in one place of one queue
  (`QueueInv`), that what a tier holds still waits, is about to settle, or is being
  deleted by the shard that sent it (`EntryInv`), and that what a listener is about
  to send or to put back was not sent before (`HandInv`). `OthersStay` reduces every
  step to the shard that takes it, since the spans of a trace belong to one shard;
  TLC checked the invariant on `OneShard.cfg` and `TwoShards.cfg` first.
- **`OneShardProofs!NonSampledReleased`** (`NonSampledIsReleased`),
  **`NothingVanishes`** (`NoSilentLoss`), **`KeepsSpanFate`**
  (`ImplementsSpanFate`) and **`OneVerdictHolds`** (`OneVerdict`), for a processor
  of one shard with any traces, batches, capacities and regulator runs. One shard
  is a hypothesis of each theorem, and `OneVerdictHolds` has no sampled decision
  span as another: `race_loss` and `decision_span` show what happens otherwise.
  `OneShardInv` adds to the invariants above what an eviction, a deletion and a
  release know that no cache shows: an evicted trace has no other entry, and if it
  is remembered as sampled its spans are gone already (`VictimInv`); where the
  steps so far have led (`KindsInv`, `PathInv`); what is held has not been lost
  (`FreshInv`) and is spans (`SpansInv`); what the history variables
  remember (`GoneInv`); what is evaluated or put back is undecided (`CleanInv`).
  With a second listener `VictimInv` fails: between the eviction and its callback
  the other one may decide the trace. `KeepsSpanFate` is the simulation, one lemma
  per kind of step: a step settles spans of one trace, gives up those of a trace
  that is ruled out, or leaves the fate of all alone.
- **`RegulatorProofs!RegulatorBounded`** (`RegulatorTypeOK`),
  **`RegulatorFollowsPressure`** (`FollowsPressure`) and
  **`RegulatorIsMonotonic`** (`MorePressureNeverLarger`): for every size, target
  and reading, whether or not floating point rounds a whole quotient down (for
rounding up see section 5). The lemmas are
  facts on integer quotients; monotonicity compares every pair of pressure modes,
  and within a mode the rounded quotients of the two readings.
- **`DecisionProofs!ValidSizesAlwaysWork`** (`ValidatedSizesWork`): `SetupInv`
  says that a configuration past `ValidateConfig` satisfies `Validate`; the rest
  is arithmetic of 60%, a half and a quarter.
- **`DecisionProofs!PlaceholdersStandAlone`** (`PlaceholderStandsAlone`), for every
  list of policies. `VerdictInv`: a trace with a verdict has no pending data, and
  neither is there before the processor runs, so the policies cannot change under a
  verdict, and the eviction that rules a trace out finds nothing announced.
- **`DecisionProofs!MetadataStaysExact`** (`MetadataIsExact`), for batches of any
  length, spans with a start of 0 included: count and latest end are exact, the
  earliest start is if no start is 0, and else is the start of one of the spans.
  `NewTraceData` is a fold over the spans: `EarliestOf` and `LatestOf` show that the
  function which takes the least start after the last 0, or the greatest end,
  satisfies the recursion the fold unfolds to, and that no other function does on the initial segments (by
  the least length at which two would differ, which needs no induction theorem).
  `MergeIsExact` does the merge of two, and `PendingInv` keeps the result.
- **`DecisionProofs!LowPriorityStaysConsistent`** (`LowPriorityIsConsistent`), an
  action property, from `VerdictInv` and `PendingInv`, which says that low
  data names its policy: the name passes both merges (`AbsorbedMetadata`) and the
  decider takes a low priority only from the policy of that name (`WhoDecides`).
- **`DecisionProofs!BatchingNeverMatters`** (`BatchingDoesNotMatter`), for every
  list of policies, hash and threshold. It is inductive beside `PendingInv`: the
  evaluators were shown the counts and times the cache gets
  (`AbsorbedMetadata`); a batch without a verdict was sampled by no policy asked
  before the one that lowered it (`NotDecided`, from `WhoLowers`, which goes
  through all evaluators); and what none samples in two parts it does not sample as
  a whole (`NoneAsAWhole`).
- **`LifecycleProofs!SuccessfulShutdownFlushes`** (`SuccessMeansFlushed`). What
  success promises is not inductive: it depends on what the flush found. `LifeInv`
  says that a queued group is in its shard's channel and that a listener which has
  ended left its channel empty or ran out of time (`Channels`), that a cached trace
  is in a tier (`CachedIsHeld`, which rests on what `Trim` and `Spill` partition),
  and that from the end of the listeners on, what is cached is listed or being
  exported, and decisions are in their caches only until they are taken
  (`FlushKeepsUp`).
- **`LifecycleProofs!ExitLosesOnlyLateSpans`**, **`PanicMeansNoFlush`**,
  **`DecidedIsNotPending`** (`OnlyLateSpansAreLost`, `PanicsOnlyBeforeFlush`,
  `SampledIsNotFlushed`), from `LifeInv` and `EndInv`: nothing of a flush exists
  before the listeners have ended and `started` is cleared (`FlushComesLast`),
  what was evicted is in a callback that has not ended (`EvictedIsInCallback`),
  decisions are taken once (`DecisionsMoveOnce`), and late spans that are still to
  be sent have a sampled decision somewhere, or it was forgotten (`AsyncIsSampled`).
- **`LifecycleProofs!FlushIsRoughlyOldestFirst`** (`RoughlyOldestFirst`), for every
  `FlushLimit`. `OrderInv`: a trace is in one tier, once, so that its place in
  `Values` is its own (`TiersOnce`); the traces leave the list in its order
  (`FlushOrder`); at most `FlushLimit` are being exported (`FlushLimited`). What is
  overtaken is among those being exported.
- **`LifecycleProofs!PeerKeepsItsWord`** (`PeerIsOfOneMind`). `PeerInv`: every step
  of the peer that reaches a verdict settles all it has cached of the trace, so what
  is cached has none; at most one decision span is being processed (`HearsOne`). The
  positive one that leaves both caches with the trace is one of the cases, and a
  decision that was forgotten is looked for in `peerForgot`.
- **`LifecycleProofs!NodesKeepSpanFate`** (`NodesImplementSpanFate`): two nodes of
  one listener, and all orders of the hand-over. `HandInv` adds that a group waits
  once, in its own channel (`InLine`), and that the peer has only what the node
  flushed or never took (`Between`): spans are settled by the node or by the peer,
  and not again; and that no listener works while a callback runs, so the callback
  finds the evicted trace undecided and records it. That is where `OneListener` is
  needed.

The last two are theorems of `ScaleDownSpec`, which is `ScaleDown!FairSpec` without
its fairness.

Only model-checked: the liveness properties (`EveryBatchSettles`,
`ShedsUnderPressure`, `GrowsBack`, `ShutdownReturns`, `NothingIsStranded`), which
are beyond this prover. Every other property of a passing run is the subject of a
theorem. TLC alone shows the counterexamples of the runs that expect a violation.

## 5. Not modelled

- Metrics (the counter of dropped spans among them: what is lost is in `dropped`,
  what is counted is not modelled), logs, generated code; the decision grouper of `policy.go`, which
  labels a metric; `ArrivalTime`, which is only measured.
- The OTTL language, FNV hashes, parsing of the threshold attribute: inputs.
- Bytes of compressed traces: an object is readable or not.
- In `Lifecycle`: contexts of callers that end while they wait for a channel,
  compression, the regulator and spans that are decision spans, which
  `SamplingProcessor` has; with several listeners, what one writes between the calls
  of another (section 2).
- In `Regulator`: a quotient less than one part in 2^51 below an integer, which
  floating point may round up to it. The mode with two roundings needs a heap whose
  square times the capacity is above 2^51 for that, and the other one a product of
  capacity and target above 2^53; one entry is then kept that the exact quotient
  drops.
- The 32-bit width of `SpanCount`: overflow needs 2^31 spans of one trace.
- A caller that retries after a cancelled context: groups that were delivered
  before the cancellation would come twice, and what the caller does is not part
  of the repository. A second `Start`: the collector makes one.
- `nop_cache.go` (unused), and the decoding of the configuration, which is the
  collector's.

Other differences between documents and code met on the way, for which there is
no run:

- DESIGN.md:38 says that a listener owns its section of the caches; a `Put` under
  the read lock evicts the entries of other shards too. `race_loss` shows what
  comes of it.
- README.md:129-130 says that `threshold` samples when the attribute is larger
  than the trace id's bits; `threshold.go:52` compares the other way round, as
  its own comment says.
- DESIGN.md:166 says that data is flushed oldest first, roughly. `flushAll`
  exports in up to 30 goroutines, and `Values` lists the primary tier before the
  secondary one; `RoughlyOldestFirst` says how much of the order is left.
- README.md:57-59 says that a `secondary_cache_size` of 0, the default, means no
  secondary cache; `Validate` rejects it and the default is 100, so
  `newAtlassianSamplingProcessor` never takes its branch without one
  (processor.go:127). config.go:34 gives a third default, 10% of the primary size.
- config.go:53 asks for a secondary size "less than 50%" of the primary one,
  `Validate` accepts 50%. DESIGN.md:122 speaks of reducing by 2%, which is the
  rate of growth; README.md:121-122 says that `root_spans` turns pending into not
  sampled, where it is low priority.

## 6. Plan

Done: the running processor with its abstract specification, the regulator,
configuration, policies and metadata, the lifecycle and the hand-over to a peer;
proved: every safety property that a passing run checks, with both refinements of
`SpanFate`.

Next, in this order: which part of `NoSilentLoss` and `NonSampledIsReleased` survives
several shards, stated shard by shard, and with it what two nodes of several
listeners keep of `SpanFate`; `OneVerdict` with sampled decision spans that
find no cached data; `BatchingDoesNotMatter` for the policies with sub-policies.
