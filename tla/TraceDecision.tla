--------------------------- MODULE TraceDecision ---------------------------
(***************************************************************************)
(* A processor is configured, built and started; then the life of one      *)
(* trace between its first spans and its verdict: batches arrive, each is  *)
(* evaluated together with the metadata of those before it (processTraces, *)
(* processor.go:341-404), and the trace may be evicted.                    *)
(***************************************************************************)
EXTENDS Configuration

CONSTANTS
  Configs,        \* the configurations an operator may try
  Extensions,     \* the rate getter extensions of the collector
  BatchShapes,    \* the batches of spans that may arrive
  RemoteReadings, \* what a rate getter extension may answer
  MaxSpans,       \* bound on the number of pending spans
  NoTrace         \* no cached data

\* A policy has a name, and the types with sub-policies have a list of them; the
\* downgrader and the root_spans policy have the one their settings name.
ASSUME ConfigsAssumption ==
  \A c \in Configs :
    /\ {c.shards, c.buffer, c.primary, c.secondary} \subseteq Int
    /\ Len(c.policies) \in Nat /\ DOMAIN c.policies = 1..Len(c.policies)
    /\ \A i \in DOMAIN c.policies :
         LET e == c.policies[i]
         IN /\ e.name # NoPolicy
            /\ e.type \in {"and", "downgrader", "root_spans"} =>
                 Len(e.subs) \in Nat /\ DOMAIN e.subs = 1..Len(e.subs)
            /\ e.type \in {"downgrader", "root_spans"} => e.subs # <<>>

\* A span without a timestamp has 0 for it.
Span ==
  [root : BOOLEAN, start : Nat, end : Nat, status : STRING,
   cond : {"true", "false", "error"}, threshold : 0..MaxThreshold]

ASSUME BatchesAssumption ==
  MaxThreshold \in Nat /\ BatchShapes \subseteq Seq(Span) \ {<<>>}

PolicyNames == UNION {{c.policies[i].name : i \in DOMAIN c.policies} : c \in Configs}

\* The metadata of a trace that is pending.
Metadata ==
  [spanCount : Nat, earliestStart : Nat, latestEnd : Nat, priority : {"Unspecified", "Low"},
   lastLow : PolicyNames \cup {NoPolicy}]

ASSUME NoTraceAssumption == NoTrace \notin Metadata

VARIABLES
  config, phase, \* the configuration, and how far the collector got with it
  getters,   \* the remote evaluators that hold a rate getter
  cached,    \* the metadata of the cached data, or NoTrace
  verdict,   \* the decision cache's entry for the trace
  announced, \* history: the policies named by placeholder spans for this verdict
  seen,      \* history: the spans that arrived since the trace is pending
  last       \* history: the latest batch, the decision on it and its policy

setupVars == <<config, phase, getters>>
traceVars == <<setupVars, cached, verdict, announced, seen, last>>

PolicyList == config.policies

noBatch == [trace |-> <<>>, decision |-> "Pending", policy |-> NoPolicy]

Init ==
  /\ config \in Configs /\ phase = "decoded"
  /\ getters = {}
  /\ cached = NoTrace
  /\ verdict = "none"
  /\ announced = <<>>
  /\ seen = <<>>
  /\ last = noBatch

----------------------------------------------------------------------------
(* The collector sets the processor up *)

ValidateConfig ==
  /\ phase = "decoded"
  /\ phase' = IF Validate(config) THEN "validated" ELSE "rejected"
  /\ UNCHANGED <<config, getters, cached, verdict, announced, seen, last>>

Create ==
  /\ phase = "validated"
  /\ phase' = IF makePanics(config) THEN "panicked"
              ELSE IF newAtlassianSamplingProcessor(config) THEN "built" ELSE "refused"
  /\ UNCHANGED <<config, getters, cached, verdict, announced, seen, last>>

StartDecider ==
  /\ phase = "built"
  /\ IF StartFails(PolicyList, Extensions)
     THEN phase' = "startFailed" /\ UNCHANGED getters
     ELSE phase' = "running" /\ getters' = Start(PolicyList)
  /\ UNCHANGED <<config, cached, verdict, announced, seen, last>>

\* The collector exits, and is started again with another configuration.
Reconfigure ==
  /\ phase \in {"rejected", "refused", "panicked", "startFailed"}
  /\ config' \in Configs /\ phase' = "decoded"
  /\ UNCHANGED <<getters, cached, verdict, announced, seen, last>>

----------------------------------------------------------------------------
(* The trace *)

\* Mutant: the evaluators are shown the metadata of the new spans only.
mergedAlone(trace) == NewMetadata(trace)
merged(trace) ==
  IF cached = NoTrace THEN NewMetadata(trace) ELSE MergeWith(NewMetadata(trace), cached)

\* td.Metadata after a decision that leaves the trace pending: a low priority
\* comes with the name that earlier low-priority data has, or its own.
labelled(trace, d) ==
  IF d.decision # "LowPriority" THEN NewMetadata(trace)
  ELSE [NewMetadata(trace) EXCEPT
          !.priority = "Low",
          !.lastLow = IF merged(trace).lastLow = NoPolicy THEN d.policy ELSE merged(trace).lastLow]

absorbed(td) == IF cached = NoTrace THEN td ELSE MergeWith(cached, td)

\* cachedDecision lets a batch pass.  Mutant: whatever the verdict.
undecidedOrNot == verdict \in {"none", "Sampled", "NotSampled"}
undecided == verdict = "none"

\* releaseNotSampledTrace: a flagged policy that rules a trace out itself says
\* so in a placeholder span.
flagged == {PolicyList[i].name : i \in {j \in DOMAIN PolicyList : PolicyList[j].emitSingle}}
placeholder(policy) == IF policy \in flagged THEN <<policy>> ELSE <<>>

Arrive(trace, reading) ==
  LET ctx == [trace |-> trace, md |-> merged(trace), reading |-> reading, getters |-> getters]
      d   == MakeDecision(PolicyList, ctx)
  IN /\ phase = "running" /\ undecided
     /\ Len(seen) + Len(trace) <= MaxSpans
     /\ last' = [trace |-> trace, decision |-> d.decision, policy |-> d.policy]
     /\ \/ /\ d.decision \in {"Sampled", "NotSampled"}
           /\ verdict' = d.decision
           /\ cached' = NoTrace
           /\ seen' = <<>>
           /\ announced' = announced \o
                (IF d.decision = "NotSampled" THEN placeholder(d.policy) ELSE <<>>)
        \/ /\ d.decision \in {"LowPriority", "Pending"}
           /\ cached' = absorbed(labelled(trace, d))
           /\ seen' = seen \o trace
           /\ UNCHANGED <<verdict, announced>>
     /\ UNCHANGED setupVars

\* Another node's decision is taken over, without a policy of this node.
DecisionSpan(d) ==
  /\ phase = "running" /\ undecided
  /\ verdict' = d
  /\ cached' = NoTrace
  /\ seen' = <<>>
  /\ last' = noBatch
  /\ announced' = announced \o placeholder(NoPolicy)
  /\ UNCHANGED setupVars

\* The trace data is evicted, which rules the trace out.
Evict ==
  /\ cached # NoTrace
  /\ cached' = NoTrace
  /\ verdict' = "NotSampled"
  /\ seen' = <<>>
  /\ last' = noBatch
  /\ UNCHANGED <<setupVars, announced>>

\* The decision is evicted: later spans start the trace anew.
Forget ==
  /\ verdict # "none"
  /\ verdict' = "none"
  /\ announced' = <<>>
  /\ last' = noBatch
  /\ UNCHANGED <<setupVars, cached, seen>>

Next ==
  \/ ValidateConfig \/ Create \/ StartDecider \/ Reconfigure
  \/ \E trace \in BatchShapes, reading \in RemoteReadings : Arrive(trace, reading)
  \/ \E d \in {"Sampled", "NotSampled"} : DecisionSpan(d)
  \/ Evict
  \/ Forget

Spec == Init /\ [][Next]_traceVars

----------------------------------------------------------------------------
\* What Validate lets through has sizes that work: the constructor does not
\* panic, and if it refuses it is for a decision cache or a policy; the regulator
\* accepts its bounds, and finds the primary cache within them and no smaller than the
\* secondary one.  The bound on the secondary size is what rules out a primary size of 1,
\* 60% of which is nothing.
ValidatedSizesWork ==
  /\ phase # "panicked"
  /\ phase = "refused" =>
       \/ ~NewLRUCache(config.sampledSize) \/ ~NewLRUCache(config.nonSampledSize)
       \/ ~newPolicies(config.policies)
  /\ phase \in {"built", "running"} =>
       /\ NewRegulator(config.primary \div 4, config.primary)
       /\ initialPrimaryCacheSize(config) \in config.primary \div 4..config.primary
       /\ config.secondary <= initialPrimaryCacheSize(config)

\* While a verdict is remembered its trace gets at most one placeholder span, and
\* then nothing else: it names the flagged policy that ruled the trace out itself,
\* and a trace that was evicted, sampled, or ruled out by another node has none
\* ("a single span for a trace that is not sampled, instead of dropping the trace
\* entirely", README.md, emit_single_span_for_not_sampled).
PlaceholderStandsAlone ==
  IF verdict = "NotSampled" /\ last.policy \in flagged
  THEN announced = <<last.policy>>
  ELSE announced = <<>>

starts == {seen[i].start : i \in DOMAIN seen}
ends   == {seen[i].end : i \in DOMAIN seen}

\* "LatestEndTime is the latest time of the latest end", "SpanCount track the
\* number of spans on the trace" (metadata.go:17-19): merged over any number of
\* batches, the cached metadata is what the spans themselves would give.  So is
\* EarliestStartTime when every span has a start; spans with a start of 0, which
\* NewTraceData takes for one not set yet (tracedata.go:37) and MergeWith for the
\* earliest, may hide those before them in their batch, and then it is the start
\* of some span seen, never earlier than all: the trace may seem shorter than it
\* is, not longer.
MetadataIsExact ==
  cached # NoTrace =>
    /\ cached.spanCount = Len(seen)
    /\ cached.latestEnd = Max(ends)
    /\ cached.earliestStart \in starts
    /\ 0 \notin starts => cached.earliestStart = Min(starts)

mayLower(e) == e.type = "root_spans" \/ (e.type = "downgrader" /\ e.downgradeTo = "LowPriority")

\* The policies that no low-priority decision of an earlier one can preempt.
unshadowed ==
  {i \in DOMAIN PolicyList : \A j \in 1..i : ~mayLower(PolicyList[j])}

\* Policies of one kind do not mind how a trace is cut into batches: when none
\* of the spans that arrived led to a decision, none of these policies would
\* have sampled them all at once under the merged metadata, although an evaluator
\* only sees the spans of the latest batch and that metadata.
BatchingDoesNotMatter ==
  cached # NoTrace =>
    \A i \in unshadowed :
      PolicyList[i].type \in {"latency", "span_count", "status_code", "threshold", "probabilistic"} =>
        Evaluate(PolicyList[i], [trace |-> seen, md |-> cached,
                                 reading |-> [ok |-> FALSE, rate |-> 0],
                                 getters |-> {}]).decision # "Sampled"

\* A pending trace is never demoted to the secondary tier, and low-priority
\* data always names the policy that lowered it: as long as the trace stays
\* low, it is that policy that keeps it low (decider.go:50-58).
LowPriorityIsConsistent ==
  [][cached # NoTrace /\ cached' # NoTrace =>
       /\ cached.priority = "Unspecified" => cached'.priority = "Unspecified"
       /\ cached.priority = "Low" => cached.lastLow # NoPolicy
       /\ cached.priority = "Low" /\ cached'.priority = "Low" =>
            cached'.lastLow = cached.lastLow /\ last'.policy = cached.lastLow]_traceVars

----------------------------------------------------------------------------
(* What the documents say *)

policyNamed(n) == CHOOSE p \in ToSet(PolicyList) : p.name = n

\* "Once the metadata of this mergedMetadata has a LowPriority decision, it
\* must get a Sampled result from the sub policy to be promoted to a regular
\* Pending" (root_spans.go:32-33), where the sub-policy reads the merged
\* metadata of all spans seen.
RootSpansStaysLow ==
  [][(/\ cached # NoTrace /\ cached' # NoTrace
      /\ cached.priority = "Low" /\ cached'.priority = "Unspecified"
      /\ policyNamed(cached.lastLow).type = "root_spans")
       => EvaluateShared(policyNamed(cached.lastLow).subs[1],
                         [trace |-> last'.trace, md |-> cached',
                          reading |-> [ok |-> FALSE, rate |-> 0],
                          getters |-> {}]).decision = "Sampled"]_traceVars

subsOf(e) == IF e.type \in {"and", "downgrader", "root_spans"} THEN ToSet(e.subs) ELSE {e}
evaluatorsOf == UNION {subsOf(PolicyList[i]) : i \in DOMAIN PolicyList}

\* "Start is called when the component is first started" (policy_eval.go:71):
\* once the processor runs, every remote_probabilistic evaluator holds the rate
\* getter it is configured with, wherever it stands in the policies.
EveryEvaluatorStarted ==
  phase = "running" => \A e \in evaluatorsOf : wantsExtension(e) => e.name \in getters
============================================================================
