------------------------------ MODULE Policies ------------------------------
(***************************************************************************)
(* The policy evaluators (internal/evaluators), the metadata they read     *)
(* (internal/tracedata/metadata.go) and the decider that asks them in      *)
(* order (decider.go), for the spans of one trace.                         *)
(*                                                                         *)
(* A span is the record of what the evaluators look at:                    *)
(*   root       isRootSpan                                                 *)
(*   start, end its timestamps                                             *)
(*   status     its status code                                            *)
(*   cond       what the OTTL conditions evaluate to on it                 *)
(*   threshold  a valid sampling.tail.threshold, or MaxThreshold if none   *)
(* A trace is the sequence of the spans of one batch.  An evaluator is a   *)
(* record with its type and its settings; e.hash is the hash of the trace  *)
(* id under the evaluator's salt, and Rv its rightmost 56 bits.            *)
(***************************************************************************)
EXTENDS Integers, Sequences, SequencesExt

CONSTANTS
  Rv,           \* getRv of the trace id
  MaxThreshold, \* 2^56 - 1
  MaxHash,      \* 2^64 - 1
  NoPolicy      \* a nil policy or policy name

----------------------------------------------------------------------------
(* Metadata *)

\* NewTraceData: an EarliestStartTime of 0 is taken for one not set yet.
earlier(t, span) == IF span.start < t \/ t = 0 THEN span.start ELSE t
later(t, span)   == IF span.end > t THEN span.end ELSE t

NewMetadata(trace) ==
  [spanCount |-> Len(trace),
   earliestStart |-> FoldLeft(earlier, 0, trace),
   latestEnd |-> FoldLeft(later, 0, trace),
   priority |-> "Unspecified",
   lastLow |-> NoPolicy]

lesser(x, y)  == IF x < y THEN x ELSE y
greater(x, y) == IF x > y THEN x ELSE y
higherPriority(p, q) == IF p = "Low" /\ q = "Low" THEN "Low" ELSE "Unspecified"

\* Mutant: the latest end is the other's.
MergeLosesEnd(m, other) ==
  [m EXCEPT !.spanCount = @ + other.spanCount,
            !.earliestStart = lesser(@, other.earliestStart),
            !.latestEnd = other.latestEnd,
            !.priority = higherPriority(@, other.priority),
            !.lastLow = other.lastLow]

\* The name of the last low-priority policy is always the other's, even nil.
MergeWith(m, other) ==
  [m EXCEPT !.spanCount = @ + other.spanCount,
            !.earliestStart = lesser(@, other.earliestStart),
            !.latestEnd = greater(@, other.latestEnd),
            !.priority = higherPriority(@, other.priority),
            !.lastLow = other.lastLow]

----------------------------------------------------------------------------
(* Evaluators.  ctx holds the current trace, the merged metadata, what the *)
(* rate getter extension answers, and the evaluators that have one.        *)

Returns(d) == [decision |-> d, err |-> FALSE]
Errs(d)    == [decision |-> d, err |-> TRUE]
SampledIf(P) == Returns(IF P THEN "Sampled" ELSE "Pending")

latency(e, ctx) == SampledIf(ctx.md.latestEnd - ctx.md.earliestStart >= e.thresholdMs)

spanCount(e, ctx) == SampledIf(ctx.md.spanCount >= e.minSpans)

statusCode(e, ctx) == SampledIf(\E i \in DOMAIN ctx.trace : ctx.trace[i].status \in e.statusCodes)

\* rv >= the smallest threshold that is set, unless none is.
minThreshold(trace) == Min({trace[i].threshold : i \in DOMAIN trace} \cup {MaxThreshold})
threshold(e, ctx) ==
  SampledIf(minThreshold(ctx.trace) # MaxThreshold /\ Rv >= minThreshold(ctx.trace))

\* Rates are percentages; what is above 100 saturates.
calculateThreshold(rate) == lesser(greater((rate * MaxHash) \div 100, 0), MaxHash)
probabilistic(e, ctx) == SampledIf(e.hash <= calculateThreshold(e.rate))

\* The first span whose condition holds or fails to evaluate decides.
ottlCondition(e, ctx) ==
  LET decisive == {i \in DOMAIN ctx.trace : ctx.trace[i].cond # "false"}
  IN IF decisive = {} THEN Returns("Pending")
     ELSE IF ctx.trace[Min(decisive)].cond = "true" THEN Returns("Sampled")
     ELSE Errs("Pending")

\* Without a rate getter the default rate; on an error or a negative rate the
\* default rate too, and the error is returned beside the decision.
remoteProbabilistic(e, ctx) ==
  LET remote == e.name \in ctx.getters
      valid  == remote /\ ctx.reading.ok /\ ctx.reading.rate >= 0
      rate   == IF valid THEN ctx.reading.rate ELSE e.rate
      d      == SampledIf(e.hash <= calculateThreshold(rate)).decision
  IN IF remote /\ ~valid THEN Errs(d) ELSE Returns(d)

EvaluateShared(e, ctx) ==
  CASE e.type = "latency" -> latency(e, ctx)
    [] e.type = "span_count" -> spanCount(e, ctx)
    [] e.type = "status_code" -> statusCode(e, ctx)
    [] e.type = "threshold" -> threshold(e, ctx)
    [] e.type = "probabilistic" -> probabilistic(e, ctx)
    [] e.type = "ottl_condition" -> ottlCondition(e, ctx)
    [] e.type = "remote_probabilistic" -> remoteProbabilistic(e, ctx)

\* The first sub-policy that is not Sampled decides; if there is none, Sampled.
and(e, ctx) ==
  LET results == [i \in DOMAIN e.subs |-> EvaluateShared(e.subs[i], ctx)]
      stops   == {i \in DOMAIN e.subs : results[i].err \/ results[i].decision # "Sampled"}
  IN IF stops = {} THEN Returns("Sampled")
     ELSE IF results[Min(stops)].err THEN Errs("Unspecified")
     ELSE results[Min(stops)]

downgrader(e, ctx) ==
  LET sub == EvaluateShared(e.subs[1], ctx)
  IN IF sub.err THEN Errs("Unspecified")
     ELSE IF sub.decision = "Sampled" THEN Returns(e.downgradeTo)
     ELSE sub

rootSpans(e, ctx) ==
  LET sub == EvaluateShared(e.subs[1], ctx)
      defaultDecision == IF ctx.md.priority = "Low" THEN "LowPriority" ELSE "Pending"
  IN IF sub.err THEN Errs("Unspecified")
     ELSE IF sub.decision = "Sampled" THEN Returns("Pending")
     ELSE IF ctx.md.spanCount = 1 /\ ctx.trace[1].root THEN Returns("LowPriority")
     ELSE Returns(defaultDecision)

Evaluate(e, ctx) ==
  CASE e.type = "and" -> and(e, ctx)
    [] e.type = "downgrader" -> downgrader(e, ctx)
    [] e.type = "root_spans" -> rootSpans(e, ctx)
    [] OTHER -> EvaluateShared(e, ctx)

----------------------------------------------------------------------------
(* The decider *)

Final == {"Sampled", "NotSampled", "LowPriority"}

\* A low priority is only taken from the policy that gave it first.
\* Mutant: from any.
policyDecisionAny(p, ctx) == Evaluate(p, ctx).decision
policyDecision(p, ctx) ==
  LET d == Evaluate(p, ctx).decision
  IN IF d = "LowPriority" /\ ctx.md.lastLow \notin {NoPolicy, p.name} THEN "Pending" ELSE d

\* The first final decision wins; without one the trace stays pending.
MakeDecision(policies, ctx) ==
  LET decisive == {i \in DOMAIN policies : policyDecision(policies[i], ctx) \in Final}
  IN IF decisive = {} THEN [decision |-> "Pending", policy |-> NoPolicy]
     ELSE LET p == policies[Min(decisive)]
          IN [decision |-> policyDecision(p, ctx), policy |-> p.name]

\* decider.Start starts the top-level evaluators.  Those that have sub-policies
\* do not pass the call on.  e.ext is the extension a remote_probabilistic policy
\* names, or "".
wantsExtension(e) == e.type = "remote_probabilistic" /\ e.ext # ""
StartFails(policies, extensions) ==
  \E i \in DOMAIN policies : wantsExtension(policies[i]) /\ policies[i].ext \notin extensions
Start(policies) == {policies[i].name : i \in {j \in DOMAIN policies : wantsExtension(policies[j])}}
=============================================================================
