-------------------------- MODULE MCTraceDecision --------------------------
(***************************************************************************)
(* Spans, batches and configurations for TLC.  The trace id has 5 in its   *)
(* rightmost bits and hashes to 50 out of 100.                             *)
(***************************************************************************)
EXTENDS TraceDecision

child == [root |-> FALSE, start |-> 10, end |-> 12, status |-> "OK", cond |-> "false",
          threshold |-> MaxThreshold]
lone    == [child EXCEPT !.root = TRUE]
unset   == [child EXCEPT !.start = 0, !.end = 1]
late    == [child EXCEPT !.start = 13, !.end = 16]
early   == [child EXCEPT !.start = 8, !.end = 9]
failed  == [child EXCEPT !.status = "ERROR"]
low     == [child EXCEPT !.threshold = 3]
high    == [child EXCEPT !.threshold = 7]
matched == [child EXCEPT !.cond = "true"]
broken  == [child EXCEPT !.cond = "error"]

Batches ==
  {<<x>> : x \in {child, lone, unset, late, early, failed, low, high, matched, broken}}
    \cup {<<child, early>>, <<early, late>>, <<matched, broken>>, <<broken, low>>,
          <<early, unset, child>>}
BatchesPlain == {<<x>> : x \in {child, lone, low, high}}

Readings == [ok : {TRUE}, rate : {-1, 0, 60, 120}] \cup [ok : {FALSE}, rate : {0}]

Policy(n, type) == [name |-> n, type |-> type, emitSingle |-> FALSE, record |-> NoRecord]

ottl    == Policy("ottl", "ottl_condition") @@ [conditions |-> {"fine"}]
remote  == Policy("remote", "remote_probabilistic") @@ [hash |-> 50, rate |-> 10, ext |-> "rates"]
longer(n)  == Policy("latency", "latency") @@ [thresholdMs |-> n]
atLeast(n) == Policy("spans", "span_count") @@ [minSpans |-> n]
rare(r)    == Policy("rare", "probabilistic") @@ [hash |-> 50, rate |-> r]
errors     == Policy("errors", "status_code") @@ [statusCodes |-> {"ERROR"}]
byThreshold == Policy("threshold", "threshold")
lonely     == Policy("lonely", "root_spans") @@ [subs |-> <<longer(6)>>]
both(e, f) == Policy("both", "and") @@ [subs |-> <<e, f>>]
never      == [Policy("never", "downgrader") EXCEPT !.emitSingle = TRUE]
                @@ [downgradeTo |-> "NotSampled", subs |-> <<ottl>>]
lower      == Policy("lower", "downgrader") @@ [downgradeTo |-> "LowPriority", subs |-> <<longer(2)>>]

\* Every kind of policy, two of them of the kind that lowers the priority.
AllPolicies ==
  <<errors, byThreshold, both(ottl, atLeast(2)), atLeast(5), longer(8), rare(40),
    remote, never, lonely, lower>>

With(policies) == [createDefaultConfig EXCEPT !.policies = policies, !.targetHeap = 1]
always == rare(100)
Sized(p, s) == [With(<<always>>) EXCEPT !.primary = p, !.secondary = s]
Recorded(k, pattern) == [always EXCEPT !.record = [key |-> k, patterns |-> <<"fine", pattern>>]]

\* Sizes around the bounds, every mistake Validate or a constructor looks for,
\* and an extension that is missing.
SizesToTry == {Sized(p, s) : p \in 0..5, s \in 0..3}
MistakesToTry ==
  {[With(<<always>>) EXCEPT !.shards = n] : n \in {-1, 0}}
    \cup {[With(<<always>>) EXCEPT !.buffer = n] : n \in {-1, 2}}
    \cup {[With(<<always>>) EXCEPT !.sampledSize = 0], [With(<<always>>) EXCEPT !.nonSampledSize = 0]}
    \cup {With(<<e>>) : e \in
            {Recorded("service", "fine"), Recorded("service", "malformed"),
             Recorded("service", ""), Recorded("", "fine"),
             [errors EXCEPT !.statusCodes = {}], [errors EXCEPT !.statusCodes = {"BAD"}],
             [ottl EXCEPT !.conditions = {}], [ottl EXCEPT !.conditions = {"malformed"}],
             [lower EXCEPT !.downgradeTo = "Dropped"], both(always, lonely),
             Policy("typeless", ""), [remote EXCEPT !.ext = "absent"]}}
    \cup {With(<<always, longer(1), always>>)}

ToTry == {With(AllPolicies)} \cup SizesToTry \cup MistakesToTry

LonelyToTry == {With(<<byThreshold, lonely>>)}
NestedToTry == {With(<<both(ottl, remote)>>)}
============================================================================
