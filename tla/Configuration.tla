--------------------------- MODULE Configuration ---------------------------
(***************************************************************************)
(* From a decoded configuration to a processor: Config.Validate            *)
(* (config.go), which the collector calls first, and the checks that       *)
(* newAtlassianSamplingProcessor (processor.go) and the constructors it    *)
(* calls make.  A configuration is the record of what they look at;        *)
(* policies are the records of module Policies with two fields more:       *)
(*   emitSingle  emit_single_span_for_not_sampled                          *)
(*   record      record_decision_from, or NoRecord                         *)
(***************************************************************************)
EXTENDS Policies

CONSTANT NoRecord \* record_decision_from is not given

createDefaultConfig ==
  [shards |-> 1, buffer |-> 0, primary |-> 1000, secondary |-> 100,
   sampledSize |-> 10000, nonSampledSize |-> 10000, targetHeap |-> 0, policies |-> <<>>]

----------------------------------------------------------------------------
(* Config.Validate.  Of a pattern matters whether it is empty or malformed. *)

uniqueNames(policies) ==
  \A i, j \in DOMAIN policies : policies[i].name = policies[j].name => i = j

validRecordDecisionFrom(r) ==
  r # NoRecord => /\ r.key # ""
                  /\ \A i \in DOMAIN r.patterns : r.patterns[i] \notin {"", "malformed"}

\* Mutant: the secondary tier may be as large as the primary one.
ValidateLoosely(c) ==
  /\ c.primary > 0
  /\ c.secondary > 0 /\ c.secondary <= c.primary
  /\ c.buffer >= 0
  /\ c.shards > 0
  /\ uniqueNames(c.policies)
  /\ \A i \in DOMAIN c.policies : validRecordDecisionFrom(c.policies[i].record)

\* No error is appended.  The decision cache sizes are not looked at.
Validate(c) ==
  /\ c.primary > 0
  /\ c.secondary > 0 /\ c.secondary <= c.primary \div 2
  /\ c.buffer >= 0
  /\ c.shards > 0
  /\ uniqueNames(c.policies)
  /\ \A i \in DOMAIN c.policies : validRecordDecisionFrom(c.policies[i].record)

----------------------------------------------------------------------------
(* The constructors: does each of them return what it should, or an error? *)

initialPrimaryCacheSize(c) == (6 * c.primary) \div 10

NewLRUCache(size) == size > 0

\* Without target_heap_bytes there is no regulator.
NewRegulator(minSize, maxSize) == minSize >= 0 /\ maxSize > 0 /\ maxSize > minSize

\* An empty pattern compiles.
newDecisionGrouper(r) ==
  r # NoRecord => \A i \in DOMAIN r.patterns : r.patterns[i] # "malformed"

NewStatusCodeEvaluator(e) == e.statusCodes # {} /\ e.statusCodes \subseteq {"OK", "ERROR", "UNSET"}
NewOTTLConditionEvaluator(e) == e.conditions # {} /\ "malformed" \notin e.conditions

StringToDecision(s) == s \in {"Unspecified", "Pending", "Sampled", "NotSampled", "LowPriority"}

SharedTypes ==
  {"probabilistic", "span_count", "latency", "status_code", "ottl_condition",
   "threshold", "remote_probabilistic"}

getSharedPolicyEvaluator(e) ==
  /\ e.type \in SharedTypes
  /\ e.type = "status_code" => NewStatusCodeEvaluator(e)
  /\ e.type = "ottl_condition" => NewOTTLConditionEvaluator(e)

getPolicyEvaluator(e) ==
  IF e.type \in {"and", "root_spans", "downgrader"}
  THEN /\ \A i \in DOMAIN e.subs : getSharedPolicyEvaluator(e.subs[i])
       /\ e.type = "downgrader" => StringToDecision(e.downgradeTo)
  ELSE getSharedPolicyEvaluator(e)

newPolicies(policies) ==
  /\ uniqueNames(policies)
  /\ \A i \in DOMAIN policies :
       getPolicyEvaluator(policies[i]) /\ newDecisionGrouper(policies[i].record)

\* make of a slice or of a channel panics when the size is negative.
makePanics(c) == c.shards < 0 \/ (c.shards > 0 /\ c.buffer < 0)

\* A secondary size that is not positive means no secondary tier.
newAtlassianSamplingProcessor(c) ==
  /\ NewLRUCache(initialPrimaryCacheSize(c))
  /\ NewLRUCache(c.sampledSize) /\ NewLRUCache(c.nonSampledSize)
  /\ c.targetHeap > 0 => NewRegulator(c.primary \div 4, c.primary)
  /\ newPolicies(c.policies)
============================================================================
