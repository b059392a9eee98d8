----------------------------- MODULE SpanFate ------------------------------
(***************************************************************************)
(* What the processor promises of the spans given to it, whatever it does  *)
(* with caches, shards and evictions: a batch that is taken in is sent at  *)
(* most once, or given up for a reason, and never comes back from either.  *)
(***************************************************************************)
CONSTANTS Batches, Traces, TraceOf

VARIABLES
  inside,    \* taken in, and neither sent nor given up
  sent,      \* given to the next consumer
  lost,      \* lost by an internal error
  discarded, \* given up: the trace was not sampled
  ruledOut   \* the traces recorded as not sampled

fate == <<inside, sent, lost, discarded, ruledOut>>

Init ==
  /\ inside = {} /\ sent = {} /\ lost = {} /\ discarded = {}
  /\ ruledOut = {}

\* A call brings batches in, or is told that some were not taken after all.
TakeIn(B) ==
  /\ B \cap (inside \cup sent \cup lost \cup discarded) = {}
  /\ inside' = inside \cup B
  /\ UNCHANGED <<sent, lost, discarded, ruledOut>>

Refuse(B) ==
  /\ inside' = inside \ B
  /\ UNCHANGED <<sent, lost, discarded, ruledOut>>

\* The spans that leave together belong to one trace.
OneTrace(B) == \A b, c \in B : TraceOf[b] = TraceOf[c]

Forward(B) ==
  /\ OneTrace(B)
  /\ inside' = inside \ B
  /\ sent' = sent \cup B
  /\ UNCHANGED <<lost, discarded, ruledOut>>

\* The end of a process loses spans of several traces at once.
Lose(B) ==
  /\ inside' = inside \ B
  /\ lost' = lost \cup B
  /\ UNCHANGED <<sent, discarded, ruledOut>>

\* A trace may be ruled out before any of its spans arrive: by a decision span.
RuleOut(t) ==
  /\ ruledOut' = ruledOut \cup {t}
  /\ UNCHANGED <<inside, sent, lost, discarded>>

\* A trace may be ruled out in the step that gives its spans up.
Discard(B) ==
  /\ OneTrace(B)
  /\ ruledOut' \in {ruledOut, ruledOut \cup {TraceOf[b] : b \in B}}
  /\ \A b \in B : TraceOf[b] \in ruledOut'
  /\ inside' = inside \ B
  /\ discarded' = discarded \cup B
  /\ UNCHANGED <<sent, lost>>

Next ==
  \/ \E B \in (SUBSET Batches) \ {{}} : TakeIn(B)
  \/ \E B \in (SUBSET inside) \ {{}} : Refuse(B) \/ Forward(B) \/ Lose(B) \/ Discard(B)
  \/ \E t \in Traces : RuleOut(t)

Spec == Init /\ [][Next]_fate
============================================================================
