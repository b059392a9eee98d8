----------------------------- MODULE ScaleDown -----------------------------
(***************************************************************************)
(* A node is scaled down: what it flushes, traces and decision spans, is   *)
(* routed to a peer that takes over its traces (DESIGN.md, Shutdown        *)
(* Flushing) together with the spans that arrive from now on.  The peer    *)
(* runs the same processor; the pipeline between the two keeps no order.   *)
(*                                                                         *)
(* Each node has one listener here: then nobody can decide a trace between *)
(* its eviction and the callback's record of it, or evict one between the  *)
(* listener's Get and Put (what two listeners make of that is in           *)
(* SamplingProcessor).  The early checks of calls still run beside it.     *)
(*                                                                         *)
(* The peer goes on running, with other traffic that may make it evict     *)
(* data and forget decisions at any time, so of it there is only where it  *)
(* has each group, what it remembers, and the decision span it is at.      *)
(***************************************************************************)
EXTENDS Lifecycle

VARIABLES
  peer,           \* where the peer has the spans of each group
  peerSampled, peerNonSampled, \* its decision caches
  peerForgot,     \* history: the decisions that were evicted from them
  heard,          \* the decision spans it has processed or begun to
  hearing         \* the next call for the positive one it is at

peerDecisions == <<peerSampled, peerNonSampled, peerForgot>>
peerVars == <<peer, peerDecisions, heard, hearing>>
allVars  == <<vars, peerVars>>

ScaleDownInit ==
  /\ Init
  /\ peer = [g \in Groups |-> "none"]
  /\ peerSampled = {} /\ peerNonSampled = {} /\ peerForgot = {}
  /\ heard = {} /\ hearing = {}

----------------------------------------------------------------------------
cachedAtPeer(t) == {g \in Groups : peer[g] = "cached" /\ TraceOf[g] = t}
PeerSettles(G, st) == peer' = [h \in Groups |-> IF h \in G THEN st ELSE peer[h]]
decided(t) == t \in peerSampled \cup peerNonSampled

\* Whether the listener is not in the middle of a decision span, or in one of t.
PeerListens == hearing = {}
PeerIsAt(t) == <<"delete", t>> \in hearing \/ <<"put", t>> \in hearing

\* Spans reach the peer when they were flushed, or when they are routed to it
\* because the node takes no more.
PeerConsumes(g) ==
  /\ peer[g] = "none"
  /\ stage[g] = "flushed" \/ (stage[g] = "new" /\ caller \notin {"new", "started"})
  /\ PeerSettles({g}, "early")
  /\ UNCHANGED <<vars, peerDecisions, heard, hearing>>

\* The early checks read one cache after the other.
PeerChecksSampled(g) ==
  /\ peer[g] = "early"
  /\ PeerSettles({g}, IF TraceOf[g] \in peerSampled THEN "sent" ELSE "missed")
  /\ UNCHANGED <<vars, peerDecisions, heard, hearing>>

PeerChecksNonSampled(g) ==
  /\ peer[g] = "missed"
  /\ PeerSettles({g}, IF TraceOf[g] \in peerNonSampled THEN "dropped" ELSE "queued")
  /\ UNCHANGED <<vars, peerDecisions, heard, hearing>>

\* A verdict the peer has applies; without one, its policies reach any.
PeerProcesses(g) ==
  LET t == TraceOf[g]
  IN /\ peer[g] = "queued" /\ PeerListens
     /\ \/ /\ decided(t)
           /\ PeerSettles({g}, IF t \in peerSampled THEN "sent" ELSE "ruledOut")
           /\ UNCHANGED <<peerSampled, peerNonSampled>>
        \/ /\ ~decided(t)
           /\ peerSampled' = peerSampled \cup {t}
           /\ PeerSettles({g} \cup cachedAtPeer(t), "sent")
           /\ UNCHANGED peerNonSampled
        \/ /\ ~decided(t)
           /\ peerNonSampled' = peerNonSampled \cup {t}
           /\ PeerSettles({g} \cup cachedAtPeer(t), "ruledOut")
           /\ UNCHANGED peerSampled
        \/ /\ ~decided(t)
           /\ PeerSettles({g}, "cached")
           /\ UNCHANGED <<peerSampled, peerNonSampled>>
     /\ UNCHANGED <<vars, peerForgot, heard, hearing>>

\* No other writer runs and the early checks do not read the tiers, so the
\* eviction and its callback, which finds no verdict, are one step.
PeerEvicts(t) ==
  /\ PeerListens
  /\ cachedAtPeer(t) # {}
  /\ PeerSettles(cachedAtPeer(t), "ruledOut")
  /\ peerNonSampled' = peerNonSampled \cup {t}
  /\ UNCHANGED <<vars, peerSampled, peerForgot, heard, hearing>>

\* A decision of other traffic takes the place of one of t.
PeerForgets(t) ==
  /\ PeerListens
  /\ \/ /\ t \in peerSampled
        /\ peerSampled' = peerSampled \ {t}
        /\ peerForgot' = peerForgot \cup {<<"sampled", t>>}
        /\ UNCHANGED peerNonSampled
     \/ /\ t \in peerNonSampled
        /\ peerNonSampled' = peerNonSampled \ {t}
        /\ peerForgot' = peerForgot \cup {<<"nonSampled", t>>}
        /\ UNCHANGED peerSampled
  /\ UNCHANGED <<vars, peer, heard, hearing>>

\* Mutant: a decision span overrules the verdict it meets.
PeerHearsAll(d) ==
  LET t == d[2]
  IN /\ d \in decisionSpans \ heard
     /\ PeerListens
     /\ heard' = heard \cup {d}
     /\ PeerSettles(cachedAtPeer(t), IF d[1] = "sampled" THEN "sent" ELSE "ruledOut")
     /\ hearing' = IF d[1] = "sampled" THEN {<<"put", t>>} ELSE {}
     /\ peerNonSampled' = IF d[1] = "sampled" THEN peerNonSampled ELSE peerNonSampled \cup {t}
     /\ UNCHANGED <<vars, peerSampled, peerForgot>>

\* A decision span that meets a verdict is ignored.  A positive one sends the
\* cached data, deletes it and puts the decision, in this order.
PeerHears(d) ==
  LET t == d[2]
  IN /\ d \in decisionSpans \ heard
     /\ PeerListens
     /\ heard' = heard \cup {d}
     /\ \/ decided(t) /\ UNCHANGED <<peer, peerNonSampled, hearing>>
        \/ /\ ~decided(t) /\ d[1] = "sampled"
           /\ PeerSettles(cachedAtPeer(t), "sent")
           /\ hearing' = {<<IF cachedAtPeer(t) = {} THEN "put" ELSE "delete", t>>}
           /\ UNCHANGED peerNonSampled
        \/ /\ ~decided(t) /\ d[1] = "nonSampled"
           /\ PeerSettles(cachedAtPeer(t), "ruledOut")
           /\ peerNonSampled' = peerNonSampled \cup {t}
           /\ UNCHANGED hearing
     /\ UNCHANGED <<vars, peerSampled, peerForgot>>

\* The callback of the deletion finds no verdict and records "not sampled",
\* which an early check may read before the decision is put.
PeerDeletes(t) ==
  /\ <<"delete", t>> \in hearing
  /\ peerNonSampled' = peerNonSampled \cup {t}
  /\ hearing' = {<<"put", t>>}
  /\ UNCHANGED <<vars, peer, peerSampled, peerForgot, heard>>

PeerPutsSampled(t) ==
  /\ <<"put", t>> \in hearing
  /\ peerSampled' = peerSampled \cup {t}
  /\ hearing' = {}
  /\ UNCHANGED <<vars, peer, peerNonSampled, peerForgot, heard>>

PeerStep ==
  \/ \E g \in Groups :
       \/ PeerConsumes(g) \/ PeerChecksSampled(g) \/ PeerChecksNonSampled(g)
       \/ PeerProcesses(g)
  \/ \E d \in decisionSpans : PeerHears(d)
  \/ \E t \in Traces : PeerDeletes(t) \/ PeerPutsSampled(t)
PeerRests == UNCHANGED peerVars

ScaleDownNext ==
  \/ Next /\ PeerRests
  \/ PeerStep
  \/ \E t \in Traces : PeerEvicts(t) \/ PeerForgets(t)

ScaleDownSpec == ScaleDownInit /\ [][ScaleDownNext]_allVars

\* What was exported arrives, and the peer's listener runs; that it evicts,
\* forgets or reaches a verdict is not assumed.
FairSpec == ScaleDownSpec /\ Fairness /\ WF_allVars(PeerStep)

----------------------------------------------------------------------------
\* Scaling a node down with flush_on_shutdown on leaves nothing behind
\* (README.md, flush_on_shutdown; DESIGN.md:147-149), with one listener per
\* node: spans that were waiting in a channel, in a cache or in an eviction
\* callback when Shutdown began are eventually sent, ruled out or in the hands
\* of the peer, unless Shutdown reported an error or ran out of time.  The late
\* spans OnlyLateSpansAreLost speaks of are excepted.
NothingIsStranded ==
  caller = "waiting" ~>
    \/ result = "error" \/ ctxDone
    \/ \A g \in Groups :
         \/ stage[g] \in {"new", "async", "sent", "ruledOut", "lost"}
         \/ stage[g] = "flushed" /\ peer[g] \in {"cached", "sent", "ruledOut", "dropped"}

\* Decision spans arrive before, between and after the spans of their trace, may
\* contradict what the peer decided meanwhile, and a positive one leaves the
\* trace in both decision caches; yet what a peer of one listener sends it has
\* recorded as sampled (or is about to, once it has put the decision of the span
\* it is at), and what its listener gives up it has recorded as not sampled and
\* does not take for sampled, unless that record was evicted ("if ... the
\* decision conflicts with the current decision caches, then the decision span
\* will be ignored", processor.go:434-435).  Spans that the early check of a call
\* drops are not spoken of: it may read the record of a deletion that
\* precedes a positive decision.
PeerIsOfOneMind ==
  \A g \in Groups :
    /\ peer[g] = "sent" =>
         \/ TraceOf[g] \in peerSampled \/ <<"sampled", TraceOf[g]>> \in peerForgot
         \/ PeerIsAt(TraceOf[g])
    /\ peer[g] = "ruledOut" =>
         \/ TraceOf[g] \in peerNonSampled \ peerSampled
         \/ <<"nonSampled", TraceOf[g]>> \in peerForgot

\* The refinement mapping to SpanFate: spans are inside the system while either
\* node holds them or they are between the two.
takenIn == {g \in Groups : stage[g] # "new" \/ peer[g] # "none"}
sentByEither == {g \in Groups : stage[g] = "sent" \/ peer[g] = "sent"}
lostByNode == {g \in Groups : stage[g] \in {"lost", "unflushed"}}
discardedByEither ==
  {g \in Groups : stage[g] \in {"ruledOut", "vanished"} \/ peer[g] \in {"ruledOut", "dropped"}}
ruledOutByNode ==
  ToSet(nonSampled) \cup {t \in Traces : <<"nonSampled", t>> \in taken \cup forgotten}
ruledOutByPeer == peerNonSampled \cup {t \in Traces : <<"nonSampled", t>> \in peerForgot}

Fate == INSTANCE SpanFate
  WITH Batches <- Groups,
       inside <- takenIn \ (sentByEither \cup lostByNode \cup discardedByEither),
       sent <- sentByEither, lost <- lostByNode, discarded <- discardedByEither,
       ruledOut <- ruledOutByNode \cup ruledOutByPeer

\* Two nodes of one listener each keep the promise one of them gives: whatever
\* moves from one to the other, whatever either forgets, and whenever decision
\* spans arrive, no spans are sent by both or by one after the other gave them
\* up, and none are given up before a node ruled their trace out.
NodesImplementSpanFate == Fate!Spec
============================================================================
