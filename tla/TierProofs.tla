----------------------------- MODULE TierProofs -----------------------------
(***************************************************************************)
(* The trace data caches of SamplingProcessor hold at most one object per  *)
(* trace, and none whose trace is remembered as sampled, however the       *)
(* shards interleave and evict each other's entries.                       *)
(*                                                                         *)
(* Neither is inductive: traceData.Get, Delete and Put take several steps. *)
(* What a listener learnt in one of them stays true until it uses it,      *)
(* since only the shard that owns a trace puts anything in for it.         *)
(***************************************************************************)
EXTENDS TypeProofs

NoEntry(q, t) == \A o \in ToSet(q) : TraceOf[o] # t

\* A shard only ever receives groups of its own traces.
OwnChannel ==
  \A s \in Shards : \A i \in 1..Len(chan[s]) : \A j \in 1..Len(chan[s][i]) :
    ShardOf[TraceOf[chan[s][i][j]]] = s
OwnGroups(s) == \A i \in 1..Len(gtdArr[s]) : ShardOf[TraceOf[gtdArr[s][i]]] = s

\* What Get returned is of the current trace.
CachedOwn(s) ==
  cachedData[s] # None => pc[s] \in GroupLabels /\ TraceOf[cachedData[s]] = id(s)

otherTier(s) == IF priority[held(s)] = "Low" THEN primary ELSE secondary

\* What the steps a listener has taken for its group have established.
Learnt(s) ==
  /\ pc[s] = "decide" => KindOf[current(s)] = "spans"
  /\ pc[s] = "putInsert" => NoEntry(otherTier(s), id(s))
  /\ pc[s] \in {"getSecondary", "deleteSecondary"} => NoEntry(primary, id(s))
  /\ (\/ pc[s] \in {"decide", "putSampled"} /\ cachedData[s] = None
      \/ pc[s] = "putSampled" /\ KindOf[current(s)] # "spans")
       => NoEntry(primary, id(s)) /\ NoEntry(secondary, id(s))

UndecidedLabels ==
  {"checkNonSampled", "getPrimary", "getSecondary", "decide", "putDelete", "putInsert"}
Undecided(s) == pc[s] \in UndecidedLabels => id(s) \notin ToSet(sampled)

ShardInv(s) == OwnGroups(s) /\ CachedOwn(s) /\ Learnt(s) /\ Undecided(s)

OnePerTrace == UniqueKeys(primary, TraceOf) /\ UniqueKeys(secondary, TraceOf)

TierInv ==
  /\ OwnChannel
  /\ \A s \in Shards : ShardInv(s)
  /\ OnePerTrace
  /\ TierDisjoint
  /\ SampledIsReleased

----------------------------------------------------------------------------
(* What one step may change, seen from the other shards *)

Still(u) == pc'[u] = pc[u] /\ gtdArr'[u] = gtdArr[u] /\ cachedData'[u] = cachedData[u]

Elsewhere(s) == \A u \in Shards \ {s} : Still(u)

NoNewEntry ==
  /\ ToSet(primary') \subseteq ToSet(primary)
  /\ ToSet(secondary') \subseteq ToSet(secondary)
  /\ ToSet(sampled') \subseteq ToSet(sampled)

\* What shard s adds is of its own current trace.
AddsOwn(s) ==
  /\ pc[s] \in GroupLabels
  /\ ToSet(primary') \subseteq ToSet(primary) \cup {held(s)}
  /\ ToSet(secondary') \subseteq ToSet(secondary) \cup {held(s)}
  /\ ToSet(sampled') \subseteq ToSet(sampled) \cup {id(s)}
  /\ \A o \in Batches \ {held(s)} : priority'[o] = priority[o]

releaseLabels == {"sendCached", "deletePrimary", "deleteSecondary"}

\* The object a listener holds is of the trace it works on, and that trace is
\* the shard's own.
LEMMA HeldIsOwn ==
  ASSUME TypeInv, TierInv, NEW s \in Shards, pc[s] \in GroupLabels
  PROVE  TraceOf[held(s)] = id(s) /\ ShardOf[id(s)] = s /\ held(s) \in Batches
<1>1. gtdArr[s] \in Seq(Batches) /\ gtdArr[s] # <<>>
  BY DEF TypeInv, LocalsOK, HasCurrent
<1>2. current(s) = gtdArr[s][1] /\ 1 \in 1..Len(gtdArr[s])
  BY <1>1 DEF current
<1>3. ShardOf[id(s)] = s
  BY <1>2 DEF TierInv, ShardInv, OwnGroups, id
<1>4. TraceOf[held(s)] = id(s)
  BY DEF TierInv, ShardInv, CachedOwn, held, id
<1>5. held(s) \in Batches
  BY CurrentTyped DEF TypeInv
<1> QED
  BY <1>3, <1>4, <1>5

\* A shard that stands still keeps what it has learnt, whatever another adds.
LEMMA ShardKept ==
  ASSUME TypeInv, TierInv, NEW u \in Shards, Still(u),
         \/ NoNewEntry /\ UNCHANGED priority
         \/ \E s \in Shards \ {u} : AddsOwn(s)
  PROVE  ShardInv(u)'
<1>1. current(u)' = current(u) /\ id(u)' = id(u) /\ held(u)' = held(u)
  BY DEF Still, current, id, held
<1>2. ASSUME pc[u] \in GroupLabels
      PROVE  /\ \A o \in ToSet(primary') : TraceOf[o] = id(u) => o \in ToSet(primary)
             /\ \A o \in ToSet(secondary') : TraceOf[o] = id(u) => o \in ToSet(secondary)
             /\ id(u) \in ToSet(sampled') => id(u) \in ToSet(sampled)
             /\ priority'[held(u)] = priority[held(u)]
  <2>1. CASE NoNewEntry /\ UNCHANGED priority
    BY <2>1 DEF NoNewEntry
  <2>2. ASSUME NEW s \in Shards \ {u}, AddsOwn(s)
        PROVE  /\ \A o \in ToSet(primary') : TraceOf[o] = id(u) => o \in ToSet(primary)
               /\ \A o \in ToSet(secondary') : TraceOf[o] = id(u) => o \in ToSet(secondary)
               /\ id(u) \in ToSet(sampled') => id(u) \in ToSet(sampled)
               /\ priority'[held(u)] = priority[held(u)]
    <3>1. /\ TraceOf[held(s)] = id(s) /\ ShardOf[id(s)] = s
          /\ TraceOf[held(u)] = id(u) /\ ShardOf[id(u)] = u /\ held(u) \in Batches
      BY <1>2, <2>2, HeldIsOwn DEF AddsOwn
    <3>2. id(s) # id(u) /\ held(s) # held(u)
      BY <3>1
    <3> QED
      BY <2>2, <3>1, <3>2 DEF AddsOwn
  <2> QED
    BY <2>1, <2>2
<1>3. OwnGroups(u)'
  BY DEF TierInv, ShardInv, OwnGroups, Still
<1>4. CachedOwn(u)'
  BY <1>1 DEF TierInv, ShardInv, CachedOwn, Still
<1>5. Undecided(u)'
  BY <1>1, <1>2 DEF TierInv, ShardInv, Undecided, UndecidedLabels, GroupLabels, Still
<1>6. ASSUME pc[u] \in GroupLabels, NEW t, t = id(u)
      PROVE  /\ NoEntry(primary, t) => NoEntry(primary, t)'
             /\ NoEntry(secondary, t) => NoEntry(secondary, t)'
  BY <1>2, <1>6 DEF NoEntry
<1>7. Learnt(u)'
  <2>1. Learnt(u)
    BY DEF TierInv, ShardInv
  <2>2. pc'[u] = pc[u] /\ cachedData'[u] = cachedData[u]
    BY DEF Still
  <2>3. CASE pc[u] \in GroupLabels
    <3>1. otherTier(u)' = IF priority[held(u)] = "Low" THEN primary' ELSE secondary'
      BY <1>1, <1>2, <2>3 DEF otherTier
    <3>2. NoEntry(otherTier(u), id(u)) => NoEntry(otherTier(u), id(u))'
      BY <1>1, <1>6, <2>3, <3>1 DEF otherTier, NoEntry
    <3>3. /\ NoEntry(primary, id(u)) => NoEntry(primary, id(u))'
          /\ NoEntry(secondary, id(u)) => NoEntry(secondary, id(u))'
      BY <1>1, <1>6, <2>3 DEF NoEntry
    <3> QED
      BY <1>1, <2>1, <2>2, <3>2, <3>3 DEF Learnt
  <2>4. CASE pc[u] \notin GroupLabels
    BY <2>2, <2>4 DEF Learnt, GroupLabels
  <2> QED
    BY <2>3, <2>4
<1> QED
  BY <1>3, <1>4, <1>5, <1>7 DEF ShardInv

\* A release that goes on covers what it covered.
LEMMA ReleasedKept ==
  ASSUME TierInv, NoNewEntry,
         \A u \in Shards : pc[u] \in releaseLabels =>
           pc'[u] \in releaseLabels /\ gtdArr'[u] = gtdArr[u]
  PROVE  SampledIsReleased'
<1> SUFFICES ASSUME NEW o \in ToSet(primary') \cup ToSet(secondary'),
                    TraceOf[o] \in ToSet(sampled')
             PROVE  \E s \in Shards : pc'[s] \in releaseLabels /\ id(s)' = TraceOf[o]
  BY DEF SampledIsReleased, IsHit, releasing, releaseLabels
<1>1. PICK s \in Shards : pc[s] \in releaseLabels /\ id(s) = TraceOf[o]
  BY DEF NoNewEntry, TierInv, SampledIsReleased, IsHit, releasing, releaseLabels
<1>2. id(s)' = id(s)
  BY <1>1 DEF id, current
<1> QED
  BY <1>1, <1>2

\* A step of one shard that brings nothing new into a cache keeps TierInv when
\* it keeps it for the shard itself, and keys unique.
LEMMA TierStep ==
  ASSUME TypeInv, TierInv, NEW s \in Shards, Elsewhere(s), NoNewEntry,
         UNCHANGED priority \/ AddsOwn(s),
         UNCHANGED chan, ShardInv(s)', OnePerTrace',
         pc[s] \in releaseLabels => pc'[s] \in releaseLabels /\ gtdArr'[s] = gtdArr[s]
  PROVE  TierInv'
<1>1. OwnChannel'
  BY DEF TierInv, OwnChannel
<1>2. \A u \in Shards : ShardInv(u)'
  BY ShardKept DEF Elsewhere
<1>3. TierDisjoint'
  BY DEF TierInv, TierDisjoint, NoNewEntry
<1>4. SampledIsReleased'
  BY ReleasedKept DEF Elsewhere, Still
<1> QED
  BY <1>1, <1>2, <1>3, <1>4 DEF TierInv

\* A step outside the listeners, or of a callback, that brings nothing new in.
LEMMA OutsideStep ==
  ASSUME TypeInv, TierInv, UNCHANGED <<chan, localVars, primary, secondary, priority>>,
         ToSet(sampled') \subseteq ToSet(sampled)
  PROVE  TierInv'
<1>1. NoNewEntry
  BY DEF NoNewEntry
<1>2. \A u \in Shards : Still(u)
  BY DEF Still, localVars
<1>3. OwnChannel'
  BY DEF TierInv, OwnChannel
<1>4. \A u \in Shards : ShardInv(u)'
  BY <1>1, <1>2, ShardKept
<1>5. OnePerTrace' /\ TierDisjoint'
  BY DEF TierInv, OnePerTrace, TierDisjoint
<1>6. SampledIsReleased'
  BY <1>1, <1>2, ReleasedKept DEF Still
<1> QED
  BY <1>3, <1>4, <1>5, <1>6 DEF TierInv

----------------------------------------------------------------------------
(* The ways a listener moves on *)

\* To another step for the same group.
LEMMA GotoShard ==
  ASSUME TypeInv, TierInv, NEW s \in Shards, NEW label \in Labels, Goto(s, label), KeepLocals,
         cachedData[s] # None => label \in GroupLabels
  PROVE  /\ Elsewhere(s)
         /\ pc'[s] = label /\ gtdArr'[s] = gtdArr[s] /\ cachedData'[s] = cachedData[s]
         /\ current(s)' = current(s) /\ id(s)' = id(s) /\ held(s)' = held(s)
         /\ OwnGroups(s)' /\ CachedOwn(s)'
         /\ label \notin UndecidedLabels \cup {"putSampled", "deleteSecondary"} => ShardInv(s)'
<1>1. LocalsOK
  BY DEF TypeInv
<1>2. /\ pc'[s] = label /\ gtdArr'[s] = gtdArr[s] /\ cachedData'[s] = cachedData[s]
      /\ Elsewhere(s)
  BY <1>1 DEF Goto, KeepLocals, Elsewhere, Still, LocalsOK
<1>3. current(s)' = current(s) /\ id(s)' = id(s) /\ held(s)' = held(s)
  BY <1>2 DEF current, id, held
<1>4. OwnGroups(s)'
  BY <1>2 DEF TierInv, ShardInv, OwnGroups
<1>5. CachedOwn(s)'
  BY <1>2, <1>3 DEF TierInv, ShardInv, CachedOwn
<1>6. label \notin UndecidedLabels \cup {"putSampled", "deleteSecondary"} =>
        Learnt(s)' /\ Undecided(s)'
  BY <1>2 DEF Learnt, Undecided, UndecidedLabels
<1> QED
  BY <1>2, <1>3, <1>4, <1>5, <1>6 DEF ShardInv

\* To the next group.
LEMMA ContinueShard ==
  ASSUME TypeInv, TierInv, NEW s \in Shards, pc[s] \in GroupLabels, Continue(s)
  PROVE  /\ Elsewhere(s) /\ ShardInv(s)'
         /\ pc'[s] \in {"unlock", "checkSampled"}
<1>1. LocalsOK
  BY DEF TypeInv
<1>2. gtdArr[s] \in Seq(Batches) /\ gtdArr[s] # <<>>
  BY <1>1 DEF LocalsOK, HasCurrent
<1>3. /\ pc'[s] \in {"unlock", "checkSampled"}
      /\ gtdArr'[s] = Tail(gtdArr[s]) /\ cachedData'[s] = None
      /\ Elsewhere(s)
  BY <1>1 DEF Continue, Goto, Elsewhere, Still, LocalsOK
<1>4. \A i \in 1..Len(Tail(gtdArr[s])) :
        Tail(gtdArr[s])[i] = gtdArr[s][i + 1] /\ i + 1 \in 1..Len(gtdArr[s])
  BY <1>2, TailProperties
<1>5. OwnGroups(s)'
  BY <1>3, <1>4 DEF TierInv, ShardInv, OwnGroups
<1>6. CachedOwn(s)' /\ Learnt(s)' /\ Undecided(s)'
  BY <1>3 DEF CachedOwn, Learnt, Undecided, UndecidedLabels
<1> QED
  BY <1>3, <1>5, <1>6 DEF ShardInv

\* To a new array of groups of the shard's own traces.
LEMMA ReceiveShard ==
  ASSUME TypeInv, TierInv, NEW s \in Shards, pc[s] = "listen", NEW arr \in Seq(Batches),
         \A i \in 1..Len(arr) : ShardOf[TraceOf[arr[i]]] = s,
         gtdArr' = [gtdArr EXCEPT ![s] = arr], Goto(s, "readLock"), UNCHANGED cachedData,
         UNCHANGED <<primary, secondary, priority, sampled>>, OwnChannel'
  PROVE  TierInv'
<1>1. LocalsOK
  BY DEF TypeInv
<1>2. pc'[s] = "readLock" /\ gtdArr'[s] = arr /\ Elsewhere(s)
  BY <1>1 DEF Goto, Elsewhere, Still, LocalsOK
<1>3. cachedData'[s] = None
  BY DEF TierInv, ShardInv, CachedOwn, GroupLabels
<1>4. ShardInv(s)'
  BY <1>2, <1>3 DEF ShardInv, OwnGroups, CachedOwn, Learnt, Undecided, UndecidedLabels
<1>5. NoNewEntry
  BY DEF NoNewEntry
<1>6. \A u \in Shards : ShardInv(u)'
  BY <1>2, <1>4, <1>5, ShardKept DEF Elsewhere
<1>7. SampledIsReleased'
  BY <1>2, <1>5, ReleasedKept DEF Elsewhere, Still, releaseLabels
<1>8. OnePerTrace' /\ TierDisjoint'
  BY DEF TierInv, OnePerTrace, TierDisjoint
<1> QED
  BY <1>6, <1>7, <1>8 DEF TierInv

\* A hit in a decision cache adds no decision.
LEMMA HitAddsNothing ==
  ASSUME DecisionsOK, NEW t, IsHit(sampled, t), sampled' = Refresh(sampled, t)
  PROVE  ToSet(sampled') \subseteq ToSet(sampled)
<1>1. t \in ToSet(sampled) /\ t \in Traces /\ sampled \in Seq(Traces)
  BY ToSetDef DEF DecisionsOK, IsHit
<1>2. ToSet(Refresh(sampled, t)) = ToSet(sampled) \cup {t}
  BY <1>1, RefreshEntries
<1> QED
  BY <1>1, <1>2

----------------------------------------------------------------------------
(* TierInv is inductive *)

\* An empty processor satisfies it.
LEMMA TierInvInit == Init => TierInv
<1> SUFFICES ASSUME Init PROVE TierInv
  OBVIOUS
<1>1. ToSet(primary) = {} /\ ToSet(secondary) = {} /\ Len(primary) = 0 /\ Len(secondary) = 0
  BY DEF Init, ToSet
<1>2. OwnChannel /\ OnePerTrace /\ TierDisjoint /\ SampledIsReleased
  BY <1>1 DEF Init, OwnChannel, OnePerTrace, UniqueKeys, TierDisjoint, SampledIsReleased
<1>3. \A s \in Shards : ShardInv(s)
  BY DEF Init, ShardInv, OwnGroups, CachedOwn, Learnt, Undecided, UndecidedLabels
<1> QED
  BY <1>2, <1>3 DEF TierInv

\* The goroutines of the callers, and the callbacks, only read the decisions.
LEMMA TierOutside ==
  ASSUME TypeInv, TierInv,
         \/ \E r \in Requests : ConsumeTraces(r)
         \/ \E b \in Batches : EarlyStep(b) \/ AsyncSend(b)
         \/ \E r \in Requests, s \in Shards : ContextCancelled(r, s)
         \/ \E s \in Shards : CallbackStep(s)
  PROVE  TierInv'
<1> USE DEF traceVars, objectVars, decisionVars, inputVars
<1>0. DecisionsOK
  BY DEF TypeInv
<1>1. ASSUME NEW r \in Requests, ConsumeTraces(r) PROVE TierInv'
  BY <1>1, OutsideStep DEF ConsumeTraces
<1>2. ASSUME NEW b \in Batches, EarlySkip(b) \/ EarlyCheckNonSampled(b) \/ AsyncSend(b)
      PROVE  TierInv'
  BY <1>2, OutsideStep DEF EarlySkip, EarlyCheckNonSampled, AsyncSend
<1>3. ASSUME NEW b \in Batches, EarlyCheckSampled(b) PROVE TierInv'
  <2>1. ToSet(sampled') \subseteq ToSet(sampled)
    BY <1>0, <1>3, HitAddsNothing DEF EarlyCheckSampled
  <2> QED
    BY <1>3, <2>1, OutsideStep DEF EarlyCheckSampled
<1>4. ASSUME NEW r \in Requests, NEW s \in Shards, ContextCancelled(r, s) PROVE TierInv'
  BY <1>4, OutsideStep DEF ContextCancelled
<1>5. ASSUME NEW s \in Shards, CallbackPriority(s) \/ CallbackCheckNonSampled(s) \/ CallbackRecord(s)
      PROVE  TierInv'
  BY <1>5, OutsideStep DEF CallbackPriority, CallbackCheckNonSampled, CallbackRecord
<1>6. ASSUME NEW s \in Shards, CallbackCheckSampled(s) PROVE TierInv'
  <2>1. ToSet(sampled') \subseteq ToSet(sampled)
    BY <1>0, <1>6, HitAddsNothing DEF CallbackCheckSampled
  <2> QED
    BY <1>6, <2>1, OutsideStep DEF CallbackCheckSampled
<1> QED
  BY <1>1, <1>2, <1>3, <1>4, <1>5, <1>6 DEF EarlyStep, CallbackStep

\* What a call sends to a shard is of that shard's traces.
LEMMA TierSend ==
  ASSUME TypeInv, TierInv, NEW r \in Requests, NEW s \in Shards, Send(r, s)
  PROVE  TierInv'
<1>1. PICK arr \in SetToSeqs(shardGroup(r, s)) :
        \/ chan' = [chan EXCEPT ![s] = Append(chan[s], arr)] /\ UNCHANGED <<pc, gtdArr>>
        \/ /\ pc[s] = "listen"
           /\ gtdArr' = [gtdArr EXCEPT ![s] = arr]
           /\ Goto(s, "readLock")
           /\ UNCHANGED chan
  BY DEF Send
<1>2. /\ arr \in Seq(Batches)
      /\ \A i \in 1..Len(arr) : arr[i] \in shardGroup(r, s)
  BY GroupArray DEF Send, ReadyToSend, shardGroup, batchesOf
<1>3. \A i \in 1..Len(arr) : ShardOf[TraceOf[arr[i]]] = s
  BY <1>2 DEF shardGroup
<1>4. UNCHANGED <<cachedData, finalDecision, primary, secondary, priority, sampled>>
  BY DEF Send, traceVars, objectVars, decisionVars
<1>5. CASE chan' = [chan EXCEPT ![s] = Append(chan[s], arr)] /\ UNCHANGED <<pc, gtdArr>>
  <2>1. chan \in [Shards -> Seq(Seq(Batches))] /\ chan[s] \in Seq(Seq(Batches))
    BY DEF TypeInv, InputOK
  <2>2. \A i \in 1..Len(Append(chan[s], arr)) :
          Append(chan[s], arr)[i] = arr \/ (i \in 1..Len(chan[s]) /\ Append(chan[s], arr)[i] = chan[s][i])
    BY <1>2, <2>1
  <2>3. OwnChannel'
    <3> SUFFICES ASSUME NEW u \in Shards, NEW i \in 1..Len(chan'[u]), NEW j \in 1..Len(chan'[u][i])
                 PROVE  ShardOf[TraceOf[chan'[u][i][j]]] = u
      BY DEF OwnChannel
    <3>1. CASE u # s
      BY <1>5, <2>1, <3>1 DEF TierInv, OwnChannel
    <3>2. CASE u = s
      <4>1. chan'[s] = Append(chan[s], arr)
        BY <1>5, <2>1
      <4>2. chan'[s][i] = arr \/ (i \in 1..Len(chan[s]) /\ chan'[s][i] = chan[s][i])
        BY <2>2, <3>2, <4>1
      <4>3. CASE chan'[s][i] = arr
        BY <1>3, <3>2, <4>3
      <4>4. CASE i \in 1..Len(chan[s]) /\ chan'[s][i] = chan[s][i]
        <5>1. j \in 1..Len(chan[s][i])
          BY <3>2, <4>4
        <5>2. ShardOf[TraceOf[chan[s][i][j]]] = s
          BY <4>4, <5>1 DEF TierInv, OwnChannel
        <5> QED
          BY <3>2, <4>4, <5>2
      <4> QED
        BY <4>2, <4>3, <4>4
    <3> QED
      BY <3>1, <3>2
  <2>4. NoNewEntry /\ \A u \in Shards : Still(u)
    BY <1>4, <1>5 DEF NoNewEntry, Still
  <2>5. \A u \in Shards : ShardInv(u)'
    BY <1>4, <2>4, ShardKept
  <2>6. SampledIsReleased'
    BY <2>4, ReleasedKept DEF Still
  <2>7. OnePerTrace' /\ TierDisjoint'
    BY <1>4 DEF TierInv, OnePerTrace, TierDisjoint
  <2> QED
    BY <2>3, <2>5, <2>6, <2>7 DEF TierInv
<1>6. CASE /\ pc[s] = "listen"
           /\ gtdArr' = [gtdArr EXCEPT ![s] = arr]
           /\ Goto(s, "readLock")
           /\ UNCHANGED chan
  <2>1. OwnChannel'
    BY <1>6 DEF TierInv, OwnChannel
  <2> QED
    BY <1>2, <1>3, <1>4, <1>6, <2>1, ReceiveShard
<1> QED
  BY <1>1, <1>5, <1>6

\* So is what a listener receives.
LEMMA TierReceive ==
  ASSUME TypeInv, TierInv, NEW s \in Shards, Receive(s)
  PROVE  TierInv'
<1>1. /\ chan \in [Shards -> Seq(Seq(Batches))]
      /\ chan[s] \in Seq(Seq(Batches)) /\ chan[s] # <<>>
      /\ pc[s] = "listen"
      /\ gtdArr' = [gtdArr EXCEPT ![s] = Head(chan[s])]
      /\ chan' = [chan EXCEPT ![s] = Tail(chan[s])]
      /\ Goto(s, "readLock")
      /\ UNCHANGED <<cachedData, primary, secondary, priority, sampled>>
  BY DEF Receive, At, TypeInv, InputOK, traceVars, objectVars, decisionVars
<1>2. Head(chan[s]) \in Seq(Batches) /\ Head(chan[s]) = chan[s][1] /\ 1 \in 1..Len(chan[s])
  BY <1>1
<1>3. \A i \in 1..Len(Head(chan[s])) : ShardOf[TraceOf[Head(chan[s])[i]]] = s
  BY <1>2 DEF TierInv, OwnChannel
<1>4. \A i \in 1..Len(Tail(chan[s])) :
        Tail(chan[s])[i] = chan[s][i + 1] /\ i + 1 \in 1..Len(chan[s])
  BY <1>1, TailProperties
<1>5. OwnChannel'
  <2> SUFFICES ASSUME NEW u \in Shards, NEW i \in 1..Len(chan'[u]), NEW j \in 1..Len(chan'[u][i])
               PROVE  ShardOf[TraceOf[chan'[u][i][j]]] = u
    BY DEF OwnChannel
  <2>1. CASE u # s
    BY <1>1, <2>1 DEF TierInv, OwnChannel
  <2>2. CASE u = s
    <3>1. chan'[s] = Tail(chan[s])
      BY <1>1
    <3>2. chan'[s][i] = chan[s][i + 1] /\ i + 1 \in 1..Len(chan[s])
      BY <1>4, <2>2, <3>1
    <3>3. j \in 1..Len(chan[s][i + 1])
      BY <2>2, <3>2
    <3>4. ShardOf[TraceOf[chan[s][i + 1][j]]] = s
      BY <3>2, <3>3 DEF TierInv, OwnChannel
    <3> QED
      BY <2>2, <3>2, <3>4
  <2> QED
    BY <2>1, <2>2
<1> QED
  BY <1>1, <1>2, <1>3, <1>5, ReceiveShard

\* Taking and giving back the lock touches no cache.
LEMMA TierLock ==
  ASSUME TypeInv, TierInv, NEW s \in Shards,
         ReadLock(s) \/ ReadUnlock(s) \/ Tick(s) \/ AnnounceWriter(s) \/ WriteUnlock(s)
  PROVE  TierInv'
<1>1. /\ pc[s] \in {"readLock", "unlock", "listen", "writeLock", "writeUnlock"}
      /\ \E label \in {"checkSampled", "listen", "writeLock", "regulate"} : Goto(s, label)
      /\ KeepLocals
      /\ UNCHANGED <<chan, primary, secondary, priority, sampled>>
  BY DEF ReadLock, ReadUnlock, Tick, AnnounceWriter, WriteUnlock, At,
         inputVars, traceVars, objectVars, decisionVars
<1>2. cachedData[s] = None
  BY <1>1 DEF TierInv, ShardInv, CachedOwn, GroupLabels
<1>3. Elsewhere(s) /\ ShardInv(s)'
  BY <1>1, <1>2, GotoShard DEF Labels, UndecidedLabels
<1>4. NoNewEntry /\ OnePerTrace'
  BY <1>1 DEF NoNewEntry, TierInv, OnePerTrace
<1> QED
  BY <1>1, <1>3, <1>4, TierStep DEF releaseLabels

\* Resize only takes entries out.
LEMMA TierRegulate ==
  ASSUME TypeInv, TierInv, NEW s \in Shards, Regulate(s)
  PROVE  TierInv'
<1>1. PICK size \in Nat : primary' = Trim(primary, size)
  BY RegulatedSize DEF Regulate, TypeInv, TracesOK, resized
<1>2. /\ pc[s] = "regulate" /\ Goto(s, "writeUnlock") /\ KeepLocals
      /\ UNCHANGED <<chan, secondary, priority, sampled>>
  BY DEF Regulate, At, inputVars, objectVars, decisionVars
<1>3. ToSet(primary') \subseteq ToSet(primary) /\ UniqueKeys(primary', TraceOf)
  BY <1>1, TrimEntries DEF TypeInv, TracesOK, TierInv, OnePerTrace
<1>4. cachedData[s] = None
  BY <1>2 DEF TierInv, ShardInv, CachedOwn, GroupLabels
<1>5. Elsewhere(s) /\ ShardInv(s)'
  BY <1>2, <1>4, GotoShard DEF Labels, UndecidedLabels
<1>6. NoNewEntry /\ OnePerTrace'
  BY <1>2, <1>3 DEF NoNewEntry, TierInv, OnePerTrace
<1> QED
  BY <1>2, <1>5, <1>6, TierStep DEF releaseLabels

\* A miss in the sampled decisions is what Undecided remembers.
LEMMA TierCheckSampled ==
  ASSUME TypeInv, TierInv, NEW s \in Shards, CheckSampled(s)
  PROVE  TierInv'
<1>1. /\ pc[s] = "checkSampled" /\ pc[s] \in GroupLabels
      /\ UNCHANGED <<chan, primary, secondary, priority>>
  BY DEF CheckSampled, At, GroupLabels, traceVars, objectVars
<1>2. ToSet(sampled') \subseteq ToSet(sampled)
  BY HitAddsNothing DEF CheckSampled, TypeInv
<1>3. Elsewhere(s) /\ ShardInv(s)'
  <2>1. CASE IsHit(sampled, id(s))
    BY <1>1, <2>1, ContinueShard DEF CheckSampled
  <2>2. CASE ~IsHit(sampled, id(s))
    <3>1. Goto(s, "checkNonSampled") /\ KeepLocals /\ UNCHANGED sampled
      BY <2>2 DEF CheckSampled
    <3>2. /\ Elsewhere(s) /\ pc'[s] = "checkNonSampled" /\ id(s)' = id(s)
          /\ OwnGroups(s)' /\ CachedOwn(s)'
      BY <3>1, GotoShard DEF Labels, GroupLabels
    <3>3. Learnt(s)' /\ Undecided(s)'
      BY <2>2, <3>1, <3>2 DEF Learnt, Undecided, IsHit
    <3> QED
      BY <3>2, <3>3 DEF ShardInv
  <2> QED
    BY <2>1, <2>2
<1>4. NoNewEntry /\ OnePerTrace'
  BY <1>1, <1>2 DEF NoNewEntry, TierInv, OnePerTrace
<1> QED
  BY <1>1, <1>3, <1>4, TierStep DEF releaseLabels

\* The check of the other decisions leaves the trace undecided.
LEMMA TierCheckNonSampled ==
  ASSUME TypeInv, TierInv, NEW s \in Shards, CheckNonSampled(s)
  PROVE  TierInv'
<1>1. /\ pc[s] = "checkNonSampled" /\ pc[s] \in GroupLabels
      /\ UNCHANGED <<chan, primary, secondary, priority, sampled>>
  BY DEF CheckNonSampled, At, GroupLabels, traceVars, objectVars
<1>2. Elsewhere(s) /\ ShardInv(s)'
  <2>1. CASE Continue(s)
    BY <1>1, <2>1, ContinueShard
  <2>2. ASSUME NEW label \in {"putNonSampled", "getPrimary"}, Goto(s, label), KeepLocals
        PROVE  Elsewhere(s) /\ ShardInv(s)'
    <3>1. /\ Elsewhere(s) /\ pc'[s] = label /\ id(s)' = id(s)
          /\ OwnGroups(s)' /\ CachedOwn(s)'
      BY <2>2, GotoShard DEF Labels, GroupLabels
    <3>2. id(s) \notin ToSet(sampled)
      BY <1>1 DEF TierInv, ShardInv, Undecided, UndecidedLabels
    <3>3. Learnt(s)' /\ Undecided(s)'
      BY <1>1, <3>1, <3>2 DEF Learnt, Undecided
    <3> QED
      BY <3>1, <3>3 DEF ShardInv
  <2> QED
    BY <2>1, <2>2 DEF CheckNonSampled
<1>3. NoNewEntry /\ OnePerTrace'
  BY <1>1 DEF NoNewEntry, TierInv, OnePerTrace
<1> QED
  BY <1>1, <1>2, <1>3, TierStep DEF releaseLabels

\* Steps that end the iteration and touch no cache.
LEMMA TierEndOfGroup ==
  ASSUME TypeInv, TierInv, NEW s \in Shards, NewTraceDataFails(s) \/ SendCurrent(s)
  PROVE  TierInv'
<1>1. /\ pc[s] \in {"getPrimary", "sendCurrent"} /\ pc[s] \in GroupLabels
      /\ Continue(s)
      /\ UNCHANGED <<chan, primary, secondary, priority, sampled>>
  BY DEF NewTraceDataFails, SendCurrent, At, GroupLabels, traceVars, objectVars, decisionVars
<1>2. Elsewhere(s) /\ ShardInv(s)'
  BY <1>1, ContinueShard
<1>3. NoNewEntry /\ OnePerTrace'
  BY <1>1 DEF NoNewEntry, TierInv, OnePerTrace
<1> QED
  BY <1>1, <1>2, <1>3, TierStep DEF releaseLabels

\* Steps on the way to traceData.Delete that touch no trace data.
LEMMA TierBeforeDelete ==
  ASSUME TypeInv, TierInv, NEW s \in Shards, SendCached(s) \/ PutNonSampled(s)
  PROVE  TierInv'
<1>1. /\ pc[s] \in GroupLabels
      /\ Goto(s, "deletePrimary") /\ KeepLocals
      /\ UNCHANGED <<chan, primary, secondary, priority, sampled>>
  BY DEF SendCached, PutNonSampled, At, GroupLabels, inputVars, traceVars, objectVars, decisionVars
<1>2. Elsewhere(s) /\ ShardInv(s)' /\ pc'[s] = "deletePrimary" /\ gtdArr'[s] = gtdArr[s]
  BY <1>1, GotoShard DEF Labels, GroupLabels, UndecidedLabels
<1>3. NoNewEntry /\ OnePerTrace'
  BY <1>1 DEF NoNewEntry, TierInv, OnePerTrace
<1> QED
  BY <1>1, <1>2, <1>3, TierStep DEF releaseLabels

\* What a listener gets is of its trace, and a miss of the primary tier stays one.
LEMMA TierGetPrimary ==
  ASSUME TypeInv, TierInv, NEW s \in Shards, GetPrimary(s)
  PROVE  TierInv'
<1> DEFINE o == Lookup(primary, id(s))
<1>1. /\ primary \in Seq(Batches) /\ LocalsOK
      /\ pc[s] = "getPrimary"
      /\ UNCHANGED <<chan, gtdArr, secondary, priority, sampled>>
  BY DEF GetPrimary, At, TypeInv, TracesOK, inputVars, objectVars, decisionVars
<1>2. /\ o \in Batches \cup {None}
      /\ o # None => o \in ToSet(primary) /\ TraceOf[o] = id(s)
      /\ o = None => \A x \in ToSet(primary) : TraceOf[x] # id(s)
  BY <1>1, LookupProperties
<1>3. /\ o # None => /\ primary' = Refresh(primary, o)
                    /\ cachedData' = [cachedData EXCEPT ![s] = o]
                    /\ Goto(s, afterGet(s, o))
      /\ o = None => Goto(s, "getSecondary") /\ UNCHANGED <<primary, cachedData>>
  BY DEF GetPrimary
<1> HIDE DEF o
<1>4. ToSet(primary') \subseteq ToSet(primary) /\ UniqueKeys(primary', TraceOf)
  <2>1. CASE o # None
    <3>1. o \in Batches
      BY <1>2, <2>1
    <3>2. ToSet(Refresh(primary, o)) = ToSet(primary) \cup {o} /\ UniqueKeys(Refresh(primary, o), TraceOf)
      BY <1>1, <1>2, <2>1, <3>1, RefreshEntries DEF TierInv, OnePerTrace
    <3> QED
      BY <1>2, <1>3, <2>1, <3>2
  <2>2. CASE o = None
    BY <1>3, <2>2 DEF TierInv, OnePerTrace
  <2> QED
    BY <2>1, <2>2
<1>5. current(s)' = current(s) /\ id(s)' = id(s)
  BY <1>1 DEF current, id
<1>6. id(s) \notin ToSet(sampled) /\ OwnGroups(s)'
  BY <1>1 DEF TierInv, ShardInv, Undecided, UndecidedLabels, OwnGroups
<1>7. Elsewhere(s) /\ ShardInv(s)'
  <2>1. CASE o # None
    <3>1. /\ Elsewhere(s) /\ cachedData'[s] = o
          /\ \/ pc'[s] = "decide" /\ KindOf[current(s)] = "spans"
             \/ pc'[s] = "sendCached"
      BY <1>1, <1>3, <2>1 DEF Goto, afterGet, Elsewhere, Still, LocalsOK
    <3>2. CachedOwn(s)'
      BY <1>2, <1>5, <2>1, <3>1 DEF CachedOwn, GroupLabels
    <3>3. Learnt(s)' /\ Undecided(s)'
      BY <1>1, <1>5, <1>6, <2>1, <3>1 DEF Learnt, Undecided, UndecidedLabels
    <3> QED
      BY <1>6, <3>1, <3>2, <3>3 DEF ShardInv
  <2>2. CASE o = None
    <3>1. Elsewhere(s) /\ pc'[s] = "getSecondary" /\ cachedData'[s] = cachedData[s]
      BY <1>1, <1>3, <2>2 DEF Goto, Elsewhere, Still, LocalsOK
    <3>2. CachedOwn(s)'
      BY <1>5, <3>1 DEF CachedOwn, GroupLabels, TierInv, ShardInv
    <3>3. Learnt(s)' /\ Undecided(s)'
      BY <1>1, <1>2, <1>4, <1>5, <1>6, <2>2, <3>1 DEF Learnt, Undecided, UndecidedLabels, NoEntry
    <3> QED
      BY <1>6, <3>1, <3>2, <3>3 DEF ShardInv
  <2> QED
    BY <2>1, <2>2
<1>8. NoNewEntry /\ OnePerTrace'
  BY <1>1, <1>4 DEF NoNewEntry, TierInv, OnePerTrace
<1> QED
  BY <1>1, <1>7, <1>8, TierStep DEF releaseLabels

\* A miss of both tiers means that nothing of the trace is held.
LEMMA TierGetSecondary ==
  ASSUME TypeInv, TierInv, NEW s \in Shards, GetSecondary(s)
  PROVE  TierInv'
<1> DEFINE o == Lookup(secondary, id(s))
<1>1. /\ secondary \in Seq(Batches) /\ LocalsOK
      /\ pc[s] = "getSecondary"
      /\ UNCHANGED <<chan, gtdArr, primary, priority, sampled>>
  BY DEF GetSecondary, At, TypeInv, TracesOK, inputVars, objectVars, decisionVars
<1>2. /\ o \in Batches \cup {None}
      /\ o # None => o \in ToSet(secondary) /\ TraceOf[o] = id(s)
      /\ o = None => \A x \in ToSet(secondary) : TraceOf[x] # id(s)
  BY <1>1, LookupProperties
<1>3. /\ secondary' = IF o # None THEN Refresh(secondary, o) ELSE secondary
      /\ cachedData' = [cachedData EXCEPT ![s] = o]
      /\ Goto(s, afterGet(s, o))
  BY DEF GetSecondary
<1> HIDE DEF o
<1>4. ToSet(secondary') \subseteq ToSet(secondary) /\ UniqueKeys(secondary', TraceOf)
  <2>1. CASE o # None
    <3>1. o \in Batches
      BY <1>2, <2>1
    <3>2. ToSet(Refresh(secondary, o)) = ToSet(secondary) \cup {o} /\ UniqueKeys(Refresh(secondary, o), TraceOf)
      BY <1>1, <1>2, <2>1, <3>1, RefreshEntries DEF TierInv, OnePerTrace
    <3> QED
      BY <1>2, <1>3, <2>1, <3>2
  <2>2. CASE o = None
    BY <1>3, <2>2 DEF TierInv, OnePerTrace
  <2> QED
    BY <2>1, <2>2
<1>5. current(s)' = current(s) /\ id(s)' = id(s)
  BY <1>1 DEF current, id
<1>6. id(s) \notin ToSet(sampled) /\ OwnGroups(s)' /\ NoEntry(primary, id(s))
  BY <1>1 DEF TierInv, ShardInv, Undecided, UndecidedLabels, OwnGroups, Learnt
<1>7. /\ Elsewhere(s) /\ cachedData'[s] = o
      /\ \/ pc'[s] = "decide" /\ KindOf[current(s)] = "spans"
         \/ pc'[s] = "sendCached" /\ o # None
         \/ pc'[s] = "putSampled" /\ o = None
  BY <1>1, <1>3 DEF Goto, afterGet, Elsewhere, Still, LocalsOK
<1>8. CachedOwn(s)'
  BY <1>2, <1>5, <1>7 DEF CachedOwn, GroupLabels
<1>9. o = None => NoEntry(primary, id(s))' /\ NoEntry(secondary, id(s))'
  BY <1>1, <1>2, <1>4, <1>5, <1>6 DEF NoEntry
<1>10. Learnt(s)' /\ Undecided(s)'
  BY <1>1, <1>5, <1>6, <1>7, <1>9 DEF Learnt, Undecided, UndecidedLabels
<1>11. ShardInv(s)'
  BY <1>6, <1>8, <1>10 DEF ShardInv
<1>12. NoNewEntry /\ OnePerTrace'
  BY <1>1, <1>4 DEF NoNewEntry, TierInv, OnePerTrace
<1> QED
  BY <1>1, <1>7, <1>11, <1>12, TierStep DEF releaseLabels

\* A decision changes at most the priority of the shard's own object.
LEMMA TierDecide ==
  ASSUME TypeInv, TierInv, NEW s \in Shards, Decide(s)
  PROVE  TierInv'
<1>1. /\ LocalsOK /\ ObjectsOK
      /\ pc[s] = "decide" /\ pc[s] \in GroupLabels
      /\ UNCHANGED <<chan, gtdArr, cachedData, primary, secondary, sampled>>
  BY DEF Decide, At, TypeInv, GroupLabels, inputVars, traceVars, decisionVars
<1>2. /\ \E label \in {"putSampled", "putNonSampled", "putDelete"} : Goto(s, label)
      /\ UNCHANGED objectVars \/ \E d \in Decisions : Absorb(s, d)
  BY DEF Decide
<1>3. held(s) \in Batches
  BY <1>1, CurrentTyped
<1>4. \A o \in Batches \ {held(s)} : priority'[o] = priority[o]
  BY <1>1, <1>2, <1>3 DEF Absorb, objectVars, ObjectsOK
<1>5. NoNewEntry /\ OnePerTrace' /\ AddsOwn(s)
  BY <1>1, <1>4 DEF NoNewEntry, TierInv, OnePerTrace, AddsOwn
<1>6. /\ Elsewhere(s)
      /\ pc'[s] \in {"putSampled", "putNonSampled", "putDelete"}
      /\ gtdArr'[s] = gtdArr[s] /\ cachedData'[s] = cachedData[s]
  BY <1>1, <1>2 DEF Goto, Elsewhere, Still, LocalsOK
<1>7. current(s)' = current(s) /\ id(s)' = id(s)
  BY <1>6 DEF current, id
<1>8. OwnGroups(s)' /\ CachedOwn(s)'
  BY <1>6, <1>7 DEF TierInv, ShardInv, OwnGroups, CachedOwn, GroupLabels
<1>9. /\ id(s) \notin ToSet(sampled) /\ KindOf[current(s)] = "spans"
      /\ cachedData[s] = None => NoEntry(primary, id(s)) /\ NoEntry(secondary, id(s))
  BY <1>1 DEF TierInv, ShardInv, Undecided, UndecidedLabels, Learnt
<1>10. Learnt(s)' /\ Undecided(s)'
  BY <1>1, <1>6, <1>7, <1>9 DEF Learnt, Undecided, UndecidedLabels, NoEntry
<1>11. ShardInv(s)'
  BY <1>8, <1>10 DEF ShardInv
<1> QED
  BY <1>1, <1>5, <1>6, <1>11, TierStep DEF releaseLabels

\* The first Delete of traceData.Delete empties the primary tier of the trace.
LEMMA TierDeletePrimary ==
  ASSUME TypeInv, TierInv, NEW s \in Shards, DeletePrimary(s)
  PROVE  TierInv'
<1>1. /\ pc[s] = "deletePrimary" /\ primary \in Seq(Batches)
      /\ primary' = Without(primary, id(s))
      /\ Goto(s, "deleteSecondary") /\ KeepLocals
      /\ UNCHANGED <<chan, secondary, priority, sampled>>
  BY DEF DeletePrimary, At, TypeInv, TracesOK, inputVars, objectVars, decisionVars
<1>2. /\ ToSet(primary') \subseteq ToSet(primary) /\ UniqueKeys(primary', TraceOf)
      /\ \A o \in ToSet(primary') : TraceOf[o] # id(s)
  BY <1>1, WithoutProperties DEF TierInv, OnePerTrace
<1>3. /\ Elsewhere(s) /\ pc'[s] = "deleteSecondary" /\ gtdArr'[s] = gtdArr[s]
      /\ id(s)' = id(s) /\ OwnGroups(s)' /\ CachedOwn(s)'
  BY <1>1, GotoShard DEF Labels, GroupLabels
<1>4. Learnt(s)' /\ Undecided(s)'
  BY <1>2, <1>3 DEF Learnt, Undecided, UndecidedLabels, NoEntry
<1>5. ShardInv(s)'
  BY <1>3, <1>4 DEF ShardInv
<1>6. NoNewEntry /\ OnePerTrace'
  BY <1>1, <1>2 DEF NoNewEntry, TierInv, OnePerTrace
<1> QED
  BY <1>1, <1>3, <1>5, <1>6, TierStep DEF releaseLabels

\* The Delete of traceData.Put empties the other tier of the trace.
LEMMA TierPutDelete ==
  ASSUME TypeInv, TierInv, NEW s \in Shards, PutDelete(s)
  PROVE  TierInv'
<1>1. /\ pc[s] = "putDelete" /\ primary \in Seq(Batches) /\ secondary \in Seq(Batches)
      /\ IF priority[held(s)] = "Low"
         THEN primary' = Without(primary, id(s)) /\ UNCHANGED secondary
         ELSE secondary' = Without(secondary, id(s)) /\ UNCHANGED primary
      /\ Goto(s, "putInsert") /\ KeepLocals
      /\ UNCHANGED <<chan, priority, sampled>>
  BY DEF PutDelete, At, TypeInv, TracesOK, inputVars, objectVars, decisionVars
<1>2. /\ ToSet(primary') \subseteq ToSet(primary) /\ UniqueKeys(primary', TraceOf)
      /\ ToSet(secondary') \subseteq ToSet(secondary) /\ UniqueKeys(secondary', TraceOf)
      /\ priority[held(s)] = "Low" => \A o \in ToSet(primary') : TraceOf[o] # id(s)
      /\ priority[held(s)] # "Low" => \A o \in ToSet(secondary') : TraceOf[o] # id(s)
  BY <1>1, WithoutProperties DEF TierInv, OnePerTrace
<1>3. /\ Elsewhere(s) /\ pc'[s] = "putInsert" /\ gtdArr'[s] = gtdArr[s]
      /\ id(s)' = id(s) /\ held(s)' = held(s) /\ OwnGroups(s)' /\ CachedOwn(s)'
  BY <1>1, GotoShard DEF Labels, GroupLabels
<1>4. id(s) \notin ToSet(sampled)
  BY <1>1 DEF TierInv, ShardInv, Undecided, UndecidedLabels
<1>5. otherTier(s)' = IF priority[held(s)] = "Low" THEN primary' ELSE secondary'
  BY <1>1, <1>3 DEF otherTier
<1>6. \A o \in ToSet(otherTier(s)') : TraceOf[o] # id(s)
  BY <1>2, <1>5
<1>7. Learnt(s)' /\ Undecided(s)'
  BY <1>1, <1>3, <1>4, <1>6 DEF Learnt, Undecided, UndecidedLabels, NoEntry
<1>8. ShardInv(s)'
  BY <1>3, <1>7 DEF ShardInv
<1>9. NoNewEntry /\ OnePerTrace'
  BY <1>1, <1>2 DEF NoNewEntry, OnePerTrace
<1> QED
  BY <1>1, <1>3, <1>8, <1>9, TierStep DEF releaseLabels

\* A step that brings something of its own trace in, or ends its release.
LEMMA OwnStep ==
  ASSUME TypeInv, TierInv, NEW s \in Shards, Elsewhere(s), AddsOwn(s), UNCHANGED chan,
         ShardInv(s)', OnePerTrace', TierDisjoint',
         \A o \in ToSet(primary') \cup ToSet(secondary') :
           TraceOf[o] = id(s) /\ TraceOf[o] \in ToSet(sampled') =>
             pc'[s] \in releaseLabels /\ gtdArr'[s] = gtdArr[s]
  PROVE  TierInv'
<1>1. OwnChannel'
  BY DEF TierInv, OwnChannel
<1>2. \A u \in Shards : ShardInv(u)'
  BY ShardKept DEF Elsewhere
<1>3. SampledIsReleased'
  <2> SUFFICES ASSUME NEW o \in ToSet(primary') \cup ToSet(secondary'),
                      TraceOf[o] \in ToSet(sampled')
               PROVE  \E u \in Shards : pc'[u] \in releaseLabels /\ id(u)' = TraceOf[o]
    BY DEF SampledIsReleased, IsHit, releasing, releaseLabels
  <2>1. CASE TraceOf[o] = id(s)
    BY <2>1 DEF id, current
  <2>2. CASE TraceOf[o] # id(s)
    <3>1. o # held(s)
      BY <2>2, HeldIsOwn DEF AddsOwn
    <3>2. o \in ToSet(primary) \cup ToSet(secondary) /\ TraceOf[o] \in ToSet(sampled)
      BY <2>2, <3>1 DEF AddsOwn
    <3>3. PICK u \in Shards : pc[u] \in releaseLabels /\ id(u) = TraceOf[o]
      BY <3>2 DEF TierInv, SampledIsReleased, IsHit, releasing, releaseLabels
    <3>4. u # s
      BY <2>2, <3>3
    <3> QED
      BY <3>3, <3>4 DEF Elsewhere, Still, id, current
  <2> QED
    BY <2>1, <2>2
<1> QED
  BY <1>1, <1>2, <1>3 DEF TierInv

\* A trace is recorded as sampled when nothing of it is held, or just before
\* what is held is released.
LEMMA TierPutSampled ==
  ASSUME TypeInv, TierInv, NEW s \in Shards, PutSampled(s)
  PROVE  TierInv'
<1>1. /\ pc[s] = "putSampled" /\ pc[s] \in GroupLabels /\ LocalsOK
      /\ sampled' = Trim(Refresh(sampled, id(s)), SampledCacheSize)
      /\ UNCHANGED <<chan, primary, secondary, priority>>
  BY DEF PutSampled, At, GroupLabels, TypeInv, traceVars, objectVars
<1>2. ToSet(sampled') \subseteq ToSet(sampled) \cup {id(s)}
  <2>1. id(s) \in Traces /\ sampled \in Seq(Traces) /\ SampledCacheSize \in Nat
    BY <1>1, CurrentTyped, ConfigAssumption DEF TypeInv, DecisionsOK
  <2>2. Refresh(sampled, id(s)) \in Seq(Traces) /\ ToSet(Refresh(sampled, id(s))) = ToSet(sampled) \cup {id(s)}
    BY <2>1, RefreshEntries
  <2> QED
    BY <1>1, <2>1, <2>2, TrimEntries
<1>3. AddsOwn(s) /\ OnePerTrace' /\ TierDisjoint'
  BY <1>1, <1>2 DEF AddsOwn, TierInv, OnePerTrace, TierDisjoint
<1>4. CASE KindOf[current(s)] = "spans"
  <2>1. Goto(s, afterPutSampled(s)) /\ KeepLocals
    BY <1>4 DEF PutSampled
  <2>2. afterPutSampled(s) \in {"sendCached", "sendCurrent"} /\ (cachedData[s] # None => afterPutSampled(s) = "sendCached")
    BY DEF afterPutSampled
  <2>3. Elsewhere(s) /\ ShardInv(s)' /\ pc'[s] = afterPutSampled(s) /\ gtdArr'[s] = gtdArr[s]
    BY <2>1, <2>2, GotoShard DEF Labels, GroupLabels, UndecidedLabels
  <2>4. cachedData[s] = None => NoEntry(primary, id(s)) /\ NoEntry(secondary, id(s))
    BY <1>1 DEF TierInv, ShardInv, Learnt
  <2>5. \A o \in ToSet(primary') \cup ToSet(secondary') : TraceOf[o] = id(s) => pc'[s] \in releaseLabels
    BY <1>1, <2>2, <2>3, <2>4 DEF NoEntry, releaseLabels
  <2> QED
    BY <1>1, <1>3, <2>3, <2>5, OwnStep
<1>5. CASE KindOf[current(s)] # "spans"
  <2>1. Elsewhere(s) /\ ShardInv(s)'
    BY <1>1, <1>5, ContinueShard DEF PutSampled
  <2>2. NoEntry(primary, id(s)) /\ NoEntry(secondary, id(s))
    BY <1>1, <1>5 DEF TierInv, ShardInv, Learnt
  <2>3. \A o \in ToSet(primary') \cup ToSet(secondary') : TraceOf[o] # id(s)
    BY <1>1, <2>2 DEF NoEntry
  <2> QED
    BY <1>1, <1>3, <2>1, <2>3, OwnStep
<1> QED
  BY <1>4, <1>5

\* The second Delete of traceData.Delete leaves nothing of the trace.
LEMMA TierDeleteSecondary ==
  ASSUME TypeInv, TierInv, NEW s \in Shards, DeleteSecondary(s)
  PROVE  TierInv'
<1>1. /\ pc[s] = "deleteSecondary" /\ pc[s] \in GroupLabels /\ secondary \in Seq(Batches)
      /\ secondary' = Without(secondary, id(s))
      /\ UNCHANGED <<chan, primary, priority, sampled>>
  BY DEF DeleteSecondary, At, GroupLabels, TypeInv, TracesOK, objectVars, decisionVars
<1>2. /\ ToSet(secondary') \subseteq ToSet(secondary) /\ UniqueKeys(secondary', TraceOf)
      /\ \A o \in ToSet(secondary') : TraceOf[o] # id(s)
  BY <1>1, WithoutProperties DEF TierInv, OnePerTrace
<1>3. \A o \in ToSet(primary') : TraceOf[o] # id(s)
  BY <1>1 DEF TierInv, ShardInv, Learnt, NoEntry
<1>4. AddsOwn(s) /\ OnePerTrace' /\ TierDisjoint'
  BY <1>1, <1>2 DEF AddsOwn, TierInv, OnePerTrace, TierDisjoint
<1>5. Elsewhere(s) /\ ShardInv(s)'
  <2>1. \/ Goto(s, "putSampled") /\ KeepLocals
        \/ Goto(s, "sendCurrent") /\ KeepLocals
        \/ Continue(s)
    BY DEF DeleteSecondary
  <2>2. CASE Goto(s, "putSampled") /\ KeepLocals
    <3>1. /\ Elsewhere(s) /\ pc'[s] = "putSampled" /\ id(s)' = id(s)
          /\ OwnGroups(s)' /\ CachedOwn(s)'
      BY <2>2, GotoShard DEF Labels, GroupLabels
    <3>2. Learnt(s)' /\ Undecided(s)'
      BY <1>2, <1>3, <3>1 DEF Learnt, Undecided, UndecidedLabels, NoEntry
    <3> QED
      BY <3>1, <3>2 DEF ShardInv
  <2>3. CASE Goto(s, "sendCurrent") /\ KeepLocals
    BY <2>3, GotoShard DEF Labels, GroupLabels, UndecidedLabels
  <2>4. CASE Continue(s)
    BY <1>1, <2>4, ContinueShard
  <2> QED
    BY <2>1, <2>2, <2>3, <2>4
<1> QED
  BY <1>1, <1>2, <1>3, <1>4, <1>5, OwnStep

\* Put finds the other tier empty of the trace, and the trace undecided.
LEMMA TierPutInsert ==
  ASSUME TypeInv, TierInv, NEW s \in Shards, PutInsert(s)
  PROVE  TierInv'
<1> DEFINE p == Trim(Insert(primary, Lookup(primary, id(s)), held(s)), primaryCap)
           q == Trim(Insert(secondary, Lookup(secondary, id(s)), held(s)), SecondaryCacheSize)
<1>1. /\ pc[s] = "putInsert" /\ pc[s] \in GroupLabels
      /\ primary \in Seq(Batches) /\ secondary \in Seq(Batches)
      /\ primaryCap \in Nat /\ SecondaryCacheSize \in Nat
      /\ Continue(s)
      /\ UNCHANGED <<chan, priority, sampled>>
  BY ConfigAssumption DEF PutInsert, At, GroupLabels, TypeInv, TracesOK, objectVars, decisionVars
<1>2. IF priority[held(s)] = "Low"
      THEN secondary' = q /\ UNCHANGED primary
      ELSE primary' = p /\ UNCHANGED secondary
  BY DEF PutInsert
<1>3. held(s) \in Batches /\ TraceOf[held(s)] = id(s)
  BY <1>1, HeldIsOwn
<1>4. /\ ToSet(p) \subseteq ToSet(primary) \cup {held(s)} /\ UniqueKeys(p, TraceOf)
      /\ ToSet(q) \subseteq ToSet(secondary) \cup {held(s)} /\ UniqueKeys(q, TraceOf)
  BY <1>1, <1>3, PutProperties DEF TierInv, OnePerTrace
<1> HIDE DEF p, q
<1>5. /\ priority[held(s)] = "Low" => \A o \in ToSet(primary) : TraceOf[o] # id(s)
      /\ priority[held(s)] # "Low" => \A o \in ToSet(secondary) : TraceOf[o] # id(s)
  BY <1>1 DEF TierInv, ShardInv, Learnt, NoEntry, otherTier
<1>6. id(s) \notin ToSet(sampled)
  BY <1>1 DEF TierInv, ShardInv, Undecided, UndecidedLabels
<1>7. OnePerTrace' /\ AddsOwn(s)
  BY <1>1, <1>2, <1>4 DEF TierInv, OnePerTrace, AddsOwn
<1>8. TierDisjoint'
  BY <1>2, <1>3, <1>4, <1>5 DEF TierInv, TierDisjoint
<1>9. Elsewhere(s) /\ ShardInv(s)'
  BY <1>1, ContinueShard
<1> QED
  BY <1>1, <1>6, <1>7, <1>8, <1>9, OwnStep

\* TierInv is kept by every step.
LEMMA TierInvNext == TypeInv /\ TierInv /\ [Next]_vars => TierInv'
<1> SUFFICES ASSUME TypeInv, TierInv, [Next]_vars PROVE TierInv'
  OBVIOUS
<1>1. ASSUME NEW s \in Shards, GroupStep(s) PROVE TierInv'
  BY <1>1, TierCheckSampled, TierCheckNonSampled, TierEndOfGroup, TierBeforeDelete,
     TierGetPrimary, TierGetSecondary, TierDecide, TierPutSampled, TierDeletePrimary,
     TierDeleteSecondary, TierPutDelete, TierPutInsert DEF GroupStep
<1>2. ASSUME NEW s \in Shards, Tick(s) \/ Receive(s) \/ LockStep(s) PROVE TierInv'
  BY <1>2, TierReceive, TierLock, TierRegulate DEF LockStep
<1>3. CASE UNCHANGED vars
  BY <1>3, OutsideStep DEF vars, inputVars, traceVars, objectVars, decisionVars
<1> QED
  BY <1>1, <1>2, <1>3, TierOutside, TierSend DEF Next, ListenerStep, Quiet

\* TierInv is an invariant.
LEMMA TierInvariant == Spec => []TierInv
<1>1. TypeInv /\ TierInv /\ [Next]_vars => TierInv'
  BY TierInvNext
<1> QED
  BY TypeInvariant, TierInvInit, <1>1, PTL DEF Spec

\* "to prevent a key appearing in both primary and secondary"
\* (tiered_cache.go:38-40): it never does, although tieredCache.Put takes two
\* steps without a lock and any shard may evict between them.
THEOREM NeverInBothTiers == Spec => []TierDisjoint
<1>1. TierInv => TierDisjoint
  BY DEF TierInv
<1> QED
  BY TierInvariant, <1>1, PTL

\* No spans stay behind: a trace remembered as sampled has nothing left in the
\* trace data caches, but for the moment in which its shard is releasing it.
THEOREM SampledLeavesNothingBehind == Spec => []SampledIsReleased
<1>1. TierInv => SampledIsReleased
  BY DEF TierInv
<1> QED
  BY TierInvariant, <1>1, PTL
=============================================================================
