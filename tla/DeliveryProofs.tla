--------------------------- MODULE DeliveryProofs ---------------------------
(***************************************************************************)
(* An object of SamplingProcessor is in the tier its priority asks for,    *)
(* and the spans of a batch are given to the next consumer at most once,   *)
(* however the shards interleave.                                          *)
(*                                                                         *)
(* The second is inductive only with the whereabouts of a batch: one that  *)
(* is queued is in one place of one queue and was never sent; one that is  *)
(* held, in a tier or by a listener about to release or put it back, still *)
(* waits, unless its shard has sent it and is deleting what is left.  The  *)
(* invariant is stated shard by shard, since a trace belongs to one shard  *)
(* and nothing another shard does moves its spans or sends them.           *)
(***************************************************************************)
EXTENDS TierProofs

ownBatches(s) == {b \in Batches : ShardOf[TraceOf[b]] = s}

\* Processed and not sent.
waits(b) == stage[b] = "settled" /\ forwarded[b] = 0

\* A batch is sent when it settles or later, and until then it is the only one
\* its object holds.  An object holds its own batch and others of the trace.
BatchInv(b) ==
  /\ forwarded[b] <= 1
  /\ stage[b] # "settled" => forwarded[b] = 0 /\ data[b] = {b}
  /\ b \in data[b]
  /\ \A x \in data[b] : TraceOf[x] = TraceOf[b]

\* A batch that is queued is in one place only.
QueueInv(s) ==
  /\ \A i \in 1..Len(gtdArr[s]) : stage[gtdArr[s][i]] = "queued"
  /\ \A i, j \in 1..Len(gtdArr[s]) : gtdArr[s][i] = gtdArr[s][j] => i = j
  /\ \A n \in 1..Len(chan[s]) : \A i \in 1..Len(chan[s][n]) :
       /\ stage[chan[s][n][i]] = "queued"
       /\ \A j \in 1..Len(gtdArr[s]) : chan[s][n][i] # gtdArr[s][j]
       /\ \A m \in 1..Len(chan[s]) : \A j \in 1..Len(chan[s][m]) :
            chan[s][n][i] = chan[s][m][j] => n = m /\ i = j

putLabels    == {"putDelete", "putInsert"}
deleteLabels == {"deletePrimary", "deleteSecondary"}

\* What an entry of a tier holds still waits, or is about to settle, or is
\* being deleted after it was sent.
EntryInv(s, o) ==
  \A b \in data[o] :
    \/ waits(b)
    \/ pc[s] \in putLabels /\ b = current(s)
    \/ pc[s] \in deleteLabels /\ TraceOf[o] = id(s)

\* What a listener is about to send, or to put back, was not sent before.
aboutToSend(s) ==
  \/ pc[s] \in {"decide", "sendCached"}
  \/ pc[s] = "putSampled" /\ KindOf[current(s)] = "spans"

HandInv(s) ==
  /\ aboutToSend(s) /\ cachedData[s] # None => \A b \in data[cachedData[s]] : waits(b)
  /\ pc[s] \in putLabels => \A b \in data[held(s)] : waits(b) \/ b = current(s)

ShardDelivery(s) ==
  /\ \A b \in ownBatches(s) : BatchInv(b)
  /\ QueueInv(s)
  /\ \A o \in (ToSet(primary) \cup ToSet(secondary)) \cap ownBatches(s) : EntryInv(s, o)
  /\ HandInv(s)

DeliveryInv == \A s \in Shards : ShardDelivery(s)

----------------------------------------------------------------------------
(* What a step of a listener leaves alone *)

ListenerMoves(s) == Tick(s) \/ Receive(s) \/ LockStep(s) \/ GroupStep(s)

\* A listener moves alone: Decide changes objects, PutInsert brings one in, and
\* nothing else does either.
LEMMA ListenerFrame ==
  ASSUME TypeInv, NEW s \in Shards, ListenerMoves(s)
  PROVE  /\ Elsewhere(s)
         /\ pc[s] # "decide" => UNCHANGED objectVars
         /\ pc[s] # "putInsert" => /\ ToSet(primary') \subseteq ToSet(primary)
                                   /\ ToSet(secondary') \subseteq ToSet(secondary)
<1>1. LocalsOK /\ TracesOK
  BY DEF TypeInv
<1>2. ASSUME Tick(s) \/ Receive(s) \/ ReadLock(s) \/ ReadUnlock(s) \/ AnnounceWriter(s) \/ WriteUnlock(s)
      PROVE  Elsewhere(s) /\ UNCHANGED <<objectVars, traceVars>>
  BY <1>1, <1>2 DEF Tick, Receive, ReadLock, ReadUnlock, AnnounceWriter, WriteUnlock,
     KeepLocals, Goto, Elsewhere, Still, LocalsOK
<1>3. ASSUME Regulate(s)
      PROVE  /\ Elsewhere(s) /\ UNCHANGED <<objectVars, secondary>>
             /\ ToSet(primary') \subseteq ToSet(primary)
  <2>1. PICK size \in Nat : primary' = Trim(primary, size)
    BY <1>1, <1>3, RegulatedSize DEF Regulate, TracesOK, resized
  <2>2. ToSet(primary') \subseteq ToSet(primary)
    BY <1>1, <2>1, TrimEntries DEF TracesOK
  <2> QED
    BY <1>1, <1>3, <2>2 DEF Regulate, KeepLocals, Goto, Elsewhere, Still, LocalsOK
<1>4. Continue(s) => Elsewhere(s)
  BY <1>1 DEF Continue, Goto, Elsewhere, Still, LocalsOK
<1>5. ASSUME NEW label, Goto(s, label), KeepLocals PROVE Elsewhere(s)
  BY <1>1, <1>5 DEF KeepLocals, Goto, Elsewhere, Still, LocalsOK
<1>6. ASSUME \/ CheckSampled(s) \/ CheckNonSampled(s) \/ NewTraceDataFails(s) \/ PutSampled(s)
             \/ SendCached(s) \/ SendCurrent(s) \/ PutNonSampled(s)
      PROVE  Elsewhere(s) /\ UNCHANGED <<objectVars, traceVars>>
  BY <1>4, <1>5, <1>6 DEF CheckSampled, CheckNonSampled, NewTraceDataFails, PutSampled,
     SendCached, SendCurrent, PutNonSampled
<1>7. ASSUME DeletePrimary(s) \/ DeleteSecondary(s) \/ PutDelete(s)
      PROVE  /\ Elsewhere(s) /\ UNCHANGED objectVars
             /\ ToSet(primary') \subseteq ToSet(primary)
             /\ ToSet(secondary') \subseteq ToSet(secondary)
  <2>1. /\ ToSet(Without(primary, id(s))) \subseteq ToSet(primary)
        /\ ToSet(Without(secondary, id(s))) \subseteq ToSet(secondary)
    BY <1>1, WithoutProperties DEF TracesOK
  <2>2. /\ primary' = primary \/ primary' = Without(primary, id(s))
        /\ secondary' = secondary \/ secondary' = Without(secondary, id(s))
        /\ UNCHANGED objectVars
    BY <1>7 DEF DeletePrimary, DeleteSecondary, PutDelete
  <2>3. Elsewhere(s)
    BY <1>4, <1>5, <1>7 DEF DeletePrimary, DeleteSecondary, PutDelete
  <2> QED
    BY <2>1, <2>2, <2>3
<1>8. ASSUME GetPrimary(s) \/ GetSecondary(s)
      PROVE  /\ Elsewhere(s) /\ UNCHANGED objectVars
             /\ ToSet(primary') \subseteq ToSet(primary)
             /\ ToSet(secondary') \subseteq ToSet(secondary)
  <2>1. ASSUME NEW q \in Seq(Batches), NEW o, o = Lookup(q, id(s)), o # None
        PROVE  ToSet(Refresh(q, o)) = ToSet(q)
    <3>1. o \in ToSet(q) /\ o \in Batches
      BY <2>1, LookupProperties
    <3>2. ToSet(Refresh(q, o)) = ToSet(q) \cup {o}
      BY <3>1, RefreshEntries
    <3> QED
      BY <3>1, <3>2
  <2>2. Elsewhere(s)
    BY <1>1, <1>8 DEF GetPrimary, GetSecondary, Goto, Elsewhere, Still, LocalsOK
  <2> QED
    BY <1>1, <1>8, <2>1, <2>2 DEF GetPrimary, GetSecondary, TracesOK
<1>9. ASSUME Decide(s) PROVE pc[s] = "decide" /\ Elsewhere(s) /\ UNCHANGED traceVars
  BY <1>1, <1>9 DEF Decide, At, Goto, Elsewhere, Still, LocalsOK
<1>10. ASSUME PutInsert(s) PROVE pc[s] = "putInsert" /\ Elsewhere(s) /\ UNCHANGED objectVars
  BY <1>4, <1>10 DEF PutInsert, At
<1> QED
  BY <1>2, <1>3, <1>6, <1>7, <1>8, <1>9, <1>10
     DEF ListenerMoves, LockStep, GroupStep, objectVars, traceVars

\* No other step touches an object or a tier, but one that hands groups to a
\* listener that waits for them.
LEMMA OutsideFrame ==
  ASSUME \/ \E r \in Requests : ConsumeTraces(r)
         \/ \E b \in Batches : EarlyStep(b) \/ AsyncSend(b)
         \/ \E r \in Requests, s \in Shards : ContextCancelled(r, s)
         \/ \E s \in Shards : CallbackStep(s)
  PROVE  UNCHANGED <<localVars, traceVars, objectVars, chan>>
  BY DEF ConsumeTraces, EarlyStep, EarlySkip, EarlyCheckSampled, EarlyCheckNonSampled,
         AsyncSend, ContextCancelled, CallbackStep, CallbackPriority, CallbackCheckSampled,
         CallbackCheckNonSampled, CallbackRecord, inputVars

----------------------------------------------------------------------------
(* TierMatchesPriority *)

\* Where priorities stay and nothing comes in, only the end of a promotion could
\* leave an object in the wrong tier.
LEMMA PriorityStep ==
  ASSUME TierMatchesPriority, UNCHANGED priority,
         ToSet(primary') \subseteq ToSet(primary), ToSet(secondary') \subseteq ToSet(secondary),
         \A u \in Shards : pc[u] = "putDelete" =>
           pc'[u] = "putDelete" /\ cachedData'[u] = cachedData[u]
  PROVE  TierMatchesPriority'
  BY DEF TierMatchesPriority, promoting

\* Decide can only raise the priority of an object it goes on to promote.
LEMMA PriorityDecide ==
  ASSUME TypeInv, TierInv, TierMatchesPriority, NEW s \in Shards, Decide(s)
  PROVE  TierMatchesPriority'
<1>1. /\ LocalsOK /\ ObjectsOK /\ pc[s] = "decide" /\ pc[s] \in GroupLabels
      /\ UNCHANGED <<cachedData, primary, secondary>>
  BY DEF Decide, At, GroupLabels, TypeInv, traceVars
<1>2. PICK d \in Decisions :
        \/ \E label \in {"putSampled", "putNonSampled"} : Goto(s, label) /\ UNCHANGED objectVars
        \/ Absorb(s, d) /\ Goto(s, "putDelete")
  BY DEF Decide
<1>3. CASE \E label \in {"putSampled", "putNonSampled"} : Goto(s, label) /\ UNCHANGED objectVars
  <2>1. \A u \in Shards : pc[u] = "putDelete" => pc'[u] = "putDelete"
    BY <1>1, <1>3 DEF Goto, LocalsOK
  <2> QED
    BY <1>1, <1>3, <2>1, PriorityStep DEF objectVars
<1>4. CASE Absorb(s, d) /\ Goto(s, "putDelete")
  <2>1. /\ pc'[s] = "putDelete"
        /\ \A u \in Shards : pc[u] = "putDelete" => pc'[u] = "putDelete"
    BY <1>1, <1>4 DEF Goto, LocalsOK
  <2>2. held(s) \in Batches
    BY <1>1, CurrentTyped
  <2>3. /\ \A o \in Batches \ {held(s)} : priority'[o] = priority[o]
        /\ cachedData[s] # None /\ priority[held(s)] = "Unspecified" =>
             priority'[held(s)] = "Unspecified"
    BY <1>1, <1>4, <2>2 DEF Absorb, ObjectsOK, held
  <2>4. cachedData[s] = None => held(s) \notin ToSet(primary) \cup ToSet(secondary)
    BY <1>1, HeldIsOwn DEF TierInv, ShardInv, Learnt, NoEntry
  <2>5. ToSet(primary) \subseteq Batches /\ ToSet(secondary) \subseteq Batches
    BY ToSetDef DEF TypeInv, TracesOK
  <2>6. \A o \in ToSet(primary') : priority'[o] = "Unspecified"
    BY <1>1, <2>3, <2>4, <2>5 DEF TierMatchesPriority
  <2>7. \A o \in ToSet(secondary') : priority'[o] = "Low" \/ promoting(o)'
    <3> SUFFICES ASSUME NEW o \in ToSet(secondary) PROVE priority'[o] = "Low" \/ promoting(o)'
      BY <1>1
    <3>1. CASE o = held(s)
      BY <1>1, <2>1, <2>4, <3>1 DEF promoting, held
    <3>2. CASE o # held(s)
      BY <1>1, <2>1, <2>3, <2>5, <3>2 DEF TierMatchesPriority, promoting
    <3> QED
      BY <3>1, <3>2
  <2> QED
    BY <2>6, <2>7 DEF TierMatchesPriority
<1> QED
  BY <1>2, <1>3, <1>4

\* The Delete of a promotion takes the promoted object out of the secondary tier.
LEMMA PriorityPutDelete ==
  ASSUME TypeInv, TierInv, TierMatchesPriority, NEW s \in Shards, PutDelete(s)
  PROVE  TierMatchesPriority'
<1>1. /\ LocalsOK /\ TracesOK /\ pc[s] = "putDelete" /\ pc[s] \in GroupLabels
      /\ Elsewhere(s) /\ UNCHANGED priority
      /\ ToSet(primary') \subseteq ToSet(primary) /\ ToSet(secondary') \subseteq ToSet(secondary)
  BY ListenerFrame DEF ListenerMoves, GroupStep, PutDelete, At, GroupLabels, TypeInv, objectVars
<1>2. TraceOf[held(s)] = id(s)
  BY <1>1, HeldIsOwn
<1>3. held(s) \in ToSet(secondary') => priority[held(s)] = "Low"
  <2>1. priority[held(s)] # "Low" => secondary' = Without(secondary, id(s))
    BY DEF PutDelete
  <2>2. \A o \in ToSet(Without(secondary, id(s))) : TraceOf[o] # id(s)
    BY <1>1, WithoutProperties DEF TracesOK, TierInv, OnePerTrace
  <2> QED
    BY <1>2, <2>1, <2>2
<1>4. ASSUME NEW o \in ToSet(secondary') PROVE priority'[o] = "Low" \/ promoting(o)'
  <2>1. priority[o] = "Low" \/ promoting(o)
    BY <1>1, <1>4 DEF TierMatchesPriority
  <2>2. ASSUME NEW u \in Shards, pc[u] = "putDelete", cachedData[u] = o
        PROVE  priority'[o] = "Low" \/ promoting(o)'
    <3>1. CASE u = s
      <4>1. o # None
        BY <1>1, ToSetDef, InputAssumption DEF TracesOK
      <4> QED
        BY <1>1, <1>3, <2>2, <3>1, <4>1 DEF held
    <3>2. CASE u # s
      BY <1>1, <2>2, <3>2 DEF promoting, Elsewhere, Still
    <3> QED
      BY <3>1, <3>2
  <2> QED
    BY <1>1, <2>1, <2>2 DEF promoting
<1> QED
  BY <1>1, <1>4 DEF TierMatchesPriority

\* Put inserts by priority.
LEMMA PriorityPutInsert ==
  ASSUME TypeInv, TierInv, TierMatchesPriority, NEW s \in Shards, PutInsert(s)
  PROVE  TierMatchesPriority'
<1>1. /\ TracesOK /\ ObjectsOK /\ pc[s] = "putInsert" /\ Elsewhere(s) /\ UNCHANGED priority
  BY ListenerFrame DEF ListenerMoves, GroupStep, PutInsert, At, TypeInv, objectVars
<1>2. held(s) \in Batches /\ priority[held(s)] \in Priorities
  BY <1>1, CurrentTyped DEF GroupLabels, ObjectsOK, TypeInv
<1>3. /\ ToSet(primary') \subseteq ToSet(primary) \cup {held(s)}
      /\ ToSet(secondary') \subseteq ToSet(secondary) \cup {held(s)}
      /\ priority[held(s)] = "Low" => primary' = primary
      /\ priority[held(s)] # "Low" => secondary' = secondary
  <2>1. SecondaryCacheSize \in Nat
    BY ConfigAssumption
  <2> QED
    BY <1>1, <1>2, <2>1, PutProperties DEF PutInsert, TracesOK
<1>4. \A o \in ToSet(secondary) : promoting(o) => promoting(o)'
  BY <1>1 DEF promoting, Elsewhere, Still
<1> QED
  BY <1>1, <1>2, <1>3, <1>4 DEF TierMatchesPriority, Priorities

\* Every step keeps objects in the tier of their priority.
LEMMA PriorityNext ==
  TypeInv /\ TierInv /\ TierMatchesPriority /\ [Next]_vars => TierMatchesPriority'
<1> SUFFICES ASSUME TypeInv, TierInv, TierMatchesPriority, [Next]_vars PROVE TierMatchesPriority'
  OBVIOUS
<1>1. ASSUME NEW s \in Shards, ListenerMoves(s) PROVE TierMatchesPriority'
  <2>1. CASE pc[s] \notin {"decide", "putDelete", "putInsert"}
    BY <1>1, <2>1, ListenerFrame, PriorityStep DEF Elsewhere, Still, objectVars
  <2>2. CASE pc[s] \in {"decide", "putDelete", "putInsert"}
    <3>1. Decide(s) \/ PutDelete(s) \/ PutInsert(s)
      BY <1>1, <2>2 DEF ListenerMoves, Tick, Receive, LockStep, ReadLock, ReadUnlock,
         AnnounceWriter, Regulate, WriteUnlock, GroupStep, CheckSampled, CheckNonSampled,
         NewTraceDataFails, GetPrimary, GetSecondary, PutSampled, SendCached, SendCurrent,
         PutNonSampled, DeletePrimary, DeleteSecondary, At
    <3> QED
      BY <3>1, PriorityDecide, PriorityPutDelete, PriorityPutInsert
  <2> QED
    BY <2>1, <2>2
<1>2. ASSUME NEW r \in Requests, NEW s \in Shards, Send(r, s) PROVE TierMatchesPriority'
  <2>1. \A u \in Shards : pc[u] = "putDelete" => pc'[u] = "putDelete"
    BY <1>2 DEF Send, Goto, TypeInv, LocalsOK
  <2> QED
    BY <1>2, <2>1, PriorityStep DEF Send, traceVars, objectVars
<1>3. ASSUME UNCHANGED <<localVars, traceVars, objectVars>> PROVE TierMatchesPriority'
  BY <1>3, PriorityStep DEF localVars, traceVars, objectVars
<1>4. UNCHANGED vars => UNCHANGED <<localVars, traceVars, objectVars>>
  BY DEF vars
<1> QED
  BY <1>1, <1>2, <1>3, <1>4, OutsideFrame DEF Next, ListenerStep, ListenerMoves, Quiet

\* Only an object that its own shard is promoting is in the secondary tier
\* without being low, so the priority test of secondaryEvictionCallback
\* (processor.go:630) takes no natural eviction for a promotion.
THEOREM TierFollowsPriority == Spec => []TierMatchesPriority
<1>1. Init => TierMatchesPriority
  BY DEF Init, TierMatchesPriority, ToSet
<1>2. TypeInv /\ TierInv /\ TierMatchesPriority /\ [Next]_vars => TierMatchesPriority'
  BY PriorityNext
<1> QED
  BY TypeInvariant, TierInvariant, <1>1, <1>2, PTL DEF Spec

----------------------------------------------------------------------------
(* DeliveryInv, of a shard whose spans stay where they are *)

\* A batch that does not move, or has not reached its queue or just left it for
\* the next consumer.
BatchStep(b) ==
  /\ data'[b] = data[b]
  /\ \/ stage'[b] = stage[b] /\ forwarded'[b] = forwarded[b]
     \/ /\ stage[b] \notin {"queued", "settled"}
        /\ \/ forwarded'[b] = forwarded[b]
           \/ stage'[b] = "settled" /\ forwarded'[b] = forwarded[b] + 1

entries == ToSet(primary) \cup ToSet(secondary)

\* What a trace's spans are is the business of one shard.
LEMMA OwnSpans ==
  ASSUME TypeInv, NEW s \in Shards, ShardDelivery(s), NEW o \in ownBatches(s)
  PROVE  data[o] \subseteq ownBatches(s)
<1>1. data[o] \subseteq Batches
  BY DEF TypeInv, ObjectsOK, ownBatches
<1>2. \A b \in data[o] : TraceOf[b] = TraceOf[o]
  BY DEF ShardDelivery, BatchInv
<1> QED
  BY <1>1, <1>2 DEF ownBatches

\* What a listener holds is of its shard.
LEMMA OwnHands ==
  ASSUME TypeInv, TierInv, NEW s \in Shards, pc[s] \in GroupLabels
  PROVE  /\ current(s) \in ownBatches(s) /\ held(s) \in ownBatches(s)
         /\ cachedData[s] # None => cachedData[s] \in ownBatches(s)
<1>1. LocalsOK
  BY DEF TypeInv
<1>2. current(s) \in Batches /\ ShardOf[id(s)] = s /\ held(s) \in Batches /\ TraceOf[held(s)] = id(s)
  BY <1>1, CurrentTyped, HeldIsOwn
<1> QED
  BY <1>2 DEF ownBatches, id, held

\* What is queued for a shard is of its own traces.
LEMMA OwnQueue ==
  ASSUME TypeInv, TierInv, NEW s \in Shards
  PROVE  /\ \A i \in 1..Len(gtdArr[s]) : gtdArr[s][i] \in ownBatches(s)
         /\ \A n \in 1..Len(chan[s]) : \A i \in 1..Len(chan[s][n]) : chan[s][n][i] \in ownBatches(s)
<1>1. gtdArr[s] \in Seq(Batches) /\ chan[s] \in Seq(Seq(Batches))
  BY DEF TypeInv, LocalsOK, InputOK
<1>2. \A i \in 1..Len(gtdArr[s]) : gtdArr[s][i] \in ownBatches(s)
  BY <1>1 DEF TierInv, ShardInv, OwnGroups, ownBatches
<1>3. ASSUME NEW n \in 1..Len(chan[s]), NEW i \in 1..Len(chan[s][n])
      PROVE  chan[s][n][i] \in ownBatches(s)
  <2>1. chan[s][n] \in Seq(Batches)
    BY <1>1
  <2>2. chan[s][n][i] \in Batches
    BY <2>1
  <2>3. ShardOf[TraceOf[chan[s][n][i]]] = s
    BY DEF TierInv, OwnChannel
  <2> QED
    BY <2>2, <2>3 DEF ownBatches
<1> QED
  BY <1>2, <1>3

\* A batch keeps its part of the invariant.
LEMMA BatchKept ==
  ASSUME TypeInv, NEW b \in Batches, BatchInv(b), BatchStep(b)
  PROVE  BatchInv(b)'
<1>1. forwarded[b] \in Nat
  BY DEF TypeInv, OutputsOK
<1> QED
  BY <1>1 DEF BatchInv, BatchStep

\* A queue that nobody touches stays one.
LEMMA QueueKept ==
  ASSUME TypeInv, TierInv, NEW s \in Shards, QueueInv(s),
         gtdArr'[s] = gtdArr[s], chan'[s] = chan[s],
         \A b \in ownBatches(s) : BatchStep(b)
  PROVE  QueueInv(s)'
<1>1. \A b \in ownBatches(s) : stage[b] = "queued" => stage'[b] = "queued"
  BY DEF BatchStep
<1>2. \A i \in 1..Len(gtdArr[s]) : stage'[gtdArr[s][i]] = "queued"
  BY <1>1, OwnQueue DEF QueueInv
<1>3. \A n \in 1..Len(chan[s]) : \A i \in 1..Len(chan[s][n]) : stage'[chan[s][n][i]] = "queued"
  BY <1>1, OwnQueue DEF QueueInv
<1> QED
  BY <1>2, <1>3 DEF QueueInv

\* Nor does a step that settles or sends nothing queued.
LEMMA QueueStands ==
  ASSUME NEW s \in Shards, QueueInv(s), UNCHANGED stage,
         gtdArr'[s] = gtdArr[s], chan'[s] = chan[s]
  PROVE  QueueInv(s)'
  BY DEF QueueInv

\* What an entry holds goes on waiting, or to settle, or to be deleted.
LEMMA EntriesKept ==
  ASSUME TypeInv, TierInv, NEW s \in Shards, ShardDelivery(s),
         \A b \in ownBatches(s) : BatchStep(b),
         NEW o \in entries, o \in ownBatches(s),
         pc[s] \in putLabels => pc'[s] \in putLabels /\ gtdArr'[s] = gtdArr[s],
         pc[s] \in deleteLabels /\ TraceOf[o] = id(s) =>
           pc'[s] \in deleteLabels /\ gtdArr'[s] = gtdArr[s]
  PROVE  EntryInv(s, o)'
<1>1. data'[o] = data[o]
  BY DEF BatchStep
<1>2. data[o] \subseteq ownBatches(s)
  BY OwnSpans
<1>3. \A b \in ownBatches(s) : waits(b) => waits(b)'
  BY DEF BatchStep, waits
<1>4. gtdArr'[s] = gtdArr[s] => current(s)' = current(s) /\ id(s)' = id(s)
  BY DEF current, id
<1>5. EntryInv(s, o)
  BY DEF ShardDelivery, entries
<1> QED
  BY <1>1, <1>2, <1>3, <1>4, <1>5 DEF EntryInv

\* What a listener has at hand goes on waiting.
LEMMA HandKept ==
  ASSUME TypeInv, TierInv, NEW s \in Shards, ShardDelivery(s), Still(s),
         \A b \in ownBatches(s) : BatchStep(b)
  PROVE  HandInv(s)'
<1>1. current(s)' = current(s) /\ held(s)' = held(s) /\ pc'[s] = pc[s] /\ cachedData'[s] = cachedData[s]
  BY DEF Still, current, held
<1>2. \A b \in ownBatches(s) : waits(b) => waits(b)'
  BY DEF BatchStep, waits
<1>3. ASSUME NEW o \in ownBatches(s)
      PROVE  data'[o] = data[o] /\ data[o] \subseteq ownBatches(s)
  BY <1>3, OwnSpans DEF BatchStep
<1>4. pc[s] \in putLabels \/ aboutToSend(s) => pc[s] \in GroupLabels
  BY DEF putLabels, aboutToSend, GroupLabels
<1>5. HandInv(s)
  BY DEF ShardDelivery
<1>6. aboutToSend(s)' = aboutToSend(s)
  BY <1>1 DEF aboutToSend
<1>7. aboutToSend(s) /\ cachedData[s] # None => \A b \in data'[cachedData[s]] : waits(b)'
  BY <1>2, <1>3, <1>4, <1>5, OwnHands DEF HandInv
<1>8. pc[s] \in putLabels => \A b \in data'[held(s)] : waits(b)' \/ b = current(s)
  BY <1>2, <1>3, <1>4, <1>5, OwnHands DEF HandInv
<1> QED
  BY <1>1, <1>6, <1>7, <1>8 DEF HandInv

\* A shard that stands still, and whose batches are not touched, is not hurt.
LEMMA ShardStays ==
  ASSUME TypeInv, TierInv, NEW s \in Shards, ShardDelivery(s), Still(s), chan'[s] = chan[s],
         \A b \in ownBatches(s) : BatchStep(b),
         entries' \cap ownBatches(s) \subseteq entries
  PROVE  ShardDelivery(s)'
<1>1. \A b \in ownBatches(s) : BatchInv(b)'
  BY BatchKept DEF ShardDelivery, ownBatches
<1>2. QueueInv(s)'
  BY QueueKept DEF Still, ShardDelivery
<1>3. \A o \in entries' \cap ownBatches(s) : EntryInv(s, o)'
  BY EntriesKept DEF Still
<1>4. HandInv(s)'
  BY HandKept
<1>5. ownBatches(s)' = ownBatches(s)
  BY DEF ownBatches
<1> QED
  BY <1>1, <1>2, <1>3, <1>4, <1>5 DEF ShardDelivery, entries

\* A step of one shard hurts no other.
LEMMA OthersStay ==
  ASSUME TypeInv, TierInv, DeliveryInv, NEW s \in Shards, Elsewhere(s),
         \A u \in Shards \ {s} : chan'[u] = chan[u],
         \A b \in Batches \ ownBatches(s) : BatchStep(b),
         entries' \subseteq entries \cup ownBatches(s),
         ShardDelivery(s)'
  PROVE  DeliveryInv'
<1> SUFFICES ASSUME NEW u \in Shards \ {s} PROVE ShardDelivery(u)'
  BY DEF DeliveryInv
<1>1. ShardDelivery(u) /\ Still(u) /\ chan'[u] = chan[u]
  BY DEF DeliveryInv, Elsewhere
<1>2. ownBatches(u) \subseteq Batches \ ownBatches(s)
  BY DEF ownBatches
<1> QED
  BY <1>1, <1>2, ShardStays

----------------------------------------------------------------------------
(* The ways a listener moves on *)

\* To another step for the same group, where no spans move.
LEMMA GotoDelivery ==
  ASSUME TypeInv, TierInv, DeliveryInv, NEW s \in Shards, NEW label \in Labels,
         ListenerMoves(s), Goto(s, label),
         UNCHANGED <<chan, gtdArr, stage, forwarded, data>>,
         entries' \subseteq entries,
         pc[s] \in putLabels => label \in putLabels,
         pc[s] \in deleteLabels =>
           label \in deleteLabels \/ \A o \in entries' : TraceOf[o] # id(s),
         HandInv(s)'
  PROVE  DeliveryInv'
<1>1. ShardDelivery(s) /\ Elsewhere(s) /\ pc'[s] = label
  BY ListenerFrame DEF DeliveryInv, Goto, TypeInv, LocalsOK
<1>2. \A b \in Batches : BatchStep(b)
  BY DEF BatchStep
<1>3. \A b \in ownBatches(s) : BatchInv(b)'
  BY <1>1, <1>2, BatchKept DEF ShardDelivery, ownBatches
<1>4. QueueInv(s)'
  BY <1>1, <1>2, QueueKept DEF ShardDelivery, ownBatches
<1>5. \A o \in entries' \cap ownBatches(s) : EntryInv(s, o)'
  BY <1>1, <1>2, EntriesKept DEF ownBatches
<1>6. ownBatches(s)' = ownBatches(s)
  BY DEF ownBatches
<1>7. ShardDelivery(s)'
  BY <1>3, <1>4, <1>5, <1>6 DEF ShardDelivery, entries
<1> QED
  BY <1>1, <1>2, <1>7, OthersStay

\* To the next group: the current one settles, is sent, or is left to a goroutine.
LEMMA ContinueDelivery ==
  ASSUME TypeInv, TierInv, DeliveryInv, NEW s \in Shards, pc[s] \in GroupLabels,
         ListenerMoves(s), Continue(s), UNCHANGED <<chan, data>>,
         NEW st \in {"settled", "async"}, SetStage(current(s), st),
         \/ UNCHANGED forwarded
         \/ st = "settled" /\ pc[s] \notin putLabels /\ Forward({current(s)}),
         pc[s] \in putLabels => st = "settled",
         entries' \subseteq entries \cup (IF pc[s] \in putLabels THEN {held(s)} ELSE {}),
         pc[s] \in deleteLabels => \A o \in entries' : TraceOf[o] # id(s)
  PROVE  DeliveryInv'
<1> DEFINE c == current(s)
<1>1. /\ ShardDelivery(s) /\ Elsewhere(s)
      /\ LocalsOK /\ stage \in [Batches -> Stages] /\ forwarded \in [Batches -> Nat]
  BY ListenerFrame DEF DeliveryInv, TypeInv, InputOK, OutputsOK
<1>2. /\ gtdArr[s] \in Seq(Batches) /\ gtdArr[s] # <<>>
      /\ c = gtdArr[s][1] /\ 1 \in 1..Len(gtdArr[s])
      /\ c \in ownBatches(s) /\ c \in Batches
  BY <1>1, OwnHands DEF LocalsOK, HasCurrent, current, ownBatches
<1>3. stage[c] = "queued" /\ forwarded[c] = 0 /\ data[c] = {c}
  BY <1>1, <1>2 DEF ShardDelivery, QueueInv, BatchInv
<1>4. /\ stage'[c] = st /\ \A b \in Batches \ {c} : stage'[b] = stage[b]
      /\ \A b \in Batches \ {c} : forwarded'[b] = forwarded[b]
      /\ \/ forwarded'[c] = 0
         \/ st = "settled" /\ pc[s] \notin putLabels /\ forwarded'[c] = 1
  <2>1. stage'[c] = st /\ \A b \in Batches \ {c} : stage'[b] = stage[b]
    BY <1>1, <1>2 DEF SetStage
  <2>2. ASSUME Forward({c})
        PROVE  forwarded'[c] = 1 /\ \A b \in Batches \ {c} : forwarded'[b] = forwarded[b]
    <3>1. forwarded'[c] = forwarded[c] + 1
      BY <1>2, <2>2 DEF Forward
    <3>2. ASSUME NEW b \in Batches \ {c} PROVE forwarded'[b] = forwarded[b]
      <4>1. forwarded'[b] = forwarded[b] + 0 /\ forwarded[b] \in Nat
        BY <1>1, <2>2 DEF Forward
      <4> QED
        BY <4>1
    <3> QED
      BY <1>3, <3>1, <3>2
  <2>3. UNCHANGED forwarded \/ (st = "settled" /\ pc[s] \notin putLabels /\ Forward({c}))
    OBVIOUS
  <2> HIDE DEF c
  <2> QED
    BY <1>3, <2>1, <2>2, <2>3
<1>5. gtdArr'[s] = Tail(gtdArr[s]) /\ pc'[s] \in {"unlock", "checkSampled"}
  BY <1>1 DEF Continue, Goto, LocalsOK
<1> HIDE DEF c
<1>6. \A b \in ownBatches(s) : BatchInv(b)'
  <2> SUFFICES ASSUME NEW b \in ownBatches(s) PROVE BatchInv(b)'
    OBVIOUS
  <2>1. BatchInv(b) /\ b \in Batches
    BY <1>1 DEF ShardDelivery, ownBatches
  <2>2. CASE b = c
    BY <1>3, <1>4, <2>1, <2>2 DEF BatchInv
  <2>3. CASE b # c
    BY <1>4, <2>1, <2>3 DEF BatchInv
  <2> QED
    BY <2>2, <2>3
<1>7. QueueInv(s)'
  <2>1. QueueInv(s)
    BY <1>1 DEF ShardDelivery
  <2>2. /\ Len(Tail(gtdArr[s])) = Len(gtdArr[s]) - 1
        /\ \A i \in 1..Len(Tail(gtdArr[s])) :
             Tail(gtdArr[s])[i] = gtdArr[s][i + 1] /\ i + 1 \in 2..Len(gtdArr[s])
    BY <1>2, TailProperties
  <2>3. \A i \in 1..Len(gtdArr'[s]) :
          /\ gtdArr'[s][i] = gtdArr[s][i + 1] /\ i + 1 \in 1..Len(gtdArr[s])
          /\ gtdArr[s][i + 1] # c /\ gtdArr[s][i + 1] \in Batches
    <3> SUFFICES ASSUME NEW i \in 1..Len(gtdArr'[s])
                 PROVE  /\ gtdArr'[s][i] = gtdArr[s][i + 1] /\ i + 1 \in 1..Len(gtdArr[s])
                        /\ gtdArr[s][i + 1] # c /\ gtdArr[s][i + 1] \in Batches
      OBVIOUS
    <3>1. gtdArr'[s][i] = gtdArr[s][i + 1] /\ i + 1 \in 1..Len(gtdArr[s]) /\ i + 1 # 1
      BY <1>5, <2>2
    <3>2. gtdArr[s][i + 1] # c
      BY <1>2, <2>1, <3>1 DEF QueueInv
    <3> QED
      BY <1>2, <3>1, <3>2
  <2>4. \A i \in 1..Len(gtdArr'[s]) : stage'[gtdArr'[s][i]] = "queued"
    BY <1>4, <2>1, <2>3 DEF QueueInv
  <2>5. \A i, j \in 1..Len(gtdArr'[s]) : gtdArr'[s][i] = gtdArr'[s][j] => i = j
    <3> SUFFICES ASSUME NEW i \in 1..Len(gtdArr'[s]), NEW j \in 1..Len(gtdArr'[s]),
                        gtdArr'[s][i] = gtdArr'[s][j]
                 PROVE  i = j
      OBVIOUS
    <3>1. /\ i + 1 \in 1..Len(gtdArr[s]) /\ j + 1 \in 1..Len(gtdArr[s])
          /\ gtdArr[s][i + 1] = gtdArr[s][j + 1]
      BY <2>3
    <3>2. \A k, l \in 1..Len(gtdArr[s]) : gtdArr[s][k] = gtdArr[s][l] => k = l
      BY <2>1 DEF QueueInv
    <3>3. i + 1 = j + 1
      BY <3>1, <3>2
    <3> QED
      BY <3>3
  <2>6. \A n \in 1..Len(chan[s]) : \A i \in 1..Len(chan[s][n]) :
          /\ stage'[chan[s][n][i]] = "queued"
          /\ \A j \in 1..Len(gtdArr'[s]) : chan[s][n][i] # gtdArr'[s][j]
    <3> SUFFICES ASSUME NEW n \in 1..Len(chan[s]), NEW i \in 1..Len(chan[s][n])
                 PROVE  /\ stage'[chan[s][n][i]] = "queued"
                        /\ \A j \in 1..Len(gtdArr'[s]) : chan[s][n][i] # gtdArr'[s][j]
      OBVIOUS
    <3>1. chan[s][n][i] # c /\ stage[chan[s][n][i]] = "queued"
      <4>1. /\ stage[chan[s][n][i]] = "queued"
            /\ \A j \in 1..Len(gtdArr[s]) : chan[s][n][i] # gtdArr[s][j]
        BY <2>1 DEF QueueInv
      <4> QED
        BY <1>2, <4>1
    <3>2. chan[s][n][i] \in Batches
      BY OwnQueue DEF ownBatches
    <3>3. ASSUME NEW j \in 1..Len(gtdArr'[s]) PROVE chan[s][n][i] # gtdArr'[s][j]
      <4>1. gtdArr'[s][j] = gtdArr[s][j + 1] /\ j + 1 \in 1..Len(gtdArr[s])
        BY <2>3
      <4>2. \A k \in 1..Len(gtdArr[s]) : chan[s][n][i] # gtdArr[s][k]
        BY <2>1 DEF QueueInv
      <4> QED
        BY <4>1, <4>2
    <3> QED
      BY <1>4, <3>1, <3>2, <3>3
  <2> QED
    BY <2>1, <2>4, <2>5, <2>6 DEF QueueInv
<1>8. \A o \in entries' \cap ownBatches(s) : EntryInv(s, o)'
  <2> SUFFICES ASSUME NEW o \in entries', o \in ownBatches(s), NEW b \in data[o]
               PROVE  waits(b)'
    BY DEF EntryInv
  <2>1. b \in Batches
    BY <1>1, OwnSpans DEF ownBatches
  <2>2. waits(b) \/ (pc[s] \in putLabels /\ b = c)
    <3>1. CASE o \in entries
      BY <1>1, <3>1 DEF ShardDelivery, EntryInv, entries, c
    <3>2. CASE o \notin entries
      <4>1. pc[s] \in putLabels /\ o = held(s)
        BY <3>2
      <4> QED
        BY <1>1, <4>1 DEF ShardDelivery, HandInv, c
    <3> QED
      BY <3>1, <3>2
  <2> QED
    BY <1>3, <1>4, <2>1, <2>2 DEF waits
<1>9. HandInv(s)'
  BY <1>5 DEF HandInv, aboutToSend, putLabels
<1>10. ownBatches(s)' = ownBatches(s)
  BY DEF ownBatches
<1>11. ShardDelivery(s)'
  BY <1>6, <1>7, <1>8, <1>9, <1>10 DEF ShardDelivery, entries
<1>12. \A b \in Batches \ ownBatches(s) : BatchStep(b)
  BY <1>2, <1>4 DEF BatchStep
<1>13. entries' \subseteq entries \cup ownBatches(s)
  BY OwnHands
<1> QED
  BY <1>1, <1>11, <1>12, <1>13, OthersStay

----------------------------------------------------------------------------
(* The steps of a listener *)

\* Only PutInsert brings an entry in.
LEMMA NoNewEntries ==
  ASSUME TypeInv, NEW s \in Shards, ListenerMoves(s), pc[s] # "putInsert"
  PROVE  entries' \subseteq entries
  BY ListenerFrame DEF entries

\* The lock and the regulator move no spans.
LEMMA LockDelivery ==
  ASSUME TypeInv, TierInv, DeliveryInv, NEW s \in Shards, Tick(s) \/ LockStep(s)
  PROVE  DeliveryInv'
<1>1. /\ pc[s] \in {"listen", "readLock", "unlock", "writeLock", "regulate", "writeUnlock"}
      /\ UNCHANGED <<chan, gtdArr, stage, forwarded, data>>
  BY DEF Tick, LockStep, ReadLock, ReadUnlock, AnnounceWriter, Regulate, WriteUnlock, At,
         KeepLocals, inputVars, objectVars, outputVars
<1>2. PICK label \in {"checkSampled", "listen", "writeLock", "regulate", "writeUnlock"} : Goto(s, label)
  BY DEF Tick, LockStep, ReadLock, ReadUnlock, AnnounceWriter, Regulate, WriteUnlock
<1>3. label \in Labels /\ pc[s] \notin putLabels \cup deleteLabels /\ pc[s] # "putInsert"
  BY <1>1 DEF Labels, putLabels, deleteLabels
<1>4. pc'[s] = label
  BY <1>2 DEF Goto, TypeInv, LocalsOK
<1>5. HandInv(s)'
  BY <1>4 DEF HandInv, aboutToSend, putLabels
<1>6. ListenerMoves(s)
  BY DEF ListenerMoves
<1> QED
  BY <1>1, <1>2, <1>3, <1>5, <1>6, NoNewEntries, GotoDelivery

\* The checks of the decision caches end the iteration on a hit.
LEMMA CheckDelivery ==
  ASSUME TypeInv, TierInv, DeliveryInv, NEW s \in Shards,
         CheckSampled(s) \/ CheckNonSampled(s) \/ NewTraceDataFails(s)
  PROVE  DeliveryInv'
<1>1. /\ pc[s] \in {"checkSampled", "checkNonSampled", "getPrimary"}
      /\ UNCHANGED <<chan, forwarded, data>>
      /\ ListenerMoves(s)
  BY DEF CheckSampled, CheckNonSampled, NewTraceDataFails, At, objectVars, outputVars,
         ListenerMoves, GroupStep
<1>2. /\ pc[s] \in GroupLabels /\ pc[s] \notin putLabels \cup deleteLabels
      /\ entries' \subseteq entries
  BY <1>1, NoNewEntries DEF GroupLabels, putLabels, deleteLabels
<1>3. \/ /\ \E st \in {"settled", "async"} : SetStage(current(s), st)
         /\ Continue(s)
      \/ /\ \E label \in {"checkNonSampled", "putNonSampled", "getPrimary"} : Goto(s, label)
         /\ UNCHANGED stage /\ KeepLocals
  BY DEF CheckSampled, CheckNonSampled, NewTraceDataFails
<1>4. CASE (\E st \in {"settled", "async"} : SetStage(current(s), st)) /\ Continue(s)
  BY <1>1, <1>2, <1>4, ContinueDelivery
<1>5. ASSUME NEW label \in {"checkNonSampled", "putNonSampled", "getPrimary"},
             Goto(s, label), UNCHANGED stage, KeepLocals
      PROVE  DeliveryInv'
  <2>1. pc'[s] = label
    BY <1>5 DEF Goto, TypeInv, LocalsOK
  <2>2. HandInv(s)'
    BY <2>1 DEF HandInv, aboutToSend, putLabels
  <2>3. label \in Labels /\ UNCHANGED gtdArr
    BY <1>5 DEF Labels, KeepLocals
  <2> QED
    BY <1>1, <1>2, <1>5, <2>2, <2>3, GotoDelivery
<1> QED
  BY <1>3, <1>4, <1>5

\* What Get returns waits: its shard is neither putting it nor deleting it.
LEMMA GetDelivery ==
  ASSUME TypeInv, TierInv, DeliveryInv, NEW s \in Shards, GetPrimary(s) \/ GetSecondary(s)
  PROVE  DeliveryInv'
<1>1. /\ pc[s] \in {"getPrimary", "getSecondary"} /\ LocalsOK /\ TracesOK
      /\ UNCHANGED <<chan, gtdArr, stage, forwarded, data>>
      /\ ListenerMoves(s)
  BY DEF GetPrimary, GetSecondary, At, inputVars, objectVars, outputVars,
         ListenerMoves, GroupStep, TypeInv
<1>2. /\ pc[s] \in GroupLabels /\ pc[s] \notin putLabels \cup deleteLabels
      /\ entries' \subseteq entries
  BY <1>1, NoNewEntries DEF GroupLabels, putLabels, deleteLabels
<1>3. PICK o \in {Lookup(primary, id(s)), Lookup(secondary, id(s))} :
        \/ cachedData' = [cachedData EXCEPT ![s] = o] /\ Goto(s, afterGet(s, o))
        \/ cachedData' = cachedData /\ Goto(s, "getSecondary")
  BY DEF GetPrimary, GetSecondary
<1>4. o # None => o \in entries /\ TraceOf[o] = id(s)
  BY <1>1, <1>3, LookupProperties DEF TracesOK, entries
<1>5. o # None => \A b \in data[o] : waits(b)
  <2>1. ASSUME o # None PROVE o \in ownBatches(s)
    <3>1. o \in Batches
      BY <1>1, <1>3, <2>1, LookupProperties DEF TracesOK
    <3>2. ShardOf[id(s)] = s
      BY <1>2, HeldIsOwn
    <3> QED
      BY <1>4, <2>1, <3>1, <3>2 DEF ownBatches
  <2> QED
    BY <1>2, <1>4, <2>1 DEF DeliveryInv, ShardDelivery, EntryInv, entries
<1>6. current(s)' = current(s)
  BY <1>1 DEF current
<1>7. CASE cachedData' = [cachedData EXCEPT ![s] = o] /\ Goto(s, afterGet(s, o))
  <2>1. /\ afterGet(s, o) \in {"decide", "putSampled", "sendCached"}
        /\ pc'[s] = afterGet(s, o) /\ cachedData'[s] = o
    BY <1>1, <1>7 DEF afterGet, Goto, LocalsOK
  <2>2. HandInv(s)'
    BY <1>1, <1>5, <2>1 DEF HandInv, putLabels, waits
  <2>3. afterGet(s, o) \in Labels
    BY <2>1 DEF Labels
  <2> QED
    BY <1>1, <1>2, <1>7, <2>2, <2>3, GotoDelivery
<1>8. CASE cachedData' = cachedData /\ Goto(s, "getSecondary")
  <2>1. pc'[s] = "getSecondary"
    BY <1>1, <1>8 DEF Goto, LocalsOK
  <2>2. HandInv(s)'
    BY <2>1 DEF HandInv, aboutToSend, putLabels
  <2>3. "getSecondary" \in Labels
    BY DEF Labels
  <2> QED
    BY <1>1, <1>2, <1>8, <2>2, <2>3, GotoDelivery
<1> QED
  BY <1>3, <1>7, <1>8

\* From the decision to the release of the cached data.
LEMMA ReleaseDelivery ==
  ASSUME TypeInv, TierInv, DeliveryInv, NEW s \in Shards,
         \/ pc[s] = "decide" /\ Goto(s, "putSampled")
         \/ pc[s] = "decide" /\ Goto(s, "putNonSampled")
         \/ PutSampled(s) /\ KindOf[current(s)] = "spans"
         \/ PutNonSampled(s)
         \/ DeletePrimary(s)
         \/ PutDelete(s),
         ListenerMoves(s), UNCHANGED <<chan, gtdArr, stage, forwarded, data, cachedData>>
  PROVE  DeliveryInv'
<1> DEFINE labels == {"putSampled", "putNonSampled", "sendCached", "sendCurrent", "deletePrimary",
                      "deleteSecondary", "putInsert"}
<1>1. PICK label \in labels :
        /\ Goto(s, label)
        /\ label = "sendCached" \/ label = "putSampled" => aboutToSend(s)
        /\ label = "putInsert" <=> pc[s] \in putLabels
        /\ pc[s] \in deleteLabels => label \in deleteLabels
        /\ pc[s] # "putInsert"
  BY DEF PutSampled, PutNonSampled, DeletePrimary, PutDelete, At, afterPutSampled, aboutToSend,
         putLabels, deleteLabels
<1>2. pc'[s] = label /\ label \in Labels /\ entries' \subseteq entries
  BY <1>1, NoNewEntries DEF Goto, TypeInv, LocalsOK, Labels
<1>3. current(s)' = current(s) /\ held(s)' = held(s)
  BY DEF current, held
<1>4. HandInv(s)
  BY DEF DeliveryInv, ShardDelivery
<1>5. aboutToSend(s)' => aboutToSend(s)
  BY <1>1, <1>2 DEF aboutToSend
<1>6. HandInv(s)'
  BY <1>1, <1>2, <1>3, <1>4, <1>5 DEF HandInv, putLabels, waits
<1> QED
  BY <1>1, <1>2, <1>6, GotoDelivery DEF putLabels

\* The current spans join an object that was never sent, and are about to settle.
LEMMA AbsorbDelivery ==
  ASSUME TypeInv, TierInv, DeliveryInv, NEW s \in Shards, NEW d \in Decisions,
         pc[s] = "decide", ListenerMoves(s), Absorb(s, d), Goto(s, "putDelete"),
         UNCHANGED <<chan, gtdArr, stage, forwarded, cachedData, primary, secondary>>
  PROVE  DeliveryInv'
<1> DEFINE c == current(s)
           h == held(s)
<1>1. /\ ShardDelivery(s) /\ Elsewhere(s) /\ pc'[s] = "putDelete" /\ pc[s] \in GroupLabels
      /\ LocalsOK
  BY ListenerFrame DEF DeliveryInv, Goto, TypeInv, LocalsOK, GroupLabels
<1>2. c \in ownBatches(s) /\ h \in ownBatches(s) /\ h \in Batches /\ c \in Batches
  BY <1>1, OwnHands DEF ownBatches
<1>3. TraceOf[h] = id(s) /\ TraceOf[c] = id(s)
  BY <1>1, HeldIsOwn DEF id
<1>4. /\ data'[h] = data[h] \cup {c}
      /\ \A b \in Batches \ {h} : data'[b] = data[b]
  BY <1>2 DEF Absorb, TypeInv, ObjectsOK
<1>5. c' = c /\ h' = h
  BY DEF current, held
<1>6. /\ stage[c] = "queued" /\ data[c] = {c} /\ c \in data[c]
      /\ h \in data[h]
      /\ h # c => \A b \in data[h] : waits(b)
  <2>1. gtdArr[s] \in Seq(Batches) /\ gtdArr[s] # <<>> /\ c = gtdArr[s][1]
    BY <1>1 DEF LocalsOK, HasCurrent, current
  <2>2. stage[c] = "queued"
    BY <1>1, <2>1 DEF ShardDelivery, QueueInv
  <2>3. BatchInv(c) /\ BatchInv(h)
    BY <1>1, <1>2 DEF ShardDelivery
  <2>4. h # c => \A b \in data[h] : waits(b)
    BY <1>1 DEF ShardDelivery, HandInv, aboutToSend, held
  <2> QED
    BY <2>2, <2>3, <2>4 DEF BatchInv
<1> HIDE DEF c, h
<1>7. \A b \in ownBatches(s) : BatchInv(b)'
  <2> SUFFICES ASSUME NEW b \in ownBatches(s) PROVE BatchInv(b)'
    OBVIOUS
  <2>1. BatchInv(b) /\ b \in Batches
    BY <1>1 DEF ShardDelivery, ownBatches
  <2>2. CASE b # h
    BY <1>4, <2>1, <2>2 DEF BatchInv
  <2>3. CASE b = h /\ h = c
    BY <1>4, <1>6, <2>1, <2>3 DEF BatchInv
  <2>4. CASE b = h /\ h # c
    BY <1>3, <1>4, <1>6, <2>1, <2>4 DEF BatchInv, waits
  <2> QED
    BY <2>2, <2>3, <2>4
<1>8. QueueInv(s)'
  BY <1>1, QueueStands DEF ShardDelivery
<1>9. \A o \in entries' \cap ownBatches(s) : EntryInv(s, o)'
  <2> SUFFICES ASSUME NEW o \in entries, o \in ownBatches(s), NEW b \in data'[o]
               PROVE  waits(b) \/ b = c
    BY <1>1, <1>5 DEF EntryInv, putLabels, entries, waits, c
  <2>1. b \in data[o] \/ b = c
    BY <1>4 DEF ownBatches
  <2>2. b \in data[o] => waits(b)
    BY <1>1 DEF ShardDelivery, EntryInv, entries, putLabels, deleteLabels
  <2> QED
    BY <2>1, <2>2
<1>10. HandInv(s)'
  BY <1>1, <1>4, <1>5, <1>6 DEF HandInv, aboutToSend, putLabels, waits, c, h
<1>11. ownBatches(s)' = ownBatches(s)
  BY DEF ownBatches
<1>12. ShardDelivery(s)'
  BY <1>7, <1>8, <1>9, <1>10, <1>11 DEF ShardDelivery, entries
<1>13. \A b \in Batches \ ownBatches(s) : BatchStep(b)
  BY <1>2, <1>4 DEF BatchStep
<1>14. entries' \subseteq entries
  BY DEF entries
<1> QED
  BY <1>1, <1>12, <1>13, <1>14, OthersStay

\* The cached data is sent once, and deleted before anything can get it again.
LEMMA SendCachedDelivery ==
  ASSUME TypeInv, TierInv, DeliveryInv, NEW s \in Shards, SendCached(s)
  PROVE  DeliveryInv'
<1> DEFINE B == data[cachedData[s]]
<1>1. /\ pc[s] = "sendCached" /\ pc[s] \in GroupLabels /\ LocalsOK
      /\ Goto(s, "deletePrimary") /\ KeepLocals /\ ListenerMoves(s)
      /\ UNCHANGED <<chan, stage, data, primary, secondary>>
      /\ Forward(B) \/ UNCHANGED forwarded
      /\ forwarded \in [Batches -> Nat]
  BY DEF SendCached, At, GroupLabels, TypeInv, ListenerMoves, GroupStep, inputVars,
         traceVars, objectVars, OutputsOK
<1>2. ShardDelivery(s) /\ Elsewhere(s) /\ pc'[s] = "deletePrimary" /\ UNCHANGED gtdArr
  BY <1>1, ListenerFrame DEF DeliveryInv, Goto, LocalsOK, KeepLocals
<1>3. cachedData[s] \in ownBatches(s) /\ TraceOf[cachedData[s]] = id(s)
  <2>1. cachedData[s] # None
    BY <1>1 DEF LocalsOK, HasCached
  <2> QED
    BY <1>1, <2>1, OwnHands, HeldIsOwn DEF held
<1>4. /\ B \subseteq ownBatches(s)
      /\ \A b \in B : TraceOf[b] = id(s)
      /\ \A b \in B : waits(b)
  <2>1. B \subseteq ownBatches(s)
    BY <1>2, <1>3, OwnSpans
  <2>2. \A b \in B : TraceOf[b] = id(s)
    BY <1>2, <1>3 DEF ShardDelivery, BatchInv
  <2>3. cachedData[s] # None
    BY <1>1 DEF LocalsOK, HasCached
  <2>4. \A b \in B : waits(b)
    BY <1>1, <1>2, <2>3 DEF ShardDelivery, HandInv, aboutToSend
  <2> QED
    BY <2>1, <2>2, <2>4
<1> HIDE DEF B
<1>5. \A b \in Batches : /\ b \notin B => forwarded'[b] = forwarded[b]
                         /\ b \in B => forwarded'[b] \in {0, 1}
  <2> SUFFICES ASSUME NEW b \in Batches
               PROVE  /\ b \notin B => forwarded'[b] = forwarded[b]
                      /\ b \in B => forwarded'[b] \in {0, 1}
    OBVIOUS
  <2>1. b \in B => forwarded[b] = 0
    BY <1>4 DEF waits
  <2>2. CASE UNCHANGED forwarded
    BY <2>1, <2>2
  <2>3. CASE Forward(B)
    <3>1. forwarded'[b] = forwarded[b] + IF b \in B THEN 1 ELSE 0
      BY <2>3 DEF Forward
    <3> QED
      BY <1>1, <2>1, <3>1
  <2> QED
    BY <1>1, <2>2, <2>3
<1>6. \A b \in ownBatches(s) : BatchInv(b)'
  <2> SUFFICES ASSUME NEW b \in ownBatches(s) PROVE BatchInv(b)'
    OBVIOUS
  <2>1. BatchInv(b) /\ b \in Batches
    BY <1>2 DEF ShardDelivery, ownBatches
  <2>2. CASE b \in B
    BY <1>1, <1>4, <1>5, <2>1, <2>2 DEF BatchInv, waits
  <2>3. CASE b \notin B
    BY <1>1, <1>5, <2>1, <2>3 DEF BatchInv
  <2> QED
    BY <2>2, <2>3
<1>7. QueueInv(s)'
  BY <1>1, <1>2, QueueStands DEF ShardDelivery
<1>8. \A o \in entries' \cap ownBatches(s) : EntryInv(s, o)'
  <2> SUFFICES ASSUME NEW o \in entries, o \in ownBatches(s), NEW b \in data[o], TraceOf[o] # id(s)
               PROVE  waits(b)'
    <3>1. id(s)' = id(s)
      BY <1>2 DEF id, current
    <3> QED
      BY <1>1, <1>2, <3>1 DEF EntryInv, deleteLabels, entries
  <2>1. b \in Batches /\ TraceOf[b] = TraceOf[o]
    BY <1>2, OwnSpans DEF ShardDelivery, BatchInv, ownBatches
  <2>2. waits(b)
    BY <1>1, <1>2 DEF ShardDelivery, EntryInv, entries, putLabels, deleteLabels
  <2>3. b \notin B
    BY <1>4, <2>1
  <2> QED
    BY <1>1, <1>5, <2>1, <2>2, <2>3 DEF waits
<1>9. HandInv(s)'
  BY <1>2 DEF HandInv, aboutToSend, putLabels
<1>10. ownBatches(s)' = ownBatches(s)
  BY DEF ownBatches
<1>11. ShardDelivery(s)'
  BY <1>6, <1>7, <1>8, <1>9, <1>10 DEF ShardDelivery, entries
<1>12. \A b \in Batches \ ownBatches(s) : BatchStep(b)
  BY <1>1, <1>4, <1>5 DEF BatchStep
<1>13. entries' \subseteq entries
  BY <1>1 DEF entries
<1> QED
  BY <1>1, <1>2, <1>11, <1>12, <1>13, OthersStay

\* The last step for a group: the current spans are sent, put away, or were only
\* a decision.
LEMMA LastDelivery ==
  ASSUME TypeInv, TierInv, DeliveryInv, NEW s \in Shards,
         \/ PutSampled(s) /\ KindOf[current(s)] # "spans"
         \/ SendCurrent(s)
         \/ PutInsert(s)
  PROVE  DeliveryInv'
<1>1. /\ pc[s] \in {"putSampled", "sendCurrent", "putInsert"} /\ pc[s] \in GroupLabels
      /\ Continue(s) /\ ListenerMoves(s) /\ SetStage(current(s), "settled")
      /\ UNCHANGED <<chan, data>>
      /\ \/ UNCHANGED forwarded
         \/ pc[s] \notin putLabels /\ Forward({current(s)})
  BY DEF PutSampled, SendCurrent, PutInsert, At, GroupLabels, ListenerMoves, GroupStep,
         objectVars, outputVars, putLabels
<1>2. entries' \subseteq entries \cup (IF pc[s] \in putLabels THEN {held(s)} ELSE {})
  <2>1. CASE pc[s] # "putInsert"
    BY <1>1, <2>1, NoNewEntries
  <2>2. CASE pc[s] = "putInsert"
    <3>1. PutInsert(s) /\ TracesOK /\ held(s) \in Batches /\ SecondaryCacheSize \in Nat
      BY <1>1, <2>2, CurrentTyped, ConfigAssumption DEF PutSampled, SendCurrent, At, TypeInv
    <3>2. /\ ToSet(primary') \subseteq ToSet(primary) \cup {held(s)}
          /\ ToSet(secondary') \subseteq ToSet(secondary) \cup {held(s)}
      BY <3>1, PutProperties DEF PutInsert, TracesOK
    <3> QED
      BY <2>2, <3>2 DEF entries, putLabels
  <2> QED
    BY <2>1, <2>2
<1>3. pc[s] \notin deleteLabels
  BY <1>1 DEF deleteLabels
<1> QED
  BY <1>1, <1>2, <1>3, ContinueDelivery

\* What was sent is gone from both tiers when its shard stops deleting.
LEMMA DeleteDelivery ==
  ASSUME TypeInv, TierInv, DeliveryInv, NEW s \in Shards, DeleteSecondary(s)
  PROVE  DeliveryInv'
<1>1. /\ pc[s] = "deleteSecondary" /\ pc[s] \in GroupLabels /\ TracesOK /\ LocalsOK
      /\ ListenerMoves(s) /\ UNCHANGED <<chan, data, forwarded, primary>>
      /\ secondary' = Without(secondary, id(s))
  BY DEF DeleteSecondary, At, GroupLabels, TypeInv, ListenerMoves, GroupStep, objectVars, outputVars
<1>2. pc[s] \notin putLabels /\ entries' \subseteq entries
  BY <1>1, NoNewEntries DEF putLabels
<1>3. \A o \in entries' : TraceOf[o] # id(s)
  <2>1. \A o \in ToSet(secondary') : TraceOf[o] # id(s)
    BY <1>1, WithoutProperties DEF TracesOK, TierInv, OnePerTrace
  <2>2. \A o \in ToSet(primary) : TraceOf[o] # id(s)
    BY <1>1 DEF TierInv, ShardInv, Learnt, NoEntry
  <2> QED
    BY <1>1, <2>1, <2>2 DEF entries
<1>4. \/ Goto(s, "putSampled") /\ KeepLocals /\ UNCHANGED stage /\ KindOf[current(s)] # "spans"
      \/ Goto(s, "sendCurrent") /\ KeepLocals /\ UNCHANGED stage
      \/ SetStage(current(s), "settled") /\ Continue(s)
  BY DEF DeleteSecondary
<1>5. ASSUME NEW label \in {"putSampled", "sendCurrent"}, Goto(s, label), KeepLocals, UNCHANGED stage,
             label = "putSampled" => KindOf[current(s)] # "spans"
      PROVE  DeliveryInv'
  <2>1. pc'[s] = label /\ UNCHANGED gtdArr /\ current(s)' = current(s)
    BY <1>1, <1>5 DEF Goto, LocalsOK, KeepLocals, current
  <2>2. HandInv(s)'
    BY <1>5, <2>1 DEF HandInv, aboutToSend, putLabels
  <2>3. label \in Labels
    BY DEF Labels
  <2> QED
    BY <1>1, <1>2, <1>3, <1>5, <2>1, <2>2, <2>3, GotoDelivery
<1>6. CASE SetStage(current(s), "settled") /\ Continue(s)
  BY <1>1, <1>2, <1>3, <1>6, ContinueDelivery
<1> QED
  BY <1>4, <1>5, <1>6

----------------------------------------------------------------------------
(* The queues of a shard *)

\* A step that only moves groups towards a listener hurts no tier and no hand.
LEMMA ArrivalDelivery ==
  ASSUME TypeInv, TierInv, DeliveryInv, NEW s \in Shards, Elsewhere(s),
         Still(s) \/ (pc[s] = "listen" /\ pc'[s] = "readLock"),
         UNCHANGED <<primary, secondary>>,
         \A u \in Shards \ {s} : chan'[u] = chan[u],
         \A b \in Batches : BatchStep(b),
         QueueInv(s)'
  PROVE  DeliveryInv'
<1>1. ShardDelivery(s) /\ entries' = entries
  BY DEF DeliveryInv, entries
<1>2. \A b \in ownBatches(s) : BatchInv(b)' /\ BatchStep(b)
  BY <1>1, BatchKept DEF ShardDelivery, ownBatches
<1>3. \A o \in entries' \cap ownBatches(s) : EntryInv(s, o)'
  <2>1. /\ pc[s] \in putLabels => pc'[s] \in putLabels /\ gtdArr'[s] = gtdArr[s]
        /\ pc[s] \in deleteLabels => pc'[s] \in deleteLabels /\ gtdArr'[s] = gtdArr[s]
    BY DEF Still, putLabels, deleteLabels
  <2> QED
    BY <1>1, <1>2, <2>1, EntriesKept
<1>4. HandInv(s)'
  <2>1. CASE Still(s)
    BY <1>1, <1>2, <2>1, HandKept
  <2>2. CASE pc'[s] = "readLock"
    BY <2>2 DEF HandInv, aboutToSend, putLabels
  <2> QED
    BY <2>1, <2>2
<1>5. ownBatches(s)' = ownBatches(s)
  BY DEF ownBatches
<1>6. ShardDelivery(s)'
  BY <1>2, <1>3, <1>4, <1>5 DEF ShardDelivery, entries
<1> QED
  BY <1>1, <1>6, OthersStay

\* A listener takes the oldest groups of its channel as they are.
LEMMA ReceiveDelivery ==
  ASSUME TypeInv, TierInv, DeliveryInv, NEW s \in Shards, Receive(s)
  PROVE  DeliveryInv'
<1>1. /\ chan \in [Shards -> Seq(Seq(Batches))] /\ LocalsOK
      /\ chan[s] \in Seq(Seq(Batches)) /\ chan[s] # <<>>
      /\ pc[s] = "listen"
      /\ gtdArr' = [gtdArr EXCEPT ![s] = Head(chan[s])]
      /\ chan' = [chan EXCEPT ![s] = Tail(chan[s])]
      /\ Goto(s, "readLock")
      /\ UNCHANGED <<stage, cachedData, primary, secondary, data, forwarded>>
  BY DEF Receive, At, TypeInv, InputOK, traceVars, objectVars, outputVars
<1>2. QueueInv(s)
  BY DEF DeliveryInv, ShardDelivery
<1>3. /\ gtdArr'[s] = chan[s][1] /\ 1 \in 1..Len(chan[s])
      /\ chan'[s] = Tail(chan[s])
      /\ pc'[s] = "readLock" /\ Elsewhere(s)
  BY <1>1 DEF Goto, Elsewhere, Still, LocalsOK
<1>4. \A n \in 1..Len(chan'[s]) :
        chan'[s][n] = chan[s][n + 1] /\ n + 1 \in 1..Len(chan[s]) /\ n + 1 # 1
  BY <1>1, <1>3, TailProperties
<1>5. QueueInv(s)'
  <2>1. \A i \in 1..Len(gtdArr'[s]) : stage'[gtdArr'[s][i]] = "queued"
    BY <1>1, <1>2, <1>3 DEF QueueInv
  <2>2. \A i, j \in 1..Len(gtdArr'[s]) : gtdArr'[s][i] = gtdArr'[s][j] => i = j
    BY <1>2, <1>3 DEF QueueInv
  <2>3. ASSUME NEW n \in 1..Len(chan'[s]), NEW i \in 1..Len(chan'[s][n])
        PROVE  /\ stage'[chan'[s][n][i]] = "queued"
               /\ \A j \in 1..Len(gtdArr'[s]) : chan'[s][n][i] # gtdArr'[s][j]
               /\ \A m \in 1..Len(chan'[s]) : \A j \in 1..Len(chan'[s][m]) :
                    chan'[s][n][i] = chan'[s][m][j] => n = m /\ i = j
    <3>1. /\ chan'[s][n] = chan[s][n + 1] /\ n + 1 \in 1..Len(chan[s]) /\ n + 1 # 1
          /\ i \in 1..Len(chan[s][n + 1])
      BY <1>4
    <3>2. /\ stage[chan[s][n + 1][i]] = "queued"
          /\ \A m \in 1..Len(chan[s]) : \A j \in 1..Len(chan[s][m]) :
               chan[s][n + 1][i] = chan[s][m][j] => n + 1 = m /\ i = j
      BY <1>2, <3>1 DEF QueueInv
    <3>3. \A j \in 1..Len(gtdArr'[s]) : chan'[s][n][i] # gtdArr'[s][j]
      BY <1>3, <3>1, <3>2
    <3>4. ASSUME NEW m \in 1..Len(chan'[s]), NEW j \in 1..Len(chan'[s][m]),
                 chan'[s][n][i] = chan'[s][m][j]
          PROVE  n = m /\ i = j
      <4>1. chan'[s][m] = chan[s][m + 1] /\ m + 1 \in 1..Len(chan[s])
        BY <1>4
      <4>2. n + 1 = m + 1 /\ i = j
        BY <3>1, <3>2, <3>4, <4>1
      <4> QED
        BY <4>2
    <3> QED
      BY <1>1, <3>1, <3>2, <3>3, <3>4
  <2> QED
    BY <2>1, <2>2, <2>3 DEF QueueInv
<1>6. \A b \in Batches : BatchStep(b)
  BY <1>1 DEF BatchStep
<1>7. \A u \in Shards \ {s} : chan'[u] = chan[u]
  BY <1>1
<1> QED
  BY <1>1, <1>3, <1>5, <1>6, <1>7, ArrivalDelivery

\* A call sends a group once, and it was in no queue.
LEMMA SendDelivery ==
  ASSUME TypeInv, TierInv, DeliveryInv, NEW r \in Requests, NEW s \in Shards, Send(r, s)
  PROVE  DeliveryInv'
<1> DEFINE G == shardGroup(r, s)
<1>1. /\ chan \in [Shards -> Seq(Seq(Batches))] /\ chan[s] \in Seq(Seq(Batches)) /\ LocalsOK
      /\ UNCHANGED <<cachedData, primary, secondary, data, forwarded>>
      /\ G \subseteq Batches /\ G # {}
      /\ \A b \in G : stage[b] = "kept"
      /\ \A b \in Batches : stage'[b] = IF b \in G THEN "queued" ELSE stage[b]
  BY DEF Send, ReadyToSend, shardGroup, batchesOf, TypeInv, InputOK, traceVars, objectVars, outputVars
<1>2. PICK arr \in SetToSeqs(G) :
        \/ chan' = [chan EXCEPT ![s] = Append(chan[s], arr)] /\ UNCHANGED <<pc, gtdArr>>
        \/ /\ pc[s] = "listen"
           /\ gtdArr' = [gtdArr EXCEPT ![s] = arr]
           /\ Goto(s, "readLock")
           /\ UNCHANGED chan
  BY DEF Send
<1> HIDE DEF G
<1>3. /\ arr \in Seq(Batches)
      /\ \A i \in 1..Len(arr) : arr[i] \in G
      /\ \A i, j \in 1..Len(arr) : arr[i] = arr[j] => i = j
  <2>1. arr \in Seq(Batches) /\ \A i \in 1..Len(arr) : arr[i] \in G
    BY <1>1, GroupArray
  <2>2. IsFiniteSet(G)
    BY <1>1, InputAssumption, FS_Subset
  <2>3. Cardinality(G) \in Nat
    BY <2>2, FS_CardinalityType
  <2>4. /\ arr \in [1..Cardinality(G) -> G]
        /\ \A i, j \in 1..Cardinality(G) : i # j => arr[i] # arr[j]
    BY DEF SetToSeqs
  <2>5. Len(arr) = Cardinality(G)
    BY <2>1, <2>3, <2>4
  <2> QED
    BY <2>1, <2>4, <2>5
<1>4. \A b \in Batches : BatchStep(b)
  BY <1>1 DEF BatchStep
<1>5. QueueInv(s)
  BY DEF DeliveryInv, ShardDelivery
<1>6. /\ \A i \in 1..Len(gtdArr[s]) : gtdArr[s][i] \notin G /\ stage'[gtdArr[s][i]] = "queued"
      /\ \A n \in 1..Len(chan[s]) : \A i \in 1..Len(chan[s][n]) :
           chan[s][n][i] \notin G /\ stage'[chan[s][n][i]] = "queued"
  <2>1. /\ \A i \in 1..Len(gtdArr[s]) : gtdArr[s][i] \in Batches
        /\ \A n \in 1..Len(chan[s]) : \A i \in 1..Len(chan[s][n]) : chan[s][n][i] \in Batches
    BY OwnQueue DEF ownBatches
  <2>2. \A b \in Batches : stage[b] = "queued" => b \notin G /\ stage'[b] = "queued"
    BY <1>1
  <2>3. /\ \A i \in 1..Len(gtdArr[s]) : stage[gtdArr[s][i]] = "queued"
        /\ \A n \in 1..Len(chan[s]) : \A i \in 1..Len(chan[s][n]) : stage[chan[s][n][i]] = "queued"
    BY <1>5 DEF QueueInv
  <2> QED
    BY <2>1, <2>2, <2>3
<1>7. \A i \in 1..Len(arr) : stage'[arr[i]] = "queued"
  BY <1>1, <1>3
<1>8. CASE chan' = [chan EXCEPT ![s] = Append(chan[s], arr)] /\ UNCHANGED <<pc, gtdArr>>
  <2>1. /\ chan'[s] = Append(chan[s], arr) /\ \A u \in Shards \ {s} : chan'[u] = chan[u]
        /\ Still(s) /\ Elsewhere(s)
    BY <1>1, <1>8 DEF Still, Elsewhere
  <2>2. \A n \in 1..Len(chan'[s]) :
          \/ n \in 1..Len(chan[s]) /\ chan'[s][n] = chan[s][n]
          \/ n = Len(chan[s]) + 1 /\ chan'[s][n] = arr
    BY <1>1, <1>3, <2>1
  <2>3. ASSUME NEW n \in 1..Len(chan'[s]), NEW i \in 1..Len(chan'[s][n])
        PROVE  /\ stage'[chan'[s][n][i]] = "queued"
               /\ \A j \in 1..Len(gtdArr[s]) : chan'[s][n][i] # gtdArr[s][j]
               /\ \A m \in 1..Len(chan'[s]) : \A j \in 1..Len(chan'[s][m]) :
                    chan'[s][n][i] = chan'[s][m][j] => n = m /\ i = j
    <3>1. CASE n \in 1..Len(chan[s]) /\ chan'[s][n] = chan[s][n]
      <4>1. i \in 1..Len(chan[s][n])
        BY <3>1
      <4>2. /\ stage'[chan[s][n][i]] = "queued" /\ chan[s][n][i] \notin G
            /\ \A j \in 1..Len(gtdArr[s]) : chan[s][n][i] # gtdArr[s][j]
            /\ \A m \in 1..Len(chan[s]) : \A j \in 1..Len(chan[s][m]) :
                 chan[s][n][i] = chan[s][m][j] => n = m /\ i = j
        <5>1. stage'[chan[s][n][i]] = "queued" /\ chan[s][n][i] \notin G
          BY <1>6, <3>1, <4>1
        <5> QED
          BY <1>5, <3>1, <4>1, <5>1 DEF QueueInv
      <4>3. ASSUME NEW m \in 1..Len(chan'[s]), NEW j \in 1..Len(chan'[s][m]),
                   chan'[s][n][i] = chan'[s][m][j]
            PROVE  n = m /\ i = j
        <5>1. m \in 1..Len(chan[s]) /\ chan'[s][m] = chan[s][m]
          BY <1>3, <2>2, <3>1, <4>2, <4>3
        <5> QED
          BY <3>1, <4>2, <4>3, <5>1
      <4> QED
        BY <3>1, <4>2, <4>3
    <3>2. CASE n = Len(chan[s]) + 1 /\ chan'[s][n] = arr
      <4>1. i \in 1..Len(arr) /\ arr[i] \in G /\ stage'[arr[i]] = "queued"
        BY <1>3, <1>7, <3>2
      <4>2. ASSUME NEW m \in 1..Len(chan'[s]), NEW j \in 1..Len(chan'[s][m]),
                   chan'[s][n][i] = chan'[s][m][j]
            PROVE  n = m /\ i = j
        <5>1. ~(m \in 1..Len(chan[s]) /\ chan'[s][m] = chan[s][m])
          BY <1>6, <3>2, <4>1, <4>2
        <5>2. m = Len(chan[s]) + 1 /\ chan'[s][m] = arr
          BY <2>2, <5>1
        <5> QED
          BY <1>3, <3>2, <4>1, <4>2, <5>2
      <4> QED
        BY <1>6, <3>2, <4>1, <4>2
    <3> QED
      BY <2>2, <3>1, <3>2
  <2>4. QueueInv(s)'
    BY <1>5, <1>6, <1>8, <2>3 DEF QueueInv
  <2> QED
    BY <1>1, <1>4, <2>1, <2>4, ArrivalDelivery
<1>9. CASE /\ pc[s] = "listen"
           /\ gtdArr' = [gtdArr EXCEPT ![s] = arr]
           /\ Goto(s, "readLock")
           /\ UNCHANGED chan
  <2>1. gtdArr'[s] = arr /\ pc'[s] = "readLock" /\ Elsewhere(s)
    BY <1>1, <1>9 DEF Goto, Elsewhere, Still, LocalsOK
  <2>2. \A n \in 1..Len(chan[s]) : \A i \in 1..Len(chan[s][n]) :
          \A j \in 1..Len(arr) : chan[s][n][i] # arr[j]
    BY <1>3, <1>6
  <2>3. QueueInv(s)'
    BY <1>3, <1>5, <1>6, <1>7, <1>9, <2>1, <2>2 DEF QueueInv
  <2> QED
    BY <1>1, <1>4, <1>9, <2>1, <2>3, ArrivalDelivery
<1> QED
  BY <1>2, <1>8, <1>9

----------------------------------------------------------------------------
(* DeliveryInv is inductive *)

\* An empty processor satisfies it.
LEMMA DeliveryInit == Init => DeliveryInv
<1> SUFFICES ASSUME Init, NEW s \in Shards PROVE ShardDelivery(s)
  BY DEF DeliveryInv
<1>1. \A b \in ownBatches(s) : BatchInv(b)
  BY DEF Init, BatchInv, ownBatches
<1>2. QueueInv(s)
  BY DEF Init, QueueInv
<1>3. entries = {}
  BY DEF Init, ToSet, entries
<1>4. HandInv(s)
  BY DEF Init, HandInv, aboutToSend, putLabels
<1> QED
  BY <1>1, <1>2, <1>3, <1>4 DEF ShardDelivery, entries

\* Before its queue and after it, a batch goes its own way.
LEMMA OutsideDelivery ==
  ASSUME TypeInv, TierInv, DeliveryInv,
         \/ \E r \in Requests : ConsumeTraces(r)
         \/ \E b \in Batches : EarlyStep(b) \/ AsyncSend(b)
         \/ \E r \in Requests, s \in Shards : ContextCancelled(r, s)
         \/ \E s \in Shards : CallbackStep(s)
         \/ UNCHANGED vars
  PROVE  DeliveryInv'
<1>1. stage \in [Batches -> Stages] /\ forwarded \in [Batches -> Nat]
  BY DEF TypeInv, InputOK, OutputsOK
<1>2. UNCHANGED <<localVars, traceVars, objectVars, chan>>
  BY OutsideFrame DEF vars, inputVars
<1>3. ASSUME NEW c \in Batches, Forward({c})
      PROVE  \A b \in Batches : forwarded'[b] = IF b = c THEN forwarded[b] + 1 ELSE forwarded[b]
  <2> SUFFICES ASSUME NEW b \in Batches
               PROVE  forwarded'[b] = IF b = c THEN forwarded[b] + 1 ELSE forwarded[b]
    OBVIOUS
  <2>1. forwarded'[b] = forwarded[b] + (IF b \in {c} THEN 1 ELSE 0) /\ forwarded[b] \in Nat
    BY <1>1, <1>3 DEF Forward
  <2> QED
    BY <2>1
<1>4. \A b \in Batches : BatchStep(b)
  <2>0. data' = data
    BY <1>2 DEF objectVars
  <2>1. ASSUME NEW r \in Requests, ConsumeTraces(r) PROVE \A b \in Batches : BatchStep(b)
    BY <1>1, <2>0, <2>1 DEF ConsumeTraces, batchesOf, BatchStep, outputVars
  <2>2. ASSUME NEW c \in Batches, EarlySkip(c) \/ EarlyCheckNonSampled(c)
        PROVE  \A b \in Batches : BatchStep(b)
    BY <1>1, <2>0, <2>2 DEF EarlySkip, EarlyCheckNonSampled, SetStage, BatchStep, outputVars
  <2>3. ASSUME NEW c \in Batches, EarlyCheckSampled(c) \/ AsyncSend(c)
        PROVE  \A b \in Batches : BatchStep(b)
    <3>1. /\ stage[c] \in {"early", "async"}
          /\ \/ Forward({c}) /\ SetStage(c, "settled")
             \/ SetStage(c, "earlyMiss") /\ UNCHANGED forwarded
      BY <2>3 DEF EarlyCheckSampled, AsyncSend
    <3> QED
      BY <1>1, <1>3, <2>0, <3>1 DEF SetStage, BatchStep
  <2>4. ASSUME NEW r \in Requests, NEW s \in Shards, ContextCancelled(r, s)
        PROVE  \A b \in Batches : BatchStep(b)
    BY <1>1, <2>0, <2>4 DEF ContextCancelled, shardGroup, batchesOf, BatchStep, outputVars
  <2>5. ASSUME NEW s \in Shards, CallbackStep(s) PROVE UNCHANGED <<stage, forwarded>>
    BY <2>5 DEF CallbackStep, CallbackPriority, CallbackCheckSampled, CallbackCheckNonSampled,
       CallbackRecord, inputVars, outputVars
  <2>6. UNCHANGED vars => UNCHANGED <<stage, forwarded>>
    BY DEF vars, inputVars, outputVars
  <2>7. UNCHANGED <<stage, forwarded>> => \A b \in Batches : BatchStep(b)
    BY <2>0 DEF BatchStep
  <2> QED
    BY <2>1, <2>2, <2>3, <2>4, <2>5, <2>6, <2>7 DEF EarlyStep
<1>5. \A s \in Shards : Still(s) /\ chan'[s] = chan[s]
  BY <1>2 DEF Still, localVars
<1>6. entries' = entries
  BY <1>2 DEF entries, traceVars
<1>7. \A s \in Shards : ownBatches(s) \subseteq Batches
  BY DEF ownBatches
<1> QED
  BY <1>4, <1>5, <1>6, <1>7, ShardStays DEF DeliveryInv

\* DeliveryInv is kept by every step.
LEMMA DeliveryNext == TypeInv /\ TierInv /\ DeliveryInv /\ [Next]_vars => DeliveryInv'
<1> SUFFICES ASSUME TypeInv, TierInv, DeliveryInv, [Next]_vars PROVE DeliveryInv'
  OBVIOUS
<1>1. ASSUME NEW s \in Shards,
             PutSampled(s) \/ PutNonSampled(s) \/ DeletePrimary(s) \/ PutDelete(s)
      PROVE  DeliveryInv'
  <2>1. CASE PutSampled(s) /\ KindOf[current(s)] # "spans"
    BY <2>1, LastDelivery
  <2>2. CASE ~(PutSampled(s) /\ KindOf[current(s)] # "spans")
    <3>1. UNCHANGED <<chan, gtdArr, stage, forwarded, data, cachedData>>
      BY <1>1, <2>2 DEF PutSampled, PutNonSampled, DeletePrimary, PutDelete, KeepLocals,
         inputVars, objectVars, outputVars
    <3>2. ListenerMoves(s)
      BY <1>1 DEF ListenerMoves, GroupStep
    <3> QED
      BY <1>1, <2>2, <3>1, <3>2, ReleaseDelivery
  <2> QED
    BY <2>1, <2>2
<1>2. ASSUME NEW s \in Shards, Decide(s) PROVE DeliveryInv'
  <2>1. /\ pc[s] = "decide" /\ ListenerMoves(s)
        /\ UNCHANGED <<chan, gtdArr, stage, forwarded, cachedData, primary, secondary>>
    BY <1>2 DEF Decide, At, ListenerMoves, GroupStep, inputVars, traceVars, outputVars
  <2>2. PICK d \in Decisions :
          \/ Goto(s, "putSampled") /\ UNCHANGED data
          \/ Goto(s, "putNonSampled") /\ UNCHANGED data
          \/ Absorb(s, d) /\ Goto(s, "putDelete")
    BY <1>2 DEF Decide, objectVars
  <2> QED
    BY <2>1, <2>2, AbsorbDelivery, ReleaseDelivery
<1>3. ASSUME NEW s \in Shards, GroupStep(s) PROVE DeliveryInv'
  <2>1. PutSampled(s) \/ SendCurrent(s) \/ PutInsert(s) => DeliveryInv'
    BY <1>1, LastDelivery
  <2> QED
    BY <1>1, <1>2, <1>3, <2>1, CheckDelivery, GetDelivery, SendCachedDelivery, DeleteDelivery
       DEF GroupStep
<1>4. ASSUME NEW s \in Shards, Tick(s) \/ Receive(s) \/ LockStep(s) PROVE DeliveryInv'
  BY <1>4, ReceiveDelivery, LockDelivery
<1> QED
  BY <1>3, <1>4, OutsideDelivery, SendDelivery DEF Next, ListenerStep, Quiet

\* The spans of a batch reach the next consumer at most once, for any number of
\* shards, whichever of the early check, the async send, the release of cached
\* data and the send of the current trace calls sendSampledTraceData with them,
\* and whatever was evicted in between.
THEOREM SpansAreSentOnce == Spec => []ForwardedAtMostOnce
<1>1. TypeInv /\ TierInv /\ DeliveryInv /\ [Next]_vars => DeliveryInv'
  BY DeliveryNext
<1>2. DeliveryInv => ForwardedAtMostOnce
  <2> SUFFICES ASSUME DeliveryInv, NEW b \in Batches PROVE forwarded[b] <= 1
    BY DEF ForwardedAtMostOnce
  <2>1. ShardOf[TraceOf[b]] \in Shards
    BY InputAssumption
  <2> QED
    BY <2>1 DEF DeliveryInv, ShardDelivery, BatchInv, ownBatches
<1> QED
  BY TypeInvariant, TierInvariant, DeliveryInit, <1>1, <1>2, PTL DEF Spec
=============================================================================
