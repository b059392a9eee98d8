----------------------------- MODULE LRUProofs -----------------------------
(***************************************************************************)
(* What the operations of LRU keep of a cache: its entries, its length,    *)
(* and that no two entries have the same key.                              *)
(***************************************************************************)
EXTENDS LRU, TLAPS, SequenceTheorems, WellFoundedInduction

\* No two positions of q hold entries with the same key, for the key map K.
UniqueKeys(q, K) ==
  \A i, j \in 1..Len(q) : K[q[i]] = K[q[j]] => i = j

\* The entries of a sequence are what it holds at its positions.
LEMMA ToSetDef ==
  ASSUME NEW S, NEW q \in Seq(S)
  PROVE  /\ ToSet(q) \subseteq S
         /\ \A i \in 1..Len(q) : q[i] \in ToSet(q)
         /\ \A x \in ToSet(q) : \E i \in 1..Len(q) : q[i] = x
  BY DEF ToSet

\* A sequence of one entry.
LEMMA OneEntry == ASSUME NEW e PROVE ToSet(<<e>>) = {e}
<1>1. Len(<<e>>) = 1 /\ <<e>>[1] = e /\ DOMAIN <<e>> = 1..1
  OBVIOUS
<1> QED
  BY <1>1 DEF ToSet

\* RemoveFirst takes out exactly one position, that of the entry named.
LEMMA RemoveFirstHit ==
  ASSUME NEW S, NEW q \in Seq(S), NEW e \in ToSet(q)
  PROVE  /\ RemoveFirst(q, e) \in Seq(S)
         /\ Len(RemoveFirst(q, e)) = Len(q) - 1
         /\ \E k \in 1..Len(q) :
              /\ q[k] = e
              /\ \A i \in 1..(Len(q) - 1) :
                   RemoveFirst(q, e)[i] = IF i < k THEN q[i] ELSE q[i + 1]
<1> DEFINE I == {i \in 1..Len(q) : q[i] = e}
           k == Min(I)
<1>1. \E i \in 1..Len(q) : q[i] = e
  BY ToSetDef
<1>2. k \in I
  <2>1. I \in SUBSET Nat /\ I # {}
    BY <1>1
  <2>2. \E n \in I : \A m \in I : ~ (<<m, n>> \in OpToRel(<, Nat))
    BY <2>1, WFMin, NatLessThanWellFounded
  <2>3. \A n, m \in Nat : m < n => <<m, n>> \in OpToRel(<, Nat)
    BY DEF OpToRel
  <2>4. \E n \in I : \A m \in I : n =< m
    <3>1. PICK n \in I : \A m \in I : ~ (<<m, n>> \in OpToRel(<, Nat))
      BY <2>2
    <3>2. \A m \in I : ~(m < n)
      BY <3>1, <2>1, <2>3
    <3> QED
      BY <3>2, <2>1
  <2> QED
    BY <2>4 DEF Min
<1>3. RemoveFirst(q, e) = SubSeq(q, 1, k - 1) \o SubSeq(q, k + 1, Len(q))
  BY <1>1 DEF RemoveFirst, SelectInSeq, RemoveAt
<1> HIDE DEF k
<1>4. k \in 1..Len(q) /\ q[k] = e /\ Len(q) \in Nat
  BY <1>2
<1>5. /\ SubSeq(q, 1, k - 1) \in Seq(S)
      /\ Len(SubSeq(q, 1, k - 1)) = k - 1
      /\ \A i \in 1..(k - 1) : SubSeq(q, 1, k - 1)[i] = q[i]
  BY <1>4
<1>6. /\ SubSeq(q, k + 1, Len(q)) \in Seq(S)
      /\ Len(SubSeq(q, k + 1, Len(q))) = Len(q) - k
      /\ \A i \in 1..(Len(q) - k) : SubSeq(q, k + 1, Len(q))[i] = q[k + i]
  BY <1>4
<1> DEFINE A == SubSeq(q, 1, k - 1)
           B == SubSeq(q, k + 1, Len(q))
<1>7. /\ A \o B \in Seq(S)
      /\ Len(A \o B) = Len(A) + Len(B)
      /\ \A i \in 1..(Len(A) + Len(B)) :
           (A \o B)[i] = IF i <= Len(A) THEN A[i] ELSE B[i - Len(A)]
  BY <1>5, <1>6, ConcatProperties
<1>8. A \in Seq(S) /\ Len(A) = k - 1 /\ (\A i \in 1..(k - 1) : A[i] = q[i])
  BY <1>5
<1>9. B \in Seq(S) /\ Len(B) = Len(q) - k /\ (\A i \in 1..(Len(q) - k) : B[i] = q[k + i])
  BY <1>6
<1>10. RemoveFirst(q, e) = A \o B
  BY <1>3
<1> HIDE DEF A, B
<1>11. /\ RemoveFirst(q, e) \in Seq(S)
       /\ Len(RemoveFirst(q, e)) = Len(q) - 1
  <2>1. (k - 1) + (Len(q) - k) = Len(q) - 1
    BY <1>4
  <2>2. Len(A \o B) = Len(q) - 1
    BY <1>7, <1>8, <1>9, <2>1
  <2> QED
    BY <1>7, <1>10, <2>2, Zenon
<1>12. ASSUME NEW i \in 1..(Len(q) - 1)
       PROVE  RemoveFirst(q, e)[i] = IF i < k THEN q[i] ELSE q[i + 1]
  <2>1. (A \o B)[i] = IF i <= k - 1 THEN A[i] ELSE B[i - (k - 1)]
    BY <1>4, <1>7, <1>8, <1>9
  <2>2. CASE i < k
    BY <2>1, <2>2, <1>4, <1>8, <1>10
  <2>3. CASE ~(i < k)
    <3>1. i - (k - 1) \in 1..(Len(q) - k) /\ k + (i - (k - 1)) = i + 1
      BY <2>3, <1>4
    <3>2. (A \o B)[i] = B[i - (k - 1)]
      BY <2>1, <2>3, <1>4
    <3>3. B[i - (k - 1)] = q[i + 1]
      BY <3>1, <1>9
    <3> QED
      BY <2>3, <3>2, <3>3, <1>10, Zenon
  <2> QED
    BY <2>2, <2>3
<1> QED
  BY <1>4, <1>11, <1>12

\* An entry that is not there leaves the cache as it is.
LEMMA RemoveFirstMiss ==
  ASSUME NEW S, NEW q \in Seq(S), NEW e, e \notin ToSet(q)
  PROVE  RemoveFirst(q, e) = q
<1>1. ~ \E i \in 1..Len(q) : q[i] = e
  BY ToSetDef
<1> QED
  BY <1>1 DEF RemoveFirst

\* Removal loses no other entry, adds none, and keeps keys unique; with unique
\* keys the entry is gone, and so is its key.
LEMMA RemoveFirstProperties ==
  ASSUME NEW S, NEW q \in Seq(S), NEW e
  PROVE  /\ RemoveFirst(q, e) \in Seq(S)
         /\ Len(RemoveFirst(q, e)) = IF e \in ToSet(q) THEN Len(q) - 1 ELSE Len(q)
         /\ ToSet(RemoveFirst(q, e)) \subseteq ToSet(q)
         /\ \A x \in ToSet(q) : x # e => x \in ToSet(RemoveFirst(q, e))
         /\ \A K : UniqueKeys(q, K) =>
              /\ UniqueKeys(RemoveFirst(q, e), K)
              /\ e \in ToSet(q) => \A x \in ToSet(RemoveFirst(q, e)) : K[x] # K[e]
<1>1. CASE e \notin ToSet(q)
  BY <1>1, RemoveFirstMiss
<1>2. CASE e \in ToSet(q)
  <2> DEFINE r == RemoveFirst(q, e)
  <2>1. r \in Seq(S) /\ Len(r) = Len(q) - 1 /\ Len(q) \in Nat
    BY <1>2, RemoveFirstHit
  <2>2. PICK k \in 1..Len(q) :
          /\ q[k] = e
          /\ \A i \in 1..(Len(q) - 1) : r[i] = IF i < k THEN q[i] ELSE q[i + 1]
    BY <1>2, RemoveFirstHit
  <2> HIDE DEF r
  <2>3. \A x \in ToSet(r) : \E i \in 1..Len(q) : i # k /\ q[i] = x
    <3> TAKE x \in ToSet(r)
    <3>1. PICK i \in 1..Len(r) : r[i] = x
      BY <2>1, ToSetDef
    <3>2. CASE i < k
      BY <2>1, <2>2, <3>1, <3>2
    <3>3. CASE ~(i < k)
      <4>1. i + 1 \in 1..Len(q) /\ i + 1 # k
        BY <2>1, <3>3
      <4> QED
        BY <2>1, <2>2, <3>1, <3>3, <4>1
    <3> QED
      BY <3>2, <3>3
  <2>4. ASSUME NEW x \in ToSet(q), x # e
        PROVE  x \in ToSet(r)
    <3>1. PICK i \in 1..Len(q) : q[i] = x
      BY ToSetDef
    <3>2. CASE i < k
      <4>1. i \in 1..Len(r) /\ r[i] = x
        BY <2>1, <2>2, <3>1, <3>2
      <4> QED
        BY <4>1, <2>1, ToSetDef
    <3>3. CASE i > k
      <4>1. i - 1 \in 1..Len(r) /\ r[i - 1] = x
        BY <2>1, <2>2, <3>1, <3>3
      <4> QED
        BY <4>1, <2>1, ToSetDef
    <3> QED
      BY <2>2, <2>4, <3>1, <3>2, <3>3
  <2>5. ASSUME NEW K, UniqueKeys(q, K)
        PROVE  /\ UniqueKeys(r, K)
               /\ \A x \in ToSet(r) : K[x] # K[e]
    <3>1. UniqueKeys(r, K)
      BY <2>1, <2>2, <2>5 DEF UniqueKeys
    <3>2. \A x \in ToSet(r) : K[x] # K[e]
      BY <2>2, <2>3, <2>5 DEF UniqueKeys
    <3> QED
      BY <3>1, <3>2
  <2>6. ToSet(r) \subseteq ToSet(q)
    BY <2>3, ToSetDef
  <2> QED
    BY <1>2, <2>1, <2>4, <2>5, <2>6 DEF r
<1> QED
  BY <1>1, <1>2

\* Append adds its argument and nothing else.
LEMMA AppendEntries ==
  ASSUME NEW S, NEW q \in Seq(S), NEW e \in S
  PROVE  /\ Append(q, e) \in Seq(S)
         /\ Len(Append(q, e)) = Len(q) + 1
         /\ ToSet(Append(q, e)) = ToSet(q) \cup {e}
         /\ \A K : UniqueKeys(q, K) /\ (\A x \in ToSet(q) : K[x] # K[e])
                    => UniqueKeys(Append(q, e), K)
<1> DEFINE r == Append(q, e)
<1>1. /\ r \in Seq(S) /\ Len(r) = Len(q) + 1 /\ Len(q) \in Nat
      /\ \A i \in 1..Len(q) : r[i] = q[i]
      /\ r[Len(q) + 1] = e
  BY AppendProperties
<1> HIDE DEF r
<1>2. ASSUME NEW x \in ToSet(r) PROVE x \in ToSet(q) \cup {e}
  <2>1. PICK i \in 1..Len(r) : r[i] = x
    BY <1>1, ToSetDef
  <2>2. i \in 1..Len(q) \/ i = Len(q) + 1
    BY <1>1
  <2> QED
    BY <1>1, <2>1, <2>2, ToSetDef
<1>3. ASSUME NEW x \in ToSet(q) \cup {e} PROVE x \in ToSet(r)
  <2>1. CASE x = e
    BY <1>1, <2>1, ToSetDef
  <2>2. CASE x \in ToSet(q)
    <3>1. PICK i \in 1..Len(q) : q[i] = x
      BY <2>2, ToSetDef
    <3>2. i \in 1..Len(r) /\ r[i] = x
      BY <1>1, <3>1
    <3> QED
      BY <1>1, <3>2, ToSetDef
  <2> QED
    BY <2>1, <2>2
<1>4. ASSUME NEW K, UniqueKeys(q, K), \A x \in ToSet(q) : K[x] # K[e]
      PROVE  UniqueKeys(r, K)
  <2>1. \A i \in 1..Len(q) : K[q[i]] # K[e]
    BY <1>4, ToSetDef
  <2> QED
    BY <1>1, <1>4, <2>1 DEF UniqueKeys
<1> QED
  BY <1>1, <1>2, <1>3, <1>4 DEF r

\* Refresh keeps every entry, has e among them, and grows only by a new e.
LEMMA RefreshEntries ==
  ASSUME NEW S, NEW q \in Seq(S), NEW e \in S
  PROVE  /\ Refresh(q, e) \in Seq(S)
         /\ Len(Refresh(q, e)) = IF e \in ToSet(q) THEN Len(q) ELSE Len(q) + 1
         /\ ToSet(Refresh(q, e)) = ToSet(q) \cup {e}
         /\ \A K : UniqueKeys(q, K) /\ e \in ToSet(q) => UniqueKeys(Refresh(q, e), K)
<1> DEFINE r == RemoveFirst(q, e)
<1>1. /\ r \in Seq(S)
      /\ Len(r) = IF e \in ToSet(q) THEN Len(q) - 1 ELSE Len(q)
      /\ ToSet(r) \subseteq ToSet(q)
      /\ \A x \in ToSet(q) : x # e => x \in ToSet(r)
      /\ \A K : UniqueKeys(q, K) =>
           /\ UniqueKeys(r, K)
           /\ e \in ToSet(q) => \A x \in ToSet(r) : K[x] # K[e]
  BY RemoveFirstProperties
<1>2. Refresh(q, e) = Append(r, e)
  BY DEF Refresh
<1> HIDE DEF r
<1>3. /\ Append(r, e) \in Seq(S)
      /\ Len(Append(r, e)) = Len(r) + 1
      /\ ToSet(Append(r, e)) = ToSet(r) \cup {e}
      /\ \A K : UniqueKeys(r, K) /\ (\A x \in ToSet(r) : K[x] # K[e])
                 => UniqueKeys(Append(r, e), K)
  BY <1>1, AppendEntries
<1>4. ToSet(r) \cup {e} = ToSet(q) \cup {e}
  BY <1>1
<1>5. Len(r) + 1 = IF e \in ToSet(q) THEN Len(q) ELSE Len(q) + 1
  BY <1>1
<1>6. Len(Refresh(q, e)) = IF e \in ToSet(q) THEN Len(q) ELSE Len(q) + 1
  BY <1>2, <1>3, <1>5, Zenon
<1>7. \A K : UniqueKeys(q, K) /\ e \in ToSet(q) => UniqueKeys(Refresh(q, e), K)
  BY <1>1, <1>2, <1>3, Zenon
<1>8. Refresh(q, e) \in Seq(S) /\ ToSet(Refresh(q, e)) = ToSet(q) \cup {e}
  BY <1>2, <1>3, <1>4, Zenon
<1> QED
  BY <1>6, <1>7, <1>8

\* A contiguous part of a cache has its entries and unique keys.
LEMMA SubSeqEntries ==
  ASSUME NEW S, NEW q \in Seq(S), NEW m \in 1..(Len(q) + 1), NEW n \in 0..Len(q)
  PROVE  /\ SubSeq(q, m, n) \in Seq(S)
         /\ Len(SubSeq(q, m, n)) = IF m <= n THEN n - m + 1 ELSE 0
         /\ ToSet(SubSeq(q, m, n)) \subseteq ToSet(q)
         /\ \A K : UniqueKeys(q, K) => UniqueKeys(SubSeq(q, m, n), K)
<1> DEFINE r == SubSeq(q, m, n)
<1>1. /\ r \in Seq(S) /\ Len(q) \in Nat
      /\ Len(r) = IF m <= n THEN n - m + 1 ELSE 0
      /\ \A i \in 1..Len(r) : r[i] = q[m + i - 1]
  OBVIOUS
<1> HIDE DEF r
<1>2. \A i \in 1..Len(r) : m + i - 1 \in 1..Len(q)
  BY <1>1
<1>3. ASSUME NEW x \in ToSet(r) PROVE x \in ToSet(q)
  <2>1. PICK i \in 1..Len(r) : r[i] = x
    BY <1>1, ToSetDef
  <2>2. q[m + i - 1] = x /\ m + i - 1 \in 1..Len(q)
    BY <1>1, <1>2, <2>1
  <2> QED
    BY <2>2, ToSetDef
<1>4. ASSUME NEW K, UniqueKeys(q, K) PROVE UniqueKeys(r, K)
  <2>1. ASSUME NEW i \in 1..Len(r), NEW j \in 1..Len(r), K[r[i]] = K[r[j]]
        PROVE  i = j
    <3>1. K[q[m + i - 1]] = K[q[m + j - 1]]
      BY <1>1, <2>1
    <3>2. m + i - 1 = m + j - 1
      BY <1>2, <1>4, <3>1 DEF UniqueKeys
    <3> QED
      BY <3>2, <1>1
  <2> QED
    BY <2>1 DEF UniqueKeys
<1> QED
  BY <1>1, <1>3, <1>4 DEF r

\* What capacity leaves in a cache fits it and was there; so was what it takes.
LEMMA TrimEntries ==
  ASSUME NEW S, NEW q \in Seq(S), NEW cap \in Nat
  PROVE  /\ Trim(q, cap) \in Seq(S)
         /\ Len(Trim(q, cap)) <= cap
         /\ ToSet(Trim(q, cap)) \subseteq ToSet(q)
         /\ \A K : UniqueKeys(q, K) => UniqueKeys(Trim(q, cap), K)
         /\ Spill(q, cap) \in Seq(S)
         /\ ToSet(Spill(q, cap)) \subseteq ToSet(q)
<1> DEFINE x == Excess(q, cap)
<1>1. /\ x \in 0..Len(q) /\ Len(q) - x <= cap /\ Len(q) \in Nat
  BY DEF Excess
<1>2. Trim(q, cap) = SubSeq(q, x + 1, Len(q)) /\ Spill(q, cap) = SubSeq(q, 1, x)
  BY DEF Trim, Spill
<1> HIDE DEF x
<1>3. x + 1 \in 1..(Len(q) + 1) /\ Len(q) \in 0..Len(q) /\ 1 \in 1..(Len(q) + 1)
  BY <1>1
<1>4. /\ SubSeq(q, x + 1, Len(q)) \in Seq(S)
      /\ Len(SubSeq(q, x + 1, Len(q))) =
           IF x + 1 <= Len(q) THEN Len(q) - (x + 1) + 1 ELSE 0
      /\ ToSet(SubSeq(q, x + 1, Len(q))) \subseteq ToSet(q)
      /\ \A K : UniqueKeys(q, K) => UniqueKeys(SubSeq(q, x + 1, Len(q)), K)
  BY <1>3, SubSeqEntries
<1>5. /\ SubSeq(q, 1, x) \in Seq(S)
      /\ ToSet(SubSeq(q, 1, x)) \subseteq ToSet(q)
  BY <1>1, <1>3, SubSeqEntries
<1>6. (IF x + 1 <= Len(q) THEN Len(q) - (x + 1) + 1 ELSE 0) <= cap
  BY <1>1
<1>7. Len(Trim(q, cap)) <= cap
  BY <1>2, <1>4, <1>6, Zenon
<1> QED
  BY <1>2, <1>4, <1>5, <1>7, Zenon

\* A Put that replaces the entry of its key keeps keys unique.
LEMMA InsertEntries ==
  ASSUME NEW S, NEW q \in Seq(S), NEW e \in S, NEW old
  PROVE  /\ Insert(q, old, e) \in Seq(S)
         /\ ToSet(Insert(q, old, e)) \subseteq ToSet(q) \cup {e}
         /\ \A K : /\ UniqueKeys(q, K)
                   /\ (\E x \in ToSet(q) : K[x] = K[e]) => old \in ToSet(q) /\ K[old] = K[e]
                   => UniqueKeys(Insert(q, old, e), K)
<1> DEFINE r == RemoveFirst(q, old)
<1>1. /\ r \in Seq(S)
      /\ ToSet(r) \subseteq ToSet(q)
      /\ \A K : UniqueKeys(q, K) =>
           /\ UniqueKeys(r, K)
           /\ old \in ToSet(q) => \A x \in ToSet(r) : K[x] # K[old]
  BY RemoveFirstProperties
<1>2. Insert(q, old, e) = Append(r, e)
  BY DEF Insert
<1> HIDE DEF r
<1>3. /\ Append(r, e) \in Seq(S)
      /\ ToSet(Append(r, e)) = ToSet(r) \cup {e}
      /\ \A K : UniqueKeys(r, K) /\ (\A x \in ToSet(r) : K[x] # K[e])
                 => UniqueKeys(Append(r, e), K)
  BY <1>1, AppendEntries
<1>4. ASSUME NEW K, UniqueKeys(q, K),
             (\E x \in ToSet(q) : K[x] = K[e]) => old \in ToSet(q) /\ K[old] = K[e]
      PROVE  UniqueKeys(Append(r, e), K)
  <2>1. \A x \in ToSet(r) : K[x] # K[e]
    BY <1>1, <1>4, Zenon
  <2> QED
    BY <1>1, <1>3, <1>4, <2>1, Zenon
<1>5. ToSet(Append(r, e)) \subseteq ToSet(q) \cup {e}
  BY <1>1, <1>3
<1>6. Insert(q, old, e) \in Seq(S) /\ ToSet(Insert(q, old, e)) \subseteq ToSet(q) \cup {e}
  BY <1>2, <1>3, <1>5, Zenon
<1> QED
  BY <1>2, <1>4, <1>6, Zenon

\* The two parts the capacity cuts a cache into are all of it, and the newest
\* entry stays unless there is no room at all.
LEMMA TrimOrSpill ==
  ASSUME NEW S, NEW q \in Seq(S), NEW cap \in Nat
  PROVE  /\ \A x \in ToSet(q) : x \in ToSet(Trim(q, cap)) \cup ToSet(Spill(q, cap))
         /\ q # <<>> /\ cap # 0 => q[Len(q)] \in ToSet(Trim(q, cap))
<1> DEFINE n == Excess(q, cap)
           t == Trim(q, cap)
           p == Spill(q, cap)
<1>1. n \in 0..Len(q) /\ (q # <<>> /\ cap # 0 => n < Len(q))
  BY DEF Excess
<1>2. t \in Seq(S) /\ Len(t) = Len(q) - n /\ \A i \in 1..(Len(q) - n) : t[i] = q[i + n]
  BY <1>1 DEF Trim
<1>3. p \in Seq(S) /\ Len(p) = n /\ \A i \in 1..n : p[i] = q[i]
  BY <1>1 DEF Spill
<1> HIDE DEF n, t, p
<1>4. ASSUME NEW i \in 1..Len(q), i > n PROVE q[i] \in ToSet(t)
  <2>1. i - n \in 1..Len(t) /\ t[i - n] = q[i]
    BY <1>1, <1>2, <1>4
  <2> QED
    BY <1>2, <2>1, ToSetDef
<1>5. ASSUME NEW i \in 1..Len(q), i <= n PROVE q[i] \in ToSet(p)
  BY <1>1, <1>3, <1>5, ToSetDef
<1>6. \A x \in ToSet(q) : x \in ToSet(t) \cup ToSet(p)
  <2> SUFFICES ASSUME NEW x \in ToSet(q) PROVE x \in ToSet(t) \cup ToSet(p)
    OBVIOUS
  <2>1. PICK i \in 1..Len(q) : q[i] = x
    BY ToSetDef
  <2>2. i > n \/ i <= n
    BY <1>1
  <2> QED
    BY <1>4, <1>5, <2>1, <2>2
<1>7. q # <<>> /\ cap # 0 => q[Len(q)] \in ToSet(t)
  BY <1>1, <1>4
<1> QED
  BY <1>6, <1>7 DEF t, p

\* With unique keys, what is evicted leaves nothing of its key behind.
LEMMA SpillApart ==
  ASSUME NEW S, NEW q \in Seq(S), NEW cap \in Nat, NEW K, UniqueKeys(q, K)
  PROVE  \A x \in ToSet(Spill(q, cap)), y \in ToSet(Trim(q, cap)) : K[x] # K[y]
<1> DEFINE n == Excess(q, cap)
           t == Trim(q, cap)
           p == Spill(q, cap)
<1>1. n \in 0..Len(q)
  BY DEF Excess
<1>2. t \in Seq(S) /\ Len(t) = Len(q) - n /\ \A i \in 1..(Len(q) - n) : t[i] = q[i + n]
  BY <1>1 DEF Trim
<1>3. p \in Seq(S) /\ Len(p) = n /\ \A i \in 1..n : p[i] = q[i]
  BY <1>1 DEF Spill
<1> HIDE DEF n, t, p
<1>4. SUFFICES ASSUME NEW x \in ToSet(p), NEW y \in ToSet(t), K[x] = K[y] PROVE FALSE
  BY DEF t, p
<1>5. PICK i \in 1..Len(p) : p[i] = x
  BY <1>3, ToSetDef
<1>6. PICK j \in 1..Len(t) : t[j] = y
  BY <1>2, ToSetDef
<1>7. /\ i \in 1..Len(q) /\ j + n \in 1..Len(q) /\ i # j + n
      /\ q[i] = x /\ q[j + n] = y
  BY <1>1, <1>2, <1>3, <1>5, <1>6
<1> QED
  BY <1>4, <1>7 DEF UniqueKeys

\* A Put brings its entry in and loses no entry but the one it replaces.
LEMMA InsertKeeps ==
  ASSUME NEW S, NEW q \in Seq(S), NEW e \in S, NEW old
  PROVE  /\ e \in ToSet(Insert(q, old, e))
         /\ \A x \in ToSet(q) : x # old => x \in ToSet(Insert(q, old, e))
<1> DEFINE r == RemoveFirst(q, old)
<1>1. r \in Seq(S) /\ \A x \in ToSet(q) : x # old => x \in ToSet(r)
  BY RemoveFirstProperties
<1> HIDE DEF r
<1>2. ToSet(Append(r, e)) = ToSet(r) \cup {e}
  BY <1>1, AppendEntries
<1> QED
  BY <1>1, <1>2 DEF Insert, r
============================================================================
