-------------------------------- MODULE LRU --------------------------------
(***************************************************************************)
(* What one call on an lruCache (internal/cache/lru_cache.go) does to the  *)
(* recency order of its entries.  The cache delegates to hashicorp's       *)
(* golang-lru, which is not part of the repository: a cache is the         *)
(* sequence of its entries, least recently used first (the order Keys()    *)
(* and Values() return), and the capacity is kept beside it.               *)
(*                                                                         *)
(* Every call is atomic in the library, which locks internally, but the    *)
(* eviction callback runs after that lock is released.  The operators      *)
(* below are therefore the locked part; what Spill and Delete take out is  *)
(* handed to the callback by the module that uses them.                    *)
(***************************************************************************)
EXTENDS Integers, Sequences, SequencesExt

\* A hit of Get(k): the entry becomes the most recently used one.
\* With an entry that is absent, this is also how Add puts it in.
Refresh(q, e) == Append(RemoveFirst(q, e), e)

\* How many entries exceed the capacity.
Excess(q, cap) == IF Len(q) > cap THEN Len(q) - cap ELSE 0

\* The entries that stay, and those that are evicted, oldest first, when the
\* capacity is applied: by Add (at most one entry too many) and by Resize.
Trim(q, cap)  == SubSeq(q, Excess(q, cap) + 1, Len(q))
Spill(q, cap) == SubSeq(q, 1, Excess(q, cap))

\* Put of entry e, which replaces entry old of the same key if there is one.
Insert(q, old, e) == Append(RemoveFirst(q, old), e)
============================================================================
