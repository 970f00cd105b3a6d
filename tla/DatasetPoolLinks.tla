-------------------------- MODULE DatasetPoolLinks --------------------------
(***************************************************************************)
(* The doubly linked list of GDALProxyPoolCacheEntry that realises the     *)
(* sequence "order" of DatasetPool: each step of the pool is joined with   *)
(* the pointer assignments _RefDataset makes for it.                       *)
(***************************************************************************)
EXTENDS DatasetPool

VARIABLES firstEntry, lastEntry, prev, next

linkVars == <<firstEntry, lastEntry, prev, next>>
allVars == <<vars, linkVars>>

\* Writes f[e] := v; a write through the NULL pointer is left out (the code
\* tests the pointer first wherever it may be NULL).
Store(f, e, v) == IF e = NoEntry THEN f ELSE [f EXCEPT ![e] = v]

LinkPrepend(e) ==
  /\ lastEntry' = IF lastEntry = NoEntry THEN e ELSE lastEntry
  /\ prev' = Store([prev EXCEPT ![e] = NoEntry], firstEntry, e)
  /\ next' = [next EXCEPT ![e] = firstEntry]
  /\ firstEntry' = e

\* Mutant: the tail pointer is not moved back when the tail is unlinked.
LinkMoveKeepTail(e) ==
  /\ prev' = [Store(prev, next[e], prev[e]) EXCEPT ![e] = NoEntry, ![firstEntry] = e]
  /\ next' = [Store(next, prev[e], next[e]) EXCEPT ![e] = firstEntry]
  /\ firstEntry' = e
  /\ UNCHANGED lastEntry

\* Unlinks e and puts it first, for an entry that has a predecessor.
LinkMove(e) ==
  /\ lastEntry' = IF next[e] = NoEntry THEN prev[e] ELSE lastEntry
  /\ prev' = [Store(prev, next[e], prev[e]) EXCEPT ![e] = NoEntry, ![firstEntry] = e]
  /\ next' = [Store(next, prev[e], next[e]) EXCEPT ![e] = firstEntry]
  /\ firstEntry' = e

LinkHit(e) == IF e = firstEntry THEN UNCHANGED linkVars ELSE LinkMove(e)

\* The recycling path has no test for the first entry: prev[e] is NULL, the
\* assertion is compiled out, and the entry is linked in front of itself.
LinkRecycle(e) ==
  IF prev[e] # NoEntry
  THEN LinkMove(e)
  ELSE /\ lastEntry' = IF next[e] = NoEntry THEN prev[lastEntry] ELSE lastEntry
       /\ prev' = [Store(prev, next[e], NoEntry) EXCEPT ![firstEntry] = e]
       /\ next' = [next EXCEPT ![e] = firstEntry]
       /\ firstEntry' = e

LinksFreed ==
  /\ firstEntry' = NoEntry /\ lastEntry' = NoEntry
  /\ prev' = [e \in Entries |-> NoEntry]
  /\ next' = [e \in Entries |-> NoEntry]
----------------------------------------------------------------------------
LinksInit ==
  /\ Init
  /\ firstEntry = NoEntry /\ lastEntry = NoEntry
  /\ prev = [e \in Entries |-> NoEntry]
  /\ next = [e \in Entries |-> NoEntry]

\* The list has become a loop: a search of _RefDataset that passes here
\* does not end any more, and what follows is not modelled.
Looped == \E e \in Elements(order) : next[e] = e

LinksNext ==
  /\ ~Looped
  /\ \/ \E p \in Proxies :
          /\ DeleteProxy(p)
          /\ IF poolRefCount = 1 THEN LinksFreed ELSE UNCHANGED linkVars
     \/ \E t \in Threads, p \in LiveProxies :
          \/ \E e \in Entries : RefHit(t, p, e) /\ LinkHit(e)
          \/ \E opened \in BOOLEAN : \E made \in MadeBy(proxy[p].file) :
               \/ RefPrepend(t, p, opened, made) /\ LinkPrepend(Len(order) + 1)
               \/ RefRecycle(t, p, opened, made) /\ LinkRecycle(OldestIn(order, Spare))
          \/ RefExhausted(t, p) /\ UNCHANGED linkVars
     \/ /\ \/ \E t \in Threads, p \in Proxies, f \in Files : NewProxy(t, p, f)
           \/ \E t \in Threads : Unref(t) \/ BandMissing(t)
        /\ UNCHANGED linkVars

LinksSpec == LinksInit /\ [][LinksNext]_allVars
----------------------------------------------------------------------------
\* What CheckLinks asserts, and more: walking next from firstEntry visits the
\* entries of the pool in order, each exactly once, prev walks back, and the
\* two ends are where the list ends.
LinksFollowOrder ==
  LET n == Len(order) IN
    /\ firstEntry = IF n = 0 THEN NoEntry ELSE order[1]
    /\ lastEntry = IF n = 0 THEN NoEntry ELSE order[n]
    /\ \A i \in 1 .. n :
         /\ next[order[i]] = IF i = n THEN NoEntry ELSE order[i + 1]
         /\ prev[order[i]] = IF i = 1 THEN NoEntry ELSE order[i - 1]

\* Whatever is referenced, recycled and refused, the pointers are the list,
\* until the first entry is the one that is recycled (line 262).
CheckLinks == Looped \/ LinksFollowOrder
=============================================================================
