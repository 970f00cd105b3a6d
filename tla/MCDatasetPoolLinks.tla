------------------------- MODULE MCDatasetPoolLinks -------------------------
(***************************************************************************)
(* TLC instances of DatasetPoolLinks, with the sets of MCDatasetPool.      *)
(***************************************************************************)
EXTENDS MCDatasetPool, DatasetPoolLinks

\* cacheEntry[p] says nothing while no call on p is in progress: the next call
\* assigns it before it is read.
MCView ==
  <<[p \in Proxies |-> IF \E t \in Threads : p \in Elements(calls[t])
                       THEN cacheEntry[p] ELSE NoEntry],
    poolRefCount, order, key, isOpen, refCount, proxy, keptBy, calls, linkVars>>
=============================================================================
