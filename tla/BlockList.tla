----------------------------- MODULE BlockList -----------------------------
(***************************************************************************)
(* The doubly linked list of raster blocks of gcore/gdalrasterblock.cpp    *)
(* behind the sequence "order" of BlockCache: poNewest, poOldest and the   *)
(* poNext, poPrevious of every block, as Touch and Detach change them      *)
(* under hRBMutex.  Every step of the cache that changes the order is one  *)
(* call of Touch or Detach, on blocks in the list and outside of it        *)
(* (Internalize touches a new block, Delete detaches a detached one).      *)
(***************************************************************************)
EXTENDS BlockCache

VARIABLES poNewest, poOldest, poNext, poPrevious

pointers == <<poNewest, poOldest, poNext, poPrevious>>
----------------------------------------------------------------------------
\* poNext and poPrevious once b is taken out, itself pointing nowhere.
NextWithout(b) ==
  [c \in Blocks |-> IF c = b THEN NULL
                    ELSE IF c = poPrevious[b] THEN poNext[b] ELSE poNext[c]]
PreviousWithout(b) ==
  [c \in Blocks |-> IF c = b THEN NULL
                    ELSE IF c = poNext[b] THEN poPrevious[b] ELSE poPrevious[c]]

\* Mutant: poOldest is forgotten.
DetachKeepOldest(b) ==
  /\ poOldest' = poOldest
  /\ poNewest' = IF poNewest = b THEN poNext[b] ELSE poNewest
  /\ poNext' = NextWithout(b)
  /\ poPrevious' = PreviousWithout(b)
  /\ order' = Without(order, b)

Detach(b) ==
  /\ poOldest' = IF poOldest = b THEN poPrevious[b] ELSE poOldest
  /\ poNewest' = IF poNewest = b THEN poNext[b] ELSE poNewest
  /\ poNext' = NextWithout(b)
  /\ poPrevious' = PreviousWithout(b)
  /\ order' = Without(order, b)

Touch(b) ==
  /\ IF poNewest = b
     THEN UNCHANGED pointers
     ELSE LET oldest == IF poOldest = b THEN poPrevious[b] ELSE poOldest IN
          /\ poNext' = [NextWithout(b) EXCEPT ![b] = poNewest]
          /\ poPrevious' = [c \in Blocks |-> IF c = poNewest THEN b
                                             ELSE PreviousWithout(b)[c]]
          /\ poNewest' = b
          /\ poOldest' = IF oldest = NULL THEN b ELSE oldest
  /\ order' = MoveToFront(order, b)

ListInit ==
  /\ Init
  /\ poNewest = NULL /\ poOldest = NULL
  /\ poNext = [b \in Blocks |-> NULL]
  /\ poPrevious = [b \in Blocks |-> NULL]

LinkStep ==
  \/ order' = order /\ UNCHANGED pointers
  \/ order' # order /\ \E b \in Blocks : Touch(b) \/ Detach(b)

ListNext == Next /\ LinkStep

ListSpec == ListInit /\ [][ListNext]_<<vars, pointers>>
----------------------------------------------------------------------------
\* Verify(), compiled in with ENABLE_DEBUG: both ends or none, nothing beyond
\* the ends, and every pointer has its counterpart.
Verify ==
  /\ poNewest = NULL <=> poOldest = NULL
  /\ poNewest # NULL => poPrevious[poNewest] = NULL /\ poNext[poOldest] = NULL
  /\ \A b \in Blocks :
       /\ poPrevious[b] # NULL => poNext[poPrevious[b]] = b
       /\ poNext[b] # NULL => poPrevious[poNext[b]] = b

\* The block at position i, or NULL beyond the ends.
At(i) == IF i \in DOMAIN order THEN order[i] ELSE NULL

\* The pointers spell the order of use and nothing else: the walks of
\* FlushCacheBlock and Verify meet every listed block once, in that order,
\* and a block that is not listed points nowhere.
LinksMatchOrder ==
  /\ poNewest = At(1) /\ poOldest = At(Len(order))
  /\ \A i \in DOMAIN order : /\ poNext[order[i]] = At(i + 1)
                             /\ poPrevious[order[i]] = At(i - 1)
  /\ \A b \in Blocks \ Elements(order) : poNext[b] = NULL /\ poPrevious[b] = NULL

\* The invariant behind the theorem.
ListInv ==
  /\ order \in Seq(Blocks) /\ NoDuplicates(order)
  /\ poNext \in [Blocks -> Blocks \cup {NULL}]
  /\ poPrevious \in [Blocks -> Blocks \cup {NULL}]
  /\ LinksMatchOrder
=============================================================================
