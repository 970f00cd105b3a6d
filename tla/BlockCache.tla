----------------------------- MODULE BlockCache -----------------------------
(***************************************************************************)
(* The raster block cache: gcore/gdalrasterblock.cpp and the block          *)
(* management of GDALRasterBand (gcore/gdalrasterband.cpp).  All bands of   *)
(* the process share one list of blocks and one memory budget.  Each thread *)
(* uses a band of its own, as the documentation of GDALOpen asks, but a     *)
(* thread that needs memory evicts the blocks of the other threads' bands.  *)
(*                                                                          *)
(* hRBMutex is held from end to end by Internalize, its evictions included, *)
(* and for a moment by Touch, Detach, SafeLockBlock and FlushCacheBlock.    *)
(* Between these, and on block locks, dirty marks and the papoBlocks array, *)
(* the code runs unprotected: one step here is what the code does between   *)
(* two points where another thread can intervene.                           *)
(*                                                                          *)
(* papoBlocks is modelled as one array per band; its split into sub-grids   *)
(* of 64 x 64 only appears as the allocation that AdoptBlock may fail.      *)
(***************************************************************************)
EXTENDS LruSeq, FiniteSets, Functions

CONSTANTS
  Threads,    \* the threads, each with the band it has open
  NBlocks,    \* blocks per band
  Blocks,     \* the GDALRasterBlock objects
  BlockSize,  \* BlockSize[t]: bytes of a block of the band of t
  NContents,  \* block contents are numbers modulo NContents
  CacheMax,   \* initial value of nCacheMax
  NewMaxes,   \* the values given to GDALSetCacheMax
  ConfigMax,  \* the GDAL_CACHEMAX configuration option, NULL when not set
  Kinds,      \* the operations that threads call
  IOFails,    \* may IReadBlock, IWriteBlock and the allocation of data fail?
  GridFails,  \* may the allocation of a sub-grid of papoBlocks fail?
  NULL

Slots == Threads \X (1 .. NBlocks)
Contents == 0 .. NContents - 1
Garbage == NContents              \* what VSIMalloc returns
Requests == {"read", "update", "fill"}
AllKinds == Requests \cup {"flush", "close", "destroy", "setmax"}

ASSUME CacheAssumption ==
  /\ NBlocks \in Nat /\ NContents \in Nat \ {0}
  /\ BlockSize \in [Threads -> Nat \ {0}]
  /\ CacheMax \in Nat /\ NewMaxes \subseteq Nat
  /\ ConfigMax \in Nat \cup {NULL}
  /\ Kinds \subseteq AllKinds \ {"destroy"}
  /\ IOFails \in BOOLEAN /\ GridFails \in BOOLEAN
  /\ IsFiniteSet(Threads) /\ IsFiniteSet(Blocks)
  /\ NULL \notin Slots \cup Blocks \cup Threads \cup Nat

VARIABLES
  slot,     \* slot[s]: papoBlocks of the band of s[1], at offset s[2]
  block,    \* block[b]: slot it is for, locks, dirty mark and data
  order,    \* the list from poNewest to poOldest
  used,     \* nCacheUsed
  cacheMax, \* nCacheMax
  maxRead,  \* bCacheMaxInitialized
  mutex,    \* the thread inside Internalize, which holds hRBMutex, or NULL
  disk,     \* disk[s]: contents of the block in the file
  open,     \* the threads whose band exists
  pc,       \* where each thread is
  local     \* local[t]: its local variables

shared == <<slot, block, order, used, cacheMax, maxRead, mutex, disk, open>>
vars == <<shared, pc, local>>

Free == [at |-> NULL, locks |-> 0, dirty |-> FALSE, data |-> Garbage]
\* kind: the call in progress; i: block offset it is at; mine: poBlock of
\* GetLockedBlockRef; target, victim: offsets and poBlock of FlushBlock;
\* got: what the caller has read or set; failed: eErr of FlushBlock; limit, oldUsed: those of the eviction loops.
Idle == [kind |-> NULL, i |-> 1, mine |-> NULL, target |-> NULL, victim |-> NULL,
         got |-> NULL, failed |-> FALSE, limit |-> 0, oldUsed |-> 0]
----------------------------------------------------------------------------
Live == {b \in Blocks : block[b].at # NULL}
Mine(t) == local[t].mine
Wanted(t) == <<t, local[t].i>>
SizeOf(b) == BlockSize[block[b].at[1]]
\* Mutant: the evictions of Internalize run without hRBMutex.
CanLockAlways(t) == TRUE

CanLock(t) == mutex \in {NULL, t}
Unlocked == {b \in Elements(order) : block[b].locks = 0}

\* Mutant: SafeLockBlock unlinks the block and does not link it again.
SafeLockUnlink(s) ==
  IF slot[s] = NULL
  THEN UNCHANGED <<block, order>>
  ELSE /\ block' = [block EXCEPT ![slot[s]].locks = @ + 1]
       /\ order' = Without(order, slot[s])

\* SafeLockBlock on the block of slot s, if there is one.
SafeLock(s) ==
  IF slot[s] = NULL
  THEN UNCHANGED <<block, order>>
  ELSE /\ block' = [block EXCEPT ![slot[s]].locks = @ + 1]
       /\ order' = MoveToFront(order, slot[s])

Goto(t, where) == pc' = [pc EXCEPT ![t] = where] /\ UNCHANGED local
Return(t) == pc' = [pc EXCEPT ![t] = "idle"] /\ local' = [local EXCEPT ![t] = Idle]
----------------------------------------------------------------------------
\* t calls GetLockedBlockRef on block i: to read it, to modify a part of it
\* or, with bJustInitialize, to set all of it.
Request(t, kind, i) ==
  /\ pc[t] = "idle" /\ t \in open
  /\ kind \in Kinds \cap Requests
  /\ pc' = [pc EXCEPT ![t] = "lookup"]
  /\ local' = [local EXCEPT ![t].kind = kind, ![t].i = i]
  /\ UNCHANGED shared

\* Mutant: the cached block is touched but not locked.
TouchIfCached(t) ==
  /\ pc[t] = "lookup" /\ CanLock(t)
  /\ order' = IF slot[Wanted(t)] = NULL THEN order ELSE MoveToFront(order, slot[Wanted(t)])
  /\ Goto(t, "fetch")
  /\ UNCHANGED <<slot, block, used, cacheMax, maxRead, mutex, disk, open>>

\* TryGetLockedBlockRef: SafeLockBlock, then the unprotected read of the slot.
LockIfCached(t) ==
  /\ pc[t] = "lookup" /\ CanLock(t)
  /\ SafeLock(Wanted(t))
  /\ Goto(t, "fetch")
  /\ UNCHANGED <<slot, used, cacheMax, maxRead, mutex, disk, open>>

Fetch(t) ==
  /\ pc[t] = "fetch"
  /\ local' = [local EXCEPT ![t].mine = slot[Wanted(t)]]
  /\ pc' = [pc EXCEPT ![t] = IF slot[Wanted(t)] = NULL THEN "new" ELSE "locked"]
  /\ UNCHANGED shared

\* GDALGetCacheMax: the first call lets the configuration option win.
EffectiveMax == IF maxRead \/ ConfigMax = NULL THEN cacheMax ELSE ConfigMax

\* The constructor and AddLock, then Internalize up to its eviction loop.
Allocate(t, b) ==
  /\ pc[t] = "new" /\ CanLock(t)
  /\ block[b] = Free
  /\ block' = [block EXCEPT ![b] = [Free EXCEPT !.at = Wanted(t), !.locks = 2]]
  /\ used' = used + BlockSize[t]
  /\ mutex' = t
  /\ cacheMax' = EffectiveMax /\ maxRead' = TRUE
  /\ pc' = [pc EXCEPT ![t] = "evict"]
  /\ local' = [local EXCEPT ![t].mine = b, ![t].limit = EffectiveMax, ![t].oldUsed = 0]
  /\ UNCHANGED <<slot, order, disk, open>>

\* Mutant: nCacheUsed is raised before the allocation is checked.
AllocateFailsCounted(t) ==
  /\ pc[t] = "new" /\ CanLock(t) /\ IOFails
  /\ cacheMax' = EffectiveMax /\ maxRead' = TRUE
  /\ used' = used + BlockSize[t]
  /\ Return(t)
  /\ UNCHANGED <<slot, block, order, mutex, disk, open>>

\* Internalize finds no memory: the block is deleted, GetLockedBlockRef fails.
AllocateFails(t) ==
  /\ pc[t] = "new" /\ CanLock(t) /\ IOFails
  /\ cacheMax' = EffectiveMax /\ maxRead' = TRUE
  /\ Return(t)
  /\ UNCHANGED <<slot, block, order, used, mutex, disk, open>>

\* Mutant: the excess is left to the next Internalize.
SetCacheMaxLater(t, n) ==
  /\ pc[t] = "idle" /\ "setmax" \in Kinds
  /\ cacheMax' = n
  /\ UNCHANGED <<slot, block, order, used, maxRead, mutex, disk, open, pc, local>>

\* GDALSetCacheMax(n): then the same loop, without holding hRBMutex.
SetCacheMax(t, n) ==
  /\ pc[t] = "idle" /\ "setmax" \in Kinds
  /\ cacheMax' = n
  /\ pc' = [pc EXCEPT ![t] = "evict"]
  /\ local' = [local EXCEPT ![t].kind = "setmax"]
  /\ UNCHANGED <<slot, block, order, used, maxRead, mutex, disk, open>>

Limit(t) == IF local[t].kind = "setmax" THEN cacheMax ELSE local[t].limit
\* Mutant: the loop goes on when a round changed nothing.
EvictingOn(t) == pc[t] = "evict" /\ used > Limit(t)
\* Mutant: the loop stops one byte above the limit.
EvictingLess(t) == pc[t] = "evict" /\ used > Limit(t) + 1 /\ used # local[t].oldUsed

Evicting(t) == pc[t] = "evict" /\ used > Limit(t) /\ used # local[t].oldUsed

\* FlushCacheBlock up to FlushBlock: detach the oldest block nobody locks.
PickVictim(t) ==
  /\ Evicting(t) /\ CanLock(t)
  /\ Unlocked # {}
  /\ LET b == OldestIn(order, Unlocked) IN
       /\ order' = Without(order, b)
       /\ local' = [local EXCEPT ![t].oldUsed = used, ![t].target = block[b].at]
  /\ pc' = [pc EXCEPT ![t] = "flushlock"]
  /\ UNCHANGED <<slot, block, used, cacheMax, maxRead, mutex, disk, open>>

\* FlushCacheBlock finds every block locked and returns FALSE.
NoVictim(t) ==
  /\ Evicting(t) /\ CanLock(t)
  /\ Unlocked = {}
  /\ local' = [local EXCEPT ![t].oldUsed = used]
  /\ UNCHANGED <<shared, pc>>

\* The loop ends, under the limit or because the last round changed nothing.
\* Internalize then lists the block and lets hRBMutex go.
EvictionDone(t) ==
  /\ pc[t] = "evict" /\ ~Evicting(t)
  /\ IF local[t].kind = "setmax"
     THEN Return(t) /\ UNCHANGED <<block, order, mutex>>
     ELSE /\ order' = MoveToFront(order, Mine(t))
          /\ block' = [block EXCEPT ![Mine(t)].locks = @ - 1]
          /\ mutex' = NULL
          /\ pc' = [pc EXCEPT ![t] = "adopt"]
          /\ local' = [local EXCEPT ![t].limit = 0, ![t].oldUsed = 0, ![t].target = NULL]
  /\ UNCHANGED <<slot, used, cacheMax, maxRead, disk, open>>

\* AdoptBlock stores the block, without hRBMutex...  Only the thread of the
\* band fills its slots, so this one is still empty (the proofs show it) and
\* the FlushBlock for another block in it is never reached;
Adopt(t) ==
  /\ pc[t] = "adopt"
  /\ slot' = [slot EXCEPT ![Wanted(t)] = Mine(t)]
  /\ Goto(t, "touch")
  /\ UNCHANGED <<block, order, used, cacheMax, maxRead, mutex, disk, open>>

\* it then touches the block, and the caller goes on with IReadBlock or with the data.
TouchAdopted(t) ==
  /\ pc[t] = "touch" /\ CanLock(t)
  /\ order' = MoveToFront(order, Mine(t))
  /\ Goto(t, IF local[t].kind = "fill" THEN "locked" ELSE "reading")
  /\ UNCHANGED <<slot, block, used, cacheMax, maxRead, mutex, disk, open>>

\* AdoptBlock finds no memory for a sub-grid.  DropLock comes first: until
\* it is deleted the block is in the list, unlocked and outside of papoBlocks,
\* and the eviction of another thread may pick it, to free nothing.
AdoptFails(t) ==
  /\ pc[t] = "adopt" /\ GridFails
  /\ block' = [block EXCEPT ![Mine(t)].locks = @ - 1]
  /\ Goto(t, "discard")
  /\ UNCHANGED <<slot, order, used, cacheMax, maxRead, mutex, disk, open>>

Discard(t) ==
  /\ pc[t] = "discard" /\ CanLock(t)
  /\ order' = Without(order, Mine(t))
  /\ block' = [block EXCEPT ![Mine(t)] = Free]
  /\ used' = used - BlockSize[t]
  /\ Return(t)
  /\ UNCHANGED <<slot, cacheMax, maxRead, mutex, disk, open>>

\* IReadBlock succeeds.
ReadIn(t) ==
  /\ pc[t] = "reading"
  /\ block' = [block EXCEPT ![Mine(t)].data = disk[Wanted(t)]]
  /\ Goto(t, "locked")
  /\ UNCHANGED <<slot, order, used, cacheMax, maxRead, mutex, disk, open>>

\* Mutant: the lock is not dropped before FlushBlock.
ReadInFailsLocked(t) ==
  /\ pc[t] = "reading" /\ IOFails
  /\ pc' = [pc EXCEPT ![t] = "flushlock"]
  /\ local' = [local EXCEPT ![t].mine = NULL, ![t].target = Wanted(t)]
  /\ UNCHANGED shared

\* IReadBlock fails: DropLock, then FlushBlock.
ReadInFails(t) ==
  /\ pc[t] = "reading" /\ IOFails
  /\ block' = [block EXCEPT ![Mine(t)].locks = @ - 1]
  /\ pc' = [pc EXCEPT ![t] = "flushlock"]
  /\ local' = [local EXCEPT ![t].mine = NULL, ![t].target = Wanted(t)]
  /\ UNCHANGED <<slot, order, used, cacheMax, maxRead, mutex, disk, open>>

\* The caller reads, modifies or sets the locked data (IRasterIO, Fill).
UseBlock(t) ==
  /\ pc[t] = "locked"
  /\ LET old == block[Mine(t)].data
         new == CASE local[t].kind = "read" -> old
                  [] local[t].kind = "update" -> (old + 1) % NContents
                  [] local[t].kind = "fill" -> 0
     IN /\ block' = IF local[t].kind = "read" THEN block
                    ELSE [block EXCEPT ![Mine(t)].data = new, ![Mine(t)].dirty = TRUE]
        /\ local' = [local EXCEPT ![t].got = new]
  /\ pc' = [pc EXCEPT ![t] = "used"]
  /\ UNCHANGED <<slot, order, used, cacheMax, maxRead, mutex, disk, open>>

\* The caller's DropLock.
Release(t) ==
  /\ pc[t] = "used"
  /\ block' = [block EXCEPT ![Mine(t)].locks = @ - 1]
  /\ Return(t)
  /\ UNCHANGED <<slot, order, used, cacheMax, maxRead, mutex, disk, open>>
----------------------------------------------------------------------------
\* GDALRasterBand::FlushCache, or the destructor of a driver's dataset, which
\* flushes before it destroys the band.
Sweep(t, kind) ==
  /\ pc[t] = "idle" /\ t \in open
  /\ kind \in Kinds \cap {"flush", "close"}
  /\ pc' = [pc EXCEPT ![t] = "sweep"]
  /\ local' = [local EXCEPT ![t].kind = kind]
  /\ UNCHANGED shared

\* Mutant: the loop forgets the last block.
SweepOverEarly(t) == pc[t] = "sweep" /\ (local[t].failed \/ local[t].i >= NBlocks)

\* An error ends the loop early.
SweepOver(t) == pc[t] = "sweep" /\ (local[t].failed \/ local[t].i > NBlocks)

\* Mutant: an empty slot is not skipped.
SweepNextStuck(t) ==
  /\ pc[t] = "sweep" /\ ~SweepOver(t)
  /\ IF slot[Wanted(t)] = NULL
     THEN UNCHANGED <<pc, local>>
     ELSE /\ local' = [local EXCEPT ![t].target = Wanted(t)]
          /\ pc' = [pc EXCEPT ![t] = "flushlock"]
  /\ UNCHANGED shared

SweepNext(t) ==
  /\ pc[t] = "sweep" /\ ~SweepOver(t)
  /\ IF slot[Wanted(t)] = NULL
     THEN /\ local' = [local EXCEPT ![t].i = @ + 1]
          /\ UNCHANGED pc
     ELSE /\ local' = [local EXCEPT ![t].target = Wanted(t)]
          /\ pc' = [pc EXCEPT ![t] = "flushlock"]
  /\ UNCHANGED shared

FlushCacheReturns(t) ==
  /\ SweepOver(t) /\ local[t].kind = "flush"
  /\ Return(t)
  /\ UNCHANGED shared

\* The error is ignored; ~GDALRasterBand calls FlushCache again.
DestroyBand(t) ==
  /\ SweepOver(t) /\ local[t].kind = "close"
  /\ local' = [local EXCEPT ![t] = [Idle EXCEPT !.kind = "destroy"]]
  /\ UNCHANGED <<shared, pc>>

\* ... ignores the error again and frees papoBlocks.
BandDestroyed(t) ==
  /\ SweepOver(t) /\ local[t].kind = "destroy"
  /\ open' = open \ {t}
  /\ slot' = [s \in Slots |-> IF s[1] = t THEN NULL ELSE slot[s]]
  /\ Return(t)
  /\ UNCHANGED <<block, order, used, cacheMax, maxRead, mutex, disk>>

OpenBand(t) ==
  /\ pc[t] = "idle" /\ t \notin open
  /\ open' = open \cup {t}
  /\ UNCHANGED <<slot, block, order, used, cacheMax, maxRead, mutex, disk, pc, local>>
----------------------------------------------------------------------------
\* FlushBlock on the slot local[t].target, called by the eviction loop, by a
\* sweep or after a failed IReadBlock.  SafeLockBlock first.
FlushLock(t) ==
  /\ pc[t] = "flushlock" /\ CanLock(t)
  /\ SafeLock(local[t].target)
  /\ Goto(t, "flushtake")
  /\ UNCHANGED <<slot, used, cacheMax, maxRead, mutex, disk, open>>

\* Mutant: FlushBlock reports an error when it wrote the block.
FlushBackInverted(t, failed) ==
  CASE local[t].kind \in {"flush", "close", "destroy"} ->
         /\ pc' = [pc EXCEPT ![t] = "sweep"]
         /\ local' = [local EXCEPT ![t].victim = NULL, ![t].target = NULL,
                                   ![t].i = @ + 1, ![t].failed = ~failed]
    [] local[t].kind = "setmax" \/ mutex = t ->
         /\ pc' = [pc EXCEPT ![t] = "evict"]
         /\ local' = [local EXCEPT ![t].victim = NULL, ![t].target = NULL,
                                   ![t].failed = FALSE]
    [] OTHER -> Return(t)

\* FlushBlock returns eErr to its caller; only a sweep looks at it.
FlushBack(t, failed) ==
  CASE local[t].kind \in {"flush", "close", "destroy"} ->
         /\ pc' = [pc EXCEPT ![t] = "sweep"]
         /\ local' = [local EXCEPT ![t].victim = NULL, ![t].target = NULL,
                                   ![t].i = @ + 1, ![t].failed = failed]
    [] local[t].kind = "setmax" \/ mutex = t ->
         /\ pc' = [pc EXCEPT ![t] = "evict"]
         /\ local' = [local EXCEPT ![t].victim = NULL, ![t].target = NULL,
                                   ![t].failed = FALSE]
    [] OTHER -> Return(t)

\* The slot is read and cleared without hRBMutex.
FlushTake(t) ==
  /\ pc[t] = "flushtake"
  /\ slot' = [slot EXCEPT ![local[t].target] = NULL]
  /\ LET b == slot[local[t].target] IN
       IF b = NULL
       THEN FlushBack(t, FALSE)
       ELSE /\ local' = [local EXCEPT ![t].victim = b]
            /\ pc' = [pc EXCEPT ![t] = "flushdetach"]
  /\ UNCHANGED <<block, order, used, cacheMax, maxRead, mutex, disk, open>>

\* Mutant: the block is marked clean before it is asked whether it is dirty.
FlushDetachClean(t) ==
  /\ pc[t] = "flushdetach" /\ CanLock(t)
  /\ LET b == local[t].victim IN
       /\ order' = Without(order, b)
       /\ block' = [block EXCEPT ![b].dirty = FALSE]
       /\ Goto(t, "delete")
  /\ UNCHANGED <<slot, used, cacheMax, maxRead, mutex, disk, open>>

\* Detach; a dirty block is marked clean and IWriteBlock starts.
FlushDetach(t) ==
  /\ pc[t] = "flushdetach" /\ CanLock(t)
  /\ LET b == local[t].victim IN
       /\ order' = Without(order, b)
       /\ block' = [block EXCEPT ![b].dirty = FALSE]
       /\ Goto(t, IF block[b].dirty THEN "writing" ELSE "delete")
  /\ UNCHANGED <<slot, used, cacheMax, maxRead, mutex, disk, open>>

\* IWriteBlock returns.  The destructor of the base class only reaches
\* GDALRasterBand::IWriteBlock, which always fails.
WriteOut(t, ok) ==
  /\ pc[t] = "writing"
  /\ ok => local[t].kind # "destroy"
  /\ ~ok => IOFails \/ local[t].kind = "destroy"
  /\ disk' = IF ok THEN [disk EXCEPT ![local[t].target] = block[local[t].victim].data]
                   ELSE disk
  /\ local' = [local EXCEPT ![t].failed = ~ok]
  /\ pc' = [pc EXCEPT ![t] = "delete"]
  /\ UNCHANGED <<slot, block, order, used, cacheMax, maxRead, mutex, open>>

\* DropLock and delete.
Delete(t) ==
  /\ pc[t] = "delete" /\ CanLock(t)
  /\ LET b == local[t].victim IN
       /\ order' = Without(order, b)
       /\ block' = [block EXCEPT ![b] = Free]
       /\ used' = used - SizeOf(b)
  /\ FlushBack(t, local[t].failed)
  /\ UNCHANGED <<slot, cacheMax, maxRead, mutex, disk, open>>
----------------------------------------------------------------------------
Init ==
  /\ slot = [s \in Slots |-> NULL]
  /\ block = [b \in Blocks |-> Free]
  /\ order = <<>>
  /\ used = 0
  /\ cacheMax = CacheMax /\ maxRead = FALSE
  /\ mutex = NULL
  /\ disk = [s \in Slots |-> 0]
  /\ open = Threads
  /\ pc = [t \in Threads |-> "idle"]
  /\ local = [t \in Threads |-> Idle]

\* The steps of a call that has begun.
Step(t) ==
  \/ LockIfCached(t) \/ Fetch(t) \/ AllocateFails(t)
  \/ \E b \in Blocks : Allocate(t, b)
  \/ PickVictim(t) \/ NoVictim(t) \/ EvictionDone(t)
  \/ Adopt(t) \/ AdoptFails(t) \/ Discard(t) \/ TouchAdopted(t)
  \/ ReadIn(t) \/ ReadInFails(t) \/ UseBlock(t) \/ Release(t)
  \/ SweepNext(t) \/ FlushCacheReturns(t) \/ DestroyBand(t) \/ BandDestroyed(t)
  \/ FlushLock(t) \/ FlushTake(t) \/ FlushDetach(t) \/ Delete(t)
  \/ \E ok \in BOOLEAN : WriteOut(t, ok)

Next ==
  \E t \in Threads :
    \/ \E kind \in Requests, i \in 1 .. NBlocks : Request(t, kind, i)
    \/ \E kind \in {"flush", "close"} : Sweep(t, kind)
    \/ \E n \in NewMaxes : SetCacheMax(t, n)
    \/ OpenBand(t)
    \/ Step(t)

Spec == Init /\ [][Next]_vars
----------------------------------------------------------------------------
\* The locks on b: one for GetLockedBlockRef until it drops it, one more
\* inside Internalize, one for FlushBlock, from SafeLockBlock on.
Discarding(t, b) == pc[t] = "discard" /\ Mine(t) = b
Lockers(b) ==
  Cardinality({t \in Threads : Mine(t) = b /\ ~Discarding(t, b)})
  + Cardinality({t \in Threads : mutex = t /\ Mine(t) = b})
  + Cardinality({t \in Threads : pc[t] = "fetch" /\ slot[Wanted(t)] = b})
  + Cardinality({t \in Threads : pc[t] = "flushtake" /\ slot[local[t].target] = b})
  + Cardinality({t \in Threads : local[t].victim = b})

\* The lock count of a block is the number of locks its users hold, on every
\* path of GetLockedBlockRef, Internalize and FlushBlock, errors included.
LocksMatchUsers == \A b \in Live : block[b].locks = Lockers(b)

\* A slot and its block agree, and a block of the raster is never in memory
\* twice, even while one thread writes it out and its owner asks for it.
OneBlockPerSlot ==
  /\ \A s \in Slots : slot[s] # NULL => block[slot[s]].at = s
  /\ \A b, c \in Live : block[b].at = block[c].at => b = c

\* A block nobody locks can be found again and can be evicted, if it is not
\* being so: no interleaving leaves it outside of papoBlocks or of the list.
\* The one exception is a block that found no place in papoBlocks, until its
\* thread deletes it.
UnlockedIsEvictable ==
  /\ NoDuplicates(order) /\ Elements(order) \subseteq Live
  /\ \A b \in Live : block[b].locks = 0 =>
       \/ \E t \in Threads : Discarding(t, b)
       \/ /\ slot[block[b].at] = b
          /\ \/ b \in Elements(order)
             \/ \E t \in Threads : pc[t] = "flushlock" /\ local[t].target = block[b].at

\* nCacheUsed counts the bytes of the blocks in memory, whatever failed.
UsedIsAllocated == used = SumFunction([b \in Live |-> SizeOf(b)])

\* The cache keeps to its limit, or to one block per thread when these alone
\* exceed it: what is locked cannot be evicted, and a thread locks one block.
OneBlockEach == SumFunction(BlockSize)
CacheBounded ==
  mutex = NULL /\ (\A t \in Threads : local[t].kind # "setmax")
    => used <= cacheMax \/ used <= OneBlockEach

\* ~GDALRasterBlock asserts that nobody but its deleter had the block locked.
DeletedUnlocked == [][\A b \in Live : b \notin Live' => block[b].locks <= 1]_vars

\* What the callers of the band may expect to find in a block.
Loaded(s) == {b \in Live : block[b].at = s /\ block[b].data # Garbage}
Current(s) == IF Loaded(s) = {} THEN disk[s]
              ELSE block[CHOOSE b \in Loaded(s) : TRUE].data

\* Every block behaves as one register: every call takes effect once, no
\* update is lost or reordered and no read is stale, whatever is evicted,
\* written and read again meanwhile.
Register == INSTANCE Raster WITH value <- [s \in Slots |-> Current(s)],
                                 stored <- disk,
                                 result <- [t \in Threads |-> local[t].got]
RasterSpec == Register!Spec

\* FlushCache, when it returns without error, has everything written through
\* the band in the file.
FlushStores ==
  [][\A t \in Threads :
       FlushCacheReturns(t) /\ ~local[t].failed
         => \A i \in 1 .. NBlocks : Current(<<t, i>>) = disk[<<t, i>>]]_vars

\* A band that is destroyed leaves no block behind in the list: evicting it
\* would call a deleted GDALRasterBand.
ClosedBandLeavesNoBlock == \A b \in Elements(order) : block[b].at[1] \in open

\* The calls of a thread go on as long as they can, I/O included.
FairSpec == Spec /\ \A t \in Threads : WF_vars(Step(t))

\* hRBMutex is always released: no eviction loop runs for ever and no thread
\* inside Internalize waits for another one.
MutexReleased == \A t \in Threads : mutex = t ~> mutex # t

\* Alone, every call returns.
CallsReturn == \A t \in Threads : pc[t] # "idle" ~> pc[t] = "idle"
=============================================================================
