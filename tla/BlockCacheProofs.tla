-------------------------- MODULE BlockCacheProofs --------------------------
(***************************************************************************)
(* Proofs about the block cache, for any number of threads, blocks and     *)
(* bytes, with failures of IReadBlock, IWriteBlock and allocations: while  *)
(* bands are read, written, flushed and closed, a block has at most one    *)
(* user and its lock count says so, no part of the raster is in memory     *)
(* twice, no block is deleted while another user has it locked, and a block*)
(* nobody locks can be found and evicted, unless AdoptBlock had no place   *)
(* for it and its thread is deleting it.  nCacheUsed counts the bytes in   *)
(* memory; while AdoptBlock does not fail (~GridFails) they stay within the*)
(* limit or one block per thread.  While no write fails, the cache         *)
(* implements the registers of Raster: RasterSpecHolds.  What FlushCache   *)
(* and a close leave in memory is only what another thread is evicting.    *)
(* The last part is about BlockList: the pointers of the list spell the    *)
(* order of use, whatever the cache does.                                  *)
(*                                                                         *)
(* Orderly allows GDALSetCacheMax only in a process of one thread: its     *)
(* eviction loop chooses a victim under hRBMutex and flushes it after      *)
(* giving the mutex up, so a second thread could lock it in between.  It   *)
(* leaves out closing a band while I/O may fail: that frees papoBlocks even*)
(* when a write error left blocks in it.  Both break the invariant.        *)
(***************************************************************************)
EXTENDS BlockList, ListsAndSums

Places == {"idle", "lookup", "fetch", "new", "evict", "adopt", "discard", "touch",
           "reading", "locked", "used", "sweep", "flushlock", "flushtake", "flushdetach",
           "writing", "delete"}
Flushing == {"flushlock", "flushtake", "flushdetach", "writing", "delete"}
Stored == {"touch", "reading", "locked", "used"}
Sweeps == {"flush", "close", "destroy"}

\* The limit is only set by a thread that is alone, and bands are closed only
\* when I/O does not fail.
Alone(t) == Threads = {t}
Orderly ==
  /\ "setmax" \in Kinds => \E t \in Threads : Alone(t)
  /\ "close" \in Kinds => ~IOFails

Cells == [at : Slots \cup {NULL}, locks : Nat, dirty : BOOLEAN, data : Nat]
Calls == Requests \cup Sweeps \cup {"setmax"}
Locals == [kind : Calls \cup {NULL}, i : 1 .. NBlocks + 1,
           mine : Blocks \cup {NULL}, target : Slots \cup {NULL},
           victim : Blocks \cup {NULL}, got : Nat \cup {NULL},
           failed : BOOLEAN, limit : Nat, oldUsed : Int]

\* The types of what the proof uses; nCacheUsed may be any integer here.
Typed ==
  /\ slot \in [Slots -> Blocks \cup {NULL}]
  /\ block \in [Blocks -> Cells]
  /\ order \in Seq(Blocks) /\ NoDuplicates(order)
  /\ used \in Int /\ cacheMax \in Nat
  /\ mutex \in Threads \cup {NULL}
  /\ disk \in [Slots -> Nat]
  /\ pc \in [Threads -> Places]
  /\ local \in [Threads -> Locals]

\* What the program counter of a thread says about its local variables.
Control(t) ==
  /\ pc[t] = "idle" => local[t] = Idle
  /\ pc[t] \in {"lookup", "fetch", "new"} => local[t].kind \in Requests
  /\ pc[t] = "sweep" => local[t].kind \in Sweeps
  /\ Mine(t) # NULL => /\ pc[t] \in Flushing \cup Stored \cup {"evict", "adopt", "discard"}
                       /\ local[t].kind \in Requests
  /\ pc[t] \in Stored \cup {"adopt", "discard"} => Mine(t) # NULL
  /\ pc[t] = "discard" => GridFails
  /\ pc[t] = "evict" => Mine(t) # NULL \/ local[t].kind = "setmax"
  /\ pc[t] # "idle" /\ local[t].kind = "setmax" =>
       /\ Alone(t) /\ Mine(t) = NULL /\ local[t].i = 1
       /\ pc[t] \in Flushing \cup {"evict"}
  /\ local[t].kind \in Requests /\ pc[t] # "idle" => local[t].i \in 1 .. NBlocks
  /\ local[t].victim # NULL <=> pc[t] \in {"flushdetach", "writing", "delete"}
  /\ pc[t] \in Flushing => /\ local[t].target \in Slots /\ local[t].i \in 1 .. NBlocks
                           /\ Mine(t) = NULL => local[t].target[1] = t
                           /\ local[t].kind \in Calls
  /\ mutex = t <=> Mine(t) # NULL /\ pc[t] \in Flushing \cup {"evict"}

\* t has b locked, or is going to delete it as AdoptBlock failed.
Holds(t, b) ==
  \/ Mine(t) = b
  \/ local[t].victim = b
  \/ pc[t] = "fetch" /\ slot[Wanted(t)] = b
  \/ pc[t] = "flushtake" /\ slot[local[t].target] = b

\* The block of slot s found no place in papoBlocks and waits to be deleted.
Homeless(s) == pc[s[1]] = "discard" /\ Wanted(s[1]) = s

\* Where the blocks of a thread are, in papoBlocks or not.
Place(t) ==
  /\ Mine(t) # NULL => block[Mine(t)].at = Wanted(t)
  /\ pc[t] \in {"new", "adopt", "discard"} \/ mutex = t => slot[Wanted(t)] = NULL
  /\ pc[t] \in Stored => slot[Wanted(t)] = Mine(t)
  /\ local[t].victim # NULL => /\ block[local[t].victim].at = local[t].target
                               /\ slot[local[t].target] = NULL
                               /\ local[t].victim # Mine(t)
  /\ pc[t] \in {"flushlock", "flushtake"} /\ (mutex = t \/ local[t].kind = "setmax")
       => slot[local[t].target] # NULL \/ Homeless(local[t].target)
  /\ pc[t] = "flushlock" /\ mutex = t /\ slot[local[t].target] # NULL =>
       \A u \in Threads : ~Holds(u, slot[local[t].target])

SlotsAgree == \A s \in Slots : slot[s] # NULL => block[slot[s]].at = s
OneHolder == \A b \in Blocks, t, u \in Threads : Holds(t, b) /\ Holds(u, b) => t = u
OneBlock == \A b, c \in Live : block[b].at = block[c].at => b = c
UnheldStored ==
  \A b \in Live : (\A t \in Threads : ~Holds(t, b)) => slot[block[b].at] = b
Locks ==
  \A b \in Live :
    /\ \A t \in Threads : mutex = t /\ Mine(t) = b => block[b].locks = 2
    /\ \A t \in Threads : Holds(t, b) /\ ~(mutex = t /\ Mine(t) = b) =>
         block[b].locks = IF pc[t] = "discard" THEN 0 ELSE 1
    /\ (\A t \in Threads : ~Holds(t, b)) => block[b].locks = 0

\* What a sweep has passed is out of papoBlocks, and what it flushes is the block
\* it is at.  A band that is destroyed has no block left in papoBlocks.
Swept(t) ==
  /\ pc[t] = "idle" => local[t].i = 1 /\ ~local[t].failed
  /\ pc[t] # "idle" /\ local[t].kind \in Sweeps =>
       /\ pc[t] \in Flushing => local[t].target = Wanted(t)
       /\ \A j \in 1 .. NBlocks : j < local[t].i => slot[<<t, j>>] = NULL
  /\ pc[t] # "idle" /\ local[t].kind \in {"close", "destroy"} => ~IOFails /\ ~local[t].failed
  /\ pc[t] # "idle" /\ local[t].kind = "destroy" =>
       pc[t] = "sweep" /\ \A j \in 1 .. NBlocks : slot[<<t, j>>] = NULL
  /\ t \notin open => /\ pc[t] = "idle" \/ (pc[t] = "evict" /\ local[t].kind = "setmax")
                      /\ \A j \in 1 .. NBlocks : slot[<<t, j>>] = NULL

SweptInv == \A t \in Threads : Swept(t)

Inv ==
  /\ Typed
  /\ \A t \in Threads : Control(t) /\ Place(t)
  /\ SlotsAgree /\ OneHolder /\ OneBlock /\ UnheldStored /\ Locks
  /\ Elements(order) \subseteq Live
----------------------------------------------------------------------------
\* The other threads stay where they are.
Others(t) == \A u \in Threads \ {t} : pc'[u] = pc[u] /\ local'[u] = local[u]

LEMMA HomelessKept ==
  ASSUME NEW t \in Threads, Others(t), NEW s \in Slots, Homeless(s), pc[t] # "discard"
  PROVE  Homeless(s)'
<1>1. s[1] \in Threads \ {t}
  BY DEF Homeless, Slots
<1> QED BY <1>1 DEF Homeless, Others, Wanted

\* A step of t that stores and frees nothing and after which the same threads
\* hold the same blocks: what remains to be shown is what it does to t.
LEMMA SameHolders ==
  ASSUME Inv, NEW t \in Threads, Typed',
         slot' = slot, mutex' = mutex, Others(t), "discard" \notin {pc[t], pc'[t]},
         \A u \in Threads, b \in Blocks : Holds(u, b)' <=> Holds(u, b),
         \A b \in Blocks : (mutex = t /\ Mine(t) = b)' <=> (mutex = t /\ Mine(t) = b),
         \A b \in Blocks : block'[b].at = block[b].at /\ block'[b].locks = block[b].locks,
         Elements(order') \subseteq Live,
         Control(t)', Place(t)'
  PROVE  Inv'
<1>1. \A u \in Threads, b \in Blocks : Holds(u, b)' <=> Holds(u, b)
  OBVIOUS
<1>2. Live' = Live
  BY DEF Live
<1>3. ASSUME NEW u \in Threads PROVE Control(u)' /\ Place(u)'
  <2>1. CASE u = t
    BY <2>1
  <2>2. CASE u # t
    <3>1. pc'[u] = pc[u] /\ local'[u] = local[u] /\ Control(u) /\ Place(u)
      BY <2>2 DEF Inv, Others
    <3>2. Control(u)'
      BY <3>1 DEF Control, Mine
    <3>3. local[u].mine \in Blocks \cup {NULL} /\ local[u].victim \in Blocks \cup {NULL}
      BY DEF Inv, Typed, Locals
    <3>4. pc[u] = "flushlock" /\ mutex = u /\ slot[local[u].target] # NULL =>
            \A v \in Threads : ~Holds(v, slot[local[u].target])'
      <4> SUFFICES ASSUME pc[u] = "flushlock", mutex = u, slot[local[u].target] # NULL,
                          NEW v \in Threads
                   PROVE  ~Holds(v, slot[local[u].target])'
        OBVIOUS
      <4> DEFINE c == slot[local[u].target]
      <4>1. c \in Blocks /\ ~Holds(v, c) /\ c' = c
        BY <3>1 DEF Place, Control, Flushing, Inv, Typed
      <4> HIDE DEF c
      <4>2. ~Holds(v, c)'
        BY <4>1, <1>1
      <4> QED BY <4>2 DEF c
    <3>5. pc[u] \in {"flushlock", "flushtake"} /\ (mutex = u \/ local[u].kind = "setmax")
            => slot[local[u].target] # NULL \/ Homeless(local[u].target)'
      BY <3>1, HomelessKept DEF Place, Control, Flushing
    <3> QED BY <3>1, <3>2, <3>3, <3>4, <3>5, <1>1 DEF Place, Mine, Wanted
  <2> QED BY <2>1, <2>2
<1>4. SlotsAgree'
  BY DEF Inv, Typed, SlotsAgree
<1>5. OneHolder' /\ OneBlock'
  BY <1>1, <1>2 DEF Inv, OneHolder, OneBlock, Live
<1>6. UnheldStored'
  BY <1>1, <1>2 DEF Inv, UnheldStored, Live
<1>7. Locks'
  <2>1. \A u \in Threads, b \in Blocks :
          (mutex = u /\ Mine(u) = b)' <=> (mutex = u /\ Mine(u) = b)
    BY DEF Others, Mine
  <2>2. \A u \in Threads : pc'[u] = "discard" <=> pc[u] = "discard"
    BY DEF Others
  <2> QED BY <1>1, <1>2, <2>1, <2>2 DEF Inv, Locks, Live
<1> QED BY <1>2, <1>3, <1>4, <1>5, <1>6, <1>7 DEF Inv

\* In particular a step that keeps poBlock of GetLockedBlockRef and of
\* FlushBlock, and is not one between a lock and the read of the slot.
LEMMA Frame ==
  ASSUME Inv, NEW t \in Threads, Typed',
         slot' = slot, mutex' = mutex, Others(t),
         local'[t].mine = local[t].mine, local'[t].victim = local[t].victim,
         {pc[t], pc'[t]} \cap {"fetch", "flushtake", "discard"} = {},
         \A b \in Blocks : block'[b].at = block[b].at /\ block'[b].locks = block[b].locks,
         Elements(order') \subseteq Live,
         Control(t)', Place(t)'
  PROVE  Inv'
<1>1. \A u \in Threads, b \in Blocks : Holds(u, b)' <=> Holds(u, b)
  <2>1. \A u \in Threads \ {t}, b \in Blocks : Holds(u, b)' <=> Holds(u, b)
    BY DEF Holds, Mine, Wanted, Others
  <2>2. \A b \in Blocks : Holds(t, b)' <=> Holds(t, b)
    BY DEF Holds, Mine
  <2> QED BY <2>1, <2>2
<1>2. \A b \in Blocks : (mutex = t /\ Mine(t) = b)' <=> (mutex = t /\ Mine(t) = b)
  BY DEF Mine
<1> QED BY <1>1, <1>2, SameHolders

\* The constants, as the steps below use them.
LEMMA Constants ==
  /\ NULL \notin Slots /\ NULL \notin Blocks /\ NULL \notin Threads /\ NULL \notin Nat
  /\ NBlocks \in Nat /\ NContents \in Nat \ {0} /\ CacheMax \in Nat
  /\ ConfigMax \in Nat \cup {NULL} /\ BlockSize \in [Threads -> Nat \ {0}]
  /\ Slots = Threads \X (1 .. NBlocks)
BY CacheAssumption DEF Slots

\* Assignments to the local variables of a thread.
LEMMA LocalsExcept ==
  ASSUME NEW r \in Locals
  PROVE  /\ \A b \in Blocks \cup {NULL} : [r EXCEPT !.mine = b] \in Locals
         /\ \A s \in Slots \cup {NULL} : [r EXCEPT !.target = s] \in Locals
         /\ \A n \in Nat : [r EXCEPT !.limit = n] \in Locals
         /\ \A b \in BOOLEAN : [r EXCEPT !.failed = b] \in Locals
         /\ \A n \in 1 .. NBlocks + 1 : [r EXCEPT !.i = n] \in Locals
         /\ \A n \in Int : [r EXCEPT !.oldUsed = n] \in Locals
         /\ \A n \in Nat : [r EXCEPT !.got = n] \in Locals
         /\ \A kind \in Calls : [r EXCEPT !.kind = kind] \in Locals
<1>1. /\ \A b \in Blocks \cup {NULL} : [r EXCEPT !.mine = b] \in Locals
      /\ \A s \in Slots \cup {NULL} : [r EXCEPT !.target = s] \in Locals
  BY DEF Locals
<1>2. /\ \A n \in Nat : [r EXCEPT !.limit = n] \in Locals
      /\ \A b \in BOOLEAN : [r EXCEPT !.failed = b] \in Locals
      /\ \A n \in 1 .. NBlocks + 1 : [r EXCEPT !.i = n] \in Locals
  BY DEF Locals
<1>3. /\ \A n \in Int : [r EXCEPT !.oldUsed = n] \in Locals
      /\ \A n \in Nat : [r EXCEPT !.got = n] \in Locals
      /\ \A kind \in Calls : [r EXCEPT !.kind = kind] \in Locals
  BY DEF Locals, Calls
<1> QED BY <1>1, <1>2, <1>3

LEMMA LocalIs ==
  ASSUME Inv, NEW t \in Threads
  PROVE  local[t] \in Locals /\ used \in Int
BY DEF Inv, Typed

\* A request only sets the local variables of its thread.
LEMMA RequestStep ==
  ASSUME Inv, NEW t \in Threads, NEW kind \in Requests, NEW i \in 1 .. NBlocks,
         Request(t, kind, i)
  PROVE  Inv'
<1>1. Typed'
  <2>0. i \in 1 .. NBlocks + 1
    BY Constants
  <2>1. [local[t] EXCEPT !.kind = kind, !.i = i] \in Locals
    <3>1. [local[t] EXCEPT !.kind = kind] \in Locals
      BY LocalIs, LocalsExcept DEF Calls
    <3>2. [[local[t] EXCEPT !.kind = kind] EXCEPT !.i = i] \in Locals
      BY <2>0, <3>1, LocalsExcept
    <3> QED BY <3>2
  <2>2. local' \in [Threads -> Locals] /\ pc' \in [Threads -> Places]
    BY <2>1 DEF Request, Inv, Typed, Places
  <2> QED BY <2>2 DEF Request, shared, Inv, Typed
<1>2. Control(t) /\ Place(t) /\ pc[t] = "idle"
  BY DEF Request, Inv
<1>3. /\ pc'[t] = "lookup" /\ local'[t] = [local[t] EXCEPT !.kind = kind, !.i = i]
      /\ local[t] \in Locals
  BY DEF Request, Inv, Typed
<1>3a. /\ local'[t].kind = kind /\ local'[t].i = i /\ local'[t].mine = local[t].mine
       /\ local'[t].victim = local[t].victim /\ local'[t].target = local[t].target
  BY ONLY <1>3 DEF Locals
<1>3b. mutex' = mutex /\ mutex # t /\ Mine(t) = NULL /\ local[t].victim = NULL
  BY <1>2 DEF Request, shared, Control, Flushing, Stored
<1>4. Control(t)'
  BY <1>3, <1>3a, <1>3b, Constants DEF Control, Mine, Flushing, Stored, Requests
<1>5. Place(t)'
  BY <1>3, <1>3a, <1>3b, Constants DEF Place, Mine, Wanted, Stored
<1>6. /\ slot' = slot /\ mutex' = mutex /\ block' = block /\ order' = order
      /\ pc' = [pc EXCEPT ![t] = "lookup"]
      /\ local' = [local EXCEPT ![t].kind = kind, ![t].i = i]
  BY DEF Request, shared
<1>7. Others(t) /\ Elements(order') \subseteq Live
  BY <1>6 DEF Others, Inv, Typed
<1>8. local'[t].mine = local[t].mine /\ local'[t].victim = local[t].victim
  <2>1. local[t] \in Locals
    BY DEF Inv, Typed
  <2> QED BY <2>1, <1>3 DEF Locals
<1>9. {pc[t], pc'[t]} \cap {"fetch", "flushtake", "discard"} = {}
  BY <1>2, <1>3
<1> QED BY <1>1, <1>4, <1>5, <1>6, <1>7, <1>8, <1>9, Frame

\* FlushCache begins, called by the user of a band or to close it.
LEMMA SweepStep ==
  ASSUME Inv, NEW t \in Threads, NEW kind \in {"flush", "close"},
         Sweep(t, kind)
  PROVE  Inv'
<1>1. kind \in Sweeps
  BY DEF Sweeps
<1>2. Typed'
  <2>1. [local[t] EXCEPT !.kind = kind] \in Locals
    BY <1>1, LocalIs, LocalsExcept DEF Calls
  <2>2. local' \in [Threads -> Locals] /\ pc' \in [Threads -> Places]
    BY <2>1 DEF Sweep, Inv, Typed, Places
  <2> QED BY <2>2 DEF Sweep, shared, Inv, Typed
<1>3. Control(t) /\ Place(t) /\ pc[t] = "idle"
  BY DEF Sweep, Inv
<1>4. /\ pc'[t] = "sweep" /\ local'[t] = [local[t] EXCEPT !.kind = kind]
      /\ local[t] \in Locals
  BY DEF Sweep, Inv, Typed
<1>4a. /\ local'[t].kind = kind /\ local'[t].i = local[t].i /\ local'[t].mine = local[t].mine
       /\ local'[t].victim = local[t].victim /\ local'[t].target = local[t].target
  BY ONLY <1>4 DEF Locals
<1>4b. mutex' = mutex /\ mutex # t /\ Mine(t) = NULL /\ local[t].victim = NULL
  BY <1>3 DEF Sweep, shared, Control, Flushing, Stored
<1>5. Control(t)'
  BY <1>1, <1>4, <1>4a, <1>4b, Constants DEF Control, Mine, Flushing, Stored, Requests, Sweeps
<1>6. Place(t)'
  BY <1>4, <1>4a, <1>4b, Constants DEF Place, Mine, Wanted, Stored
<1>7. /\ slot' = slot /\ mutex' = mutex /\ block' = block /\ order' = order
      /\ \A u \in Threads \ {t} : pc'[u] = pc[u] /\ local'[u] = local[u]
      /\ local'[t].mine = local[t].mine /\ local'[t].victim = local[t].victim
      /\ Elements(order') \subseteq Live
  BY <1>4 DEF Sweep, shared, Inv, Typed, Locals
<1> QED BY <1>2, <1>3, <1>4, <1>5, <1>6, <1>7, Frame DEF Others

\* An allocation that fails leaves nothing behind.
LEMMA AllocateFailsStep ==
  ASSUME Inv, NEW t \in Threads, AllocateFails(t)
  PROVE  Inv'
<1>1. pc[t] = "new" /\ Control(t) /\ Place(t) /\ Mine(t) = NULL /\ local[t].victim = NULL
  BY DEF AllocateFails, Inv, Control, Flushing, Stored
<1>2. /\ slot' = slot /\ mutex' = mutex /\ block' = block /\ order' = order /\ Others(t)
      /\ pc'[t] = "idle" /\ local'[t] = Idle
      /\ Elements(order') \subseteq Live
  BY DEF AllocateFails, Return, Others, Inv, Typed
<1>3. Typed'
  <2>1. Idle \in Locals
    BY Constants DEF Idle, Locals
  <2>2. local' \in [Threads -> Locals] /\ pc' \in [Threads -> Places]
    BY <2>1 DEF AllocateFails, Return, Inv, Typed, Places
  <2>3. cacheMax' \in Nat
    BY Constants DEF AllocateFails, EffectiveMax, Inv, Typed
  <2> QED BY <2>2, <2>3 DEF AllocateFails, Inv, Typed
<1>4. local'[t].mine = NULL /\ local'[t].victim = NULL
  BY <1>2 DEF Idle
<1>5. Control(t)'
  BY <1>1, <1>2, <1>4 DEF Control, Mine, Flushing, Stored
<1>6. Place(t)'
  BY <1>1, <1>2, <1>4, <1>5 DEF Place, Control, Mine, Stored, Flushing
<1> QED BY <1>1, <1>2, <1>3, <1>4, <1>5, <1>6, Frame DEF Mine

\* A round of the eviction loop that finds every block locked changes nothing.
LEMMA NoVictimStep ==
  ASSUME Inv, NEW t \in Threads, NoVictim(t)
  PROVE  Inv'
<1>1. pc[t] = "evict" /\ Control(t) /\ Place(t)
  BY DEF NoVictim, Evicting, Inv
<1>2. /\ slot' = slot /\ mutex' = mutex /\ block' = block /\ order' = order /\ Others(t)
      /\ pc'[t] = pc[t] /\ local'[t] = [local[t] EXCEPT !.oldUsed = used]
      /\ Elements(order') \subseteq Live
  BY DEF NoVictim, shared, Others, Inv, Typed
<1>3. Typed'
  <2>1. [local[t] EXCEPT !.oldUsed = used] \in Locals
    BY LocalIs, LocalsExcept
  <2>2. local' \in [Threads -> Locals]
    BY <2>1 DEF NoVictim, Inv, Typed
  <2> QED BY <2>2 DEF NoVictim, shared, Inv, Typed
<1>4. /\ local'[t].mine = local[t].mine /\ local'[t].victim = local[t].victim
      /\ local'[t].kind = local[t].kind /\ local'[t].i = local[t].i
      /\ local'[t].target = local[t].target
  BY <1>2 DEF Inv, Typed, Locals
<1>5. Control(t)'
  BY <1>1, <1>2, <1>4 DEF Control, Mine, Flushing, Stored
<1>6. Place(t)'
  BY <1>1, <1>2, <1>4, <1>5 DEF Place, Control, Mine, Wanted, Stored, Flushing
<1> QED BY <1>1, <1>2, <1>3, <1>4, <1>5, <1>6, Frame

\* Touch of the block just stored: it is in memory, the list stays one of live blocks.
LEMMA TouchAdoptedStep ==
  ASSUME Inv, NEW t \in Threads, TouchAdopted(t)
  PROVE  Inv'
<1>1. pc[t] = "touch" /\ Control(t) /\ Place(t) /\ mutex # t
  BY DEF TouchAdopted, Inv, Control, Flushing
<1>2. /\ slot' = slot /\ mutex' = mutex /\ block' = block /\ local' = local /\ Others(t)
      /\ pc'[t] \in {"locked", "reading"}
  BY DEF TouchAdopted, Goto, Others, Inv, Typed
<1>3. Mine(t) \in Live
  <2>1. Mine(t) # NULL /\ local[t] \in Locals
    BY <1>1 DEF Control, Stored, Inv, Typed
  <2>2. Mine(t) \in Blocks
    BY <2>1 DEF Mine, Locals
  <2>3. block[Mine(t)].at = Wanted(t) /\ Wanted(t) # NULL
    BY <1>1, <2>1, Constants DEF Place, Wanted, Control, Stored, Requests
  <2> QED BY <2>2, <2>3 DEF Live
<1>4. order' \in Seq(Blocks) /\ NoDuplicates(order') /\ Elements(order') \subseteq Live
  <2>1. Mine(t) \in Blocks /\ order \in Seq(Blocks) /\ NoDuplicates(order)
        /\ Elements(order) \subseteq Live /\ order' = MoveToFront(order, Mine(t))
    BY <1>3 DEF TouchAdopted, Live, Inv, Typed
  <2> QED BY <2>1, <1>3, MoveToFrontProperties
<1>5. Typed'
  <2>1. pc' \in [Threads -> Places]
    BY DEF TouchAdopted, Goto, Inv, Typed, Places
  <2> QED BY <1>4, <2>1 DEF TouchAdopted, Goto, Inv, Typed
<1>6. Control(t)'
  BY <1>1, <1>2 DEF Control, Mine, Flushing, Stored
<1>7. Place(t)'
  BY <1>1, <1>2 DEF Place, Control, Mine, Wanted, Stored, Flushing
<1> QED BY <1>1, <1>2, <1>4, <1>5, <1>6, <1>7, Frame

\* IReadBlock changes the data of a block and nothing else.
LEMMA ReadInStep ==
  ASSUME Inv, NEW t \in Threads, ReadIn(t)
  PROVE  Inv'
<1>1. /\ pc[t] = "reading" /\ Control(t) /\ Place(t) /\ mutex # t
      /\ Mine(t) \in Blocks /\ Wanted(t) \in Slots
  BY Constants DEF ReadIn, Inv, Typed, Locals, Control, Flushing, Stored, Mine, Wanted, Requests
<1>2. /\ slot' = slot /\ mutex' = mutex /\ local' = local /\ order' = order /\ Others(t)
      /\ pc'[t] = "locked" /\ Elements(order') \subseteq Live
  BY DEF ReadIn, Goto, Others, Inv, Typed
<1>3. [block[Mine(t)] EXCEPT !.data = disk[Wanted(t)]] \in Cells
  BY <1>1 DEF Inv, Typed, Cells
<1>4. Typed'
  <2>1. pc' \in [Threads -> Places] /\ block' \in [Blocks -> Cells]
    BY <1>3 DEF ReadIn, Goto, Inv, Typed, Places
  <2> QED BY <2>1 DEF ReadIn, Goto, Inv, Typed
<1>5. \A b \in Blocks : block'[b].at = block[b].at /\ block'[b].locks = block[b].locks
  BY <1>1 DEF ReadIn, Inv, Typed, Cells
<1>6. Control(t)'
  BY <1>1, <1>2 DEF Control, Mine, Flushing, Stored
<1>7. Place(t)'
  BY <1>1, <1>2, <1>5 DEF Place, Control, Mine, Wanted, Stored, Flushing
<1> QED BY <1>1, <1>2, <1>4, <1>5, <1>6, <1>7, Frame

\* So does the caller, who may also mark it dirty.
LEMMA UseBlockStep ==
  ASSUME Inv, NEW t \in Threads, UseBlock(t)
  PROVE  Inv'
<1>1. /\ pc[t] = "locked" /\ Control(t) /\ Place(t) /\ mutex # t
      /\ Mine(t) \in Blocks /\ local[t].kind \in Requests
  BY DEF UseBlock, Inv, Typed, Locals, Control, Flushing, Stored, Mine
<1> DEFINE old == block[Mine(t)].data
           new == CASE local[t].kind = "read" -> old
                    [] local[t].kind = "update" -> (old + 1) % NContents
                    [] local[t].kind = "fill" -> 0
<1>2. new \in Nat
  <2>1. old \in Nat
    BY <1>1 DEF Inv, Typed, Cells
  <2>2. (old + 1) % NContents \in Nat
    BY <2>1, Constants
  <2> HIDE DEF old
  <2> QED BY <1>1, <2>1, <2>2 DEF Requests
<1>3. /\ block' = IF local[t].kind = "read" THEN block
                  ELSE [block EXCEPT ![Mine(t)].data = new, ![Mine(t)].dirty = TRUE]
      /\ local' = [local EXCEPT ![t].got = new]
  BY DEF UseBlock
<1> HIDE DEF new, old
<1>4. /\ slot' = slot /\ mutex' = mutex /\ order' = order /\ Others(t)
      /\ pc'[t] = "used" /\ Elements(order') \subseteq Live
      /\ local'[t] = [local[t] EXCEPT !.got = new]
  BY <1>3 DEF UseBlock, Others, Inv, Typed
<1>5. /\ block' \in [Blocks -> Cells]
      /\ \A b \in Blocks : block'[b].at = block[b].at /\ block'[b].locks = block[b].locks
  <2>1. block \in [Blocks -> Cells]
    BY DEF Inv, Typed
  <2>2. CASE local[t].kind = "read"
    BY <1>3, <2>1, <2>2
  <2>3. CASE local[t].kind # "read"
    <3>1. block' = [block EXCEPT ![Mine(t)].data = new, ![Mine(t)].dirty = TRUE]
      BY <1>3, <2>3
    <3> QED BY <1>2, <2>1, <3>1 DEF Cells
  <2> QED BY <2>2, <2>3
<1>6. Typed'
  <2>1. [local[t] EXCEPT !.got = new] \in Locals
    BY <1>2, LocalIs, LocalsExcept
  <2>2. pc' \in [Threads -> Places] /\ local' \in [Threads -> Locals]
    BY <2>1, <1>3 DEF UseBlock, Inv, Typed, Places
  <2> QED BY <1>5, <2>2 DEF UseBlock, Inv, Typed
<1>7. /\ local'[t].mine = local[t].mine /\ local'[t].victim = local[t].victim
      /\ local'[t].kind = local[t].kind /\ local'[t].i = local[t].i
      /\ local'[t].target = local[t].target
  BY <1>4 DEF Inv, Typed, Locals
<1>8. Control(t)'
  BY <1>1, <1>4, <1>7 DEF Control, Mine, Flushing, Stored
<1>9. Place(t)'
  BY <1>1, <1>4, <1>5, <1>7 DEF Place, Control, Mine, Wanted, Stored, Flushing
<1> QED BY <1>1, <1>4, <1>5, <1>6, <1>7, <1>8, <1>9, Frame

\* The sweep goes to the next block, or to FlushBlock of its own band.
LEMMA SweepNextStep ==
  ASSUME Inv, NEW t \in Threads, SweepNext(t)
  PROVE  Inv'
<1>1. /\ pc[t] = "sweep" /\ Control(t) /\ Place(t) /\ mutex # t
      /\ Mine(t) = NULL /\ local[t].victim = NULL /\ local[t].kind \in Sweeps
      /\ local[t] \in Locals
  BY DEF SweepNext, Inv, Typed, Control, Flushing, Stored, Mine
<1>2. local[t].i \in 1 .. NBlocks /\ Wanted(t) \in Slots
  BY <1>1, Constants DEF SweepNext, SweepOver, Inv, Typed, Locals, Wanted
<1>3. /\ slot' = slot /\ mutex' = mutex /\ block' = block /\ order' = order /\ Others(t)
      /\ Elements(order') \subseteq Live
  BY DEF SweepNext, shared, Others, Inv, Typed
<1>4. \/ pc'[t] = "sweep" /\ local' = [local EXCEPT ![t].i = @ + 1] /\ pc' = pc
      \/ /\ local' = [local EXCEPT ![t].target = Wanted(t)]
         /\ pc' = [pc EXCEPT ![t] = "flushlock"]
  BY <1>1 DEF SweepNext
<1>5. /\ Typed' /\ local'[t].mine = NULL /\ local'[t].victim = NULL /\ local'[t].kind \in Sweeps
      /\ \/ pc'[t] = "sweep"
         \/ pc'[t] = "flushlock" /\ local'[t].target = Wanted(t) /\ local'[t].i = local[t].i
  <2>1. CASE pc'[t] = "sweep" /\ local' = [local EXCEPT ![t].i = @ + 1] /\ pc' = pc
    <3>1. local[t].i + 1 \in 1 .. NBlocks + 1
      BY <1>2, Constants
    <3>2. [local[t] EXCEPT !.i = @ + 1] \in Locals
      BY <1>1, <3>1 DEF Locals
    <3>3. local' \in [Threads -> Locals] /\ local'[t] = [local[t] EXCEPT !.i = @ + 1]
      BY <2>1, <3>2 DEF Inv, Typed
    <3>4. Typed'
      BY <2>1, <3>3 DEF SweepNext, shared, Inv, Typed
    <3> QED BY <1>1, <2>1, <3>3, <3>4 DEF Mine, Locals
  <2>2. CASE /\ local' = [local EXCEPT ![t].target = Wanted(t)]
             /\ pc' = [pc EXCEPT ![t] = "flushlock"]
    <3>1. [local[t] EXCEPT !.target = Wanted(t)] \in Locals
      BY <1>1, <1>2 DEF Locals
    <3>2. local' \in [Threads -> Locals] /\ local'[t] = [local[t] EXCEPT !.target = Wanted(t)]
      BY <2>2, <3>1 DEF Inv, Typed
    <3>3. pc' \in [Threads -> Places] /\ pc'[t] = "flushlock"
      BY <2>2 DEF Inv, Typed, Places
    <3>4. Typed'
      BY <3>2, <3>3 DEF SweepNext, shared, Inv, Typed
    <3> QED BY <1>1, <3>2, <3>3, <3>4 DEF Mine, Locals
  <2> QED BY <1>4, <2>1, <2>2
<1>6. Control(t)'
  BY <1>1, <1>2, <1>3, <1>5 DEF Control, Mine, Flushing, Stored, Wanted, Requests, Sweeps, Calls
<1>7. Place(t)'
  BY <1>1, <1>3, <1>5, Constants DEF Place, Control, Mine, Stored, Flushing, Sweeps
<1> QED BY <1>1, <1>3, <1>5, <1>6, <1>7, Frame DEF Mine

\* FlushCache returns, or the destructor of the band calls it again, or that one
\* returns and frees papoBlocks, which is empty by then.
LEMMA SweepEnds ==
  ASSUME Inv, NEW t \in Threads,
         \/ FlushCacheReturns(t) \/ DestroyBand(t)
         \/ BandDestroyed(t) /\ slot' = slot
  PROVE  /\ Inv' /\ Others(t) /\ mutex # t /\ pc[t] = "sweep" /\ Mine(t) = NULL
         /\ pc'[t] \in {"idle", "sweep"} /\ Mine(t)' = NULL
         /\ UNCHANGED <<slot, block, order, used, cacheMax, maxRead, mutex, disk>>
<1>1. /\ pc[t] = "sweep" /\ Control(t) /\ Place(t) /\ mutex # t
      /\ Mine(t) = NULL /\ local[t].victim = NULL
  BY DEF FlushCacheReturns, DestroyBand, BandDestroyed, SweepOver, Inv, Typed, Control, Flushing,
         Stored, Mine
<1>2. UNCHANGED <<slot, block, order, used, cacheMax, maxRead, mutex, disk>>
  BY DEF FlushCacheReturns, DestroyBand, BandDestroyed, shared
<1>3. PICK r \in Locals : /\ local' = [local EXCEPT ![t] = r]
                          /\ r.mine = NULL /\ r.victim = NULL
                          /\ pc' = [pc EXCEPT ![t] = "sweep"] => r.kind \in Sweeps
                          /\ \/ pc' = [pc EXCEPT ![t] = "idle"] /\ r = Idle
                             \/ pc' = [pc EXCEPT ![t] = "sweep"]
  <2>1. CASE FlushCacheReturns(t) \/ BandDestroyed(t)
    <3>1. Idle \in Locals /\ Idle.mine = NULL /\ Idle.victim = NULL
      BY Constants DEF Idle, Locals
    <3>2. local' = [local EXCEPT ![t] = Idle] /\ pc' = [pc EXCEPT ![t] = "idle"]
      BY <2>1 DEF FlushCacheReturns, BandDestroyed, Return
    <3>3. pc' # [pc EXCEPT ![t] = "sweep"]
      BY <1>1, <3>2 DEF Inv, Typed
    <3> QED BY <3>1, <3>2, <3>3
  <2>2. CASE DestroyBand(t)
    <3> DEFINE new == [Idle EXCEPT !.kind = "destroy"]
    <3>0. Idle \in Locals /\ Idle.mine = NULL /\ Idle.victim = NULL
      BY Constants DEF Idle, Locals
    <3>1. new \in Locals /\ new.mine = NULL /\ new.victim = NULL /\ new.kind \in Sweeps
      BY <3>0, LocalsExcept DEF Idle, Calls, Sweeps
    <3>2. local' = [local EXCEPT ![t] = new] /\ pc' = [pc EXCEPT ![t] = "sweep"]
      BY <1>1, <2>2 DEF DestroyBand, Inv, Typed
    <3> QED BY <3>1, <3>2
  <2> QED BY <2>1, <2>2
<1>4. /\ Others(t) /\ local'[t] = r /\ Elements(order') \subseteq Live
      /\ pc'[t] \in {"idle", "sweep"} /\ pc' \in [Threads -> Places]
      /\ local' \in [Threads -> Locals]
      /\ pc'[t] = "sweep" => r.kind \in Sweeps
      /\ pc'[t] = "idle" => r = Idle
  BY <1>2, <1>3 DEF Inv, Typed, Others, Places
<1>5. Typed'
  BY <1>2, <1>4 DEF Inv, Typed
<1>6. Control(t)'
  BY <1>1, <1>2, <1>3, <1>4 DEF Control, Mine, Flushing, Stored, Requests, Sweeps
<1>7. Place(t)'
  BY <1>1, <1>2, <1>3, <1>4, <1>6 DEF Place, Control, Mine, Stored, Flushing
<1>8. Inv'
  BY <1>1, <1>2, <1>3, <1>4, <1>5, <1>6, <1>7, Frame DEF Mine
<1> QED BY <1>1, <1>2, <1>3, <1>4, <1>8 DEF Mine

\* Detach takes the block out of the list; its user keeps it.
LEMMA FlushDetachStep ==
  ASSUME Inv, NEW t \in Threads, FlushDetach(t)
  PROVE  Inv'
<1>1. /\ pc[t] = "flushdetach" /\ Control(t) /\ Place(t)
      /\ local[t].victim \in Blocks
  BY DEF FlushDetach, Inv, Typed, Locals, Control
<1>2. /\ slot' = slot /\ mutex' = mutex /\ local' = local /\ Others(t)
      /\ pc'[t] \in {"writing", "delete"}
      /\ order' = Without(order, local[t].victim)
      /\ block' = [block EXCEPT ![local[t].victim].dirty = FALSE]
  BY DEF FlushDetach, Goto, Others, Inv, Typed
<1>3. order' \in Seq(Blocks) /\ NoDuplicates(order') /\ Elements(order') \subseteq Live
  <2>1. order \in Seq(Blocks) /\ NoDuplicates(order) /\ Elements(order) \subseteq Live
    BY DEF Inv, Typed
  <2> QED BY <1>2, <2>1, WithoutProperties
<1>4. /\ block' \in [Blocks -> Cells]
      /\ \A b \in Blocks : block'[b].at = block[b].at /\ block'[b].locks = block[b].locks
  <2>1. block \in [Blocks -> Cells]
    BY DEF Inv, Typed
  <2>2. PICK v \in Blocks : v = local[t].victim
    BY <1>1
  <2>3. block' = [block EXCEPT ![v].dirty = FALSE]
    BY <1>2, <2>2
  <2> QED BY <2>1, <2>3 DEF Cells
<1>5. Typed'
  <2>1. pc' \in [Threads -> Places]
    BY DEF FlushDetach, Goto, Inv, Typed, Places
  <2> QED BY <1>3, <1>4, <2>1, <1>2 DEF FlushDetach, Inv, Typed
<1>6. Control(t)'
  BY <1>1, <1>2 DEF Control, Mine, Flushing, Stored
<1>7. Place(t)'
  <2>1. /\ Mine(t)' = Mine(t) /\ Wanted(t)' = Wanted(t) /\ pc'[t] \notin Stored
        /\ Mine(t) # NULL => Mine(t) \in Blocks
    BY <1>1, <1>2, LocalIs DEF Mine, Wanted, Stored, Locals
  <2> QED BY <1>1, <1>2, <1>4, <2>1 DEF Place, Control, Flushing
<1> QED BY <1>1, <1>2, <1>3, <1>4, <1>5, <1>6, <1>7, Frame

\* IWriteBlock, successful or not, changes the file and eErr only.
LEMMA WriteOutStep ==
  ASSUME Inv, NEW t \in Threads, NEW ok \in BOOLEAN, WriteOut(t, ok)
  PROVE  Inv'
<1>1. /\ pc[t] = "writing" /\ Control(t) /\ Place(t)
      /\ local[t].victim \in Blocks /\ local[t].target \in Slots
  BY DEF WriteOut, Inv, Typed, Locals, Control, Flushing
<1>2. /\ slot' = slot /\ mutex' = mutex /\ block' = block /\ order' = order /\ Others(t)
      /\ pc'[t] = "delete" /\ local'[t] = [local[t] EXCEPT !.failed = ~ok]
      /\ Elements(order') \subseteq Live
  BY DEF WriteOut, Others, Inv, Typed
<1>3. Typed'
  <2>1. [local[t] EXCEPT !.failed = ~ok] \in Locals
    BY LocalIs, LocalsExcept
  <2>2. local' \in [Threads -> Locals] /\ pc' \in [Threads -> Places]
    BY <2>1 DEF WriteOut, Inv, Typed, Places
  <2>3. block[local[t].victim].data \in Nat
    BY <1>1 DEF Inv, Typed, Cells
  <2>4. disk' \in [Slots -> Nat]
    BY <1>1, <2>3 DEF WriteOut, Inv, Typed
  <2> QED BY <2>2, <2>4 DEF WriteOut, Inv, Typed
<1>4. /\ local'[t].mine = local[t].mine /\ local'[t].victim = local[t].victim
      /\ local'[t].kind = local[t].kind /\ local'[t].i = local[t].i
      /\ local'[t].target = local[t].target
  BY <1>2 DEF Inv, Typed, Locals
<1>5. Control(t)'
  BY <1>1, <1>2, <1>4 DEF Control, Mine, Flushing, Stored
<1>6. Place(t)'
  BY <1>1, <1>2, <1>4, <1>5 DEF Place, Control, Mine, Wanted, Stored, Flushing
<1> QED BY <1>1, <1>2, <1>3, <1>4, <1>5, <1>6, Frame DEF Others

\* A block that a thread holds is in memory.
LEMMA HeldLive ==
  ASSUME Inv, NEW t \in Threads, NEW b \in Blocks, Holds(t, b)
  PROVE  b \in Live
<1>1. Control(t) /\ Place(t) /\ SlotsAgree /\ local[t] \in Locals
  BY DEF Inv, Typed
<1>2. CASE Mine(t) = b
  <2>1. Wanted(t) \in Slots /\ block[b].at = Wanted(t)
    BY <1>1, <1>2, Constants DEF Control, Place, Flushing, Stored, Wanted
  <2> QED BY <2>1, Constants DEF Live
<1>3. CASE local[t].victim = b
  <2>1. local[t].target \in Slots /\ block[b].at = local[t].target
    BY <1>1, <1>3, Constants DEF Control, Place, Flushing
  <2> QED BY <2>1, Constants DEF Live
<1>4. CASE pc[t] = "fetch" /\ slot[Wanted(t)] = b
  <2>1. Wanted(t) \in Slots
    BY <1>1, <1>4, Constants DEF Control, Wanted
  <2> QED BY <1>1, <1>4, <2>1, Constants DEF Live, SlotsAgree
<1>5. CASE pc[t] = "flushtake" /\ slot[local[t].target] = b
  <2>1. local[t].target \in Slots
    BY <1>1, <1>5 DEF Control, Flushing
  <2> QED BY <1>1, <1>5, <2>1, Constants DEF Live, SlotsAgree
<1> QED BY <1>2, <1>3, <1>4, <1>5 DEF Holds

\* While no other thread evicts, nobody else holds the blocks of t.
LEMMA OwnBlocks ==
  ASSUME Inv, NEW t \in Threads, mutex \in {NULL, t}, NEW b \in Blocks,
         NEW u \in Threads \ {t}, Holds(u, b), b \in Live
  PROVE  block[b].at[1] = u
<1>1. Control(u) /\ Place(u) /\ SlotsAgree /\ local[u] \in Locals /\ mutex # u
  BY Constants DEF Inv, Typed
<1>2. CASE Mine(u) = b
  BY <1>1, <1>2, Constants DEF Place, Wanted
<1>3. CASE local[u].victim = b
  <2>1. Mine(u) = NULL /\ local[u].target[1] = u
    BY <1>1, <1>3, Constants DEF Control, Flushing
  <2> QED BY <1>1, <1>3, <2>1, Constants DEF Place
<1>4. CASE pc[u] = "fetch" /\ slot[Wanted(u)] = b
  <2>1. Wanted(u) \in Slots
    BY <1>1, <1>4, Constants DEF Control, Wanted
  <2> QED BY <1>1, <1>4, <2>1, Constants DEF SlotsAgree, Wanted
<1>5. CASE pc[u] = "flushtake" /\ slot[local[u].target] = b
  <2>1. local[u].target \in Slots /\ local[u].target[1] = u
    BY <1>1, <1>5 DEF Control, Flushing
  <2> QED BY <1>1, <1>5, <2>1, Constants DEF SlotsAgree
<1> QED BY <1>2, <1>3, <1>4, <1>5 DEF Holds

\* A step of t on a block b that no other thread holds.  b ends up freed, or
\* in memory with the right number of locks.
LEMMA Handover ==
  ASSUME Inv, NEW t \in Threads, NEW b \in Blocks, Typed', Others(t),
         mutex' = mutex \/ {mutex, mutex'} \subseteq {NULL, t},
         Holds(t, b) \/ mutex \in {NULL, t},
         \A u \in Threads \ {t} : ~Holds(u, b),
         \A u \in Threads \ {t}, c \in Blocks : Holds(u, c)' <=> Holds(u, c),
         \A c \in Blocks \ {b} :
           /\ Holds(t, c)' <=> Holds(t, c)
           /\ (mutex = t /\ Mine(t) = c)' <=> (mutex = t /\ Mine(t) = c)
           /\ block'[c].at = block[c].at /\ block'[c].locks = block[c].locks,
         \A s \in Slots :
           \/ slot'[s] = slot[s]
           \/ slot[s] = b /\ slot'[s] = NULL
           \/ slot[s] = NULL /\ slot'[s] = b /\ s = Wanted(t) /\ b \in Live,
         \/ /\ block'[b].at = NULL /\ ~Holds(t, b)' /\ \A s \in Slots : slot'[s] # b
         \/ /\ block'[b].at # NULL /\ \A s \in Slots : slot'[s] = b => block'[b].at = s
            /\ \A c \in Live \ {b} : block[c].at # block'[b].at
            /\ b \in Live => block'[b].at = block[b].at
            /\ ~Holds(t, b)' => slot'[block'[b].at] = b
            /\ (mutex = t /\ Mine(t) = b)' => block'[b].locks = 2
            /\ Holds(t, b)' /\ ~(mutex = t /\ Mine(t) = b)'
                 => block'[b].locks = IF pc'[t] = "discard" THEN 0 ELSE 1
            /\ ~Holds(t, b)' => block'[b].locks = 0,
         pc[t] = "discard" => Mine(t) = b /\ mutex \in {NULL, t},
         pc'[t] = "discard" => Mine(t)' = b,
         Elements(order') \subseteq Live',
         Control(t)', Place(t)'
  PROVE  Inv'
<1>1. Live' \ {b} = Live \ {b}
  BY DEF Live
<1>2. \A u \in Threads, c \in Blocks \ {b} : Holds(u, c)' <=> Holds(u, c)
  OBVIOUS
<1>3. \A u \in Threads \ {t} : ~Holds(u, b)'
  OBVIOUS
<1>4. \A u \in Threads \ {t} :
        /\ pc'[u] = pc[u] /\ local'[u] = local[u] /\ (mutex' = u <=> mutex = u)
        /\ Control(u) /\ Place(u) /\ local[u] \in Locals
  BY Constants DEF Others, Inv, Typed
<1>5. ASSUME NEW u \in Threads \ {t} PROVE Control(u)'
  BY <1>4 DEF Control, Mine
<1>6. ASSUME NEW u \in Threads \ {t} PROVE Place(u)'
  <2>1. Mine(u)' = Mine(u) /\ Wanted(u)' = Wanted(u) /\ Mine(u) # b /\ local[u].victim # b
    BY <1>4 DEF Mine, Wanted, Holds
  <2>2. Mine(u) # NULL => block'[Mine(u)].at = Wanted(u)
    BY <1>4, <2>1 DEF Place, Locals, Mine
  <2>3. pc[u] \in {"new", "adopt", "discard"} \/ mutex = u => slot'[Wanted(u)] = NULL
    <3>1. Wanted(u) # Wanted(t)
      BY DEF Wanted
    <3>2. pc[u] \in {"new", "adopt", "discard"} \/ mutex = u => Wanted(u) \in Slots
      BY <1>4, Constants DEF Control, Wanted, Flushing
    <3> QED BY <1>4, <3>1, <3>2, Constants DEF Place
  <2>4. pc[u] \in Stored => slot'[Wanted(u)] = Mine(u)
    <3>1. pc[u] \in Stored => Wanted(u) \in Slots /\ Mine(u) # NULL
      BY <1>4, Constants DEF Control, Wanted, Stored
    <3> QED BY <1>4, <2>1, <3>1 DEF Place
  <2>5. local[u].victim # NULL =>
          /\ block'[local[u].victim].at = local[u].target
          /\ slot'[local[u].target] = NULL
          /\ local[u].victim # Mine(u)
    <3> SUFFICES ASSUME local[u].victim # NULL
                 PROVE  /\ block'[local[u].victim].at = local[u].target
                        /\ slot'[local[u].target] = NULL
                        /\ local[u].victim # Mine(u)
      OBVIOUS
    <3> DEFINE v == local[u].victim
    <3>1. /\ v \in Blocks \ {b} /\ block[v].at = local[u].target /\ v # Mine(u)
          /\ slot[local[u].target] = NULL /\ local[u].target \in Slots
      BY <1>4, <2>1 DEF Place, Control, Flushing, Locals
    <3>2. v \in Live
      BY <3>1, Constants DEF Live
    <3>3. slot'[local[u].target] = NULL
      <4>1. CASE slot'[local[u].target] = b /\ b \in Live
        <5>1. block'[b].at = local[u].target
          BY <3>1, <4>1
        <5> QED BY <3>1, <3>2, <4>1, <5>1 DEF Live
      <4> QED BY <3>1, <4>1
    <3> QED BY <3>1, <3>3
  <2>6. pc[u] \in {"flushlock", "flushtake"} /\ (mutex = u \/ local[u].kind = "setmax")
          => slot'[local[u].target] # NULL \/ Homeless(local[u].target)'
    <3>0. pc[u] \in {"flushlock", "flushtake"} => local[u].kind # "setmax"
      BY <1>4 DEF Control, Alone
    <3> SUFFICES ASSUME pc[u] \in {"flushlock", "flushtake"}, mutex = u
                 PROVE  slot'[local[u].target] # NULL \/ Homeless(local[u].target)'
      BY <3>0
    <3>1. /\ local[u].target \in Slots
          /\ slot[local[u].target] # NULL \/ Homeless(local[u].target)
      BY <1>4 DEF Place, Control, Flushing
    <3>2. Holds(t, b) /\ b # NULL
      BY Constants
    <3>2a. CASE Homeless(local[u].target)
      <4>1. pc[t] # "discard" /\ local'[u].target = local[u].target
        BY <1>4, Constants
      <4>2. \A s \in Slots : Homeless(s) => Homeless(s)'
        BY <4>1, HomelessKept
      <4> QED BY <3>1, <3>2a, <4>1, <4>2
    <3>3. slot[local[u].target] # b
      <4>1. CASE pc[u] = "flushlock"
        BY <1>4, <3>2, <4>1 DEF Place
      <4>2. CASE pc[u] = "flushtake"
        BY <4>2 DEF Holds
      <4> QED BY <4>1, <4>2
    <3> QED BY <3>1, <3>2a, <3>3, Constants
  <2>7. pc[u] = "flushlock" /\ mutex = u /\ slot'[local[u].target] # NULL =>
          \A v \in Threads : ~Holds(v, slot[local[u].target])'
    <3> SUFFICES ASSUME pc[u] = "flushlock", mutex = u, slot'[local[u].target] # NULL,
                        NEW v \in Threads
                 PROVE  ~Holds(v, slot[local[u].target])'
      OBVIOUS
    <3> DEFINE c == slot[local[u].target]
    <3>1. c \in Blocks /\ ~Holds(v, c) /\ ~Holds(t, c) /\ local[u].target \in Slots
      <4>1. local[u].target \in Slots /\ c # NULL
        <5>1. local[u].target \in Slots /\ (c # NULL \/ Homeless(local[u].target))
          BY <1>4 DEF Place, Control, Flushing
        <5>2. c = NULL => local[u].target = Wanted(t)
          BY <5>1
        <5>3. Homeless(Wanted(t)) => pc[t] = "discard"
          BY DEF Homeless, Wanted
        <5> QED BY <5>1, <5>2, <5>3, Constants
      <4>2. ~Holds(v, c) /\ ~Holds(t, c)
        BY <1>4, <4>1 DEF Place
      <4> QED BY <4>1, <4>2 DEF Inv, Typed
    <3>2. c # b
      BY <3>1, Constants
    <3>3. c' = c
      BY <3>1, <3>2, <1>4, Constants
    <3> HIDE DEF c
    <3>4. ~Holds(v, c)'
      BY <3>1, <3>2, <3>3, <1>2
    <3> QED BY <3>4 DEF c
  <2> QED BY <1>4, <2>1, <2>2, <2>3, <2>4, <2>5, <2>6, <2>7 DEF Place
<1>7. SlotsAgree'
  <2> SUFFICES ASSUME NEW s \in Slots, slot'[s] # NULL
               PROVE  block'[slot'[s]].at = s
    BY DEF SlotsAgree
  <2>1. CASE slot'[s] = b
    BY <2>1
  <2>2. CASE slot'[s] # b
    <3>1. slot'[s] = slot[s] /\ slot[s] \in Blocks \ {b}
      BY <2>2 DEF Inv, Typed
    <3>2. block[slot[s]].at = s
      BY <3>1, Constants DEF Inv, SlotsAgree
    <3> QED BY <3>1, <3>2
  <2> QED BY <2>1, <2>2
<1>8. OneHolder'
  <2> SUFFICES ASSUME NEW c \in Blocks, NEW u \in Threads, NEW v \in Threads,
                      Holds(u, c)', Holds(v, c)'
               PROVE  u = v
    BY DEF OneHolder
  <2>1. CASE c = b
    BY <2>1, <1>3
  <2>2. CASE c # b
    BY <2>2, <1>2 DEF Inv, OneHolder
  <2> QED BY <2>1, <2>2
<1>9. OneBlock'
  <2> SUFFICES ASSUME NEW c \in Live', NEW d \in Live', block'[c].at = block'[d].at
               PROVE  c = d
    BY DEF OneBlock
  <2>1. CASE c # b /\ d # b
    BY <2>1, <1>1 DEF Inv, OneBlock, Live
  <2>2. CASE c = b /\ d # b
    BY <2>2, <1>1 DEF Live
  <2>3. CASE c # b /\ d = b
    BY <2>3, <1>1 DEF Live
  <2> QED BY <2>1, <2>2, <2>3
<1>10. UnheldStored'
  <2> SUFFICES ASSUME NEW c \in Live', \A u \in Threads : ~Holds(u, c)'
               PROVE  slot'[block'[c].at] = c
    BY DEF UnheldStored
  <2>1. CASE c = b
    BY <2>1 DEF Live
  <2>2. CASE c # b
    <3>1. c \in Live /\ slot[block[c].at] = c /\ block[c].at \in Slots
      BY <2>2, <1>1, <1>2 DEF Inv, UnheldStored, Live, Typed, Cells
    <3> QED BY <2>2, <3>1, Constants DEF Live
  <2> QED BY <2>1, <2>2
<1>11. Locks'
  <2> SUFFICES ASSUME NEW c \in Live'
               PROVE  /\ \A u \in Threads : (mutex = u /\ Mine(u) = c)' => block'[c].locks = 2
                      /\ \A u \in Threads : Holds(u, c)' /\ ~(mutex = u /\ Mine(u) = c)'
                           => block'[c].locks = IF pc'[u] = "discard" THEN 0 ELSE 1
                      /\ (\A u \in Threads : ~Holds(u, c)') => block'[c].locks = 0
    BY DEF Locks
  <2>1. CASE c = b
    BY <2>1, <1>3 DEF Live, Holds
  <2>2. CASE c # b
    <3>1. \A u \in Threads : (mutex = u /\ Mine(u) = c)' <=> (mutex = u /\ Mine(u) = c)
      BY <2>2, <1>4 DEF Mine, Live
    <3>2. \A u \in Threads : Holds(u, c)' => (pc'[u] = "discard" <=> pc[u] = "discard")
      <4>1. c \in Blocks /\ c # NULL
        BY Constants DEF Live
      <4>2. pc[t] = "discard" /\ Holds(t, c) => c = b
        BY <4>1 DEF Inv, Control, Holds, Flushing
      <4>3. pc'[t] = "discard" /\ Holds(t, c)' => c = b
        BY <4>1 DEF Control, Holds, Flushing
      <4> QED BY <2>2, <4>1, <4>2, <4>3, <1>2, <1>4
    <3>3. c \in Live /\ block'[c].locks = block[c].locks
      BY <2>2, <1>1 DEF Live
    <3>4. /\ \A u \in Threads : mutex = u /\ Mine(u) = c => block[c].locks = 2
          /\ \A u \in Threads : Holds(u, c) /\ ~(mutex = u /\ Mine(u) = c)
               => block[c].locks = IF pc[u] = "discard" THEN 0 ELSE 1
          /\ (\A u \in Threads : ~Holds(u, c)) => block[c].locks = 0
      BY <3>3 DEF Inv, Locks
    <3> QED BY <2>2, <3>1, <3>2, <3>3, <3>4, <1>2 DEF Live
  <2> QED BY <2>1, <2>2
<1> QED BY <1>5, <1>6, <1>7, <1>8, <1>9, <1>10, <1>11 DEF Inv

\* The victim of an eviction is a block in memory that nobody holds.
LEMMA PickVictimStep ==
  ASSUME Inv, NEW t \in Threads, PickVictim(t)
  PROVE  Inv'
<1>1. /\ pc[t] = "evict" /\ Control(t) /\ Place(t)
      /\ mutex = t <=> Mine(t) # NULL
      /\ local[t].victim = NULL /\ local[t] \in Locals
  BY DEF PickVictim, Evicting, Inv, Typed, Control, Flushing
<1>2. PICK b \in Elements(order) : b = OldestIn(order, Unlocked) /\ block[b].locks = 0
  <2>1. Elements(order) \cap Unlocked # {} /\ order \in Seq(Blocks)
    BY DEF PickVictim, Unlocked, Inv, Typed
  <2>2. OldestIn(order, Unlocked) \in Elements(order) \cap Unlocked
    BY <2>1, OldestInProperties
  <2> QED BY <2>2 DEF Unlocked
<1>3. /\ order' = Without(order, b)
      /\ local' = [local EXCEPT ![t].oldUsed = used, ![t].target = block[b].at]
      /\ pc' = [pc EXCEPT ![t] = "flushlock"]
      /\ UNCHANGED <<slot, block, used, cacheMax, maxRead, mutex, disk, open>>
  BY <1>2 DEF PickVictim
<1>4. /\ b \in Live /\ order' \in Seq(Blocks) /\ NoDuplicates(order')
      /\ Elements(order') \subseteq Live
  <2>1. order \in Seq(Blocks) /\ NoDuplicates(order) /\ Elements(order) \subseteq Live
    BY DEF Inv, Typed
  <2> QED BY <1>2, <1>3, <2>1, WithoutProperties
<1>5. \/ \A u \in Threads : ~Holds(u, b)
      \/ \E u \in Threads : Mine(u) = b /\ pc[u] = "discard"
  <2> SUFFICES ASSUME NEW u \in Threads, Holds(u, b) PROVE Mine(u) = b /\ pc[u] = "discard"
    OBVIOUS
  <2>1. pc[u] = "discard"
    BY <1>2, <1>4 DEF Inv, Locks
  <2> QED BY <2>1, <1>4, Constants DEF Holds, Inv, Control, Flushing, Live
<1>6. /\ b \in Blocks /\ block[b].at \in Slots
      /\ \/ slot[block[b].at] = b /\ \A u \in Threads : ~Holds(u, b)
         \/ slot[block[b].at] = NULL /\ Homeless(block[b].at)
  <2>1. b \in Blocks /\ block[b].at \in Slots
    BY <1>4 DEF Inv, Typed, Cells, Live
  <2>2. CASE \A u \in Threads : ~Holds(u, b)
    BY <1>4, <2>1, <2>2 DEF Inv, UnheldStored
  <2>3. ASSUME NEW u \in Threads, Mine(u) = b, pc[u] = "discard"
        PROVE  slot[block[b].at] = NULL /\ Homeless(block[b].at)
    <3>1. block[b].at = Wanted(u) /\ slot[Wanted(u)] = NULL
      BY <2>1, <2>3, Constants DEF Inv, Place
    <3>2. Wanted(u)[1] = u
      BY DEF Wanted
    <3> QED BY <2>3, <3>1, <3>2 DEF Homeless
  <2> QED BY <1>5, <2>1, <2>2, <2>3
<1>7. local'[t] = [local[t] EXCEPT !.oldUsed = used, !.target = block[b].at]
  BY <1>3 DEF Inv, Typed
<1>8. Typed'
  <2>1. [local[t] EXCEPT !.oldUsed = used, !.target = block[b].at] \in Locals
    <3>1. [local[t] EXCEPT !.oldUsed = used] \in Locals
      BY LocalIs, LocalsExcept
    <3>2. [[local[t] EXCEPT !.oldUsed = used] EXCEPT !.target = block[b].at] \in Locals
      BY <1>1, <1>6, <3>1, LocalsExcept
    <3> QED BY <3>2
  <2>2. local' \in [Threads -> Locals] /\ pc' \in [Threads -> Places]
    BY <2>1, <1>3 DEF Inv, Typed, Places
  <2> QED BY <1>3, <1>4, <2>2 DEF Inv, Typed
<1>9. /\ local'[t].mine = local[t].mine /\ local'[t].victim = local[t].victim
      /\ local'[t].kind = local[t].kind /\ local'[t].i = local[t].i
      /\ local'[t].target = block[b].at /\ pc'[t] = "flushlock" /\ Others(t)
  BY <1>1, <1>3, <1>7 DEF Locals, Others, Inv, Typed
<1>10. Control(t)'
  <2>1. mutex' = mutex /\ Mine(t)' = Mine(t)
    BY <1>3, <1>9 DEF Mine
  <2>2. CASE Mine(t) # NULL
    <3>1. local[t].kind \in Requests /\ local[t].i \in 1 .. NBlocks
      BY <1>1, <2>2 DEF Control
    <3> QED BY <1>1, <1>6, <1>9, <2>1, <2>2, <3>1 DEF Control, Flushing, Stored, Requests, Calls
  <2>3. CASE Mine(t) = NULL
    <3>1. local[t].kind = "setmax" /\ Alone(t) /\ local[t].i = 1
      BY <1>1, <2>3 DEF Control
    <3>2. (block[b].at)[1] = t /\ 1 \in 1 .. NBlocks
      <4>1. PICK u \in Threads, j \in 1 .. NBlocks : block[b].at = <<u, j>>
        BY <1>6 DEF Slots
      <4>2. u = t /\ NBlocks \in Nat
        BY <3>1, <4>1, Constants DEF Alone
      <4> QED BY <4>1, <4>2
    <3> QED BY <1>1, <1>6, <1>9, <2>1, <2>3, <3>1, <3>2
            DEF Control, Alone, Flushing, Stored, Requests, Calls
  <2> QED BY <2>2, <2>3
<1>11. ASSUME \A u \in Threads : ~Holds(u, b) PROVE \A u \in Threads : ~Holds(u, b)'
  <2>1. ~Holds(t, b)'
    BY <1>1, <1>3, <1>9, <1>11 DEF Holds, Mine
  <2>2. \A u \in Threads \ {t} : Holds(u, b)' <=> Holds(u, b)
    BY <1>3, <1>9 DEF Holds, Others, Mine, Wanted
  <2> QED BY <2>1, <2>2, <1>11
<1>12. Place(t)'
  <2>0. (local[t].target)' = block[b].at /\ (slot[local[t].target])' = slot[block[b].at]
    BY <1>3, <1>9
  <2>1. CASE slot[block[b].at] = b /\ \A u \in Threads : ~Holds(u, b)
    <3>1. \A u \in Threads : ~Holds(u, slot[local[t].target])'
      BY <2>0, <2>1, <1>11
    <3> QED BY <1>1, <1>3, <1>6, <1>9, <2>0, <2>1, <3>1, Constants DEF Place, Mine, Wanted, Stored
  <2>2. CASE slot[block[b].at] = NULL /\ Homeless(block[b].at)
    <3>1. Homeless(local[t].target)'
      BY <1>1, <1>6, <1>9, <2>0, <2>2, HomelessKept
    <3> QED BY <1>1, <1>3, <1>6, <1>9, <2>0, <2>2, <3>1, Constants DEF Place, Mine, Wanted, Stored
  <2> QED BY <1>6, <2>1, <2>2
<1> QED BY <1>1, <1>3, <1>4, <1>8, <1>9, <1>10, <1>12, Frame

\* TryGetLockedBlockRef returns the block it has locked, if it still is in the slot.
LEMMA FetchStep ==
  ASSUME Inv, NEW t \in Threads, Fetch(t)
  PROVE  Inv'
<1>1. /\ pc[t] = "fetch" /\ Control(t) /\ Place(t) /\ mutex # t /\ Wanted(t) \in Slots
      /\ Mine(t) = NULL /\ local[t].victim = NULL /\ local[t] \in Locals
      /\ local[t].kind \in Requests
  BY Constants DEF Fetch, Inv, Typed, Control, Flushing, Stored, Wanted
<1>2. /\ local' = [local EXCEPT ![t].mine = slot[Wanted(t)]]
      /\ pc' = [pc EXCEPT ![t] = IF slot[Wanted(t)] = NULL THEN "new" ELSE "locked"]
      /\ slot' = slot /\ block' = block /\ order' = order /\ mutex' = mutex
  BY DEF Fetch, shared
<1>3. /\ local'[t] = [local[t] EXCEPT !.mine = slot[Wanted(t)]]
      /\ pc'[t] = IF slot[Wanted(t)] = NULL THEN "new" ELSE "locked"
      /\ Others(t) /\ Elements(order') \subseteq Live
  BY <1>2 DEF Inv, Typed, Others
<1>4. Typed'
  <2>1. [local[t] EXCEPT !.mine = slot[Wanted(t)]] \in Locals
    <3>1. slot[Wanted(t)] \in Blocks \cup {NULL}
      BY <1>1 DEF Inv, Typed
    <3> QED BY <3>1, LocalIs, LocalsExcept
  <2>2. local' \in [Threads -> Locals] /\ pc' \in [Threads -> Places]
    BY <2>1, <1>2 DEF Inv, Typed, Places
  <2> QED BY <2>2 DEF Fetch, shared, Inv, Typed
<1>5. /\ local'[t].mine = slot[Wanted(t)] /\ local'[t].victim = NULL
      /\ local'[t].kind = local[t].kind /\ local'[t].i = local[t].i
      /\ local'[t].target = local[t].target
  BY <1>1, <1>3 DEF Locals
<1>6. Wanted(t)' = Wanted(t)
  BY <1>5 DEF Wanted
<1>7. Control(t)'
  BY <1>1, <1>2, <1>3, <1>5 DEF Control, Mine, Flushing, Stored
<1>8. Place(t)'
  BY <1>1, <1>2, <1>3, <1>5, <1>6, Constants DEF Place, Mine, Stored, Inv, SlotsAgree
<1>9. \A u \in Threads, b \in Blocks : Holds(u, b)' <=> Holds(u, b)
  <2>1. \A b \in Blocks : Holds(t, b)' <=> Holds(t, b)
    BY <1>1, <1>3, <1>5, Constants DEF Holds, Mine
  <2>2. \A u \in Threads \ {t}, b \in Blocks : Holds(u, b)' <=> Holds(u, b)
    BY <1>2, <1>3 DEF Holds, Others, Mine, Wanted
  <2> QED BY <2>1, <2>2
<1>10. \A b \in Blocks : (mutex = t /\ Mine(t) = b)' <=> (mutex = t /\ Mine(t) = b)
  BY <1>1, <1>2
<1> QED BY <1>1, <1>2, <1>3, <1>4, <1>7, <1>8, <1>9, <1>10, SameHolders

\* SafeLockBlock by the owner of a band: nobody else holds the block, whose lock
\* count becomes 1.
LEMMA LockIfCachedStep ==
  ASSUME Inv, NEW t \in Threads, LockIfCached(t)
  PROVE  Inv'
<1>0. PICK b : b = slot[Wanted(t)]
  OBVIOUS
<1>1. /\ pc[t] = "lookup" /\ Control(t) /\ Place(t) /\ mutex = NULL /\ Wanted(t) \in Slots
      /\ Mine(t) = NULL /\ local[t].victim = NULL /\ local[t].kind \in Requests
  BY Constants DEF LockIfCached, CanLock, Inv, Typed, Control, Flushing, Stored, Wanted
<1>2. /\ local' = local /\ pc' = [pc EXCEPT ![t] = "fetch"] /\ slot' = slot /\ mutex' = mutex
      /\ pc'[t] = "fetch" /\ Others(t)
      /\ UNCHANGED <<used, cacheMax, disk>> /\ pc' \in [Threads -> Places]
  BY DEF LockIfCached, Goto, Inv, Typed, Others, Places
<1>3. Control(t)'
  BY <1>1, <1>2, Constants DEF Control, Mine, Flushing, Stored
<1>4. Place(t)'
  BY <1>1, <1>2, Constants DEF Place, Mine, Wanted, Stored
<1>5. \A u \in Threads \ {t} : \A c : Holds(u, c)' <=> Holds(u, c)
  BY <1>2 DEF Holds, Others, Mine, Wanted
<1>6. \A c \in Blocks : Holds(t, c)' <=> c = b
  BY <1>0, <1>1, <1>2, Constants DEF Holds, Mine, Wanted
<1>7. \A c \in Blocks : ~Holds(t, c)
  BY <1>1, Constants DEF Holds
<1>8. CASE b = NULL
  <2>1. block' = block /\ order' = order
    BY <1>0, <1>8 DEF LockIfCached, SafeLock
  <2>2. Typed' /\ Elements(order') \subseteq Live
    BY <1>2, <2>1 DEF Inv, Typed
  <2>3. \A u \in Threads, c \in Blocks : Holds(u, c)' <=> Holds(u, c)
    BY <1>5, <1>6, <1>7, <1>8, Constants
  <2> QED BY <1>1, <1>2, <1>3, <1>4, <2>1, <2>2, <2>3, SameHolders, Constants
<1>9. CASE b # NULL
  <2>1. /\ block' = [block EXCEPT ![b].locks = @ + 1] /\ order' = MoveToFront(order, b)
        /\ b \in Blocks
    BY <1>0, <1>1, <1>9 DEF LockIfCached, SafeLock, Inv, Typed
  <2>2. b \in Live /\ block[b].at = Wanted(t)
    BY <1>0, <1>1, <1>9, <2>1, Constants DEF Inv, SlotsAgree, Live
  <2>3. \A u \in Threads \ {t} : ~Holds(u, b)
    BY <1>1, <2>1, <2>2, OwnBlocks DEF Wanted
  <2>4. block[b].locks = 0
    BY <1>7, <2>1, <2>2, <2>3 DEF Inv, Locks
  <2>5. /\ block' \in [Blocks -> Cells] /\ block'[b].at = block[b].at /\ block'[b].locks = 1
        /\ \A c \in Blocks \ {b} : block'[c] = block[c]
    <3>0. block[b] \in Cells
      BY <2>1 DEF Inv, Typed
    <3>1. [block[b] EXCEPT !.locks = @ + 1] \in Cells
      BY <3>0 DEF Cells
    <3>2. block' = [block EXCEPT ![b] = [block[b] EXCEPT !.locks = @ + 1]]
      BY <2>1
    <3> QED BY <2>1, <2>4, <3>1, <3>2 DEF Inv, Typed, Cells
  <2>6. /\ order' \in Seq(Blocks) /\ NoDuplicates(order') /\ Elements(order') \subseteq Live'
    <3>1. order \in Seq(Blocks) /\ NoDuplicates(order) /\ Elements(order) \subseteq Live
      BY DEF Inv, Typed
    <3>2. Live' = Live
      BY <2>1, <2>5 DEF Live
    <3> QED BY <2>1, <2>2, <3>1, <3>2, MoveToFrontProperties
  <2>7. Typed'
    BY <1>2, <2>5, <2>6 DEF Inv, Typed
  <2>8. \A s \in Slots : slot'[s] = b => block'[b].at = s
    BY <1>2, <2>1, <2>5, Constants DEF Inv, SlotsAgree
  <2>9. \A c \in Live \ {b} : block[c].at # block'[b].at
    BY <2>2, <2>5 DEF Inv, OneBlock
  <2>10. block'[b].locks = IF pc'[t] = "discard" THEN 0 ELSE 1
    BY <1>2, <2>5
  <2> QED BY <1>1, <1>2, <1>3, <1>4, <1>5, <1>6, <1>7, <2>1, <2>2, <2>3, <2>5, <2>6, <2>7,
             <2>8, <2>9, <2>10, Handover, Constants DEF Live
<1> QED BY <1>8, <1>9

\* A freed GDALRasterBlock.
LEMMA FreeIsCell == Free \in Cells /\ Free.at = NULL /\ Free.locks = 0
BY Constants DEF Free, Cells, Garbage

\* The new block is for a slot that is empty and that no other block is for.
LEMMA AllocateStep ==
  ASSUME Inv, NEW t \in Threads, NEW b \in Blocks, Allocate(t, b)
  PROVE  Inv'
<1>1. /\ pc[t] = "new" /\ Control(t) /\ Place(t) /\ mutex = NULL /\ Wanted(t) \in Slots
      /\ Mine(t) = NULL /\ local[t].victim = NULL /\ local[t].kind \in Requests
      /\ local[t] \in Locals /\ slot[Wanted(t)] = NULL
  BY Constants DEF Allocate, CanLock, Inv, Typed, Control, Place, Flushing, Stored, Wanted
<1>2. /\ block[b].at = NULL /\ b \notin Live
  BY FreeIsCell DEF Allocate, Live
<1>3. EffectiveMax \in Nat
  BY Constants DEF EffectiveMax, Inv, Typed
<1> DEFINE new == [Free EXCEPT !.at = Wanted(t), !.locks = 2]
<1>4. new \in Cells /\ new.at = Wanted(t) /\ new.locks = 2
  BY <1>1, Constants DEF Free, Cells, Garbage
<1>5. /\ block' = [block EXCEPT ![b] = new] /\ slot' = slot /\ mutex' = t /\ order' = order
      /\ local' = [local EXCEPT ![t].mine = b, ![t].limit = EffectiveMax, ![t].oldUsed = 0]
      /\ pc' = [pc EXCEPT ![t] = "evict"]
  BY DEF Allocate
<1> HIDE DEF new
<1>6. local'[t] = [local[t] EXCEPT !.mine = b, !.limit = EffectiveMax, !.oldUsed = 0]
  BY <1>5 DEF Inv, Typed
<1>7. /\ block' \in [Blocks -> Cells] /\ block'[b].at = Wanted(t) /\ block'[b].locks = 2
      /\ \A c \in Blocks \ {b} : block'[c] = block[c]
  BY <1>4, <1>5 DEF Inv, Typed
<1>8. Typed'
  <2>1. [local[t] EXCEPT !.mine = b, !.limit = EffectiveMax, !.oldUsed = 0] \in Locals
    <3>1. PICK r : r = [local[t] EXCEPT !.mine = b]
      OBVIOUS
    <3>2. PICK s : s = [r EXCEPT !.limit = EffectiveMax]
      OBVIOUS
    <3>3. r \in Locals
      BY <1>1, <3>1, LocalsExcept
    <3>4. s \in Locals
      BY <3>2, <3>3, <1>3, LocalsExcept
    <3>5. [s EXCEPT !.oldUsed = 0] \in Locals
      BY <3>4, LocalsExcept
    <3> QED BY <3>1, <3>2, <3>5
  <2>2. local' \in [Threads -> Locals] /\ pc' \in [Threads -> Places]
    BY <1>5, <2>1 DEF Inv, Typed, Places
  <2>3. used' \in Int /\ cacheMax' \in Nat
    <3>1. used' = used + BlockSize[t] /\ cacheMax' = EffectiveMax
      BY DEF Allocate
    <3>2. BlockSize[t] \in Nat /\ used \in Int
      BY Constants DEF Inv, Typed
    <3> QED BY <3>1, <3>2, <1>3
  <2> QED BY <1>5, <1>7, <2>2, <2>3 DEF Allocate, Inv, Typed
<1>9. /\ local'[t].mine = b /\ local'[t].victim = NULL /\ local'[t].kind = local[t].kind
      /\ local'[t].i = local[t].i /\ pc'[t] = "evict" /\ Others(t)
  BY <1>1, <1>5, <1>6 DEF Locals, Others, Inv, Typed
<1>10. Wanted(t)' = Wanted(t)
  BY <1>9 DEF Wanted
<1>11. Control(t)'
  BY <1>1, <1>5, <1>9, Constants DEF Control, Mine, Flushing, Stored
<1>12. Place(t)'
  BY <1>1, <1>5, <1>7, <1>9, <1>10 DEF Place, Mine, Stored
<1>13. \A u \in Threads : ~Holds(u, b)
  BY <1>2, HeldLive
<1>14. \A u \in Threads \ {t} : \A c : Holds(u, c)' <=> Holds(u, c)
  BY <1>5, <1>9 DEF Holds, Others, Mine, Wanted
<1>15. \A c \in Blocks : (Holds(t, c)' <=> c = b) /\ ~Holds(t, c)
  BY <1>1, <1>9, Constants DEF Holds, Mine
<1>16. \A s \in Slots : slot'[s] # b
  BY <1>2, <1>5, Constants DEF Inv, SlotsAgree
<1>17. ASSUME NEW c \in Live \ {b} PROVE block[c].at # Wanted(t)
  <2> SUFFICES ASSUME block[c].at = Wanted(t) PROVE FALSE
    OBVIOUS
  <2>1. \A u \in Threads \ {t} : ~Holds(u, c)
    BY <1>1, OwnBlocks DEF Wanted, Live
  <2>2. \A u \in Threads : ~Holds(u, c)
    BY <2>1, <1>15 DEF Live
  <2>3. slot[Wanted(t)] = c
    BY <2>2 DEF Inv, UnheldStored
  <2> QED BY <2>3, <1>1, Constants DEF Live
<1>18. Elements(order') \subseteq Live'
  <2>1. Live \subseteq Live'
    BY <1>2, <1>7 DEF Live
  <2> QED BY <1>5, <2>1 DEF Inv
<1>19. \A c \in Blocks : (mutex = t /\ Mine(t) = c)' <=> c = b
  BY <1>5, <1>9 DEF Mine
<1> QED BY <1>1, <1>2, <1>5, <1>7, <1>8, <1>9, <1>11, <1>12, <1>13, <1>14, <1>15, <1>16, <1>17,
           <1>18, <1>19, Handover, Constants

\* Internalize ends: one of the two locks goes, hRBMutex is released.
LEMMA InternalizedStep ==
  ASSUME Inv, NEW t \in Threads, EvictionDone(t), local[t].kind # "setmax"
  PROVE  Inv'
<1>1. /\ pc[t] = "evict" /\ Control(t) /\ Place(t) /\ mutex = t /\ Wanted(t) \in Slots
      /\ Mine(t) \in Blocks /\ local[t].victim = NULL /\ local[t].kind \in Requests
      /\ local[t] \in Locals /\ slot[Wanted(t)] = NULL
  BY Constants DEF EvictionDone, Inv, Typed, Control, Place, Flushing, Stored, Wanted, Locals, Mine
<1>2. PICK b \in Blocks : b = Mine(t)
  BY <1>1
<1>3. b \in Live /\ block[b].at = Wanted(t) /\ block[b].locks = 2 /\ Holds(t, b)
  <2>1. Holds(t, b)
    BY <1>2 DEF Holds
  <2>2. b \in Live
    BY <2>1, HeldLive
  <2>3. block[b].locks = 2
    BY <1>1, <1>2, <2>2 DEF Inv, Locks
  <2>4. block[b].at = Wanted(t)
    BY <1>1, <1>2, Constants DEF Place
  <2> QED BY <2>1, <2>2, <2>3, <2>4
<1>4. /\ order' = MoveToFront(order, b) /\ block' = [block EXCEPT ![b].locks = @ - 1]
      /\ mutex' = NULL /\ pc' = [pc EXCEPT ![t] = "adopt"] /\ slot' = slot
      /\ local' = [local EXCEPT ![t].limit = 0, ![t].oldUsed = 0, ![t].target = NULL]
  BY <1>1, <1>2 DEF EvictionDone, Requests
<1>5. local'[t] = [local[t] EXCEPT !.limit = 0, !.oldUsed = 0, !.target = NULL]
  BY <1>4 DEF Inv, Typed
<1>6. /\ block' \in [Blocks -> Cells] /\ block'[b].at = block[b].at /\ block'[b].locks = 1
      /\ \A c \in Blocks \ {b} : block'[c] = block[c]
  <2>1. block[b] \in Cells
    BY DEF Inv, Typed
  <2>2. [block[b] EXCEPT !.locks = @ - 1] \in Cells
    BY <2>1, <1>3 DEF Cells
  <2>3. block' = [block EXCEPT ![b] = [block[b] EXCEPT !.locks = @ - 1]]
    BY <1>4
  <2> QED BY <1>3, <2>1, <2>2, <2>3 DEF Inv, Typed, Cells
<1>7. order' \in Seq(Blocks) /\ NoDuplicates(order') /\ Elements(order') \subseteq Live'
  <2>1. order \in Seq(Blocks) /\ NoDuplicates(order) /\ Elements(order) \subseteq Live
    BY DEF Inv, Typed
  <2>2. Live' = Live
    BY <1>6 DEF Live
  <2> QED BY <1>3, <1>4, <2>1, <2>2, MoveToFrontProperties
<1>8. Typed'
  <2>1. [local[t] EXCEPT !.limit = 0, !.oldUsed = 0, !.target = NULL] \in Locals
    <3>1. PICK r : r = [local[t] EXCEPT !.limit = 0]
      OBVIOUS
    <3>2. PICK s : s = [r EXCEPT !.oldUsed = 0]
      OBVIOUS
    <3>3. r \in Locals
      BY <1>1, <3>1, LocalsExcept
    <3>4. s \in Locals
      BY <3>2, <3>3, LocalsExcept
    <3>5. [s EXCEPT !.target = NULL] \in Locals
      BY <3>4, LocalsExcept
    <3> QED BY <3>1, <3>2, <3>5
  <2>2. local' \in [Threads -> Locals] /\ pc' \in [Threads -> Places]
    BY <1>4, <2>1 DEF Inv, Typed, Places
  <2> QED BY <1>4, <1>6, <1>7, <2>2 DEF EvictionDone, Inv, Typed
<1>9. /\ local'[t].mine = b /\ local'[t].victim = NULL /\ local'[t].kind = local[t].kind
      /\ local'[t].i = local[t].i /\ pc'[t] = "adopt" /\ Others(t)
  BY <1>1, <1>2, <1>4, <1>5 DEF Locals, Others, Inv, Typed, Mine
<1>10. Wanted(t)' = Wanted(t) /\ Mine(t)' = Mine(t)
  BY <1>2, <1>9 DEF Wanted, Mine
<1>11. Control(t)'
  BY <1>1, <1>4, <1>9, Constants DEF Control, Mine, Flushing, Stored
<1>12. Place(t)'
  BY <1>1, <1>2, <1>3, <1>4, <1>6, <1>9, <1>10, Constants DEF Place, Stored
<1>13. \A u \in Threads \ {t} : ~Holds(u, b)
  BY <1>3 DEF Inv, OneHolder
<1>14. \A u \in Threads : \A c : Holds(u, c)' <=> Holds(u, c)
  <2>1. \A c : Holds(t, c)' <=> Holds(t, c)
    BY <1>1, <1>2, <1>9 DEF Holds, Mine
  <2>2. \A u \in Threads \ {t} : \A c : Holds(u, c)' <=> Holds(u, c)
    BY <1>4, <1>9 DEF Holds, Others, Mine, Wanted
  <2> QED BY <2>1, <2>2
<1>15. \A s \in Slots : slot'[s] = b => block'[b].at = s
  BY <1>4, <1>6, Constants DEF Inv, SlotsAgree
<1>16. \A c \in Live \ {b} : block[c].at # block'[b].at
  BY <1>3, <1>6 DEF Inv, OneBlock
<1>17. /\ \A c \in Blocks \ {b} : (mutex = t /\ Mine(t) = c)' <=> (mutex = t /\ Mine(t) = c)
       /\ ~(mutex = t)'
  BY <1>2, <1>4, Constants
<1>18. \A c \in Blocks \ {b} : block'[c].at = block[c].at /\ block'[c].locks = block[c].locks
  BY <1>6
<1>19. Holds(t, b) /\ Holds(t, b)' /\ b \in Blocks /\ block'[b].at = block[b].at
  BY <1>3, <1>6, <1>14
<1>20. block'[b].at # NULL /\ block'[b].locks = 1
  BY <1>1, <1>3, <1>6, Constants
<1>21. /\ block'[b].at # NULL /\ \A s \in Slots : slot'[s] = b => block'[b].at = s
       /\ \A c \in Live \ {b} : block[c].at # block'[b].at
       /\ b \in Live => block'[b].at = block[b].at
       /\ ~Holds(t, b)' => slot'[block'[b].at] = b
       /\ (mutex = t /\ Mine(t) = b)' => block'[b].locks = 2
       /\ Holds(t, b)' /\ ~(mutex = t /\ Mine(t) = b)'
             => block'[b].locks = IF pc'[t] = "discard" THEN 0 ELSE 1
       /\ ~Holds(t, b)' => block'[b].locks = 0
  BY <1>9, <1>15, <1>16, <1>17, <1>19, <1>20
<1>22. {mutex, mutex'} \subseteq {NULL, t} /\ \A s \in Slots : slot'[s] = slot[s]
  BY <1>1, <1>4
<1>23. \A c \in Blocks \ {b} :
         /\ Holds(t, c)' <=> Holds(t, c)
         /\ (mutex = t /\ Mine(t) = c)' <=> (mutex = t /\ Mine(t) = c)
         /\ block'[c].at = block[c].at /\ block'[c].locks = block[c].locks
  BY <1>14, <1>17, <1>18
<1>24. \A u \in Threads \ {t}, c \in Blocks : Holds(u, c)' <=> Holds(u, c)
  BY <1>14
<1> QED BY <1>1, <1>7, <1>8, <1>9, <1>11, <1>12, <1>13, <1>19, <1>21, <1>22, <1>23, <1>24, Handover

\* The block that GetLockedBlockRef of t has: nobody else holds it, and it has
\* one lock once Internalize is over, until it is dropped.
LEMMA MineHeld ==
  ASSUME Inv, NEW t \in Threads, NEW b \in Blocks, b = Mine(t), mutex # t
  PROVE  /\ b \in Live /\ Holds(t, b) /\ block[b] \in Cells
         /\ block[b].at = Wanted(t)
         /\ block[b].locks = IF pc[t] = "discard" THEN 0 ELSE 1
         /\ Wanted(t) \in Slots
         /\ \A u \in Threads \ {t} : ~Holds(u, b)
         /\ \A s \in Slots : slot[s] = b => s = Wanted(t)
         /\ \A c \in Live \ {b} : block[c].at # Wanted(t)
<1>1. Holds(t, b)
  BY DEF Holds
<1>2. b \in Live
  BY <1>1, HeldLive
<1>3. /\ block[b] \in Cells /\ block[b].at = Wanted(t) /\ Wanted(t) \in Slots
  BY Constants DEF Inv, Typed, Control, Place, Flushing, Stored, Wanted
<1>4. block[b].locks = IF pc[t] = "discard" THEN 0 ELSE 1
  BY <1>1, <1>2 DEF Inv, Locks
<1>5. \A u \in Threads \ {t} : ~Holds(u, b)
  BY <1>1 DEF Inv, OneHolder
<1>6. \A s \in Slots : slot[s] = b => s = Wanted(t)
  BY <1>3, Constants DEF Inv, SlotsAgree
<1>7. \A c \in Live \ {b} : block[c].at # Wanted(t)
  BY <1>2, <1>3 DEF Inv, OneBlock
<1> QED BY <1>1, <1>2, <1>3, <1>4, <1>5, <1>6, <1>7

\* AdoptBlock fills a slot that still is empty.
LEMMA AdoptStep ==
  ASSUME Inv, NEW t \in Threads, Adopt(t)
  PROVE  Inv'
<1>1. /\ pc[t] = "adopt" /\ Control(t) /\ Place(t) /\ mutex # t
      /\ Mine(t) \in Blocks /\ local[t].victim = NULL /\ local[t] \in Locals
  BY Constants DEF Adopt, Inv, Typed, Control, Flushing, Stored, Locals, Mine
<1>2. PICK b \in Blocks : b = Mine(t)
  BY <1>1
<1>3. /\ b \in Live /\ Holds(t, b) /\ block[b] \in Cells
      /\ block[b].at = Wanted(t) /\ block[b].locks = 1
      /\ Wanted(t) \in Slots
      /\ \A u \in Threads \ {t} : ~Holds(u, b)
      /\ \A c \in Live \ {b} : block[c].at # Wanted(t)
      /\ \A s \in Slots : slot[s] = b => s = Wanted(t)
  BY <1>1, <1>2, MineHeld
<1>4. slot[Wanted(t)] = NULL
  BY <1>1 DEF Place
<1>5. /\ slot' = [slot EXCEPT ![Wanted(t)] = b] /\ local' = local
      /\ pc' = [pc EXCEPT ![t] = "touch"] /\ pc'[t] = "touch" /\ Others(t)
      /\ mutex' = mutex /\ block' = block /\ order' = order
      /\ UNCHANGED <<used, cacheMax, disk>>
  BY <1>2 DEF Adopt, Goto, Inv, Typed, Others
<1>6. Typed'
  <2>1. slot' \in [Slots -> Blocks \cup {NULL}] /\ pc' \in [Threads -> Places]
    BY <1>3, <1>5 DEF Inv, Typed, Places
  <2> QED BY <1>5, <2>1 DEF Inv, Typed
<1>7. Wanted(t)' = Wanted(t) /\ Mine(t)' = Mine(t)
  BY <1>5 DEF Wanted, Mine
<1>8. Control(t)'
  BY <1>1, <1>5, <1>7 DEF Control, Mine, Flushing, Stored
<1>9. slot'[Wanted(t)] = b
  BY <1>3, <1>5 DEF Inv, Typed
<1>10. Place(t)'
  BY <1>1, <1>2, <1>3, <1>5, <1>7, <1>9 DEF Place
<1>11. ASSUME NEW u \in Threads \ {t}, NEW c \in Blocks PROVE Holds(u, c)' <=> Holds(u, c)
  <2>1. Control(u) /\ Place(u) /\ pc'[u] = pc[u] /\ local'[u] = local[u]
    BY <1>5 DEF Inv, Others
  <2>2. Wanted(u) # Wanted(t)
    BY DEF Wanted
  <2>3. pc[u] = "flushtake" => local[u].target \in Slots /\ local[u].target # Wanted(t)
    <3>1. ~Homeless(Wanted(t))
      BY <1>1 DEF Homeless, Wanted
    <3> QED BY <1>4, <2>1, <3>1 DEF Control, Place, Flushing, Wanted
  <2>4. pc[u] = "flushtake" => slot'[local[u].target] = slot[local[u].target]
    BY <2>3, <1>5 DEF Inv, Typed
  <2>5. pc[u] = "fetch" => slot'[Wanted(u)] = slot[Wanted(u)]
    BY <2>2, <1>5 DEF Inv, Typed
  <2> QED BY <2>1, <2>4, <2>5 DEF Holds, Mine, Wanted
<1>12. \A c \in Blocks : Holds(t, c)' <=> Holds(t, c)
  BY <1>1, <1>5 DEF Holds, Mine
<1>13. Elements(order') \subseteq Live' /\ Live' = Live
  BY <1>5 DEF Inv, Live
<1>14. \A s \in Slots :
         \/ slot'[s] = slot[s]
         \/ slot[s] = NULL /\ slot'[s] = b /\ s = Wanted(t)
  BY <1>3, <1>4, <1>5 DEF Inv, Typed
<1>15. block'[b].at # NULL /\ block'[b].locks = 1 /\ block'[b].at = Wanted(t)
  BY <1>3, <1>5, Constants
<1>16. \A s \in Slots : slot'[s] = b => block'[b].at = s
  BY <1>3, <1>14, <1>15
<1>17. \A c \in Live \ {b} : block[c].at # block'[b].at
  BY <1>3, <1>15
<1> QED BY <1>1, <1>3, <1>5, <1>6, <1>7, <1>8, <1>10, <1>11, <1>12, <1>13, <1>14, <1>15, <1>16,
           <1>17, Handover

\* AdoptBlock fails, or the caller of GetLockedBlockRef is done with it: in
\* both cases the call ends.
LEMMA IdleIsLocal == Idle \in Locals /\ Idle.mine = NULL /\ Idle.victim = NULL
BY Constants DEF Idle, Locals

\* The call of t is over.
LEMMA Returned ==
  ASSUME Inv, NEW t \in Threads, Return(t), mutex' = mutex, mutex # t
  PROVE  /\ pc' \in [Threads -> Places] /\ local' \in [Threads -> Locals]
         /\ pc'[t] = "idle" /\ local'[t] = Idle /\ Others(t)
         /\ Control(t)' /\ Place(t)'
         /\ \A c \in Blocks : ~Holds(t, c)'
<1>1. /\ pc' \in [Threads -> Places] /\ local' \in [Threads -> Locals]
      /\ pc'[t] = "idle" /\ local'[t] = Idle /\ Others(t)
  BY IdleIsLocal DEF Return, Inv, Typed, Places, Others
<1>2. Control(t)'
  BY <1>1, IdleIsLocal DEF Control, Mine, Flushing, Stored
<1>3. Place(t)'
  BY <1>1, IdleIsLocal DEF Place, Mine, Stored
<1>4. \A c \in Blocks : ~Holds(t, c)'
  BY <1>1, IdleIsLocal, Constants DEF Holds, Mine
<1> QED BY <1>1, <1>2, <1>3, <1>4

\* The loop of GDALSetCacheMax ends; it holds neither a block nor hRBMutex.
LEMMA EvictionDoneStep ==
  ASSUME Inv, NEW t \in Threads, EvictionDone(t)
  PROVE  Inv'
<1>1. CASE local[t].kind # "setmax"
  BY <1>1, InternalizedStep
<1>2. CASE local[t].kind = "setmax"
  <2>1. Control(t) /\ pc[t] = "evict" /\ mutex # t /\ Mine(t) = NULL /\ local[t].victim = NULL
    BY <1>2 DEF EvictionDone, Inv, Control, Flushing
  <2>2. Return(t) /\ UNCHANGED <<slot, block, order, used, cacheMax, mutex, disk>>
    BY <1>2 DEF EvictionDone
  <2>3. /\ pc' \in [Threads -> Places] /\ local' \in [Threads -> Locals]
        /\ pc'[t] = "idle" /\ local'[t] = Idle /\ Others(t) /\ Control(t)' /\ Place(t)'
    BY <2>1, <2>2, Returned
  <2>4. Typed' /\ Elements(order') \subseteq Live
    BY <2>2, <2>3 DEF Inv, Typed
  <2> QED BY <2>1, <2>2, <2>3, <2>4, IdleIsLocal, Frame DEF Mine
<1> QED BY <1>1, <1>2

\* GDALSetCacheMax sets the limit and enters its loop.
LEMMA SetCacheMaxStep ==
  ASSUME Inv, Orderly, NEW t \in Threads, NEW n \in NewMaxes, SetCacheMax(t, n)
  PROVE  Inv'
<1>1. /\ pc[t] = "idle" /\ local[t] = Idle /\ Control(t) /\ Place(t)
      /\ mutex # t /\ Mine(t) = NULL /\ local[t].victim = NULL
  BY DEF SetCacheMax, Inv, Control, Flushing, Stored
<1>2. Alone(t)
  BY DEF SetCacheMax, Orderly, Alone
<1>3. /\ cacheMax' = n /\ pc' = [pc EXCEPT ![t] = "evict"]
      /\ local' = [local EXCEPT ![t].kind = "setmax"]
      /\ UNCHANGED <<slot, block, order, used, mutex, disk>>
  BY DEF SetCacheMax
<1>4. PICK r : r = [Idle EXCEPT !.kind = "setmax"]
  OBVIOUS
<1>5. r \in Locals
  BY <1>4, IdleIsLocal, LocalsExcept DEF Calls
<1>6. r.mine = NULL /\ r.victim = NULL /\ r.kind = "setmax" /\ r.i = 1
  BY <1>4 DEF Idle
<1>7. /\ pc' \in [Threads -> Places] /\ local' \in [Threads -> Locals]
      /\ pc'[t] = "evict" /\ local'[t] = r /\ Others(t)
  BY <1>1, <1>3, <1>4, <1>5 DEF Inv, Typed, Places, Others
<1>8. n \in Nat
  BY CacheAssumption
<1>9. Typed' /\ Elements(order') \subseteq Live
  BY <1>3, <1>7, <1>8 DEF Inv, Typed
<1>10. Control(t)'
  BY <1>1, <1>2, <1>3, <1>6, <1>7 DEF Control, Alone, Mine, Flushing, Stored, Requests, Sweeps
<1>11. Place(t)'
  BY <1>1, <1>3, <1>6, <1>7 DEF Place, Mine, Stored
<1> QED BY <1>1, <1>3, <1>6, <1>7, <1>9, <1>10, <1>11, Frame DEF Mine

\* DropLock by the caller: the block stays in its slot without locks.
LEMMA ReleaseStep ==
  ASSUME Inv, NEW t \in Threads, Release(t)
  PROVE  Inv'
<1>1. /\ pc[t] = "used" /\ Control(t) /\ Place(t) /\ mutex # t
      /\ Mine(t) \in Blocks /\ local[t].victim = NULL
  BY Constants DEF Release, Inv, Typed, Control, Flushing, Stored, Locals, Mine
<1>2. PICK b \in Blocks : b = Mine(t)
  BY <1>1
<1>3. /\ b \in Live /\ Holds(t, b) /\ block[b] \in Cells
      /\ block[b].at = Wanted(t) /\ block[b].locks = 1
      /\ Wanted(t) \in Slots
      /\ \A u \in Threads \ {t} : ~Holds(u, b)
      /\ \A c \in Live \ {b} : block[c].at # Wanted(t)
      /\ \A s \in Slots : slot[s] = b => s = Wanted(t)
  BY <1>1, <1>2, MineHeld
<1>4. slot[Wanted(t)] = b
  BY <1>1, <1>2 DEF Place, Stored
<1>5. /\ block' = [block EXCEPT ![b].locks = @ - 1] /\ Return(t)
      /\ slot' = slot /\ mutex' = mutex /\ order' = order
      /\ UNCHANGED <<used, cacheMax, disk>>
  BY <1>2 DEF Release
<1>6. /\ pc' \in [Threads -> Places] /\ local' \in [Threads -> Locals] /\ Others(t)
      /\ Control(t)' /\ Place(t)' /\ \A c \in Blocks : ~Holds(t, c)'
      /\ pc'[t] = "idle" /\ local'[t] = Idle
  BY <1>1, <1>5, Returned
<1>7. /\ block' \in [Blocks -> Cells] /\ block'[b].at = block[b].at /\ block'[b].locks = 0
      /\ \A c \in Blocks \ {b} : block'[c] = block[c]
  <2>1. [block[b] EXCEPT !.locks = @ - 1] \in Cells
    BY <1>3 DEF Cells
  <2>2. block' = [block EXCEPT ![b] = [block[b] EXCEPT !.locks = @ - 1]]
    BY <1>5
  <2> QED BY <1>3, <2>1, <2>2 DEF Inv, Typed, Cells
<1>8. Typed'
  BY <1>5, <1>6, <1>7 DEF Inv, Typed
<1>9. \A u \in Threads \ {t} : \A c : Holds(u, c)' <=> Holds(u, c)
  BY <1>5, <1>6 DEF Holds, Others, Mine, Wanted
<1>10. \A c \in Blocks \ {b} : ~Holds(t, c)
  BY <1>1, <1>2, Constants DEF Holds
<1>11. Live' = Live
  BY <1>7 DEF Live
<1>12. Elements(order') \subseteq Live'
  BY <1>5, <1>11 DEF Inv
<1>13. \A s \in Slots : slot'[s] = b => block'[b].at = s
  BY <1>3, <1>5, <1>7
<1> QED BY <1>1, <1>2, <1>3, <1>4, <1>5, <1>6, <1>7, <1>8, <1>9, <1>10, <1>12, <1>13, Handover
        DEF Live

\* A failing AdoptBlock unlocks a block that no slot refers to...
LEMMA AdoptFailsStep ==
  ASSUME Inv, NEW t \in Threads, AdoptFails(t)
  PROVE  Inv'
<1>1. /\ pc[t] = "adopt" /\ Control(t) /\ Place(t) /\ mutex # t
      /\ Mine(t) \in Blocks /\ local[t].victim = NULL
  BY Constants DEF AdoptFails, Inv, Typed, Control, Flushing, Stored, Locals, Mine
<1>2. PICK b \in Blocks : b = Mine(t)
  BY <1>1
<1>3. /\ b \in Live /\ Holds(t, b) /\ block[b] \in Cells
      /\ block[b].at = Wanted(t) /\ block[b].locks = 1
      /\ Wanted(t) \in Slots
      /\ \A u \in Threads \ {t} : ~Holds(u, b)
      /\ \A c \in Live \ {b} : block[c].at # Wanted(t)
      /\ \A s \in Slots : slot[s] = b => s = Wanted(t)
  BY <1>1, <1>2, MineHeld
<1>4. /\ block' = [block EXCEPT ![b].locks = @ - 1] /\ slot' = slot /\ mutex' = mutex
      /\ order' = order /\ pc' = [pc EXCEPT ![t] = "discard"] /\ local' = local
      /\ UNCHANGED <<used, cacheMax, disk>>
  BY <1>2 DEF AdoptFails, Goto
<1>5. /\ pc' \in [Threads -> Places] /\ pc'[t] = "discard" /\ Others(t)
      /\ Mine(t)' = Mine(t) /\ Wanted(t)' = Wanted(t)
  BY <1>4 DEF Inv, Typed, Places, Others, Mine, Wanted
<1>6. /\ block' \in [Blocks -> Cells] /\ block'[b].at = block[b].at /\ block'[b].locks = 0
      /\ \A c \in Blocks \ {b} : block'[c] = block[c]
  <2>1. [block[b] EXCEPT !.locks = @ - 1] \in Cells
    BY <1>3 DEF Cells
  <2>2. block' = [block EXCEPT ![b] = [block[b] EXCEPT !.locks = @ - 1]]
    BY <1>4
  <2> QED BY <1>3, <2>1, <2>2 DEF Inv, Typed, Cells
<1>7. Typed'
  BY <1>4, <1>5, <1>6 DEF Inv, Typed
<1>8. Control(t)'
  <2>1. GridFails
    BY DEF AdoptFails
  <2> QED BY <1>1, <1>4, <1>5, <2>1 DEF Control, Flushing, Stored
<1>9. Place(t)'
  BY <1>1, <1>2, <1>3, <1>4, <1>5, <1>6, Constants DEF Place, Stored
<1>10. \A u \in Threads \ {t} : \A c : Holds(u, c)' <=> Holds(u, c)
  BY <1>4, <1>5 DEF Holds, Others, Mine, Wanted
<1>11. \A c \in Blocks : Holds(t, c)' <=> Holds(t, c)
  BY <1>1, <1>4, <1>5 DEF Holds
<1>12. Elements(order') \subseteq Live'
  <2>1. Live' = Live
    BY <1>6 DEF Live
  <2> QED BY <1>4, <2>1 DEF Inv
<1>13. \A s \in Slots : slot'[s] = b => block'[b].at = s
  BY <1>3, <1>4, <1>6
<1>14. block'[b].at # NULL /\ \A c \in Live \ {b} : block[c].at # block'[b].at
  BY <1>3, <1>6 DEF Live
<1> QED BY <1>1, <1>2, <1>3, <1>4, <1>5, <1>6, <1>7, <1>8, <1>9, <1>10, <1>11, <1>12, <1>13,
           <1>14, Handover

\* ... and deletes it.
LEMMA DiscardStep ==
  ASSUME Inv, NEW t \in Threads, Discard(t)
  PROVE  Inv'
<1>1. /\ pc[t] = "discard" /\ Control(t) /\ Place(t) /\ mutex # t
      /\ Mine(t) \in Blocks /\ local[t].victim = NULL /\ mutex \in {NULL, t}
  BY Constants DEF Discard, CanLock, Inv, Typed, Control, Flushing, Stored, Locals, Mine
<1>2. PICK b \in Blocks : b = Mine(t)
  BY <1>1
<1>3. /\ b \in Live /\ Holds(t, b) /\ block[b] \in Cells
      /\ block[b].at = Wanted(t) /\ block[b].locks = 0
      /\ Wanted(t) \in Slots
      /\ \A u \in Threads \ {t} : ~Holds(u, b)
      /\ \A s \in Slots : slot[s] = b => s = Wanted(t)
  BY <1>1, <1>2, MineHeld
<1>4. slot[Wanted(t)] = NULL
  BY <1>1 DEF Place
<1>5. /\ block' = [block EXCEPT ![b] = Free] /\ order' = Without(order, b) /\ Return(t)
      /\ slot' = slot /\ mutex' = mutex
      /\ UNCHANGED <<cacheMax, disk>>
  BY <1>2 DEF Discard
<1>6. /\ pc' \in [Threads -> Places] /\ local' \in [Threads -> Locals] /\ Others(t)
      /\ Control(t)' /\ Place(t)' /\ \A c \in Blocks : ~Holds(t, c)'
      /\ pc'[t] = "idle" /\ local'[t] = Idle
  BY <1>1, <1>5, Returned
<1>7. /\ block' \in [Blocks -> Cells] /\ block'[b].at = NULL
      /\ \A c \in Blocks \ {b} : block'[c] = block[c]
  BY <1>5, FreeIsCell DEF Inv, Typed
<1>8. used' \in Int
  <2>1. BlockSize[t] \in Nat /\ used \in Int /\ used' = used - BlockSize[t]
    BY Constants DEF Discard, Inv, Typed
  <2> QED BY <2>1
<1>9. /\ order' \in Seq(Blocks) /\ NoDuplicates(order') /\ Elements(order') \subseteq Live'
  <2>1. order \in Seq(Blocks) /\ NoDuplicates(order) /\ Elements(order) \subseteq Live
    BY DEF Inv, Typed
  <2>2. Live' = Live \ {b}
    BY <1>7 DEF Live
  <2>3. /\ order' \in Seq(Blocks) /\ NoDuplicates(order')
        /\ Elements(order') = Elements(order) \ {b}
    BY <1>5, <2>1, WithoutProperties
  <2> QED BY <2>1, <2>2, <2>3
<1>10. Typed'
  BY <1>5, <1>6, <1>7, <1>8, <1>9 DEF Inv, Typed
<1>11. \A u \in Threads \ {t} : \A c : Holds(u, c)' <=> Holds(u, c)
  BY <1>5, <1>6 DEF Holds, Others, Mine, Wanted
<1>12. \A c \in Blocks \ {b} : ~Holds(t, c)
  BY <1>1, <1>2, Constants DEF Holds
<1>13. \A s \in Slots : slot'[s] # b
  BY <1>3, <1>4, <1>5, Constants
<1> QED BY <1>1, <1>2, <1>3, <1>5, <1>6, <1>7, <1>9, <1>10, <1>11, <1>12, <1>13, Handover

\* A failing IReadBlock drops the lock, and the block waits for FlushBlock.
LEMMA ReadInFailsStep ==
  ASSUME Inv, NEW t \in Threads, ReadInFails(t)
  PROVE  Inv'
<1>1. /\ pc[t] = "reading" /\ Control(t) /\ Place(t) /\ mutex # t
      /\ Mine(t) \in Blocks /\ local[t].victim = NULL /\ local[t] \in Locals
      /\ local[t].kind \in Requests
  BY Constants DEF ReadInFails, Inv, Typed, Control, Flushing, Stored, Locals, Mine
<1>2. PICK b \in Blocks : b = Mine(t)
  BY <1>1
<1>3. /\ b \in Live /\ Holds(t, b) /\ block[b] \in Cells
      /\ block[b].at = Wanted(t) /\ block[b].locks = 1
      /\ Wanted(t) \in Slots
      /\ \A u \in Threads \ {t} : ~Holds(u, b)
      /\ \A c \in Live \ {b} : block[c].at # Wanted(t)
      /\ \A s \in Slots : slot[s] = b => s = Wanted(t)
  BY <1>1, <1>2, MineHeld
<1>4. slot[Wanted(t)] = b
  BY <1>1, <1>2 DEF Place, Stored
<1>5. /\ block' = [block EXCEPT ![b].locks = @ - 1]
      /\ pc' = [pc EXCEPT ![t] = "flushlock"] /\ pc'[t] = "flushlock"
      /\ local' = [local EXCEPT ![t].mine = NULL, ![t].target = Wanted(t)]
      /\ slot' = slot /\ mutex' = mutex /\ order' = order
      /\ UNCHANGED <<used, cacheMax, disk>> /\ Others(t)
  BY <1>2 DEF ReadInFails, Inv, Typed, Others
<1>6. local'[t] = [local[t] EXCEPT !.mine = NULL, !.target = Wanted(t)]
  BY <1>5 DEF Inv, Typed
<1>7. /\ block' \in [Blocks -> Cells] /\ block'[b].at = block[b].at /\ block'[b].locks = 0
      /\ \A c \in Blocks \ {b} : block'[c] = block[c]
  <2>1. [block[b] EXCEPT !.locks = @ - 1] \in Cells
    BY <1>3 DEF Cells
  <2>2. block' = [block EXCEPT ![b] = [block[b] EXCEPT !.locks = @ - 1]]
    BY <1>5
  <2> QED BY <1>3, <2>1, <2>2 DEF Inv, Typed, Cells
<1>8. Typed'
  <2>1. [local[t] EXCEPT !.mine = NULL, !.target = Wanted(t)] \in Locals
    <3>1. [local[t] EXCEPT !.mine = NULL] \in Locals
      BY LocalIs, LocalsExcept
    <3>2. [[local[t] EXCEPT !.mine = NULL] EXCEPT !.target = Wanted(t)] \in Locals
      BY <1>1, <1>3, <3>1, LocalsExcept
    <3> QED BY <3>2
  <2>2. local' \in [Threads -> Locals] /\ pc' \in [Threads -> Places]
    BY <2>1, <1>5 DEF Inv, Typed, Places
  <2> QED BY <1>5, <1>7, <2>2 DEF Inv, Typed
<1>9. /\ local'[t].mine = NULL /\ local'[t].victim = NULL /\ local'[t].kind = local[t].kind
      /\ local'[t].i = local[t].i /\ local'[t].target = Wanted(t)
  BY <1>1, <1>6 DEF Locals
<1>10. Control(t)'
  <2>1. Wanted(t)[1] = t /\ local[t].i \in 1 .. NBlocks
    BY <1>1, <1>3, Constants DEF Wanted, Control
  <2>2. local[t].kind \in Requests
    BY <1>1 DEF Control, Stored
  <2> QED BY <1>1, <1>3, <1>5, <1>9, <2>1, <2>2
          DEF Control, Mine, Flushing, Stored, Requests, Calls
<1>11. Place(t)'
  BY <1>1, <1>5, <1>9 DEF Place, Mine, Stored, Requests
<1>12. \A u \in Threads \ {t} : \A c : Holds(u, c)' <=> Holds(u, c)
  BY <1>5 DEF Holds, Others, Mine, Wanted
<1>13. \A c \in Blocks \ {b} : ~Holds(t, c)
  BY <1>1, <1>2, Constants DEF Holds
<1>14. \A c \in Blocks : ~Holds(t, c)'
  BY <1>5, <1>9, Constants DEF Holds, Mine
<1>15. Live' = Live
  BY <1>7 DEF Live
<1>16. Elements(order') \subseteq Live'
  BY <1>5, <1>15 DEF Inv
<1>17. \A s \in Slots : slot'[s] = b => block'[b].at = s
  BY <1>3, <1>5, <1>7
<1> QED BY <1>1, <1>2, <1>3, <1>4, <1>5, <1>7, <1>8, <1>10, <1>11, <1>12, <1>13, <1>14, <1>16,
           <1>17, Handover DEF Live

\* Where FlushBlock returns to: the eviction loop of t if t is inside
\* Internalize, a sweep or the end of the call otherwise.
LEMMA FlushBackStep ==
  ASSUME Inv, NEW t \in Threads, NEW failed \in BOOLEAN, FlushBack(t, failed),
         pc[t] \in Flushing, mutex' = mutex
  PROVE  /\ pc' \in [Threads -> Places] /\ local' \in [Threads -> Locals]
         /\ Others(t) /\ Control(t)'
         /\ local'[t].victim = NULL /\ Mine(t)' = Mine(t)
         /\ mutex = t => pc'[t] = "evict" /\ Mine(t) # NULL /\ Wanted(t)' = Wanted(t)
         /\ mutex # t => Mine(t) = NULL /\ Place(t)'
         /\ pc'[t] \in {"sweep", "evict", "idle"}
<1>1. /\ Control(t) /\ Place(t) /\ local[t] \in Locals /\ local[t].i \in 1 .. NBlocks
      /\ local[t].kind \in Calls
      /\ mutex = t <=> Mine(t) # NULL
      /\ mutex = t => local[t].kind \in Requests
      /\ local[t].kind = "setmax" => Alone(t) /\ Mine(t) = NULL /\ local[t].i = 1
  BY DEF Inv, Typed, Control, Flushing
<1>2. CASE local[t].kind \in Sweeps
  <2> DEFINE new == [local[t] EXCEPT !.victim = NULL, !.target = NULL,
                                     !.i = @ + 1, !.failed = failed]
  <2>1. /\ pc' = [pc EXCEPT ![t] = "sweep"]
        /\ local' = [local EXCEPT ![t] = new]
    <3>1. /\ pc' = [pc EXCEPT ![t] = "sweep"]
          /\ local' = [local EXCEPT ![t].victim = NULL, ![t].target = NULL,
                                    ![t].i = @ + 1, ![t].failed = failed]
      BY <1>1, <1>2 DEF FlushBack, Requests, Sweeps
    <3>2. local \in [Threads -> Locals]
      BY DEF Inv, Typed
    <3> QED BY <1>1, <3>1, <3>2 DEF Locals
  <2>2. local[t].i + 1 \in 1 .. NBlocks + 1
    BY <1>1, Constants
  <2>3. /\ new \in Locals /\ new.victim = NULL /\ new.mine = local[t].mine
        /\ new.kind \in Sweeps
    BY <1>1, <1>2, <2>2 DEF Locals
  <2> HIDE DEF new
  <2>4. /\ pc' \in [Threads -> Places] /\ local' \in [Threads -> Locals] /\ Others(t)
        /\ pc'[t] = "sweep" /\ local'[t] = new
    BY <2>1, <2>3 DEF Inv, Typed, Places, Others
  <2>5. mutex # t /\ Mine(t) = NULL /\ Mine(t)' = NULL
    BY <1>1, <1>2, <2>3, <2>4 DEF Mine, Requests, Sweeps
  <2>6. Control(t)'
    BY <2>3, <2>4, <2>5 DEF Control, Flushing, Stored, Requests, Sweeps
  <2>7. Place(t)'
    BY <2>3, <2>4, <2>5 DEF Place, Stored
  <2> QED BY <2>3, <2>4, <2>5, <2>6, <2>7
<1>3. CASE mutex = t \/ local[t].kind = "setmax"
  <2> DEFINE new == [local[t] EXCEPT !.victim = NULL, !.target = NULL, !.failed = FALSE]
  <2>1. /\ pc' = [pc EXCEPT ![t] = "evict"]
        /\ local' = [local EXCEPT ![t] = new]
    BY <1>1, <1>3 DEF FlushBack, Requests, Sweeps
  <2>2. /\ new \in Locals /\ new.victim = NULL /\ new.mine = local[t].mine
        /\ new.kind = local[t].kind /\ new.i = local[t].i
    BY <1>1 DEF Locals
  <2> HIDE DEF new
  <2>3. /\ pc' \in [Threads -> Places] /\ local' \in [Threads -> Locals] /\ Others(t)
        /\ pc'[t] = "evict" /\ local'[t] = new
    BY <2>1, <2>2 DEF Inv, Typed, Places, Others
  <2>4. Mine(t)' = Mine(t) /\ Wanted(t)' = Wanted(t)
    BY <1>1, <1>3, <2>2, <2>3 DEF Mine, Wanted
  <2>5. Control(t)'
    BY <1>1, <1>3, <2>2, <2>3, <2>4 DEF Control, Alone, Flushing, Stored, Requests, Sweeps
  <2>6. mutex # t => Place(t)'
    BY <1>1, <2>2, <2>3, <2>4 DEF Place, Stored
  <2> QED BY <1>1, <2>2, <2>3, <2>4, <2>5, <2>6
<1>4. CASE local[t].kind \notin Sweeps \cup {"setmax"} /\ mutex # t
  <2>1. Return(t)
    BY <1>1, <1>4 DEF FlushBack, Requests, Sweeps
  <2>2. /\ pc' \in [Threads -> Places] /\ local' \in [Threads -> Locals]
        /\ pc'[t] = "idle" /\ local'[t] = Idle /\ Others(t)
        /\ Control(t)' /\ Place(t)'
    BY <1>4, <2>1, Returned
  <2> QED BY <1>1, <1>4, <2>2, IdleIsLocal DEF Mine
<1> QED BY <1>2, <1>3, <1>4

\* SafeLockBlock in FlushBlock: nobody holds the block, in an eviction because it
\* was chosen unlocked under hRBMutex, otherwise because the band belongs to t.
LEMMA FlushLockStep ==
  ASSUME Inv, NEW t \in Threads, FlushLock(t)
  PROVE  Inv'
<1>0. PICK b : b = slot[local[t].target]
  OBVIOUS
<1>1. /\ pc[t] = "flushlock" /\ Control(t) /\ Place(t) /\ mutex \in {NULL, t}
      /\ local[t].target \in Slots /\ local[t].victim = NULL
      /\ mutex = t <=> Mine(t) # NULL
      /\ Mine(t) = NULL => local[t].target[1] = t
      /\ mutex = t \/ local[t].kind = "setmax" => b # NULL \/ Homeless(local[t].target)
      /\ mutex = t /\ b # NULL => \A u \in Threads : ~Holds(u, b)
  BY <1>0 DEF FlushLock, CanLock, Inv, Control, Place, Flushing
<1>2. /\ local' = local /\ pc' = [pc EXCEPT ![t] = "flushtake"] /\ slot' = slot /\ mutex' = mutex
      /\ pc'[t] = "flushtake" /\ Others(t)
      /\ UNCHANGED <<used, cacheMax, disk>> /\ pc' \in [Threads -> Places]
  BY DEF FlushLock, Goto, Inv, Typed, Others, Places
<1>3. Control(t)'
  BY <1>1, <1>2 DEF Control, Mine, Flushing, Stored
<1>4. \A u \in Threads \ {t} : \A c : Holds(u, c)' <=> Holds(u, c)
  BY <1>2 DEF Holds, Others, Mine, Wanted
<1>5. \A c \in Blocks : Holds(t, c)' <=> Mine(t) = c \/ c = b
  BY <1>0, <1>1, <1>2, Constants DEF Holds, Mine
<1>6. \A c \in Blocks : Holds(t, c) <=> Mine(t) = c
  BY <1>1, Constants DEF Holds
<1>7. \A c : (mutex = t /\ Mine(t) = c)' <=> (mutex = t /\ Mine(t) = c)
  BY <1>2 DEF Mine
<1>8. CASE b = NULL
  <2>1. block' = block /\ order' = order
    BY <1>0, <1>8 DEF FlushLock, SafeLock
  <2>2. Typed' /\ Elements(order') \subseteq Live
    BY <1>2, <2>1 DEF Inv, Typed
  <2>3. \A u \in Threads, c \in Blocks : Holds(u, c)' <=> Holds(u, c)
    BY <1>4, <1>5, <1>6, <1>8, Constants
  <2>4. Place(t)'
    <3>1. Homeless(local[t].target) => Homeless(local[t].target)'
      BY <1>1, <1>2, HomelessKept
    <3> QED BY <1>1, <1>2, <1>8, <2>1, <3>1 DEF Place, Mine, Wanted, Stored
  <2> QED BY <1>1, <1>2, <1>3, <1>7, <2>1, <2>2, <2>3, <2>4, SameHolders
<1>9. CASE b # NULL
  <2>1. /\ block' = [block EXCEPT ![b].locks = @ + 1] /\ order' = MoveToFront(order, b)
        /\ b \in Blocks
    BY <1>0, <1>1, <1>9 DEF FlushLock, SafeLock, Inv, Typed
  <2>2. b \in Live /\ block[b].at = local[t].target
    BY <1>0, <1>1, <1>9, <2>1, Constants DEF Inv, SlotsAgree, Live
  <2>3. \A u \in Threads : ~Holds(u, b)
    <3>1. CASE mutex = t
      BY <1>1, <1>9, <3>1
    <3>2. CASE mutex = NULL
      <4>1. Mine(t) = NULL /\ local[t].target[1] = t
        BY <1>1, <3>2, Constants
      <4>2. \A u \in Threads \ {t} : ~Holds(u, b)
        BY <1>1, <2>1, <2>2, <4>1, OwnBlocks
      <4> QED BY <1>6, <2>1, <4>1, <4>2, Constants
    <3> QED BY <1>1, <3>1, <3>2
  <2>4. block[b].locks = 0 /\ Mine(t) # b
    BY <1>6, <2>1, <2>2, <2>3 DEF Inv, Locks
  <2>5. /\ block' \in [Blocks -> Cells] /\ block'[b].at = block[b].at /\ block'[b].locks = 1
        /\ \A c \in Blocks \ {b} : block'[c] = block[c]
    <3>0. block[b] \in Cells
      BY <2>1 DEF Inv, Typed
    <3>1. [block[b] EXCEPT !.locks = @ + 1] \in Cells
      BY <3>0 DEF Cells
    <3>2. block' = [block EXCEPT ![b] = [block[b] EXCEPT !.locks = @ + 1]]
      BY <2>1
    <3> QED BY <2>1, <2>4, <3>1, <3>2 DEF Inv, Typed, Cells
  <2>6. /\ order' \in Seq(Blocks) /\ NoDuplicates(order') /\ Elements(order') \subseteq Live'
    <3>1. order \in Seq(Blocks) /\ NoDuplicates(order) /\ Elements(order) \subseteq Live
      BY DEF Inv, Typed
    <3>2. Live' = Live
      BY <2>1, <2>5 DEF Live
    <3> QED BY <2>1, <2>2, <3>1, <3>2, MoveToFrontProperties
  <2>7. Typed'
    BY <1>2, <2>5, <2>6 DEF Inv, Typed
  <2>8. \A s \in Slots : slot'[s] = b => block'[b].at = s
    BY <1>2, <2>1, <2>5, Constants DEF Inv, SlotsAgree
  <2>9. \A c \in Live \ {b} : block[c].at # block'[b].at
    BY <2>2, <2>5 DEF Inv, OneBlock
  <2>10. Place(t)'
    <3>1. \A c \in Blocks : block'[c].at = block[c].at
      BY <2>5
    <3>2. Mine(t) \in Blocks \cup {NULL}
      BY DEF Mine, Inv, Typed, Locals
    <3>3. Mine(t)' = Mine(t) /\ Wanted(t)' = Wanted(t)
      BY <1>2 DEF Mine, Wanted
    <3> QED BY <1>0, <1>1, <1>2, <1>9, <3>1, <3>2, <3>3 DEF Place, Stored
  <2>11. /\ ~(mutex = t /\ Mine(t) = b)' /\ Holds(t, b)'
         /\ \A c \in Blocks \ {b} : Holds(t, c)' <=> Holds(t, c)
    BY <1>5, <1>6, <1>7, <2>1, <2>4
  <2>12. block'[b].at # NULL /\ Elements(order') \subseteq Live'
    BY <2>2, <2>5, <2>6 DEF Live
  <2>13. \A u \in Threads \ {t}, c \in Blocks : Holds(u, c)' <=> Holds(u, c)
    BY <1>4
  <2>14. \A c \in Blocks \ {b} :
           /\ Holds(t, c)' <=> Holds(t, c)
           /\ (mutex = t /\ Mine(t) = c)' <=> (mutex = t /\ Mine(t) = c)
           /\ block'[c].at = block[c].at /\ block'[c].locks = block[c].locks
    BY <1>7, <2>5, <2>11
  <2> QED BY <1>1, <1>2, <1>3, <2>1, <2>2, <2>3, <2>5, <2>7,
             <2>8, <2>9, <2>10, <2>11, <2>12, <2>13, <2>14, Handover
<1> QED BY <1>8, <1>9

\* FlushBlock empties the slot of a block that only t holds.
LEMMA FlushTakeStep ==
  ASSUME Inv, NEW t \in Threads, FlushTake(t)
  PROVE  Inv'
<1>0. PICK b : b = slot[local[t].target]
  OBVIOUS
<1>1. /\ pc[t] = "flushtake" /\ Control(t) /\ Place(t) /\ pc[t] \in Flushing
      /\ local[t].target \in Slots /\ local[t].victim = NULL /\ local[t] \in Locals
      /\ mutex = t <=> Mine(t) # NULL
      /\ mutex = t => slot[Wanted(t)] = NULL /\ block[Mine(t)].at = Wanted(t)
      /\ b \in Blocks \cup {NULL}
  BY <1>0 DEF FlushTake, Inv, Typed, Control, Place, Flushing
<1>2. /\ slot' = [slot EXCEPT ![local[t].target] = NULL] /\ mutex' = mutex
      /\ block' = block /\ order' = order /\ UNCHANGED <<used, cacheMax, disk>>
      /\ slot' \in [Slots -> Blocks \cup {NULL}]
  BY <1>1 DEF FlushTake, Inv, Typed
<1>3. Elements(order') \subseteq Live' /\ Live' = Live
  BY <1>2 DEF Inv, Live
<1>4. CASE b = NULL
  <2>1. slot' = slot
    BY <1>0, <1>1, <1>2, <1>4 DEF Inv, Typed
  <2>2. FlushBack(t, FALSE)
    BY <1>0, <1>4 DEF FlushTake
  <2>3. /\ pc' \in [Threads -> Places] /\ local' \in [Threads -> Locals]
        /\ Others(t) /\ Control(t)'
        /\ local'[t].victim = NULL /\ Mine(t)' = Mine(t)
        /\ mutex = t => pc'[t] = "evict" /\ Mine(t) # NULL /\ Wanted(t)' = Wanted(t)
        /\ mutex # t => Mine(t) = NULL /\ Place(t)'
        /\ pc'[t] \in {"sweep", "evict", "idle"}
    BY <1>1, <1>2, <2>2, FlushBackStep
  <2>3a. Place(t)'
    <3>1. CASE mutex = t
      BY <1>1, <1>2, <2>1, <2>3, <3>1 DEF Place, Stored
    <3> QED BY <2>3, <3>1
  <2>4. Typed'
    BY <1>2, <2>3 DEF Inv, Typed
  <2>5. \A c \in Blocks : (Holds(t, c) <=> Mine(t) = c) /\ (Holds(t, c)' <=> Mine(t) = c)
    BY <1>0, <1>1, <1>4, <2>3, Constants DEF Holds
  <2>6. \A u \in Threads \ {t}, c \in Blocks : Holds(u, c)' <=> Holds(u, c)
    BY <2>1, <2>3 DEF Holds, Others, Mine, Wanted
  <2>7. \A u \in Threads, c \in Blocks : Holds(u, c)' <=> Holds(u, c)
    BY <2>5, <2>6
  <2>8. \A c \in Blocks : (mutex = t /\ Mine(t) = c)' <=> (mutex = t /\ Mine(t) = c)
    BY <1>2, <2>3
  <2> QED BY <1>1, <1>2, <1>3, <2>1, <2>3, <2>3a, <2>4, <2>7, <2>8, SameHolders
<1>5. CASE b # NULL
  <2>1. /\ b \in Blocks /\ local' = [local EXCEPT ![t].victim = b]
        /\ pc' = [pc EXCEPT ![t] = "flushdetach"]
    BY <1>0, <1>1, <1>5 DEF FlushTake
  <2>2. /\ b \in Live /\ block[b].at = local[t].target /\ Holds(t, b) /\ block[b].at \in Slots
    BY <1>0, <1>1, <1>5, <2>1, Constants DEF Inv, SlotsAgree, Live, Holds
  <2>3. local'[t] = [local[t] EXCEPT !.victim = b]
    BY <2>1 DEF Inv, Typed
  <2>4. Typed'
    <3>1. [local[t] EXCEPT !.victim = b] \in Locals
      BY <1>1, <2>1 DEF Locals
    <3>2. local' \in [Threads -> Locals] /\ pc' \in [Threads -> Places]
      BY <2>1, <3>1 DEF Inv, Typed, Places
    <3> QED BY <1>2, <3>2 DEF Inv, Typed
  <2>5. /\ local'[t].mine = local[t].mine /\ local'[t].victim = b
        /\ local'[t].kind = local[t].kind /\ local'[t].i = local[t].i
        /\ local'[t].target = local[t].target /\ pc'[t] = "flushdetach" /\ Others(t)
    BY <1>1, <2>1, <2>3 DEF Locals, Others, Inv, Typed
  <2>6. Mine(t)' = Mine(t) /\ Wanted(t)' = Wanted(t)
    BY <2>5 DEF Mine, Wanted
  <2>7. Mine(t) # b
    <3> SUFFICES ASSUME Mine(t) = b PROVE FALSE
      OBVIOUS
    <3>1. block[b].at = Wanted(t) /\ slot[Wanted(t)] = NULL
      BY <1>1, <1>5 DEF Place
    <3> QED BY <1>0, <1>5, <2>2, <3>1
  <2>8. Control(t)'
    BY <1>1, <1>2, <1>5, <2>5, <2>6 DEF Control, Flushing, Stored
  <2>9. slot'[local[t].target] = NULL /\ \A s \in Slots \ {local[t].target} : slot'[s] = slot[s]
    BY <1>1, <1>2 DEF Inv, Typed
  <2>10. Place(t)'
    <3>1. mutex = t => slot'[Wanted(t)] = NULL
      <4>1. mutex = t => slot[Wanted(t)] = NULL /\ Wanted(t) \in Slots
        BY <1>1, Constants DEF Place, Control, Wanted
      <4> QED BY <2>9, <4>1
    <3> QED BY <1>1, <1>2, <2>2, <2>5, <2>6, <2>7, <2>9, <3>1 DEF Place, Stored
  <2>11. \A u \in Threads \ {t} : ~Holds(u, b)
    BY <2>1, <2>2 DEF Inv, OneHolder
  <2>12. ASSUME NEW u \in Threads \ {t}, NEW c \in Blocks PROVE Holds(u, c)' <=> Holds(u, c)
    <3>1. Control(u) /\ pc'[u] = pc[u] /\ local'[u] = local[u]
      BY <2>5 DEF Inv, Others
    <3>2. pc[u] = "flushtake" => slot'[local[u].target] = slot[local[u].target]
      <4>1. pc[u] = "flushtake" => local[u].target \in Slots
        BY <3>1 DEF Control, Flushing
      <4>2. pc[u] = "flushtake" => local[u].target # local[t].target
        BY <1>0, <2>11 DEF Holds
      <4> QED BY <2>9, <4>1, <4>2
    <3>3. pc[u] = "fetch" => slot'[Wanted(u)] = slot[Wanted(u)]
      <4>1. pc[u] = "fetch" => Wanted(u) \in Slots
        BY <3>1, Constants DEF Control, Wanted
      <4>2. pc[u] = "fetch" => Wanted(u) # local[t].target
        BY <1>0, <2>11 DEF Holds
      <4> QED BY <2>9, <4>1, <4>2
    <3> QED BY <3>1, <3>2, <3>3 DEF Holds, Mine, Wanted
  <2>13. \A c \in Blocks : Holds(t, c)' <=> Holds(t, c)
    BY <1>0, <1>1, <2>5, <2>6, Constants DEF Holds
  <2>14. block[b].locks = 1
    BY <1>1, <2>2, <2>7 DEF Inv, Locks
  <2>15. \A s \in Slots : \/ slot'[s] = slot[s]
                          \/ slot[s] = b /\ slot'[s] = NULL
    BY <1>0, <2>9
  <2>16. \A s \in Slots : slot'[s] = b => block[b].at = s
    BY <1>5, <2>9, <2>15, Constants DEF Inv, SlotsAgree
  <2>17. \A c \in Live \ {b} : block[c].at # block[b].at
    BY <2>2 DEF Inv, OneBlock
  <2>18. \A c \in Blocks : (mutex = t /\ Mine(t) = c)' <=> (mutex = t /\ Mine(t) = c)
    BY <1>2, <2>6
  <2>19. /\ block'[b].at # NULL /\ block'[b].at = block[b].at /\ block'[b].locks = 1
         /\ Holds(t, b)' /\ ~(mutex = t /\ Mine(t) = b)'
    BY <1>2, <2>1, <2>2, <2>7, <2>13, <2>14, <2>18, Constants
  <2>20. /\ \A s \in Slots : slot'[s] = b => block'[b].at = s
         /\ \A c \in Live \ {b} : block[c].at # block'[b].at
    BY <2>16, <2>17, <2>19
  <2>21. block'[b].locks = IF pc'[t] = "discard" THEN 0 ELSE 1
    BY <2>5, <2>19
  <2> QED BY <1>1, <1>2, <1>3, <2>1, <2>2, <2>4, <2>5, <2>8, <2>10, <2>11, <2>12, <2>13,
             <2>15, <2>18, <2>19, <2>20, <2>21, Handover
<1> QED BY <1>4, <1>5

\* FlushBlock deletes the block, which only t holds and which no slot refers to.
LEMMA DeleteStep ==
  ASSUME Inv, NEW t \in Threads, Delete(t)
  PROVE  Inv'
<1>1. /\ pc[t] = "delete" /\ Control(t) /\ Place(t) /\ pc[t] \in Flushing
      /\ local[t].target \in Slots /\ local[t].victim \in Blocks /\ local[t].failed \in BOOLEAN
      /\ mutex = t <=> Mine(t) # NULL
  BY DEF Delete, Inv, Typed, Control, Flushing, Locals
<1>2. PICK b \in Blocks : b = local[t].victim
  BY <1>1
<1>3. Holds(t, b) /\ block[b].at = local[t].target /\ slot[local[t].target] = NULL /\ Mine(t) # b
  BY <1>1, <1>2, Constants DEF Holds, Place
<1>4. /\ block' = [block EXCEPT ![b] = Free] /\ order' = Without(order, b)
      /\ FlushBack(t, local[t].failed) /\ slot' = slot /\ mutex' = mutex
      /\ UNCHANGED <<cacheMax, disk>>
  BY <1>2 DEF Delete
<1>5. /\ pc' \in [Threads -> Places] /\ local' \in [Threads -> Locals]
      /\ Others(t) /\ Control(t)'
      /\ local'[t].victim = NULL /\ Mine(t)' = Mine(t)
      /\ mutex = t => pc'[t] = "evict" /\ Mine(t) # NULL /\ Wanted(t)' = Wanted(t)
      /\ mutex # t => Mine(t) = NULL /\ Place(t)'
      /\ pc'[t] \in {"sweep", "evict", "idle"}
  BY <1>1, <1>4, FlushBackStep
<1>6. /\ block' \in [Blocks -> Cells] /\ block'[b].at = NULL
      /\ \A c \in Blocks \ {b} : block'[c] = block[c]
  BY <1>4, FreeIsCell DEF Inv, Typed
<1>7. used' \in Int
  <2>1. SizeOf(b) \in Nat
    BY <1>1, <1>3, Constants DEF SizeOf
  <2>2. used' = used - SizeOf(b) /\ used \in Int
    BY <1>2 DEF Delete, Inv, Typed
  <2> QED BY <2>1, <2>2
<1>8. /\ order' \in Seq(Blocks) /\ NoDuplicates(order') /\ Elements(order') \subseteq Live'
  <2>1. order \in Seq(Blocks) /\ NoDuplicates(order) /\ Elements(order) \subseteq Live
    BY DEF Inv, Typed
  <2>2. Live' = Live \ {b}
    BY <1>6 DEF Live
  <2>3. /\ order' \in Seq(Blocks) /\ NoDuplicates(order')
        /\ Elements(order') = Elements(order) \ {b}
    BY <1>4, <2>1, WithoutProperties
  <2> QED BY <2>1, <2>2, <2>3
<1>9. Typed'
  BY <1>4, <1>5, <1>6, <1>7, <1>8 DEF Inv, Typed
<1>10. Place(t)'
  <2>1. CASE mutex = t
    <3>1. Mine(t) \in Blocks \ {b}
      BY <1>3, <1>5, <2>1 DEF Mine, Inv, Typed, Locals
    <3>2. block'[Mine(t)] = block[Mine(t)]
      BY <3>1, <1>6
    <3> QED BY <1>1, <1>4, <1>5, <2>1, <3>2 DEF Place, Stored
  <2> QED BY <1>5, <2>1
<1>11. \A u \in Threads \ {t} : ~Holds(u, b)
  BY <1>3 DEF Inv, OneHolder
<1>12. \A u \in Threads \ {t} : \A c : Holds(u, c)' <=> Holds(u, c)
  BY <1>4, <1>5 DEF Holds, Others, Mine, Wanted
<1>13. \A c \in Blocks : Holds(t, c)' <=> Mine(t) = c
  BY <1>5, Constants DEF Holds
<1>14. \A c \in Blocks \ {b} : Holds(t, c) <=> Mine(t) = c
  BY <1>1, <1>2 DEF Holds
<1>15. \A s \in Slots : slot'[s] # b
  BY <1>3, <1>4, Constants DEF Inv, SlotsAgree
<1>16. \A c \in Blocks : (mutex = t /\ Mine(t) = c)' <=> (mutex = t /\ Mine(t) = c)
  BY <1>4, <1>5
<1>17. ~Holds(t, b)'
  BY <1>3, <1>13
<1> QED BY <1>1, <1>3, <1>4, <1>5, <1>6, <1>8, <1>9, <1>10, <1>11, <1>12, <1>13, <1>14, <1>15,
           <1>16, <1>17, Handover

\* What a step keeps that changes no block and moves no thread.
AllKept == UNCHANGED <<slot, block, order, used, cacheMax, mutex, disk, pc, local>>

LEMMA InvKept ==
  ASSUME Inv, AllKept
  PROVE  Inv'
<1>1. /\ \A t \in Threads : Mine(t)' = Mine(t) /\ Wanted(t)' = Wanted(t)
      /\ Live' = Live /\ Elements(order)' = Elements(order)
  BY DEF AllKept, Mine, Wanted, Live
<1>2. \A t \in Threads : \A b : Holds(t, b)' <=> Holds(t, b)
  BY <1>1 DEF AllKept, Holds
<1>3. Typed'
  BY DEF AllKept, Inv, Typed
<1>4. ASSUME NEW t \in Threads PROVE Control(t)' /\ Place(t)'
  <2>1. Control(t) /\ Place(t) /\ Homeless(local[t].target)' = Homeless(local[t].target)
    BY DEF Inv, AllKept, Homeless, Wanted
  <2>2. Control(t)'
    BY <1>1, <2>1 DEF AllKept, Control
  <2>3. Place(t)'
    BY <1>1, <1>2, <2>1 DEF AllKept, Place
  <2> QED BY <2>2, <2>3
<1>5. SlotsAgree' /\ OneBlock'
  BY <1>1 DEF AllKept, Inv, SlotsAgree, OneBlock
<1>6. OneHolder' /\ UnheldStored'
  BY <1>1, <1>2 DEF AllKept, Inv, OneHolder, UnheldStored
<1>7. Locks'
  BY <1>1, <1>2 DEF AllKept, Inv, Locks
<1> QED BY <1>1, <1>3, <1>4, <1>5, <1>6, <1>7 DEF Inv

\* Opening a band changes no block.
LEMMA OpenBandStep ==
  ASSUME Inv, NEW t \in Threads, OpenBand(t)
  PROVE  Inv'
BY InvKept DEF OpenBand, AllKept

\* Initially no block is in memory.
LEMMA InitInv == Init => Inv
<1> SUFFICES ASSUME Init PROVE Inv
  OBVIOUS
<1>1. /\ \A s \in Slots : slot[s] = NULL
      /\ \A b \in Blocks : block[b] = Free
      /\ \A t \in Threads : pc[t] = "idle" /\ local[t] = Idle
      /\ order = <<>> /\ mutex = NULL
  BY DEF Init
<1>2. Live = {}
  BY <1>1, FreeIsCell DEF Live
<1>3. Elements(order) = {}
  BY <1>1 DEF Elements, Range
<1>4. Typed
  <2>1. NoDuplicates(order)
    BY <1>1 DEF NoDuplicates
  <2>2. order \in Seq(Blocks)
    BY <1>1
  <2>3. disk \in [Slots -> Nat] /\ slot \in [Slots -> Blocks \cup {NULL}]
    BY DEF Init
  <2>4. pc \in [Threads -> Places] /\ local \in [Threads -> Locals]
    BY IdleIsLocal DEF Init, Places
  <2>5. used \in Int /\ cacheMax \in Nat /\ mutex \in Threads \cup {NULL}
    BY Constants DEF Init
  <2>6. block \in [Blocks -> Cells]
    BY FreeIsCell DEF Init
  <2> QED BY <2>1, <2>2, <2>3, <2>4, <2>5, <2>6 DEF Typed
<1>5. \A t \in Threads : Control(t) /\ Place(t)
  BY <1>1, IdleIsLocal, Constants DEF Control, Place, Mine, Flushing, Stored
<1>6. \A t \in Threads, b \in Blocks : ~Holds(t, b)
  BY <1>1, IdleIsLocal, Constants DEF Holds, Mine
<1> QED BY <1>1, <1>2, <1>3, <1>4, <1>5, <1>6
        DEF Inv, SlotsAgree, OneHolder, OneBlock, UnheldStored, Locks

----------------------------------------------------------------------------
\* A step of t that fills no slot of another thread: what remains to be shown is
\* what it does to t.
LEMMA SweptFrame ==
  ASSUME SweptInv, NEW t \in Threads, Others(t),
         \A s \in Slots : s[1] # t /\ slot[s] = NULL => slot'[s] = NULL,
         \A u \in Threads \ {t} : u \in open => u \in open',
         Swept(t)'
  PROVE  SweptInv'
<1> SUFFICES ASSUME NEW u \in Threads \ {t} PROVE Swept(u)'
  BY DEF SweptInv
<1>1. pc'[u] = pc[u] /\ local'[u] = local[u] /\ Swept(u) /\ (u \in open => u \in open')
  BY DEF Others, SweptInv
<1>2. \A j \in 1 .. NBlocks : slot[<<u, j>>] = NULL => slot'[<<u, j>>] = NULL
  <2> SUFFICES ASSUME NEW j \in 1 .. NBlocks, slot[<<u, j>>] = NULL
               PROVE  slot'[<<u, j>>] = NULL
    OBVIOUS
  <2>1. <<u, j>> \in Slots /\ <<u, j>>[1] # t
    BY DEF Slots
  <2> QED BY <2>1
<1> QED BY <1>1, <1>2 DEF Swept, Wanted

\* A step of a request: t is in no sweep, and is in none after it.
LEMMA SweptRequest ==
  ASSUME Inv, SweptInv, NEW t \in Threads, Others(t), t \in open, open' = open,
         \/ slot' = slot
         \/ \E b \in Blocks : slot' = [slot EXCEPT ![Wanted(t)] = b],
         \/ pc'[t] = "idle" /\ local'[t] = Idle
         \/ pc'[t] # "idle" /\ local'[t].kind \in Requests
  PROVE  SweptInv'
<1>1. \A s \in Slots : s[1] # t /\ slot[s] = NULL => slot'[s] = NULL
  BY DEF Inv, Typed, Wanted
<1>2. Swept(t)'
  BY DEF Swept, Idle, Requests, Sweeps
<1> QED BY <1>1, <1>2, SweptFrame

\* So is a step of GDALSetCacheMax, which may run while the band is closed.
LEMMA SweptSetting ==
  ASSUME Inv, SweptInv, NEW t \in Threads, Others(t), open' = open,
         \A s \in Slots : slot[s] = NULL => slot'[s] = NULL,
         pc[t] = "idle" \/ local[t].kind = "setmax",
         t \in open \/ pc'[t] \in {"idle", "evict"},
         \/ pc'[t] = "idle" /\ local'[t] = Idle
         \/ pc'[t] # "idle" /\ local'[t].kind = "setmax"
  PROVE  SweptInv'
<1>1. \A j \in 1 .. NBlocks : slot[<<t, j>>] = NULL => slot'[<<t, j>>] = NULL
  BY DEF Slots
<1>2. Swept(t)
  BY DEF SweptInv
<1>3. Swept(t)'
  BY <1>1, <1>2 DEF Swept, Idle, Sweeps
<1> QED BY <1>3, SweptFrame

\* The block it evicts, when it is alone, is in papoBlocks of its band, which exists.
LEMMA VictimInOpen ==
  ASSUME Inv, SweptInv, NEW t \in Threads, PickVictim(t), local[t].kind = "setmax"
  PROVE  t \in open
<1>1. PICK b \in Elements(order) : block[b].locks = 0
  BY DEF PickVictim, Unlocked
<1>2. b \in Live /\ b \in Blocks /\ block[b].at \in Slots
  BY <1>1 DEF Inv, Typed, Cells, Live
<1>3. slot[block[b].at] = b
  <2>1. Alone(t) /\ pc[t] = "evict" /\ Mine(t) = NULL
    BY DEF PickVictim, Evicting, Inv, Control
  <2>2. \A u \in Threads : ~Holds(u, b)
    BY <1>1, <1>2, <2>1 DEF Inv, Locks, Alone
  <2> QED BY <1>2, <2>2 DEF Inv, UnheldStored
<1>4. PICK u \in Threads, j \in 1 .. NBlocks : block[b].at = <<u, j>>
  BY <1>2 DEF Slots
<1>5. u = t
  BY DEF PickVictim, Evicting, Inv, Control, Alone
<1> QED BY <1>2, <1>3, <1>4, <1>5, Constants DEF SweptInv, Swept

\* The steps of requests, and the loops of GDALSetCacheMax, by what they change.
LEMMA SweptRequests ==
  ASSUME Inv, SweptInv, NEW t \in Threads,
         \/ \E kind \in Requests, i \in 1 .. NBlocks : Request(t, kind, i)
         \/ LockIfCached(t) \/ Fetch(t) \/ AllocateFails(t)
         \/ \E b \in Blocks : Allocate(t, b)
         \/ PickVictim(t) \/ NoVictim(t) \/ EvictionDone(t)
         \/ Adopt(t) \/ AdoptFails(t) \/ Discard(t) \/ TouchAdopted(t)
         \/ ReadIn(t) \/ ReadInFails(t) \/ UseBlock(t) \/ Release(t)
  PROVE  SweptInv'
<1>0. /\ local[t] \in Locals /\ local \in [Threads -> Locals] /\ pc \in [Threads -> Places]
      /\ Control(t) /\ Swept(t)
  BY DEF Inv, Typed, SweptInv
<1>0a. local[t].kind \in Requests /\ pc[t] # "idle" => t \in open
  BY <1>0 DEF Swept, Requests
<1>1. CASE \E kind \in Requests, i \in 1 .. NBlocks : Request(t, kind, i)
  <2>1. PICK kind \in Requests, i \in 1 .. NBlocks : Request(t, kind, i)
    BY <1>1
  <2>2. /\ pc' = [pc EXCEPT ![t] = "lookup"] /\ slot' = slot
        /\ local' = [local EXCEPT ![t].kind = kind, ![t].i = i]
        /\ t \in open /\ open' = open
    BY <2>1 DEF Request, shared
  <2>3. Others(t) /\ pc'[t] = "lookup"
    BY <1>0, <2>2 DEF Others
  <2>4. local'[t].kind = kind
    BY <1>0, <2>2 DEF Locals
  <2> QED BY <2>2, <2>3, <2>4, SweptRequest
<1>2. CASE AllocateFails(t) \/ Discard(t) \/ Release(t)
  <2>1. /\ Others(t) /\ slot' = slot /\ pc'[t] = "idle" /\ local'[t] = Idle
        /\ pc[t] \in {"new", "discard", "used"} /\ open' = open
    BY <1>0, <1>2 DEF Others, AllocateFails, Discard, Release, Return
  <2>2. local[t].kind \in Requests
    BY <1>0, <2>1 DEF Control, Stored
  <2> QED BY <1>0a, <2>1, <2>2, SweptRequest
<1>3. CASE LockIfCached(t) \/ AdoptFails(t) \/ TouchAdopted(t) \/ ReadIn(t)
  <2>1. local[t].kind \in Requests
    BY <1>0, <1>3 DEF Control, LockIfCached, AdoptFails, TouchAdopted, ReadIn, Stored
  <2>2. /\ Others(t) /\ slot' = slot /\ local' = local
        /\ pc'[t] \in {"fetch", "discard", "locked", "reading"}
        /\ pc[t] # "idle" /\ open' = open
    BY <1>0, <1>3 DEF Others, LockIfCached, AdoptFails, TouchAdopted, ReadIn, Goto
  <2> QED BY <1>0a, <2>1, <2>2, SweptRequest
<1>4. CASE Fetch(t) \/ UseBlock(t) \/ ReadInFails(t)
  <2>1. local[t].kind \in Requests
    BY <1>0, <1>4 DEF Control, Fetch, UseBlock, ReadInFails, Stored
  <2>2. /\ Others(t) /\ slot' = slot /\ local'[t].kind = local[t].kind
        /\ pc'[t] \in {"new", "locked", "used", "flushlock"}
        /\ pc[t] # "idle" /\ open' = open
    <3>1. /\ slot' = slot /\ open' = open /\ pc[t] # "idle" /\ Others(t)
          /\ pc'[t] \in {"new", "locked", "used", "flushlock"}
      BY <1>0, <1>4 DEF Others, Fetch, UseBlock, ReadInFails, shared
    <3>2. \/ \E v : local' = [local EXCEPT ![t].mine = v]
          \/ \E v : local' = [local EXCEPT ![t].got = v]
          \/ \E v : local' = [local EXCEPT ![t].mine = NULL, ![t].target = v]
      BY <1>4 DEF Fetch, UseBlock, ReadInFails
    <3>3. local'[t].kind = local[t].kind
      BY <1>0, <3>2 DEF Locals
    <3> QED BY <3>1, <3>3
  <2> QED BY <1>0a, <2>1, <2>2, SweptRequest
<1>5. CASE \E b \in Blocks : Allocate(t, b)
  <2>1. local[t].kind \in Requests
    BY <1>0, <1>5 DEF Control, Allocate
  <2>2. PICK b \in Blocks : Allocate(t, b)
    BY <1>5
  <2>3. /\ Others(t) /\ slot' = slot /\ local'[t].kind = local[t].kind /\ pc'[t] = "evict"
        /\ pc[t] # "idle" /\ open' = open
    BY <1>0, <2>2 DEF Others, Allocate, Locals
  <2> QED BY <1>0a, <2>1, <2>3, SweptRequest
<1>6. CASE (PickVictim(t) \/ NoVictim(t) \/ EvictionDone(t)) /\ local[t].kind # "setmax"
  <2>1. local[t].kind \in Requests /\ pc[t] = "evict"
    BY <1>0, <1>6 DEF Control, PickVictim, NoVictim, EvictionDone, Evicting
  <2>2. /\ Others(t) /\ slot' = slot /\ local'[t].kind = local[t].kind
        /\ pc'[t] \in {"flushlock", "evict", "adopt"}
        /\ open' = open
    BY <1>0, <1>6, <2>1 DEF Others, PickVictim, NoVictim, EvictionDone, shared, Locals, Requests
  <2> QED BY <1>0a, <2>1, <2>2, SweptRequest
<1>7. CASE Adopt(t)
  <2>1. local[t].kind \in Requests /\ Mine(t) \in Blocks
    BY <1>0, <1>7 DEF Control, Adopt, Mine, Locals
  <2>2. /\ Others(t) /\ local' = local /\ pc'[t] = "touch"
        /\ slot' = [slot EXCEPT ![Wanted(t)] = Mine(t)]
        /\ pc[t] # "idle" /\ open' = open
    BY <1>0, <1>7 DEF Others, Adopt, Goto
  <2> QED BY <1>0a, <2>1, <2>2, SweptRequest
<1>8. CASE (PickVictim(t) \/ NoVictim(t) \/ EvictionDone(t)) /\ local[t].kind = "setmax"
  <2>1. /\ Others(t) /\ slot' = slot /\ open' = open /\ pc[t] = "evict"
        /\ \/ pc'[t] = "idle" /\ local'[t] = Idle
           \/ pc'[t] # "idle" /\ local'[t].kind = "setmax"
    BY <1>0, <1>8 DEF Others, PickVictim, NoVictim, EvictionDone, Evicting, Return, shared, Locals
  <2>2. t \in open \/ pc'[t] \in {"idle", "evict"}
    <3>1. CASE PickVictim(t)
      BY <1>8, <3>1, VictimInOpen
    <3>2. CASE NoVictim(t) \/ EvictionDone(t)
      BY <1>0, <1>8, <3>2 DEF NoVictim, EvictionDone, Evicting, Return, shared
    <3> QED BY <1>8, <3>1, <3>2
  <2> QED BY <1>8, <2>1, <2>2, SweptSetting
<1> QED BY <1>1, <1>2, <1>3, <1>4, <1>5, <1>6, <1>7, <1>8

\* When a sweep of a band that is closed ends, its slots are empty.
LEMMA SweptOver ==
  ASSUME Inv, SweptInv, NEW t \in Threads, SweepOver(t), local[t].kind \in Sweeps,
         ~local[t].failed
  PROVE  \A j \in 1 .. NBlocks : slot[<<t, j>>] = NULL
<1>1. pc[t] = "sweep" /\ local[t].i > NBlocks /\ local[t] \in Locals
  BY DEF SweepOver, Inv, Typed
<1>2. \A j \in 1 .. NBlocks : j < local[t].i
  BY <1>1, Constants DEF Locals
<1> QED BY <1>1, <1>2 DEF SweptInv, Swept

\* The destructor of a band frees an empty papoBlocks.
LEMMA NothingLeft ==
  ASSUME Inv, SweptInv, NEW t \in Threads, BandDestroyed(t)
  PROVE  slot' = slot /\ \A j \in 1 .. NBlocks : slot[<<t, j>>] = NULL
<1>1. \A j \in 1 .. NBlocks : slot[<<t, j>>] = NULL
  BY DEF BandDestroyed, SweepOver, SweptInv, Swept
<1>2. \A s \in Slots : s[1] = t => slot[s] = NULL
  <2> SUFFICES ASSUME NEW s \in Slots, s[1] = t PROVE slot[s] = NULL
    OBVIOUS
  <2>1. s = <<t, s[2]>> /\ s[2] \in 1 .. NBlocks
    BY DEF Slots
  <2> QED BY <1>1, <2>1
<1>3. slot \in [Slots -> Blocks \cup {NULL}]
  BY DEF Inv, Typed
<1> QED BY <1>1, <1>2, <1>3 DEF BandDestroyed

\* The steps of a sweep before and after FlushBlock.
LEMMA SweptSweeps ==
  ASSUME Orderly, Inv, SweptInv, NEW t \in Threads,
         \/ \E kind \in {"flush", "close"} : Sweep(t, kind)
         \/ SweepNext(t) \/ FlushCacheReturns(t) \/ DestroyBand(t) \/ BandDestroyed(t)
         \/ OpenBand(t)
  PROVE  SweptInv'
<1>0. /\ local[t] \in Locals /\ local \in [Threads -> Locals] /\ pc \in [Threads -> Places]
      /\ Swept(t) /\ Control(t)
  BY DEF Inv, Typed, SweptInv
<1>1. Others(t) /\ slot' = slot /\ \A u \in Threads \ {t} : u \in open => u \in open'
  BY <1>0, NothingLeft DEF Others, Sweep, SweepNext, FlushCacheReturns, DestroyBand, BandDestroyed, OpenBand,
       Return, shared
<1>2. ASSUME NEW kind \in {"flush", "close"}, Sweep(t, kind) PROVE SweptInv'
  <2>1. /\ pc[t] = "idle" /\ pc'[t] = "sweep" /\ local'[t].i = local[t].i
        /\ local'[t].failed = local[t].failed /\ local'[t].kind = kind
        /\ t \in open /\ open' = open
    BY <1>0, <1>2 DEF Sweep, Locals, shared
  <2>2. kind = "close" => ~IOFails
    BY <1>2 DEF Sweep, Orderly
  <2>3. \A j \in 1 .. NBlocks : ~(j < 1)
    BY Constants
  <2> QED BY <1>0, <1>1, <2>1, <2>2, <2>3, SweptFrame DEF Swept, Flushing
<1>3. CASE SweepNext(t)
  <2>0. /\ pc[t] = "sweep" /\ local[t].kind \in Sweeps /\ open' = open /\ t \in open
        /\ local[t].i \in 1 .. NBlocks
    BY <1>0, <1>3, Constants DEF SweepNext, SweepOver, Control, Swept, Locals, Sweeps, shared
  <2>1. CASE slot[Wanted(t)] = NULL
    <3>1. /\ pc'[t] = "sweep" /\ local'[t].i = local[t].i + 1
          /\ local'[t].kind = local[t].kind /\ local'[t].failed = local[t].failed
      BY <1>0, <1>3, <2>0, <2>1 DEF SweepNext, Locals
    <3>2. \A j \in 1 .. NBlocks : j < local[t].i + 1 => j < local[t].i \/ j = local[t].i
      BY <2>0, Constants
    <3>3. Swept(t)'
      BY <1>0, <1>1, <2>0, <2>1, <3>1, <3>2 DEF Swept, Flushing, Wanted
    <3> QED BY <1>1, <3>3, SweptFrame
  <2>2. CASE slot[Wanted(t)] # NULL
    <3>1. /\ pc'[t] = "flushlock" /\ local'[t].target = Wanted(t)
          /\ local'[t].i = local[t].i /\ local'[t].kind = local[t].kind
          /\ local'[t].failed = local[t].failed
      BY <1>0, <1>3, <2>2 DEF SweepNext, Locals
    <3>2. local[t].kind # "destroy"
      BY <1>0, <2>0, <2>2 DEF Swept, Wanted
    <3>3. Swept(t)'
      BY <1>0, <1>1, <2>0, <3>1, <3>2 DEF Swept, Wanted
    <3> QED BY <1>1, <3>3, SweptFrame
  <2> QED BY <2>1, <2>2
<1>4. CASE FlushCacheReturns(t)
  <2>1. /\ local'[t] = Idle /\ pc'[t] = "idle" /\ open' = open /\ t \in open
    BY <1>0, <1>4 DEF FlushCacheReturns, SweepOver, Return, Swept, shared
  <2>2. Swept(t)'
    BY <2>1 DEF Swept, Idle
  <2> QED BY <1>1, <2>2, SweptFrame
<1>5. CASE DestroyBand(t)
  <2>1. pc[t] = "sweep" /\ ~local[t].failed /\ ~IOFails /\ t \in open /\ open' = open
    BY <1>0, <1>5 DEF DestroyBand, SweepOver, Swept, shared
  <2>2. \A j \in 1 .. NBlocks : slot'[<<t, j>>] = NULL
    BY <1>1, <1>5, <2>1, SweptOver DEF DestroyBand, Sweeps
  <2>3. /\ pc'[t] = "sweep" /\ local'[t].kind = "destroy" /\ ~local'[t].failed
    BY <1>0, <1>5, <2>1 DEF DestroyBand, Idle
  <2>4. Swept(t)'
    BY <2>1, <2>2, <2>3 DEF Swept, Flushing
  <2> QED BY <1>1, <2>4, SweptFrame
<1>6. CASE BandDestroyed(t)
  <2>1. local'[t] = Idle /\ pc'[t] = "idle"
    BY <1>0, <1>6 DEF BandDestroyed, Return
  <2>2. \A j \in 1 .. NBlocks : slot'[<<t, j>>] = NULL
    BY <1>1, <1>6, NothingLeft
  <2>3. Swept(t)'
    BY <2>1, <2>2 DEF Swept, Idle
  <2> QED BY <1>1, <2>3, SweptFrame
<1>7. CASE OpenBand(t)
  <2>1. pc[t] = "idle" /\ pc' = pc /\ local' = local /\ t \in open'
    BY <1>7 DEF OpenBand
  <2>2. Swept(t)'
    BY <1>0, <2>1 DEF Swept
  <2> QED BY <1>1, <2>2, SweptFrame
<1> QED BY <1>2, <1>3, <1>4, <1>5, <1>6, <1>7

\* FlushBlock: its slot is empty when it returns to the sweep.
LEMMA SweptFlushes ==
  ASSUME Inv, SweptInv, NEW t \in Threads,
         \/ FlushLock(t) \/ FlushTake(t) \/ FlushDetach(t) \/ Delete(t)
         \/ \E ok \in BOOLEAN : WriteOut(t, ok)
  PROVE  SweptInv'
<1>0. /\ local[t] \in Locals /\ local \in [Threads -> Locals] /\ pc \in [Threads -> Places]
      /\ slot \in [Slots -> Blocks \cup {NULL}] /\ Swept(t) /\ Control(t) /\ Place(t)
  BY DEF Inv, Typed, SweptInv
<1>1. /\ Others(t) /\ open' = open
      /\ \A s \in Slots : slot[s] = NULL => slot'[s] = NULL
  BY <1>0 DEF Others, FlushLock, FlushTake, FlushDetach, Delete, WriteOut, FlushBack, Goto, Return
<1>2. /\ pc[t] \in Flushing /\ local[t].i \in 1 .. NBlocks /\ local[t].target \in Slots
      /\ pc[t] \notin {"idle", "sweep"}
      /\ local[t].kind \in Calls
  BY <1>0 DEF Control, FlushLock, FlushTake, FlushDetach, Delete, WriteOut, Flushing
<1>3. \A j \in 1 .. NBlocks : slot[<<t, j>>] = NULL => slot'[<<t, j>>] = NULL
  BY <1>1 DEF Slots
<1>4. ASSUME pc'[t] \in Flushing, local'[t].i = local[t].i, local'[t].kind = local[t].kind,
             local'[t].target = local[t].target,
             local[t].kind = "close" /\ ~local[t].failed => ~local'[t].failed
      PROVE  SweptInv'
  <2>1. CASE local[t].kind = "setmax"
    <3>1. pc'[t] # "idle" /\ t \in open
      BY <1>0, <1>2, <1>4 DEF Swept, Flushing
    <3> QED BY <1>1, <1>4, <2>1, <3>1, SweptSetting
  <2>2. CASE local[t].kind # "setmax"
    <3>1. pc'[t] \notin {"idle", "sweep"} /\ local[t].kind # "destroy" /\ t \in open
      BY <1>0, <1>2, <1>4, <2>2 DEF Swept, Flushing
    <3>2. Swept(t)'
      BY <1>0, <1>1, <1>2, <1>3, <1>4, <3>1 DEF Swept, Wanted
    <3> QED BY <1>1, <3>2, SweptFrame
  <2> QED BY <2>1, <2>2
<1>5. ASSUME NEW failed \in BOOLEAN, FlushBack(t, failed), slot'[local[t].target] = NULL,
             failed => local[t].failed
      PROVE  SweptInv'
  <2>0. local[t].kind # "setmax" => local[t].kind # "destroy" /\ t \in open
    BY <1>0, <1>2 DEF Swept
  <2>1. CASE local[t].kind \in Sweeps
    <3>0. local[t].target = Wanted(t)
      BY <1>0, <1>2, <2>1 DEF Swept
    <3>1. /\ pc'[t] = "sweep" /\ local'[t].i = local[t].i + 1 /\ local'[t].failed = failed
          /\ local'[t].kind = local[t].kind
      <4>1. /\ pc' = [pc EXCEPT ![t] = "sweep"]
            /\ local' = [local EXCEPT ![t].victim = NULL, ![t].target = NULL,
                                      ![t].i = @ + 1, ![t].failed = failed]
        BY <1>0, <1>5, <2>1 DEF FlushBack, Control, Requests, Sweeps
      <4> QED BY <1>0, <4>1 DEF Locals
    <3>2. \A j \in 1 .. NBlocks : j < local[t].i + 1 => j < local[t].i \/ j = local[t].i
      BY <1>2, Constants
    <3>3. \A j \in 1 .. NBlocks : j < local'[t].i => slot'[<<t, j>>] = NULL
      BY <1>0, <1>2, <1>3, <1>5, <2>1, <3>0, <3>1, <3>2 DEF Swept, Wanted
    <3>4. Swept(t)'
      BY <1>0, <1>1, <1>2, <1>5, <2>0, <2>1, <3>1, <3>3 DEF Swept, Flushing, Sweeps
    <3> QED BY <1>1, <3>4, SweptFrame
  <2>2. CASE local[t].kind \in Requests
    <3>1. \/ local'[t] = Idle /\ pc'[t] = "idle"
          \/ local'[t].kind \in Requests /\ pc'[t] # "idle"
      <4>1. \/ Return(t)
            \/ /\ pc' = [pc EXCEPT ![t] = "evict"]
               /\ local' = [local EXCEPT ![t].victim = NULL, ![t].target = NULL,
                                         ![t].failed = FALSE]
        BY <1>5, <2>2 DEF FlushBack, Requests
      <4> QED BY <1>0, <2>2, <4>1 DEF Return, Locals
    <3>2. Swept(t)'
      BY <1>1, <2>0, <2>2, <3>1 DEF Swept, Idle, Requests, Sweeps
    <3> QED BY <1>1, <3>2, SweptFrame
  <2>3. CASE local[t].kind = "setmax"
    <3>1. local' = [local EXCEPT ![t].victim = NULL, ![t].target = NULL, ![t].failed = FALSE]
      BY <1>5, <2>3 DEF FlushBack
    <3>2. pc' = [pc EXCEPT ![t] = "evict"]
      BY <1>5, <2>3 DEF FlushBack
    <3>3. local'[t].kind = "setmax" /\ pc'[t] = "evict"
      BY <1>0, <2>3, <3>1, <3>2 DEF Locals
    <3> QED BY <1>1, <2>3, <3>3, SweptSetting
  <2> QED BY <1>2, <2>1, <2>2, <2>3 DEF Calls
<1>6. CASE FlushLock(t)
  BY <1>0, <1>4, <1>6 DEF FlushLock, Goto, Flushing
<1>7. CASE FlushTake(t)
  <2>1. slot'[local[t].target] = NULL
    BY <1>0, <1>2, <1>7 DEF FlushTake
  <2>2. CASE slot[local[t].target] = NULL
    BY <1>5, <1>7, <2>1, <2>2 DEF FlushTake
  <2>3. CASE slot[local[t].target] # NULL
    <3>1. /\ pc'[t] = "flushdetach"
          /\ local'[t] = [local[t] EXCEPT !.victim = slot[local[t].target]]
      BY <1>0, <1>7, <2>3 DEF FlushTake
    <3> QED BY <1>0, <1>4, <3>1 DEF Flushing, Locals
  <2> QED BY <2>2, <2>3
<1>8. CASE FlushDetach(t)
  BY <1>0, <1>4, <1>8 DEF FlushDetach, Goto, Flushing
<1>9. CASE \E ok \in BOOLEAN : WriteOut(t, ok)
  <2>1. PICK ok \in BOOLEAN : WriteOut(t, ok)
    BY <1>9
  <2>2. pc'[t] = "delete" /\ local'[t] = [local[t] EXCEPT !.failed = ~ok]
    BY <1>0, <2>1 DEF WriteOut
  <2>3. local[t].kind = "close" => ok
    BY <1>0, <1>2, <2>1 DEF WriteOut, Swept
  <2> QED BY <1>0, <1>4, <2>2, <2>3 DEF Flushing, Locals
<1>10. CASE Delete(t)
  <2>1. slot' = slot /\ FlushBack(t, local[t].failed) /\ pc[t] = "delete"
    BY <1>10 DEF Delete
  <2>2. slot[local[t].target] = NULL
    BY <1>0, <2>1 DEF Control, Place
  <2>3. local[t].failed \in BOOLEAN
    BY <1>0 DEF Locals
  <2> QED BY <1>5, <2>1, <2>2, <2>3
<1> QED BY <1>6, <1>7, <1>8, <1>9, <1>10

\* Every step of the block cache.
LEMMA NextSwept == Orderly /\ Inv /\ SweptInv /\ [Next]_vars => SweptInv'
<1> SUFFICES ASSUME Orderly, Inv, SweptInv, [Next]_vars PROVE SweptInv'
  OBVIOUS
<1>1. CASE UNCHANGED vars
  BY <1>1 DEF vars, shared, SweptInv, Swept, Wanted
<1>2. CASE Next
  <2>1. PICK t \in Threads :
          \/ \E kind \in Requests, i \in 1 .. NBlocks : Request(t, kind, i)
          \/ \E kind \in {"flush", "close"} : Sweep(t, kind)
          \/ \E n \in NewMaxes : SetCacheMax(t, n)
          \/ OpenBand(t)
          \/ Step(t)
    BY <1>2 DEF Next
  <2>2. ASSUME NEW n \in NewMaxes, SetCacheMax(t, n) PROVE SweptInv'
    <3>1. local \in [Threads -> Locals] /\ pc \in [Threads -> Places]
      BY DEF Inv, Typed
    <3>2. /\ pc[t] = "idle" /\ slot' = slot /\ open' = open /\ Others(t)
          /\ pc'[t] = "evict" /\ local'[t].kind = "setmax"
      BY <2>2, <3>1 DEF SetCacheMax, Others, Locals
    <3> QED BY <3>2, SweptSetting
  <2> QED BY <2>1, <2>2, SweptRequests, SweptSweeps, SweptFlushes DEF Step
<1> QED BY <1>1, <1>2

\* Initially nobody sweeps, and all bands are open.
LEMMA InitSwept == Init => SweptInv
BY DEF Init, SweptInv, Swept, Idle
----------------------------------------------------------------------------
\* Every step preserves the invariant, closing a band included: its slots are empty.
LEMMA NextInv == Orderly /\ Inv /\ SweptInv /\ [Next]_vars => Inv'
<1> SUFFICES ASSUME Orderly, Inv, SweptInv, [Next]_vars PROVE Inv'
  OBVIOUS
<1>1. CASE UNCHANGED vars
  BY <1>1, InvKept DEF vars, shared, AllKept
<1>2. CASE Next
  <2>1. PICK t \in Threads :
          \/ \E kind \in Requests, i \in 1 .. NBlocks : Request(t, kind, i)
          \/ \E kind \in {"flush", "close"} : Sweep(t, kind)
          \/ \E n \in NewMaxes : SetCacheMax(t, n)
          \/ OpenBand(t)
          \/ Step(t)
    BY <1>2 DEF Next
  <2>2. CASE \E kind \in Requests, i \in 1 .. NBlocks : Request(t, kind, i)
    BY <2>2, RequestStep
  <2>3. CASE \E kind \in {"flush", "close"} : Sweep(t, kind)
    BY <2>3, SweepStep
  <2>4. CASE \E n \in NewMaxes : SetCacheMax(t, n)
    BY <2>4, SetCacheMaxStep
  <2>5. CASE OpenBand(t)
    BY <2>5, OpenBandStep
  <2>6. CASE Step(t)
    <3>1. CASE FlushCacheReturns(t) \/ DestroyBand(t) \/ BandDestroyed(t)
      BY <3>1, NothingLeft, SweepEnds
    <3>2. CASE \E b \in Blocks : Allocate(t, b)
      BY <3>2, AllocateStep
    <3>3. CASE \E ok \in BOOLEAN : WriteOut(t, ok)
      BY <3>3, WriteOutStep
    <3>4. CASE \/ LockIfCached(t) \/ Fetch(t) \/ AllocateFails(t)
               \/ PickVictim(t) \/ NoVictim(t) \/ EvictionDone(t)
      BY <3>4, LockIfCachedStep, FetchStep, AllocateFailsStep, PickVictimStep, NoVictimStep,
         EvictionDoneStep
    <3>5. CASE \/ Adopt(t) \/ AdoptFails(t) \/ Discard(t) \/ TouchAdopted(t)
               \/ ReadIn(t) \/ ReadInFails(t) \/ UseBlock(t) \/ Release(t)
      BY <3>5, AdoptStep, AdoptFailsStep, DiscardStep, TouchAdoptedStep, ReadInStep, ReadInFailsStep,
         UseBlockStep, ReleaseStep
    <3>6. CASE SweepNext(t) \/ FlushLock(t) \/ FlushTake(t) \/ FlushDetach(t) \/ Delete(t)
      BY <3>6, SweepNextStep, FlushLockStep, FlushTakeStep, FlushDetachStep, DeleteStep
    <3> QED BY <2>6, <3>1, <3>2, <3>3, <3>4, <3>5, <3>6 DEF Step
  <2> QED BY <2>1, <2>2, <2>3, <2>4, <2>5, <2>6
<1> QED BY <1>1, <1>2

\* Under Orderly both invariants hold in every state.
THEOREM CacheInvariance == Orderly => (Spec => []Inv /\ []SweptInv)
<1>1. ASSUME Orderly PROVE Spec => []Inv /\ []SweptInv
  <2>1. Inv /\ SweptInv /\ [Next]_vars => Inv' /\ SweptInv'
    BY <1>1, NextInv, NextSwept
  <2> QED BY <2>1, InitInv, InitSwept, PTL DEF Spec
<1> QED BY <1>1

\* The properties of BlockCache that follow.
LEMMA InvOneBlockPerSlot == Inv => OneBlockPerSlot
BY DEF Inv, OneBlockPerSlot, SlotsAgree, OneBlock

\* A block has one holder at most, which counts in exactly one of the sets that
\* Lockers adds up, or in the first two inside Internalize.
LEMMA InvLocksMatchUsers == Inv => LocksMatchUsers
<1> SUFFICES ASSUME Inv, NEW b \in Live PROVE block[b].locks = Lockers(b)
  BY DEF LocksMatchUsers
<1> DEFINE A == {t \in Threads : Mine(t) = b /\ ~Discarding(t, b)}
           B == {t \in Threads : mutex = t /\ Mine(t) = b}
           C == {t \in Threads : pc[t] = "fetch" /\ slot[Wanted(t)] = b}
           D == {t \in Threads : pc[t] = "flushtake" /\ slot[local[t].target] = b}
           E == {t \in Threads : local[t].victim = b}
<1>1. /\ Lockers(b) = Cardinality(A) + Cardinality(B) + Cardinality(C) + Cardinality(D)
                      + Cardinality(E)
      /\ b \in Blocks
  BY DEF Lockers, Live
<1>2. CASE \A t \in Threads : ~Holds(t, b)
  <2>1. A = {} /\ B = {} /\ C = {} /\ D = {} /\ E = {}
    BY <1>2 DEF Holds
  <2>2. block[b].locks = 0
    BY <1>2 DEF Inv, Locks
  <2>3. Cardinality({}) = 0
    BY FS_EmptySet
  <2> HIDE DEF A, B, C, D, E
  <2>4. Lockers(b) = 0
    BY <1>1, <2>1, <2>3
  <2> QED BY <2>2, <2>4
<1>3. ASSUME NEW t \in Threads, Holds(t, b), pc[t] # "discard"
      PROVE  block[b].locks = Lockers(b)
  <2>1. \A u \in Threads : Holds(u, b) => u = t
    BY <1>1, <1>3 DEF Inv, OneHolder
  <2>2. Control(t) /\ Place(t)
    BY DEF Inv
  <2>7a. pc[t] # "discard"
    BY <1>3
  <2>3. A \subseteq {t} /\ B \subseteq A /\ C \subseteq {t} /\ D \subseteq {t} /\ E \subseteq {t}
    BY <2>1, <2>7a DEF Holds, Discarding
  <2>4. ~(t \in A /\ t \in E)
    BY <1>1, <2>2, Constants DEF Place
  <2>5. ~(t \in A /\ t \in C) /\ ~(t \in E /\ (t \in C \/ t \in D)) /\ ~(t \in C /\ t \in D)
    BY <1>1, <2>2, Constants DEF Control, Flushing, Stored
  <2>6. ~(t \in A /\ t \in D)
    <3> SUFFICES ASSUME t \in A, t \in D PROVE FALSE
      OBVIOUS
    <3>1. mutex = t /\ block[b].at = Wanted(t) /\ slot[Wanted(t)] = NULL
      BY <1>1, <2>2, Constants DEF Control, Place, Flushing
    <3>2. local[t].target \in Slots /\ block[b].at = local[t].target
      BY <1>1, <2>2, Constants DEF Control, Flushing, Inv, SlotsAgree
    <3> QED BY <1>1, <3>1, <3>2, Constants
  <2>7. t \in A \/ t \in C \/ t \in D \/ t \in E
    BY <1>3, <2>7a DEF Holds, Discarding
  <2>8. /\ t \in B => block[b].locks = 2
        /\ t \notin B => block[b].locks = 1
    BY <1>3, <2>7a DEF Inv, Locks
  <2> HIDE DEF A, B, C, D, E
  <2>9. Cardinality({t}) = 1 /\ Cardinality({}) = 0
    BY FS_Singleton, FS_EmptySet
  <2>10. /\ (A = {t} /\ t \in A) \/ (A = {} /\ t \notin A)
         /\ (B = {t} /\ t \in B) \/ (B = {} /\ t \notin B)
         /\ (C = {t} /\ t \in C) \/ (C = {} /\ t \notin C)
         /\ (D = {t} /\ t \in D) \/ (D = {} /\ t \notin D)
         /\ (E = {t} /\ t \in E) \/ (E = {} /\ t \notin E)
    BY <2>3
  <2>11. CASE t \in A
    <3>1. C = {} /\ D = {} /\ E = {} /\ A = {t}
      BY <2>4, <2>5, <2>6, <2>10, <2>11
    <3> QED BY <1>1, <2>8, <2>9, <2>10, <3>1
  <2>12. CASE t \notin A
    <3>1. A = {} /\ B = {} /\ t \notin B
      BY <2>3, <2>10, <2>12
    <3>2. block[b].locks = 1
      BY <2>8, <3>1
    <3>3. \/ C = {t} /\ D = {} /\ E = {}
          \/ C = {} /\ D = {t} /\ E = {}
          \/ C = {} /\ D = {} /\ E = {t}
      BY <2>5, <2>7, <2>10, <2>12
    <3> QED BY <1>1, <2>9, <3>1, <3>2, <3>3
  <2> QED BY <2>11, <2>12
<1>4. ASSUME NEW t \in Threads, Holds(t, b), pc[t] = "discard"
      PROVE  block[b].locks = Lockers(b)
  <2>1. \A u \in Threads : Holds(u, b) => u = t
    BY <1>1, <1>4 DEF Inv, OneHolder
  <2>2. mutex # t /\ local[t].victim # b
    BY <1>1, <1>4, Constants DEF Inv, Control, Flushing
  <2>3. A = {} /\ B = {} /\ C = {} /\ D = {} /\ E = {}
    BY <1>4, <2>1, <2>2 DEF Holds, Discarding
  <2>4. block[b].locks = 0
    BY <1>4, <2>2 DEF Inv, Locks
  <2>5. Cardinality({}) = 0
    BY FS_EmptySet
  <2> HIDE DEF A, B, C, D, E
  <2> QED BY <1>1, <2>3, <2>4, <2>5
<1> QED BY <1>2, <1>3, <1>4

\* No block of a raster is in memory twice, and slots and blocks agree, whatever
\* the threads evict, flush and fail to read.
THEOREM OneBlockPerSlotHolds == Orderly => (Spec => []OneBlockPerSlot)
BY CacheInvariance, InvOneBlockPerSlot, PTL

\* The lock count of a block is the number of its users.
THEOREM LocksMatchUsersHolds == Orderly => (Spec => []LocksMatchUsers)
BY CacheInvariance, InvLocksMatchUsers, PTL

\* Blocks are only freed after a failing AdoptBlock and at the end of FlushBlock.
LEMMA FreedUnlocked ==
  ASSUME Orderly, Inv, [Next]_vars, NEW b \in Live, b \notin Live'
  PROVE  block[b].locks <= 1
<1>1. b \in Blocks /\ block[b].at # NULL /\ block'[b].at = NULL
  BY DEF Live
<1>2. Next
  BY <1>1 DEF vars, shared
<1>3. PICK t \in Threads :
        \/ \E kind \in Requests, i \in 1 .. NBlocks : Request(t, kind, i)
        \/ \E kind \in {"flush", "close"} : Sweep(t, kind)
        \/ \E n \in NewMaxes : SetCacheMax(t, n)
        \/ OpenBand(t)
        \/ Step(t)
  BY <1>2 DEF Next
<1>4. block \in [Blocks -> Cells] /\ slot \in [Slots -> Blocks \cup {NULL}]
  BY DEF Inv, Typed
<1>5. CASE Discard(t)
  <2>1. b = Mine(t)
    BY <1>1, <1>4, <1>5 DEF Discard
  <2>2. mutex # t
    BY <1>5 DEF Discard, Inv, Control, Flushing
  <2> QED BY <1>1, <2>1, <2>2, MineHeld
<1>6. CASE Delete(t)
  <2>1. b = local[t].victim /\ Holds(t, b) /\ Mine(t) # b
    BY <1>1, <1>4, <1>6, Constants DEF Delete, Inv, Place, Holds
  <2> QED BY <1>1, <2>1 DEF Inv, Locks
<1>7. block' # block
  BY <1>1
<1>8. ~LockIfCached(t) /\ ~FlushLock(t)
  BY <1>1, <1>4 DEF LockIfCached, FlushLock, SafeLock, Cells
<1>9. ~EvictionDone(t) /\ ~AdoptFails(t) /\ ~ReadIn(t) /\ ~ReadInFails(t)
  BY <1>1, <1>4, <1>7 DEF EvictionDone, AdoptFails, ReadIn, ReadInFails, Cells
<1>10. ~Release(t) /\ ~FlushDetach(t)
  BY <1>1, <1>4 DEF Release, FlushDetach, Cells
<1>11. ~UseBlock(t)
  <2>1. ASSUME NEW n, block' = [block EXCEPT ![Mine(t)].data = n, ![Mine(t)].dirty = TRUE]
        PROVE  FALSE
    BY <1>1, <1>4, <2>1 DEF Cells
  <2> QED BY <1>7, <2>1 DEF UseBlock
<1>12. ASSUME NEW c \in Blocks, Allocate(t, c) PROVE FALSE
  <2>1. Wanted(t) \in Slots
    BY <1>12, Constants DEF Allocate, Wanted, Inv, Control
  <2>2. block[c] \in Cells
    BY <1>4
  <2> QED BY <1>1, <1>4, <1>12, <2>1, <2>2, Constants DEF Allocate, Free, Cells
<1>13. Step(t)
  BY <1>3, <1>7 DEF Request, Sweep, SetCacheMax, OpenBand, shared
<1> QED BY <1>5, <1>6, <1>7, <1>8, <1>9, <1>10, <1>11, <1>12, <1>13
        DEF Step, Fetch, AllocateFails, PickVictim, NoVictim, Adopt, TouchAdopted, SweepNext,
            FlushCacheReturns, DestroyBand, BandDestroyed, FlushTake, WriteOut, shared

\* The destructor of GDALRasterBlock never finds the lock of another user.
THEOREM DeletedUnlockedHolds == Orderly => (Spec => DeletedUnlocked)
<1>1. ASSUME Orderly PROVE Spec => DeletedUnlocked
  <2>1. Inv /\ [Next]_vars => [\A b \in Live : b \notin Live' => block[b].locks <= 1]_vars
    BY <1>1, FreedUnlocked
  <2>2. Spec => []Inv
    BY <1>1, CacheInvariance
  <2> QED BY <2>1, <2>2, PTL DEF Spec, DeletedUnlocked
<1> QED BY <1>1
----------------------------------------------------------------------------
\* A block in use through GetLockedBlockRef is in the list, from AdoptBlock on
\* and already when TryGetLockedBlockRef has locked it.
Linked(t) ==
  /\ pc[t] \in Stored \cup {"adopt"} => Mine(t) \in Elements(order)
  /\ pc[t] = "fetch" /\ slot[Wanted(t)] # NULL => slot[Wanted(t)] \in Elements(order)

\* A block that is not in the list is locked or about to be flushed, or it found
\* no place in papoBlocks and is about to be deleted.
Listed ==
  \A b \in Live \ Elements(order) :
    \/ block[b].locks > 0
    \/ \E t \in Threads : Discarding(t, b)
    \/ \E t \in Threads : pc[t] = "flushlock" /\ local[t].target = block[b].at

Findable == Listed /\ \A t \in Threads : Linked(t)

\* A step of t that unlinks only blocks, those of X, that no other thread uses.
LEMMA Relinked ==
  ASSUME Inv, Findable, NEW t \in Threads, Others(t), NEW X,
         Elements(order) \subseteq Elements(order') \cup X,
         \A u \in Threads \ {t} : \A c \in X : ~Holds(u, c) \/ pc[u] = "discard",
         \A u \in Threads \ {t} : pc[u] = "fetch" => slot'[Wanted(u)] = slot[Wanted(u)],
         \A b \in Live' \ Elements(order') :
           \/ block'[b].locks > 0
           \/ pc'[t] = "flushlock" /\ local'[t].target = block'[b].at
           \/ /\ b \in Live \ Elements(order)
              /\ block'[b].at = block[b].at /\ ~(block[b].locks > 0)
              /\ ~(pc[t] = "flushlock" /\ local[t].target = block[b].at)
           \/ \E u \in Threads \ {t} : Discarding(u, b),
         pc[t] = "discard" => Mine(t) \notin Live',
         Linked(t)'
  PROVE  Findable'
<1>1. ASSUME NEW u \in Threads \ {t} PROVE Linked(u)'
  <2>1. /\ pc'[u] = pc[u] /\ local'[u] = local[u] /\ Linked(u)
        /\ Mine(u)' = Mine(u) /\ Wanted(u)' = Wanted(u)
    BY DEF Others, Findable, Mine, Wanted
  <2>2. pc[u] \in Stored \cup {"adopt"} => Mine(u) \in Elements(order')
    BY <2>1 DEF Linked, Holds, Stored
  <2>3. pc[u] = "fetch" /\ slot'[Wanted(u)] # NULL => slot'[Wanted(u)] \in Elements(order')
    BY <2>1 DEF Linked, Holds
  <2> QED BY <2>1, <2>2, <2>3 DEF Linked
<1>2. Listed'
  <2> SUFFICES ASSUME NEW b \in Live' \ Elements(order'), ~(block'[b].locks > 0)
               PROVE  \/ \E u \in Threads : Discarding(u, b)'
                      \/ \E u \in Threads :
                           pc'[u] = "flushlock" /\ local'[u].target = block'[b].at
    BY DEF Listed
  <2>0. ASSUME NEW u \in Threads \ {t}, Discarding(u, b) PROVE Discarding(u, b)'
    BY <2>0 DEF Discarding, Others, Mine
  <2>0a. ~Discarding(t, b)
    BY DEF Discarding
  <2>1. CASE pc'[t] = "flushlock" /\ local'[t].target = block'[b].at
    BY <2>1
  <2>2. CASE /\ b \in Live \ Elements(order)
             /\ block'[b].at = block[b].at /\ ~(block[b].locks > 0)
             /\ ~(pc[t] = "flushlock" /\ local[t].target = block[b].at)
    <3>1. PICK u \in Threads : \/ Discarding(u, b)
                              \/ (pc[u] = "flushlock" /\ local[u].target = block[b].at)
      BY <2>2 DEF Findable, Listed
    <3>2. u # t
      BY <2>2, <2>0a, <3>1
    <3>3. pc'[u] = pc[u] /\ local'[u] = local[u]
      BY <3>2 DEF Others
    <3> QED BY <2>0, <2>2, <3>1, <3>2, <3>3
  <2>3. CASE \E u \in Threads \ {t} : Discarding(u, b)
    BY <2>0, <2>3
  <2> QED BY <2>1, <2>2, <2>3
<1> QED BY <1>1, <1>2 DEF Findable

\* The list, papoBlocks and the locks stay as they are.
LEMMA SameLinks ==
  ASSUME Inv, Findable, NEW t \in Threads, Others(t), slot' = slot, order' = order,
         \A b \in Blocks : block'[b].at = block[b].at /\ block'[b].locks = block[b].locks,
         pc[t] \notin {"flushlock", "discard"}, Linked(t)'
  PROVE  Findable'
<1>0. PICK X : X = {}
  OBVIOUS
<1>1. Live' = Live
  BY DEF Live
<1>2. \A b \in Live' \ Elements(order') :
        \/ block'[b].locks > 0
        \/ /\ b \in Live \ Elements(order)
           /\ block'[b].at = block[b].at /\ ~(block[b].locks > 0)
  BY <1>1 DEF Live
<1>3. /\ Elements(order) \subseteq Elements(order') \cup X
      /\ \A u \in Threads \ {t} : \A c \in X : ~Holds(u, c)
      /\ \A u \in Threads \ {t} : pc[u] = "fetch" => slot'[Wanted(u)] = slot[Wanted(u)]
  BY <1>0
<1> QED BY <1>2, <1>3, Relinked

\* Steps that concern neither the list nor papoBlocks.
LEMMA LocalSteps ==
  ASSUME Inv, Findable, NEW t \in Threads,
         \/ \E kind \in Requests, i \in 1 .. NBlocks : Request(t, kind, i)
         \/ \E kind \in {"flush", "close"} : Sweep(t, kind)
         \/ AllocateFails(t) \/ NoVictim(t) \/ SweepNext(t)
         \/ \E ok \in BOOLEAN : WriteOut(t, ok)
  PROVE  Findable'
<1>1. /\ slot' = slot /\ order' = order /\ block' = block /\ Others(t)
      /\ pc[t] \notin {"flushlock", "discard"} /\ pc'[t] \notin Stored \cup {"adopt", "fetch"}
  <2>1. pc \in [Threads -> Places] /\ local \in [Threads -> Locals]
    BY DEF Inv, Typed
  <2> QED BY <2>1 DEF Request, Sweep, AllocateFails, NoVictim, SweepNext, WriteOut, Return, Evicting, SweepOver, shared, Others, Stored
<1>2. Linked(t)'
  BY <1>1 DEF Linked
<1> QED BY <1>1, <1>2, SameLinks

\* Steps on the data of a block that is in use.
LEMMA DataSteps ==
  ASSUME Inv, Findable, NEW t \in Threads, Fetch(t) \/ ReadIn(t) \/ UseBlock(t)
  PROVE  Findable'
<1>1. /\ pc \in [Threads -> Places] /\ local \in [Threads -> Locals]
      /\ block \in [Blocks -> Cells] /\ Linked(t)
  BY DEF Inv, Typed, Findable
<1>2. CASE Fetch(t)
  <2>1. /\ slot' = slot /\ order' = order /\ block' = block /\ Others(t) /\ pc[t] = "fetch"
        /\ pc'[t] \in {"new", "locked"} /\ local'[t].mine = slot[Wanted(t)]
        /\ pc'[t] = "locked" => slot[Wanted(t)] # NULL
    BY <1>1, <1>2 DEF Fetch, shared, Others, Locals
  <2>2. Linked(t)'
    BY <1>1, <2>1 DEF Linked, Mine, Stored
  <2> QED BY <2>1, <2>2, SameLinks
<1>3. CASE ReadIn(t) \/ UseBlock(t)
  <2>1. /\ slot' = slot /\ order' = order /\ Others(t) /\ pc[t] \in Stored /\ pc'[t] \in Stored
        /\ local'[t].mine = local[t].mine
    <3>1. /\ slot' = slot /\ order' = order /\ pc[t] \in Stored /\ Others(t)
          /\ pc' = [pc EXCEPT ![t] = "locked"] \/ pc' = [pc EXCEPT ![t] = "used"]
      BY <1>1, <1>3 DEF ReadIn, UseBlock, Goto, Others, Stored
    <3>2. local' = local \/ \E v : local' = [local EXCEPT ![t].got = v]
      BY <1>3 DEF ReadIn, UseBlock, Goto
    <3>3. local'[t].mine = local[t].mine
      BY <1>1, <3>2 DEF Locals
    <3>4. pc'[t] \in Stored
      BY <1>1, <3>1 DEF Stored
    <3> QED BY <3>1, <3>3, <3>4
  <2>2. \A b \in Blocks : block'[b].at = block[b].at /\ block'[b].locks = block[b].locks
    <3>1. CASE ReadIn(t)
      BY <1>1, <3>1 DEF ReadIn, Cells
    <3>2. ASSUME NEW n, block' = [block EXCEPT ![Mine(t)].data = n, ![Mine(t)].dirty = TRUE]
          PROVE  \A b \in Blocks : block'[b].at = block[b].at /\ block'[b].locks = block[b].locks
      BY <1>1, <3>2 DEF Cells
    <3> QED BY <1>3, <3>1, <3>2 DEF UseBlock
  <2>3. Linked(t)'
    BY <1>1, <2>1 DEF Linked, Mine, Stored
  <2> QED BY <2>1, <2>2, <2>3, SameLinks DEF Stored
<1> QED BY <1>2, <1>3

\* A lock is dropped on a block that is in the list.
LEMMA DropSteps ==
  ASSUME Inv, Findable, NEW t \in Threads,
         Release(t) \/ ReadInFails(t) \/ AdoptFails(t)
  PROVE  Findable'
<1>0. PICK X : X = {}
  OBVIOUS
<1>1. /\ pc \in [Threads -> Places] /\ local \in [Threads -> Locals]
      /\ block \in [Blocks -> Cells] /\ Linked(t)
  BY DEF Inv, Typed, Findable
<1>2. /\ slot' = slot /\ order' = order /\ Others(t) /\ pc[t] \in Stored \cup {"adopt"}
      /\ pc'[t] \in {"idle", "flushlock", "discard"} /\ pc[t] \notin {"flushlock", "discard"}
      /\ block' = [block EXCEPT ![Mine(t)].locks = @ - 1]
  BY <1>1 DEF Release, ReadInFails, AdoptFails, Goto, Return, Others, Stored
<1>3. Linked(t)'
  BY <1>2 DEF Linked, Stored
<1>4. Mine(t) \in Elements(order)
  BY <1>1, <1>2 DEF Linked
<1>5. \A b \in Blocks : /\ block'[b].at = block[b].at
                        /\ b # Mine(t) => block'[b] = block[b]
  BY <1>1, <1>2 DEF Cells
<1>6. \A b \in Live' \ Elements(order') :
        \/ block'[b].locks > 0
        \/ /\ b \in Live \ Elements(order)
           /\ block'[b].at = block[b].at /\ ~(block[b].locks > 0)
           /\ ~(pc[t] = "flushlock" /\ local[t].target = block[b].at)
  BY <1>2, <1>4, <1>5 DEF Live
<1>7. /\ Elements(order) \subseteq Elements(order') \cup X
      /\ \A u \in Threads \ {t} : \A c \in X : ~Holds(u, c)
      /\ \A u \in Threads \ {t} : pc[u] = "fetch" => slot'[Wanted(u)] = slot[Wanted(u)]
  BY <1>0, <1>2
<1> QED BY <1>2, <1>3, <1>6, <1>7, Relinked

\* A block without locks is in papoBlocks, or found no place there.
LEMMA FreeStored ==
  ASSUME Inv, NEW c \in Live, ~(block[c].locks > 0)
  PROVE  \/ slot[block[c].at] = c
         \/ slot[block[c].at] = NULL /\ \E u \in Threads : Discarding(u, c)
<1>1. CASE \A u \in Threads : ~Holds(u, c)
  BY <1>1 DEF Inv, UnheldStored
<1>2. ASSUME NEW u \in Threads, Holds(u, c)
      PROVE  slot[block[c].at] = NULL /\ Discarding(u, c)
  <2>1. pc[u] = "discard"
    BY <1>2 DEF Inv, Locks
  <2>2. Mine(u) = c
    BY <1>2, <2>1, Constants DEF Holds, Inv, Control, Flushing, Live
  <2>3. block[c].at = Wanted(u) /\ slot[Wanted(u)] = NULL
    BY <2>1, <2>2, Constants DEF Inv, Place, Live
  <2> QED BY <2>1, <2>2, <2>3 DEF Discarding
<1> QED BY <1>1, <1>2

\* The types these lemmas use.
LEMMA OrderTyped ==
  Inv => /\ order \in Seq(Blocks) /\ NoDuplicates(order)
         /\ pc \in [Threads -> Places] /\ local \in [Threads -> Locals]
         /\ block \in [Blocks -> Cells] /\ slot \in [Slots -> Blocks \cup {NULL}]
BY DEF Inv, Typed

\* Steps that put a block b at the front of the list.
LEMMA MovedToFront ==
  ASSUME Inv, Findable, NEW t \in Threads, Others(t), NEW b \in Blocks, slot' = slot,
         order' = MoveToFront(order, b),
         \A c \in Blocks \ {b} : block'[c].at = block[c].at /\ block'[c].locks = block[c].locks,
         pc[t] = "flushlock" => b = slot[local[t].target], pc[t] # "discard",
         b \in Elements(order') => Linked(t)'
  PROVE  Findable'
<1>0. PICK X : X = {}
  OBVIOUS
<1>1. Elements(order') = Elements(order) \cup {b}
  BY OrderTyped, MoveToFrontProperties
<1>2. Linked(t)'
  BY <1>1
<1>3. \A c \in Live' \ Elements(order') :
        \/ block'[c].locks > 0
        \/ /\ c \in Live \ Elements(order)
           /\ block'[c].at = block[c].at /\ ~(block[c].locks > 0)
           /\ ~(pc[t] = "flushlock" /\ local[t].target = block[c].at)
  BY <1>1, FreeStored, Constants DEF Live
<1>4. /\ Elements(order) \subseteq Elements(order') \cup X
      /\ \A u \in Threads \ {t} : \A c \in X : ~Holds(u, c)
      /\ \A u \in Threads \ {t} : pc[u] = "fetch" => slot'[Wanted(u)] = slot[Wanted(u)]
  BY <1>0, <1>1
<1> QED BY <1>2, <1>3, <1>4, Relinked

\* SafeLockBlock, which puts the block it locks at the front of the list.
LEMMA LockSteps ==
  ASSUME Inv, Findable, NEW t \in Threads, LockIfCached(t) \/ FlushLock(t)
  PROVE  Findable'
<1>1. PICK s : s = IF pc[t] = "lookup" THEN Wanted(t) ELSE local[t].target
  OBVIOUS
<1>2. /\ s \in Slots /\ slot' = slot /\ local' = local /\ Others(t) /\ SafeLock(s)
      /\ \/ pc[t] = "lookup" /\ s = Wanted(t) /\ pc'[t] = "fetch"
         \/ pc[t] = "flushlock" /\ s = local[t].target /\ pc'[t] = "flushtake"
  <2>1. pc[t] = "lookup" => Wanted(t) \in Slots
    BY Constants DEF Inv, Control, Wanted
  <2>2. pc[t] = "flushlock" => local[t].target \in Slots
    BY DEF Inv, Control, Flushing
  <2> QED BY <1>1, <2>1, <2>2, OrderTyped DEF LockIfCached, FlushLock, Goto, Others
<1>3. slot[s] \in Blocks \cup {NULL}
  BY <1>2, OrderTyped
<1>4. Wanted(t)' = Wanted(t)
  BY <1>2 DEF Wanted
<1>5. CASE slot[s] = NULL
  <2>0. PICK X : X = {}
    OBVIOUS
  <2>1. block' = block /\ order' = order
    BY <1>2, <1>5 DEF SafeLock
  <2>2. Linked(t)'
    BY <1>2, <1>4, <1>5 DEF Linked, Stored
  <2>3. \A c \in Live' \ Elements(order') :
          \/ block'[c].locks > 0
          \/ /\ c \in Live \ Elements(order)
             /\ block'[c].at = block[c].at /\ ~(block[c].locks > 0)
             /\ ~(pc[t] = "flushlock" /\ local[t].target = block[c].at)
          \/ \E u \in Threads \ {t} : Discarding(u, c)
    <3> SUFFICES ASSUME NEW c \in Live \ Elements(order), ~(block[c].locks > 0),
                        pc[t] = "flushlock", local[t].target = block[c].at
                 PROVE  \E u \in Threads \ {t} : Discarding(u, c)
      BY <2>1 DEF Live
    <3>1. slot[block[c].at] = NULL
      BY <1>2, <1>5
    <3>2. c # NULL
      BY Constants DEF Live
    <3>3. PICK u \in Threads : Discarding(u, c)
      BY <3>1, <3>2, FreeStored
    <3>4. u # t
      BY <3>3 DEF Discarding
    <3> QED BY <3>3, <3>4
  <2>4. /\ Elements(order) \subseteq Elements(order') \cup X
        /\ \A u \in Threads \ {t} : \A c \in X : ~Holds(u, c)
        /\ \A u \in Threads \ {t} : pc[u] = "fetch" => slot'[Wanted(u)] = slot[Wanted(u)]
    BY <1>2, <2>0, <2>1
  <2> QED BY <1>2, <2>2, <2>3, <2>4, Relinked
<1>6. CASE slot[s] # NULL
  <2>1. PICK b \in Blocks : b = slot[s]
    BY <1>3, <1>6
  <2>2. block' = [block EXCEPT ![b].locks = @ + 1] /\ order' = MoveToFront(order, b)
    BY <1>2, <1>6, <2>1 DEF SafeLock
  <2>3. \A c \in Blocks \ {b} : block'[c].at = block[c].at /\ block'[c].locks = block[c].locks
    BY <2>2, OrderTyped
  <2>4. b \in Elements(order') => Linked(t)'
    BY <1>2, <1>4, <2>1 DEF Linked, Stored
  <2>5. pc[t] = "flushlock" => b = slot[local[t].target]
    BY <1>2, <2>1
  <2> QED BY <1>2, <2>2, <2>3, <2>4, <2>5, MovedToFront
<1> QED BY <1>5, <1>6

\* The two Touch calls of GetLockedBlockRef.
LEMMA TouchSteps ==
  ASSUME Inv, Findable, NEW t \in Threads, EvictionDone(t) \/ TouchAdopted(t),
         pc[t] = "evict" => local[t].kind # "setmax"
  PROVE  Findable'
<1>1. pc[t] \in {"evict", "touch"} /\ Mine(t) \in Blocks
  BY OrderTyped, Constants
     DEF EvictionDone, TouchAdopted, Inv, Control, Stored, Mine, Locals, Requests
<1>2. PICK b \in Blocks : b = Mine(t)
  BY <1>1
<1>3. /\ slot' = slot /\ Others(t) /\ order' = MoveToFront(order, b) /\ Mine(t)' = b
  BY <1>1, <1>2, OrderTyped DEF EvictionDone, TouchAdopted, Goto, Others, Mine, Locals
<1>4. pc'[t] \in {"adopt", "locked", "reading"}
  BY <1>1, OrderTyped DEF EvictionDone, TouchAdopted, Goto
<1>5. \A c \in Blocks \ {b} : block'[c].at = block[c].at /\ block'[c].locks = block[c].locks
  BY <1>1, <1>2, OrderTyped DEF EvictionDone, TouchAdopted
<1>6. b \in Elements(order') => Linked(t)'
  BY <1>3, <1>4 DEF Linked
<1> QED BY <1>1, <1>3, <1>5, <1>6, MovedToFront

\* GDALSetCacheMax enters its loop or returns from it.
LEMMA SettingLinks ==
  ASSUME Inv, Findable, NEW t \in Threads,
         \/ \E n \in NewMaxes : SetCacheMax(t, n)
         \/ EvictionDone(t) /\ local[t].kind = "setmax"
  PROVE  Findable'
<1>1. /\ slot' = slot /\ order' = order /\ block' = block /\ Others(t)
      /\ pc[t] \notin {"flushlock", "discard"} /\ pc'[t] \in {"evict", "idle"}
  BY OrderTyped DEF SetCacheMax, EvictionDone, Return, Others
<1>2. Linked(t)'
  BY <1>1 DEF Linked, Stored
<1> QED BY <1>1, <1>2, SameLinks

\* Steps after which t is in no place that Linked speaks of.
LEMMA UnlinkSteps ==
  ASSUME Inv, Findable, NEW t \in Threads, NEW b \in Blocks, Others(t),
         slot' = slot, order' = Without(order, b),
         \A u \in Threads \ {t} : ~Holds(u, b) \/ pc[u] = "discard",
         \A c \in Blocks \ {b} : block'[c] = block[c],
         pc[t] = "discard" => Mine(t) \notin Live',
         \/ b \notin Live'
         \/ block'[b].locks > 0
         \/ pc'[t] = "flushlock" /\ local'[t].target = block'[b].at,
         pc[t] # "flushlock", pc'[t] \notin Stored \cup {"adopt", "fetch"}
  PROVE  Findable'
<1>0. PICK X : X = {b}
  OBVIOUS
<1>1. Elements(order') = Elements(order) \ {b}
  BY OrderTyped, WithoutProperties
<1>2. \A c \in Live' \ Elements(order') :
        \/ block'[c].locks > 0
        \/ pc'[t] = "flushlock" /\ local'[t].target = block'[c].at
        \/ /\ c \in Live \ Elements(order)
           /\ block'[c].at = block[c].at /\ ~(block[c].locks > 0)
           /\ ~(pc[t] = "flushlock" /\ local[t].target = block[c].at)
  BY <1>1 DEF Live
<1>3. Linked(t)'
  BY DEF Linked
<1>4. /\ Elements(order) \subseteq Elements(order') \cup X
      /\ \A u \in Threads \ {t} : \A c \in X : ~Holds(u, c) \/ pc[u] = "discard"
      /\ \A u \in Threads \ {t} : pc[u] = "fetch" => slot'[Wanted(u)] = slot[Wanted(u)]
  BY <1>0, <1>1
<1> QED BY <1>2, <1>3, <1>4, Relinked

\* The victim leaves the list and is the target of the FlushBlock that starts.
LEMMA PickVictimLinks ==
  ASSUME Inv, Findable, NEW t \in Threads, PickVictim(t)
  PROVE  Findable'
<1>1. PICK b \in Elements(order) : b = OldestIn(order, Unlocked) /\ block[b].locks = 0
  <2>1. Elements(order) \cap Unlocked # {}
    BY DEF PickVictim, Unlocked
  <2>2. OldestIn(order, Unlocked) \in Elements(order) \cap Unlocked
    BY <2>1, OrderTyped, OldestInProperties
  <2> QED BY <2>2 DEF Unlocked
<1>2. b \in Live /\ b \in Blocks /\ \A u \in Threads : ~Holds(u, b) \/ pc[u] = "discard"
  BY <1>1 DEF Inv, Locks, Live
<1>3. /\ order' = Without(order, b) /\ slot' = slot /\ block' = block /\ Others(t)
      /\ pc[t] = "evict" /\ pc'[t] = "flushlock" /\ local'[t].target = block'[b].at
  <2>1. local' = [local EXCEPT ![t].oldUsed = used, ![t].target = block[b].at]
    BY <1>1 DEF PickVictim
  <2>2. local'[t].target = block[b].at
    BY <2>1, OrderTyped DEF Locals
  <2> QED BY <1>1, <2>1, <2>2, OrderTyped DEF PickVictim, Evicting, Others
<1> QED BY <1>2, <1>3, UnlinkSteps DEF Stored

\* The block a failing AdoptBlock takes out of the list is deleted.
LEMMA DiscardLinks ==
  ASSUME Inv, Findable, NEW t \in Threads, Discard(t)
  PROVE  Findable'
<1>1. pc[t] = "discard" /\ mutex # t /\ Mine(t) \in Blocks
  <2>1. pc[t] = "discard" /\ mutex # t /\ Mine(t) # NULL
    BY DEF Discard, Inv, Control, Flushing
  <2> QED BY <2>1, LocalIs DEF Mine, Locals
<1>2. PICK b \in Blocks : b = Mine(t)
  BY <1>1
<1>3. \A u \in Threads \ {t} : ~Holds(u, b)
  BY <1>1, <1>2, MineHeld
<1>4. /\ order' = Without(order, b) /\ slot' = slot /\ Others(t) /\ pc'[t] = "idle"
      /\ block' = [block EXCEPT ![b] = Free]
  BY <1>2, OrderTyped DEF Discard, Return, Others
<1>5. b \notin Live' /\ \A c \in Blocks \ {b} : block'[c] = block[c]
  BY <1>4, FreeIsCell, OrderTyped DEF Live
<1> QED BY <1>1, <1>2, <1>3, <1>4, <1>5, UnlinkSteps DEF Stored

\* FlushBlock takes out of the list a block that only it has locked.
LEMMA VictimLinks ==
  ASSUME Inv, Findable, NEW t \in Threads, FlushDetach(t) \/ Delete(t)
  PROVE  Findable'
<1>1. /\ pc[t] \in {"flushdetach", "delete"} /\ local[t].victim \in Blocks
      /\ local[t].failed \in BOOLEAN
  BY OrderTyped, Constants DEF FlushDetach, Delete, Inv, Control, Locals
<1>2. PICK b \in Blocks : b = local[t].victim
  BY <1>1
<1>3. Holds(t, b) /\ b \in Live /\ \A u \in Threads \ {t} : ~Holds(u, b)
  BY <1>2, HeldLive DEF Holds, Inv, OneHolder
<1>4. block[b].locks > 0
  BY <1>1, <1>3 DEF Inv, Locks
<1>5. CASE FlushDetach(t)
  <2>1. /\ order' = Without(order, b) /\ slot' = slot /\ Others(t)
        /\ pc'[t] \in {"writing", "delete"}
        /\ block' = [block EXCEPT ![b].dirty = FALSE]
    BY <1>2, <1>5, OrderTyped DEF FlushDetach, Goto, Others
  <2>2. block'[b].locks > 0 /\ \A c \in Blocks \ {b} : block'[c] = block[c]
    BY <1>4, <2>1, OrderTyped DEF Cells
  <2> QED BY <1>1, <1>3, <2>1, <2>2, UnlinkSteps DEF Stored
<1>6. CASE Delete(t)
  <2>1. /\ order' = Without(order, b) /\ slot' = slot /\ mutex' = mutex
        /\ FlushBack(t, local[t].failed) /\ block' = [block EXCEPT ![b] = Free]
    BY <1>2, <1>6 DEF Delete
  <2>2. Others(t) /\ pc'[t] \in {"evict", "sweep", "idle"}
    BY <1>1, <2>1, FlushBackStep DEF Flushing
  <2>3. b \notin Live' /\ \A c \in Blocks \ {b} : block'[c] = block[c]
    BY <2>1, FreeIsCell, OrderTyped DEF Live
  <2> QED BY <1>1, <1>3, <2>1, <2>2, <2>3, UnlinkSteps DEF Stored
<1> QED BY <1>5, <1>6

\* A new block is not in the list, but has two locks.
LEMMA AllocateLinks ==
  ASSUME Inv, Findable, NEW t \in Threads, NEW b \in Blocks, Allocate(t, b)
  PROVE  Findable'
<1>0. PICK X : X = {}
  OBVIOUS
<1>1. /\ slot' = slot /\ order' = order /\ Others(t) /\ pc[t] = "new" /\ pc'[t] = "evict"
      /\ block' = [block EXCEPT ![b] = [Free EXCEPT !.at = Wanted(t), !.locks = 2]]
  BY OrderTyped DEF Allocate, Others
<1>2. block'[b].locks = 2 /\ \A c \in Blocks \ {b} : block'[c] = block[c]
  BY <1>1, OrderTyped DEF Free
<1>3. Linked(t)'
  BY <1>1 DEF Linked, Stored
<1>4. \A c \in Live' \ Elements(order') :
        \/ block'[c].locks > 0
        \/ /\ c \in Live \ Elements(order)
           /\ block'[c].at = block[c].at /\ ~(block[c].locks > 0)
           /\ ~(pc[t] = "flushlock" /\ local[t].target = block[c].at)
  BY <1>1, <1>2 DEF Live
<1>5. /\ Elements(order) \subseteq Elements(order') \cup X
      /\ \A u \in Threads \ {t} : \A c \in X : ~Holds(u, c)
      /\ \A u \in Threads \ {t} : pc[u] = "fetch" => slot'[Wanted(u)] = slot[Wanted(u)]
  BY <1>0, <1>1
<1> QED BY <1>1, <1>3, <1>4, <1>5, Relinked

\* Steps that change papoBlocks.
LEMMA SlotLinks ==
  ASSUME Inv, Findable, NEW t \in Threads, Adopt(t) \/ FlushTake(t)
  PROVE  Findable'
<1>0. PICK X : X = {}
  OBVIOUS
<1>1. /\ block' = block /\ order' = order /\ mutex' = mutex /\ pc[t] \in {"adopt", "flushtake"}
  BY DEF Adopt, FlushTake
<1>2. Others(t) /\ Linked(t)'
  <2>1. CASE Adopt(t)
    <3>1. Mine(t) \in Elements(order) /\ Mine(t)' = Mine(t) /\ pc'[t] = "touch" /\ Others(t)
      BY <2>1, OrderTyped DEF Adopt, Goto, Findable, Linked, Others, Mine
    <3> QED BY <1>1, <3>1 DEF Linked
  <2>2. CASE FlushTake(t)
    <3>1. CASE FlushBack(t, FALSE)
      <4>1. Others(t) /\ pc'[t] \in {"evict", "sweep", "idle"}
        BY <1>1, <2>2, <3>1, FlushBackStep DEF FlushTake, Flushing
      <4> QED BY <4>1 DEF Linked, Stored
    <3>2. CASE ~FlushBack(t, FALSE)
      <4>1. Others(t) /\ pc'[t] = "flushdetach"
        BY <2>2, <3>2, OrderTyped DEF FlushTake, Others
      <4> QED BY <4>1 DEF Linked, Stored
    <3> QED BY <3>1, <3>2
  <2> QED BY <2>1, <2>2
<1>3. ASSUME NEW u \in Threads \ {t}, pc[u] = "fetch" PROVE slot'[Wanted(u)] = slot[Wanted(u)]
  <2>1. Wanted(u) \in Slots
    BY <1>3, Constants DEF Inv, Control, Wanted
  <2>2. CASE Adopt(t)
    BY <2>1, <2>2, OrderTyped DEF Adopt, Wanted
  <2>3. CASE FlushTake(t)
    <3>1. slot' = [slot EXCEPT ![local[t].target] = NULL]
      BY <2>3 DEF FlushTake
    <3>2. CASE Wanted(u) # local[t].target
      BY <2>1, <3>1, <3>2, OrderTyped
    <3>3. CASE Wanted(u) = local[t].target
      <4>1. slot[Wanted(u)] = NULL
        <5> SUFFICES ASSUME slot[Wanted(u)] # NULL PROVE FALSE
          OBVIOUS
        <5>1. PICK b \in Blocks : b = slot[Wanted(u)]
          BY <2>1, OrderTyped
        <5>2. Holds(u, b) /\ Holds(t, b)
          BY <1>3, <2>3, <3>3, <5>1 DEF Holds, FlushTake
        <5> QED BY <5>2 DEF Inv, OneHolder
      <4> QED BY <2>1, <3>1, <3>3, <4>1, OrderTyped
    <3> QED BY <3>2, <3>3
  <2> QED BY <2>2, <2>3
<1>4. \A c \in Live' \ Elements(order') :
        \/ block'[c].locks > 0
        \/ /\ c \in Live \ Elements(order)
           /\ block'[c].at = block[c].at /\ ~(block[c].locks > 0)
           /\ ~(pc[t] = "flushlock" /\ local[t].target = block[c].at)
  BY <1>1 DEF Live
<1>5. /\ Elements(order) \subseteq Elements(order') \cup X
      /\ \A u \in Threads \ {t} : \A c \in X : ~Holds(u, c)
  BY <1>0, <1>1
<1> QED BY <1>1, <1>2, <1>3, <1>4, <1>5, Relinked

\* Every step keeps the list complete.
LEMMA NextFindable == Orderly /\ Inv /\ SweptInv /\ Findable /\ [Next]_vars => Findable'
<1> SUFFICES ASSUME Orderly, Inv, SweptInv, Findable, [Next]_vars PROVE Findable'
  OBVIOUS
<1>1. CASE UNCHANGED vars
  BY <1>1 DEF vars, shared, Findable, Listed, Linked, Discarding, Live, Mine, Wanted
<1>2. CASE Next
  <2>1. PICK t \in Threads :
          \/ \E kind \in Requests, i \in 1 .. NBlocks : Request(t, kind, i)
          \/ \E kind \in {"flush", "close"} : Sweep(t, kind)
          \/ \E n \in NewMaxes : SetCacheMax(t, n)
          \/ OpenBand(t)
          \/ Step(t)
    BY <1>2 DEF Next
  <2>2. CASE \/ \E kind \in Requests, i \in 1 .. NBlocks : Request(t, kind, i)
             \/ \E kind \in {"flush", "close"} : Sweep(t, kind)
    BY <2>2, LocalSteps
  <2>3. CASE \E n \in NewMaxes : SetCacheMax(t, n)
    BY <2>3, SettingLinks
  <2>4. CASE OpenBand(t)
    BY <2>4 DEF OpenBand, Findable, Listed, Linked, Discarding, Live, Mine, Wanted
  <2>5. CASE Step(t)
    <3>1. CASE FlushCacheReturns(t) \/ DestroyBand(t) \/ BandDestroyed(t)
      <4>1. /\ Others(t) /\ pc[t] = "sweep" /\ pc'[t] \in {"idle", "sweep"}
            /\ UNCHANGED <<slot, order, block>>
        BY <3>1, NothingLeft, SweepEnds
      <4>2. Linked(t)'
        BY <4>1 DEF Linked, Stored
      <4> QED BY <4>1, <4>2, SameLinks
    <3>2. CASE \E b \in Blocks : Allocate(t, b)
      BY <3>2, AllocateLinks
    <3>3. CASE \/ AllocateFails(t) \/ NoVictim(t) \/ SweepNext(t)
               \/ \E ok \in BOOLEAN : WriteOut(t, ok)
      BY <3>3, LocalSteps
    <3>4. CASE LockIfCached(t) \/ FlushLock(t)
      BY <3>4, LockSteps
    <3>5. CASE EvictionDone(t) \/ TouchAdopted(t)
      BY <3>5, TouchSteps, SettingLinks DEF TouchAdopted
    <3>6. CASE Fetch(t) \/ ReadIn(t) \/ UseBlock(t)
      BY <3>6, DataSteps
    <3>7. CASE ReadInFails(t) \/ AdoptFails(t) \/ Release(t)
      BY <3>7, DropSteps
    <3>8. CASE Adopt(t) \/ FlushTake(t)
      BY <3>8, SlotLinks
    <3>9. CASE PickVictim(t) \/ Discard(t) \/ FlushDetach(t) \/ Delete(t)
      BY <3>9, PickVictimLinks, DiscardLinks, VictimLinks
    <3> QED BY <2>5, <3>1, <3>2, <3>3, <3>4, <3>5, <3>6, <3>7, <3>8, <3>9 DEF Step
  <2> QED BY <2>1, <2>2, <2>3, <2>4, <2>5
<1> QED BY <1>1, <1>2

\* Initially there is no block to be found.
LEMMA InitFindable == Init => Findable
<1> SUFFICES ASSUME Init PROVE Findable
  OBVIOUS
<1>1. Live = {}
  BY FreeIsCell DEF Init, Live
<1> QED BY <1>1 DEF Init, Findable, Listed, Linked, Stored

\* No interleaving leaves a block that nobody uses outside of papoBlocks or out of
\* reach of the evictions.
THEOREM UnlockedIsEvictableHolds == Orderly => (Spec => []UnlockedIsEvictable)
<1>1. ASSUME Orderly PROVE Spec => []UnlockedIsEvictable
  <2>1. Inv /\ Findable => UnlockedIsEvictable
    <3> SUFFICES ASSUME Inv, Findable PROVE UnlockedIsEvictable
      OBVIOUS
    <3>1. \A b \in Live : block[b].locks = 0 =>
            slot[block[b].at] = b \/ \E u \in Threads : Discarding(u, b)
      BY FreeStored
    <3>2. NoDuplicates(order) /\ Elements(order) \subseteq Live
      BY DEF Inv, Typed
    <3> QED BY <3>1, <3>2 DEF UnlockedIsEvictable, Findable, Listed
  <2>2. Inv /\ SweptInv /\ Findable /\ [Next]_vars => Findable'
    BY <1>1, NextFindable
  <2>3. Spec => []Inv /\ []SweptInv
    BY <1>1, CacheInvariance
  <2> QED BY <2>1, <2>2, <2>3, InitFindable, PTL DEF Spec
<1> QED BY <1>1
----------------------------------------------------------------------------
\* The bytes of each block in memory: nCacheUsed is their sum.
Sizes == [b \in Live |-> SizeOf(b)]

\* t is in the loop of GDALSetCacheMax.
Setting(t) == pc[t] # "idle" /\ local[t].kind = "setmax"

\* Inside Internalize and GDALSetCacheMax: the limit that was read is the current
\* one, nobody else changes nCacheUsed, and a round of the loop that could evict
\* nothing has found only blocks in use, at most one per thread, or a block that
\* found no place in papoBlocks.
Inside(t) ==
  /\ mutex = t => local[t].limit = cacheMax
  /\ mutex = t \/ Setting(t) =>
       /\ pc[t] \in Flushing => used = local[t].oldUsed
       /\ pc[t] = "evict" /\ used = local[t].oldUsed => GridFails \/ used <= OneBlockEach

Bounded ==
  /\ UsedIsAllocated
  /\ ~maxRead => Live = {}
  /\ mutex = NULL /\ (\A t \in Threads : ~Setting(t))
       => GridFails \/ used <= cacheMax \/ used <= OneBlockEach
  /\ \A t \in Threads : Inside(t)

\* Who sets the limit is alone, and holds nothing between two rounds.
SettersAlone ==
  \A t \in Threads : Setting(t) => /\ Alone(t) /\ mutex = NULL /\ Mine(t) = NULL
                                  /\ pc[t] \in Flushing \cup {"evict"}

\* So the invariant says, before a step and after it.
LEMMA SettingAlone == Inv => SettersAlone
<1> SUFFICES ASSUME Inv, NEW t \in Threads, Setting(t)
             PROVE  /\ Alone(t) /\ mutex = NULL /\ Mine(t) = NULL
                    /\ pc[t] \in Flushing \cup {"evict"}
  BY DEF SettersAlone
<1>1. Control(t) /\ mutex \in Threads \cup {NULL}
  BY DEF Inv, Typed
<1>2. Alone(t) /\ Mine(t) = NULL /\ pc[t] \in Flushing \cup {"evict"} /\ mutex # t
  BY <1>1 DEF Control, Setting
<1> QED BY <1>1, <1>2 DEF Alone

LEMMA SettingAloneNext == ASSUME Inv' PROVE SettersAlone'
<1>1. Inv' => SettersAlone'
  BY SettingAlone, PTL
<1> QED BY <1>1

\* A step of another call than GDALSetCacheMax is taken while nobody sets the limit.
LEMMA NobodySets ==
  ASSUME Inv, NEW t \in Threads, ~Setting(t)
  PROVE  /\ \A u \in Threads : ~Setting(u)
         /\ Others(t) /\ ~Setting(t)' => \A u \in Threads : ~Setting(u)'
<1>1. ASSUME NEW u \in Threads PROVE ~Setting(u)
  <2>1. Setting(u) => t = u
    BY SettingAlone DEF SettersAlone, Alone
  <2> QED BY <2>1
<1>2. ASSUME NEW u \in Threads, Others(t), ~Setting(t)' PROVE ~Setting(u)'
  <2>1. CASE u = t
    BY <1>2, <2>1
  <2>2. CASE u # t
    BY <1>1, <1>2, <2>2 DEF Others, Setting
  <2> QED BY <2>1, <2>2
<1> QED BY <1>1, <1>2

\* A block in memory is one of finitely many and belongs to a band.
SizesTyped ==
  /\ IsFiniteSet(Live) /\ DOMAIN Sizes = Live
  /\ \A b \in Live : /\ block[b].at \in Slots /\ block[b].at[1] \in Threads
                     /\ SizeOf(b) = BlockSize[block[b].at[1]]
                     /\ Sizes[b] = SizeOf(b) /\ SizeOf(b) \in Nat \ {0}

\* So the invariant says.
LEMMA InvSizesTyped == Inv => SizesTyped
<1> SUFFICES ASSUME Inv PROVE SizesTyped
  OBVIOUS
<1>1. IsFiniteSet(Live)
  BY FS_Subset, CacheAssumption DEF Live
<1>2. ASSUME NEW b \in Live PROVE block[b].at \in Slots
  BY DEF Live, Inv, Typed, Cells
<1>3. \A b \in Live : block[b].at[1] \in Threads
  BY <1>2, Constants
<1> QED BY <1>1, <1>2, <1>3, Constants DEF Sizes, SizeOf, SizesTyped

\* The sum only depends on which blocks are in memory, and for whom.
LEMMA SizesKept ==
  ASSUME Inv, Inv', UsedIsAllocated, used' = used,
         \A b \in Blocks : block'[b].at = block[b].at
  PROVE  UsedIsAllocated' /\ Live' = Live
<1>1. Live' = Live
  BY DEF Live
<1>2. Sizes' = Sizes
  <2>1. \A b \in Live : SizeOf(b)' = SizeOf(b)
    BY DEF SizeOf, Live
  <2> QED BY <1>1, <2>1 DEF Sizes
<1>3. used = SumFunction(Sizes)
  BY DEF UsedIsAllocated, Sizes
<1>4. used' = SumFunction(Sizes')
  BY <1>2, <1>3
<1> QED BY <1>1, <1>4 DEF UsedIsAllocated, Sizes

\* A new block adds its size.
LEMMA SizesMore ==
  ASSUME Inv, Inv', UsedIsAllocated, NEW b \in Blocks, b \notin Live, b \in Live',
         used' = used + SizeOf(b)',
         \A c \in Blocks \ {b} : block'[c].at = block[c].at
  PROVE  UsedIsAllocated'
<1>1. b \in Live' /\ Live' \ {b} = Live
  BY DEF Live
<1>2. SizesTyped /\ SizesTyped'
  <2>1. Inv' => SizesTyped'
    BY InvSizesTyped, PTL
  <2> QED BY <2>1, InvSizesTyped
<1>3. ASSUME NEW c \in Live PROVE Sizes'[c] = Sizes[c]
  BY <1>1, <1>2, <1>3 DEF SizesTyped, Live
<1>4. \A c \in Live' : Sizes'[c] \in Int
  BY <1>2 DEF SizesTyped
<1>5. IsFiniteSet(Live') /\ DOMAIN Sizes' = Live' /\ DOMAIN Sizes = Live /\ Sizes'[b] = SizeOf(b)'
  BY <1>1, <1>2 DEF SizesTyped
<1>6. SumFunction(Sizes') = Sizes'[b] + SumFunction(Sizes) /\ SumFunction(Sizes) \in Int
  <2>1. PICK f, e, S : f = Sizes' /\ e = Sizes /\ S = Live'
    OBVIOUS
  <2>2. /\ IsFiniteSet(S) /\ b \in S /\ DOMAIN f = S /\ \A c \in S : f[c] \in Int
        /\ DOMAIN e = S \ {b} /\ \A c \in S \ {b} : e[c] = f[c]
    BY <1>1, <1>3, <1>4, <1>5, <2>1
  <2>3. SumFunction(f) = f[b] + SumFunction(e) /\ SumFunction(e) \in Int
    BY <2>2, TotalWith
  <2> QED BY <2>1, <2>3
<1>7. Sizes'[b] \in Int
  BY <1>1, <1>4
<1>8. used = SumFunction(Sizes)
  BY DEF UsedIsAllocated, Sizes
<1>9. used' = SumFunction(Sizes')
  BY <1>5, <1>6, <1>7, <1>8
<1> QED BY <1>9 DEF UsedIsAllocated, Sizes

\* A block that is freed takes its size away, which was counted.
LEMMA SizesLess ==
  ASSUME Inv, Inv', UsedIsAllocated, NEW b \in Live, b \notin Live',
         used' = used - SizeOf(b),
         \A c \in Blocks \ {b} : block'[c].at = block[c].at
  PROVE  UsedIsAllocated' /\ used' < used
<1>1. b \in Live /\ Live \ {b} = Live'
  BY DEF Live
<1>2. SizesTyped /\ SizesTyped'
  <2>1. Inv' => SizesTyped'
    BY InvSizesTyped, PTL
  <2> QED BY <2>1, InvSizesTyped
<1>3. ASSUME NEW c \in Live' PROVE Sizes'[c] = Sizes[c]
  BY <1>1, <1>2, <1>3 DEF SizesTyped, Live
<1>4. \A c \in Live : Sizes[c] \in Int
  BY <1>2 DEF SizesTyped
<1>5. IsFiniteSet(Live) /\ DOMAIN Sizes' = Live' /\ DOMAIN Sizes = Live /\ Sizes[b] = SizeOf(b)
  BY <1>1, <1>2 DEF SizesTyped
<1>6. SumFunction(Sizes) = Sizes[b] + SumFunction(Sizes') /\ SumFunction(Sizes') \in Int
  <2>1. PICK f, e, S : f = Sizes /\ e = Sizes' /\ S = Live
    OBVIOUS
  <2>2. /\ IsFiniteSet(S) /\ b \in S /\ DOMAIN f = S /\ \A c \in S : f[c] \in Int
        /\ DOMAIN e = S \ {b} /\ \A c \in S \ {b} : e[c] = f[c]
    BY <1>1, <1>3, <1>4, <1>5, <2>1
  <2>3. SumFunction(f) = f[b] + SumFunction(e) /\ SumFunction(e) \in Int
    BY <2>2, TotalWith
  <2> QED BY <2>1, <2>3
<1>7. Sizes[b] \in Nat \ {0}
  BY <1>2 DEF SizesTyped
<1>8. used = SumFunction(Sizes)
  BY DEF UsedIsAllocated, Sizes
<1>9. used' = SumFunction(Sizes') /\ used' < used
  BY <1>5, <1>6, <1>7, <1>8
<1> QED BY <1>9 DEF UsedIsAllocated, Sizes

\* What is in memory changes with an allocation and a deletion only.
LEMMA MemorySteps ==
  ASSUME Inv, NEW t \in Threads,
         \/ \E kind \in Requests, i \in 1 .. NBlocks : Request(t, kind, i)
         \/ \E kind \in {"flush", "close"} : Sweep(t, kind)
         \/ LockIfCached(t) \/ Fetch(t) \/ AllocateFails(t)
         \/ PickVictim(t) \/ NoVictim(t) \/ EvictionDone(t)
         \/ Adopt(t) \/ AdoptFails(t) \/ TouchAdopted(t) \/ ReadIn(t) \/ ReadInFails(t)
         \/ UseBlock(t) \/ Release(t)
         \/ SweepNext(t) \/ FlushCacheReturns(t)
         \/ FlushLock(t) \/ FlushTake(t) \/ FlushDetach(t) \/ \E ok \in BOOLEAN : WriteOut(t, ok)
  PROVE  used' = used /\ \A b \in Blocks : block'[b].at = block[b].at
<1>1. block \in [Blocks -> Cells]
  BY DEF Inv, Typed
<1>2. CASE \/ Fetch(t) \/ AllocateFails(t) \/ PickVictim(t) \/ NoVictim(t) \/ Adopt(t)
           \/ TouchAdopted(t) \/ SweepNext(t) \/ FlushCacheReturns(t) \/ FlushTake(t)
           \/ \E ok \in BOOLEAN : WriteOut(t, ok)
           \/ \E kind \in Requests, i \in 1 .. NBlocks : Request(t, kind, i)
           \/ \E kind \in {"flush", "close"} : Sweep(t, kind)
  BY <1>2 DEF Request, Sweep, Fetch, AllocateFails, PickVictim, NoVictim, Adopt, TouchAdopted, SweepNext,
              FlushCacheReturns, FlushTake, WriteOut, shared
<1>3. CASE LockIfCached(t) \/ FlushLock(t)
  <2>1. used' = used /\ (SafeLock(Wanted(t)) \/ SafeLock(local[t].target))
    BY <1>3 DEF LockIfCached, FlushLock
  <2>2. block' = block \/ \E b : block' = [block EXCEPT ![b].locks = @ + 1]
    BY <2>1 DEF SafeLock
  <2> QED BY <1>1, <2>1, <2>2 DEF Cells
<1>4. CASE EvictionDone(t) \/ ReadIn(t) \/ ReadInFails(t)
  BY <1>1, <1>4 DEF EvictionDone, ReadIn, ReadInFails, Cells
<1>5. CASE AdoptFails(t) \/ Release(t) \/ FlushDetach(t)
  BY <1>1, <1>5 DEF AdoptFails, Release, FlushDetach, Cells
<1>6. CASE UseBlock(t)
  <2>1. \A n : block' = [block EXCEPT ![Mine(t)].data = n, ![Mine(t)].dirty = TRUE]
          => \A b \in Blocks : block'[b].at = block[b].at
    BY <1>1 DEF Cells
  <2> QED BY <1>6, <2>1 DEF UseBlock
<1> QED BY <1>2, <1>3, <1>4, <1>5, <1>6

\* The sizes of the blocks add up to a natural number.
LEMMA SumsTyped ==
  ASSUME Inv, UsedIsAllocated
  PROVE  used \in Nat /\ OneBlockEach \in Nat /\ (Live = {} => used = 0)
<1>1. PICK f : f = Sizes
  OBVIOUS
<1>2. IsFiniteSet(DOMAIN f) /\ DOMAIN f = Live /\ \A b \in DOMAIN f : f[b] \in Nat
  BY <1>1, InvSizesTyped DEF SizesTyped
<1>3. used = SumFunction(f)
  BY <1>1 DEF UsedIsAllocated, Sizes
<1>4. used \in Nat
  BY <1>2, <1>3, TotalOfNat
<1>5. OneBlockEach \in Nat
  BY TotalOfNat, CacheAssumption DEF OneBlockEach
<1>6. Live = {} => used = 0
  BY <1>2, <1>3, TotalOfNone
<1> QED BY <1>4, <1>5, <1>6

\* A step of t that keeps what is in memory, the limit and the mutex.
LEMMA BoundedKept ==
  ASSUME Inv, Inv', Bounded, NEW t \in Threads, Others(t), used' = used,
         \A b \in Blocks : block'[b].at = block[b].at,
         cacheMax' = cacheMax, maxRead' = maxRead, mutex' = mutex, Inside(t)',
         Setting(t) => Setting(t)'
  PROVE  Bounded'
<1>1. UsedIsAllocated' /\ Live' = Live
  BY SizesKept DEF Bounded
<1>2. \A u \in Threads \ {t} : Setting(u)' <=> Setting(u)
  BY DEF Setting, Others
<1>3. \A u \in Threads \ {t} : Inside(u)'
  BY <1>2 DEF Bounded, Inside, Others
<1> QED BY <1>1, <1>2, <1>3 DEF Bounded

\* A thread outside of Internalize frees a block: nobody else is inside.
LEMMA FreedBounded ==
  ASSUME Inv, Inv', Bounded, UsedIsAllocated', used' < used, mutex' = mutex,
         maxRead' = maxRead, cacheMax' = cacheMax, mutex = NULL, Live' \subseteq Live,
         NEW t \in Threads, Others(t), ~Setting(t), ~Setting(t)'
  PROVE  Bounded'
<1>0. \A u \in Threads : ~Setting(u) /\ ~Setting(u)'
  BY NobodySets
<1>1. GridFails \/ used' <= cacheMax' \/ used' <= OneBlockEach
  <2>1. cacheMax \in Nat /\ used \in Int /\ used' \in Int
    BY DEF Inv, Typed
  <2>2. OneBlockEach \in Nat
    BY SumsTyped DEF Bounded
  <2> QED BY <1>0, <2>1, <2>2 DEF Bounded
<1>2. \A u \in Threads : Inside(u)'
  BY <1>0, Constants DEF Inside
<1> QED BY <1>1, <1>2 DEF Bounded

\* The steps that set local variables, use data or touch and lock blocks, and
\* those of FlushBlock up to its end: nCacheUsed is what it was.
LEMMA QuietBounded ==
  ASSUME Orderly, Inv, Inv', Bounded, NEW t \in Threads,
         \/ \E kind \in Requests, i \in 1 .. NBlocks : Request(t, kind, i)
         \/ \E kind \in {"flush", "close"} : Sweep(t, kind)
         \/ LockIfCached(t) \/ Fetch(t) \/ Adopt(t) \/ AdoptFails(t) \/ TouchAdopted(t)
         \/ ReadIn(t) \/ ReadInFails(t) \/ UseBlock(t) \/ Release(t) \/ SweepNext(t)
  PROVE  Bounded'
<1>1. mutex # t /\ mutex' = mutex /\ cacheMax' = cacheMax /\ maxRead' = maxRead /\ Others(t)
  <2>1. mutex # t
    BY DEF Inv, Control, Flushing, Request, Sweep, LockIfCached, Fetch, Adopt, AdoptFails, TouchAdopted, ReadIn,
           ReadInFails, UseBlock, Release, SweepNext, SweepOver
  <2>2. pc \in [Threads -> Places] /\ local \in [Threads -> Locals]
    BY DEF Inv, Typed
  <2> QED BY <2>1, <2>2 DEF Others, Request, Sweep, LockIfCached, Fetch, Adopt, AdoptFails, TouchAdopted, ReadIn,
           ReadInFails, UseBlock, Release, SweepNext, shared, Goto, Return
<1>2. used' = used /\ \A b \in Blocks : block'[b].at = block[b].at
  BY MemorySteps
<1>3. ~Setting(t)
  <2>1. Setting(t) => pc[t] \in Flushing \cup {"evict"}
    BY SettingAlone DEF SettersAlone
  <2> QED BY <2>1 DEF Flushing, Request, Sweep, LockIfCached, Fetch, Adopt, AdoptFails, TouchAdopted, ReadIn,
                      ReadInFails, UseBlock, Release, SweepNext, SweepOver
<1>4. ~Setting(t)'
  <2>1. Setting(t)' => pc'[t] \in Flushing \cup {"evict"}
    BY SettingAloneNext DEF SettersAlone
  <2>2. pc \in [Threads -> Places] /\ local \in [Threads -> Locals] /\ Control(t)
    BY DEF Inv, Typed
  <2>3. CASE ReadInFails(t) \/ SweepNext(t)
    <3>1. local'[t].kind = local[t].kind /\ pc[t] # "idle"
      BY <2>2, <2>3 DEF ReadInFails, SweepNext, SweepOver, Locals
    <3> QED BY <1>3, <3>1 DEF Setting
  <2>4. CASE ~(ReadInFails(t) \/ SweepNext(t))
    <3>1. pc'[t] \notin Flushing \cup {"evict"}
      BY <2>2, <2>4 DEF Flushing, Request, Sweep, LockIfCached, Fetch, Adopt, AdoptFails, TouchAdopted, ReadIn,
                        UseBlock, Release, Goto, Return
    <3> QED BY <2>1, <3>1
  <2> QED BY <2>3, <2>4
<1> QED BY <1>1, <1>2, <1>3, <1>4, BoundedKept DEF Inside

\* t is at the one block u has in use, or about to take it for FlushBlock.
InUse(u, b) == Holds(u, b) \/ (pc[u] = "flushlock" /\ local[u].target = block[b].at)

\* When an eviction finds every block locked, each block in memory is the one
\* that the thread of its band has in use.
LEMMA InUseByOwner ==
  ASSUME Inv, Findable, NEW t \in Threads, mutex = t, pc[t] = "evict", Unlocked = {},
         NEW b \in Live
  PROVE  block[b].at[1] \in Threads /\ InUse(block[b].at[1], b)
<1>1. b \in Blocks
  BY DEF Live
<1>2. PICK u \in Threads : InUse(u, b)
  <2>1. CASE \E u \in Threads : Holds(u, b)
    BY <2>1 DEF InUse
  <2>2. CASE \A u \in Threads : ~Holds(u, b)
    <3>1. block[b].locks = 0
      BY <2>2 DEF Inv, Locks
    <3>2. b \notin Elements(order)
      BY <3>1 DEF Unlocked
    <3>3. \A v \in Threads : ~Discarding(v, b)
      BY <2>2 DEF Discarding, Holds
    <3> QED BY <3>1, <3>2, <3>3 DEF Findable, Listed, InUse
  <2> QED BY <2>1, <2>2
<1>3. CASE u = t
  <2>1. Control(t) /\ Place(t) /\ local[t].victim = NULL
    BY DEF Inv, Control
  <2>2. Mine(t) = b
    BY <1>1, <1>2, <1>3, <2>1, Constants DEF InUse, Holds
  <2>3. block[b].at = Wanted(t)
    BY <1>1, <2>1, <2>2, Constants DEF Place
  <2> QED BY <1>2, <1>3, <2>3 DEF Wanted
<1>4. CASE u # t
  <2>1. CASE Holds(u, b)
    <3>1. block[b].at[1] = u
      BY <1>1, <1>4, <2>1, OwnBlocks
    <3> QED BY <1>2, <3>1
  <2>2. CASE pc[u] = "flushlock" /\ local[u].target = block[b].at
    <3>1. Control(u) /\ mutex # u
      BY <1>4 DEF Inv
    <3>2. local[u].target[1] = u
      BY <2>2, <3>1 DEF Control, Flushing
    <3> QED BY <1>2, <2>2, <3>2
  <2> QED BY <1>2, <2>1, <2>2 DEF InUse
<1> QED BY <1>3, <1>4

\* In the same states a thread has one block in use.
LEMMA InUseOnce ==
  ASSUME Inv, NEW t \in Threads, mutex = t, pc[t] = "evict", NEW u \in Threads,
         NEW b \in Live, NEW c \in Live, InUse(u, b), InUse(u, c)
  PROVE  b = c
<1>1. b \in Blocks /\ c \in Blocks /\ NULL \notin Blocks
  BY Constants DEF Live
<1>2. Control(u) /\ (mutex = u => u = t)
  BY DEF Inv
<1>3. CASE Mine(u) # NULL
  <2>1. local[u].victim = NULL /\ pc[u] \notin {"fetch", "flushlock", "flushtake"}
    BY <1>2, <1>3 DEF Control, Flushing, Stored
  <2> QED BY <1>1, <2>1 DEF InUse, Holds
<1>4. CASE Mine(u) = NULL
  <2>1. CASE pc[u] = "flushlock"
    <3>1. local[u].victim = NULL
      BY <1>2, <2>1 DEF Control
    <3>2. block[b].at = block[c].at
      BY <1>1, <1>4, <2>1, <3>1 DEF InUse, Holds
    <3> QED BY <3>2 DEF Inv, OneBlock
  <2>2. CASE pc[u] # "flushlock"
    <3>1. Holds(u, b) /\ Holds(u, c)
      BY <2>2 DEF InUse
    <3>2. local[u].victim # NULL => pc[u] \notin {"fetch", "flushtake"}
      BY <1>2 DEF Control
    <3> QED BY <1>1, <1>4, <3>1, <3>2 DEF Holds
  <2> QED BY <2>1, <2>2
<1> QED BY <1>3, <1>4

\* What cannot be evicted fits into one block per thread.
LEMMA AllInUse ==
  ASSUME Inv, Findable, UsedIsAllocated, NEW t \in Threads, mutex = t, pc[t] = "evict",
         Unlocked = {}
  PROVE  used <= OneBlockEach
<1> DEFINE owner == [b \in Live |-> block[b].at[1]]
<1>1. PICK f : f = Sizes
  OBVIOUS
<1>2. PICK m : m = owner
  OBVIOUS
<1>3. \A b \in Live : block[b].at[1] \in Threads /\ InUse(block[b].at[1], b)
  BY InUseByOwner
<1>4. DOMAIN f = Live /\ IsFiniteSet(Live) /\ \A b \in Live : f[b] = BlockSize[block[b].at[1]]
  BY <1>1, InvSizesTyped DEF SizesTyped
<1>5. m \in [Live -> Threads] /\ \A b \in Live : m[b] = block[b].at[1]
  BY <1>2, <1>3
<1>6. \A b, c \in Live : m[b] = m[c] => b = c
  BY <1>3, <1>5, InUseOnce
<1>7. IsFiniteSet(DOMAIN BlockSize) /\ \A u \in DOMAIN BlockSize : BlockSize[u] \in Nat
  BY CacheAssumption
<1>8. DOMAIN BlockSize = Threads
  BY CacheAssumption
<1>9. SumFunction(f) <= SumFunction(BlockSize)
  <2>1. IsFiniteSet(DOMAIN f) /\ \A b \in DOMAIN f : f[b] \in Nat /\ f[b] <= BlockSize[m[b]]
    BY <1>4, <1>5, <1>7, <1>8
  <2>2. m \in [DOMAIN f -> DOMAIN BlockSize] /\ \A b, c \in DOMAIN f : m[b] = m[c] => b = c
    BY <1>4, <1>5, <1>6, <1>8
  <2> QED BY <1>7, <2>1, <2>2, TotalWithin
<1> QED BY <1>1, <1>9 DEF UsedIsAllocated, OneBlockEach, Sizes

\* A failing allocation may be the first to read the limit, of an empty cache.
LEMMA AllocateFailsBounded ==
  ASSUME Inv, Inv', Bounded, NEW t \in Threads, AllocateFails(t)
  PROVE  Bounded'
<1>1. mutex = NULL /\ mutex' = NULL /\ maxRead' /\ cacheMax' = EffectiveMax
  BY DEF AllocateFails, CanLock, Inv, Control, Flushing
<1>2. used' = used /\ \A b \in Blocks : block'[b].at = block[b].at
  BY MemorySteps
<1>3. UsedIsAllocated'
  BY <1>2, SizesKept DEF Bounded
<1>3a. \A u \in Threads : ~Setting(u) /\ ~Setting(u)'
  <2>1. Others(t) /\ ~Setting(t) /\ ~Setting(t)'
    <3>1. Others(t) /\ pc[t] = "new" /\ pc'[t] = "idle"
      BY DEF AllocateFails, Return, Others, Inv, Typed
    <3>2. ~Setting(t)
      BY <3>1, SettingAlone DEF SettersAlone, Flushing
    <3> QED BY <3>1, <3>2 DEF Setting
  <2> QED BY <2>1, NobodySets
<1>4. GridFails \/ used' <= cacheMax' \/ used' <= OneBlockEach
  <2>1. CASE maxRead
    BY <1>1, <1>2, <1>3a, <2>1 DEF Bounded, EffectiveMax
  <2>2. CASE ~maxRead
    <3>1. used = 0 /\ OneBlockEach \in Nat
      BY <2>2, SumsTyped DEF Bounded
    <3> QED BY <1>2, <3>1
  <2> QED BY <2>1, <2>2
<1>5. \A u \in Threads : Inside(u)'
  BY <1>1, <1>3a, Constants DEF Inside
<1> QED BY <1>1, <1>3, <1>4, <1>5 DEF Bounded

\* Internalize starts with a cache above the limit, and has not been round the loop.
LEMMA AllocateBounded ==
  ASSUME Inv, Inv', Bounded, NEW t \in Threads, NEW b \in Blocks, Allocate(t, b)
  PROVE  Bounded'
<1>1. /\ b \notin Live /\ block'[b].at = Wanted(t) /\ Wanted(t) \in Slots
      /\ \A c \in Blocks \ {b} : block'[c].at = block[c].at
      /\ mutex' = t /\ maxRead' /\ cacheMax' = EffectiveMax /\ pc'[t] = "evict"
      /\ used' = used + BlockSize[t]
  <2>1. Wanted(t) \in Slots /\ block \in [Blocks -> Cells] /\ pc \in [Threads -> Places]
    BY Constants DEF Allocate, Inv, Typed, Control, Wanted
  <2> QED BY <2>1, FreeIsCell DEF Allocate, Live, Free
<1>2. b \in Live' /\ SizeOf(b)' = BlockSize[t]
  BY <1>1, Constants DEF Live, SizeOf, Wanted
<1>3. UsedIsAllocated'
  BY <1>1, <1>2, SizesMore DEF Bounded
<1>4. local'[t].limit = EffectiveMax /\ local'[t].oldUsed = 0
  BY DEF Allocate, Inv, Typed, Locals
<1>5. used' > 0
  <2>1. used \in Nat /\ BlockSize[t] \in Nat \ {0}
    BY SumsTyped, Constants DEF Bounded
  <2> QED BY <1>1, <2>1
<1>6. \A u \in Threads : Inside(u)'
  <2>1. ~Setting(t) /\ Others(t)
    <3>1. pc[t] = "new" /\ Others(t)
      BY DEF Allocate, Others, Inv, Typed
    <3> QED BY <3>1, SettingAlone DEF SettersAlone, Flushing
  <2>2. \A u \in Threads \ {t} : ~Setting(u)'
    BY <2>1, NobodySets DEF Others, Setting
  <2>3. Inside(t)'
    BY <1>1, <1>4, <1>5 DEF Inside, Flushing
  <2>4. \A u \in Threads \ {t} : Inside(u)'
    BY <1>1, <2>2 DEF Inside
  <2> QED BY <2>3, <2>4
<1> QED BY <1>1, <1>3, <1>6, Constants DEF Bounded

\* The loop ends under the limit, or because only blocks in use are left.
LEMMA EvictionDoneBounded ==
  ASSUME Inv, Inv', Bounded, NEW t \in Threads, EvictionDone(t)
  PROVE  Bounded'
<1>1. /\ pc[t] = "evict" /\ cacheMax' = cacheMax /\ maxRead' = maxRead
      /\ mutex = t \/ Setting(t)
  BY DEF EvictionDone, Inv, Control, Setting
<1>2. used' = used /\ \A b \in Blocks : block'[b].at = block[b].at
  BY MemorySteps
<1>3. UsedIsAllocated' /\ Live' = Live
  BY <1>2, SizesKept DEF Bounded
<1>4. GridFails \/ used <= cacheMax \/ used <= OneBlockEach
  <2>1. used \in Int /\ cacheMax \in Nat /\ Limit(t) = cacheMax
    <3>1. mutex = t => local[t].kind # "setmax" /\ local[t].limit = cacheMax
      BY DEF Bounded, Inside, Inv, Control, Requests
    <3> QED BY <1>1, <3>1 DEF Limit, Setting, Inv, Typed
  <2>2. used = local[t].oldUsed => GridFails \/ used <= OneBlockEach
    BY <1>1 DEF Bounded, Inside
  <2>3. ~(used > Limit(t)) \/ used = local[t].oldUsed
    BY <1>1 DEF EvictionDone, Evicting
  <2> QED BY <2>1, <2>2, <2>3
<1>5. mutex' = NULL /\ \A u \in Threads : ~Setting(u)'
  <2>1. CASE Setting(t)
    <3>1. Alone(t) /\ mutex = NULL
      BY <2>1, SettingAlone DEF SettersAlone
    <3>2. mutex' = mutex /\ pc'[t] = "idle"
      BY <2>1 DEF EvictionDone, Return, Setting, Inv, Typed
    <3> QED BY <3>1, <3>2 DEF Setting, Alone
  <2>2. CASE ~Setting(t)
    <3>1. mutex' = NULL /\ pc'[t] = "adopt" /\ Others(t)
      BY <1>1, <2>2 DEF EvictionDone, Setting, Others, Inv, Typed
    <3>2. ~Setting(t)'
      BY <3>1, SettingAloneNext DEF SettersAlone, Flushing
    <3> QED BY <2>2, <3>1, <3>2, NobodySets
  <2> QED BY <2>1, <2>2
<1>6. \A u \in Threads : Inside(u)'
  BY <1>5, Constants DEF Inside
<1> QED BY <1>1, <1>2, <1>3, <1>4, <1>6 DEF Bounded

\* GDALSetCacheMax is called by a thread that is alone and has nothing locked: only
\* an empty cache has no block to evict.
LEMMA SettingEmpty ==
  ASSUME Inv, Findable, UsedIsAllocated, NEW t \in Threads, Setting(t), pc[t] = "evict",
         Unlocked = {}
  PROVE  used <= OneBlockEach
<1>1. Alone(t) /\ Mine(t) = NULL /\ local[t].victim = NULL
  <2>1. Control(t)
    BY DEF Inv
  <2> QED BY <2>1, SettingAlone DEF SettersAlone, Control
<1>2. ASSUME NEW b \in Live PROVE FALSE
  <2>1. b \in Blocks
    BY DEF Live
  <2>2. \A u \in Threads : ~Holds(u, b) /\ pc[u] # "flushlock"
    BY <1>1, <2>1, Constants DEF Alone, Holds
  <2>3. block[b].locks = 0
    BY <2>2 DEF Inv, Locks
  <2>4. b \in Elements(order)
    BY <2>2, <2>3 DEF Findable, Listed, Discarding, Holds
  <2> QED BY <2>3, <2>4 DEF Unlocked
<1>3. Live = {}
  BY <1>2
<1> QED BY <1>3, SumsTyped

\* A round of the loop starts, with a victim or without one.
LEMMA RoundBounded ==
  ASSUME Inv, Inv', Findable, Bounded, NEW t \in Threads, PickVictim(t) \/ NoVictim(t)
  PROVE  Bounded'
<1>1. /\ mutex = t \/ Setting(t)
      /\ pc[t] = "evict" /\ local[t] \in Locals /\ local \in [Threads -> Locals]
      /\ pc \in [Threads -> Places]
  BY DEF PickVictim, NoVictim, Evicting, Inv, Typed, Control, Setting
<1>2. used' = used /\ \A b \in Blocks : block'[b].at = block[b].at
  BY MemorySteps
<1>3. /\ cacheMax' = cacheMax /\ maxRead' = maxRead /\ mutex' = mutex /\ Others(t)
      /\ local'[t].limit = local[t].limit /\ local'[t].oldUsed = used
      /\ local'[t].kind = local[t].kind
  BY <1>1 DEF PickVictim, NoVictim, shared, Others, Locals
<1>4. pc'[t] \in {"evict", "flushlock"} /\ (pc'[t] = "evict" => used <= OneBlockEach)
  <2>1. CASE PickVictim(t)
    BY <1>1, <2>1 DEF PickVictim
  <2>2. CASE NoVictim(t)
    BY <1>1, <2>2, AllInUse, SettingEmpty DEF NoVictim, Bounded
  <2> QED BY <2>1, <2>2
<1>5. Setting(t) => Setting(t)'
  BY <1>3, <1>4 DEF Setting
<1>6. Inside(t)'
  BY <1>1, <1>2, <1>3, <1>4 DEF Inside, Bounded
<1> QED BY <1>2, <1>3, <1>5, <1>6, BoundedKept

\* FlushBlock returns to the loop of GDALSetCacheMax only if it was called there.
LEMMA FlushBackSets ==
  ASSUME Inv, NEW t \in Threads, NEW failed \in BOOLEAN, FlushBack(t, failed),
         pc[t] \in Flushing, ~Setting(t)
  PROVE  ~Setting(t)'
<1>1. local[t].kind # "setmax" /\ local[t] \in Locals /\ local \in [Threads -> Locals]
      /\ pc \in [Threads -> Places]
  BY DEF Setting, Flushing, Inv, Typed
<1>2. pc'[t] = "idle" \/ local'[t].kind = local[t].kind
  <2>1. CASE Return(t)
    BY <1>1, <2>1 DEF Return
  <2>2. CASE ~Return(t)
    <3>1. \/ local' = [local EXCEPT ![t].victim = NULL, ![t].target = NULL,
                                    ![t].i = @ + 1, ![t].failed = failed]
          \/ local' = [local EXCEPT ![t].victim = NULL, ![t].target = NULL, ![t].failed = FALSE]
      BY <2>2 DEF FlushBack
    <3> QED BY <1>1, <3>1 DEF Locals
  <2> QED BY <2>1, <2>2
<1> QED BY <1>1, <1>2 DEF Setting

\* FlushBlock up to its end keeps what the round started with.
LEMMA FlushBounded ==
  ASSUME Inv, Inv', Bounded, NEW t \in Threads,
         FlushLock(t) \/ FlushTake(t) \/ FlushDetach(t) \/ \E ok \in BOOLEAN : WriteOut(t, ok)
  PROVE  Bounded'
<1>1. local[t] \in Locals /\ local \in [Threads -> Locals] /\ pc \in [Threads -> Places]
      /\ Control(t) /\ Place(t) /\ pc[t] \in Flushing
  BY DEF FlushLock, FlushTake, FlushDetach, WriteOut, Inv, Typed, Flushing
<1>2. used' = used /\ \A b \in Blocks : block'[b].at = block[b].at
  BY MemorySteps
<1>3. cacheMax' = cacheMax /\ maxRead' = maxRead /\ mutex' = mutex
  BY DEF FlushLock, FlushTake, FlushDetach, WriteOut
<1>4. CASE FlushTake(t) /\ slot[local[t].target] = NULL
  <2>1. pc[t] = "flushtake" /\ FlushBack(t, FALSE)
    BY <1>4 DEF FlushTake
  <2>2. mutex = t \/ local[t].kind = "setmax" => Homeless(local[t].target)
    BY <1>1, <1>4, <2>1 DEF Place
  <2>3. ~Setting(t)
    <3> SUFFICES ASSUME Setting(t) PROVE FALSE
      OBVIOUS
    <3>1. Alone(t) /\ Homeless(local[t].target) /\ local[t].target \in Slots
      BY <1>1, <2>2, SettingAlone DEF SettersAlone, Setting, Control
    <3>2. local[t].target[1] = t
      BY <3>1 DEF Alone, Slots
    <3> QED BY <2>1, <3>1, <3>2 DEF Homeless
  <2>4. Others(t) /\ ~Setting(t)'
    BY <1>1, <1>3, <2>1, <2>3, FlushBackStep, FlushBackSets
  <2>5. Inside(t)'
    <3>1. CASE mutex # t
      BY <1>3, <2>4, <3>1 DEF Inside
    <3>2. CASE mutex = t
      <4>1. GridFails
        <5>1. Homeless(local[t].target) /\ local[t].target[1] \in Threads
          BY <1>1, <2>2, <3>2, Constants DEF Control
        <5> QED BY <5>1 DEF Homeless, Inv, Control
      <4>2. pc'[t] = "evict"
        BY <1>1, <1>3, <2>1, <3>2, FlushBackStep
      <4>3. local[t].kind \in Requests
        BY <1>1, <3>2 DEF Control
      <4>4. local' = [local EXCEPT ![t].victim = NULL, ![t].target = NULL, ![t].failed = FALSE]
        BY <2>1, <3>2, <4>3 DEF FlushBack, Requests
      <4>5. local'[t].limit = local[t].limit
        BY <1>1, <4>4 DEF Locals
      <4> QED BY <1>3, <4>1, <4>2, <4>5 DEF Inside, Bounded, Flushing
    <3> QED BY <3>1, <3>2
  <2> QED BY <1>2, <1>3, <2>3, <2>4, <2>5, BoundedKept
<1>5. CASE ~(FlushTake(t) /\ slot[local[t].target] = NULL)
  <2>1. /\ Others(t) /\ pc'[t] \in Flushing
        /\ local'[t].limit = local[t].limit /\ local'[t].oldUsed = local[t].oldUsed
        /\ local'[t].kind = local[t].kind
    <3>1. CASE FlushTake(t)
      <4>1. /\ pc' = [pc EXCEPT ![t] = "flushdetach"]
            /\ local' = [local EXCEPT ![t].victim = slot[local[t].target]]
        BY <1>5, <3>1 DEF FlushTake
      <4> QED BY <1>1, <4>1 DEF Others, Locals, Flushing
    <3>2. CASE FlushLock(t) \/ FlushDetach(t)
      BY <1>1, <3>2 DEF FlushLock, FlushDetach, Goto, Others, Flushing
    <3>3. CASE \E ok \in BOOLEAN : WriteOut(t, ok)
      BY <1>1, <3>3 DEF WriteOut, Others, Locals, Flushing
    <3> QED BY <3>1, <3>2, <3>3
  <2>2. Setting(t)' <=> Setting(t)
    BY <1>1, <2>1 DEF Setting, Flushing
  <2>3. Inside(t)'
    BY <1>1, <1>2, <1>3, <2>1, <2>2 DEF Inside, Bounded, Flushing
  <2> QED BY <1>2, <1>3, <2>1, <2>2, <2>3, BoundedKept
<1> QED BY <1>4, <1>5

\* A block that found no place is deleted.
LEMMA DiscardBounded ==
  ASSUME Inv, Inv', Bounded, NEW t \in Threads, Discard(t)
  PROVE  Bounded'
<1>1. Mine(t) \in Blocks /\ mutex = NULL
  BY Constants DEF Discard, CanLock, Inv, Typed, Control, Flushing, Stored, Locals, Mine
<1>2. PICK b \in Blocks : b = Mine(t)
  BY <1>1
<1>3. b \in Live /\ block[b].at = Wanted(t) /\ Wanted(t) \in Slots
  BY <1>1, <1>2, MineHeld, Constants
<1>4. block'[b].at = NULL /\ \A c \in Blocks \ {b} : block'[c].at = block[c].at
  BY <1>2, FreeIsCell DEF Discard, Inv, Typed
<1>5. used' = used - SizeOf(b)
  BY <1>3, Constants DEF Discard, SizeOf, Wanted
<1>6. b \notin Live' /\ Live' \subseteq Live
  BY <1>4 DEF Live
<1>7. UsedIsAllocated' /\ used' < used
  BY <1>3, <1>4, <1>5, <1>6, SizesLess DEF Bounded
<1>8. mutex' = mutex /\ maxRead' = maxRead /\ cacheMax' = cacheMax
  BY DEF Discard
<1>9. Others(t) /\ ~Setting(t) /\ ~Setting(t)'
  <2>1. Others(t) /\ pc[t] = "discard" /\ pc'[t] = "idle"
    BY DEF Discard, Return, Others, Inv, Typed
  <2>2. ~Setting(t)
    BY <2>1, SettingAlone DEF SettersAlone, Flushing
  <2> QED BY <2>1, <2>2 DEF Setting
<1> QED BY <1>1, <1>6, <1>7, <1>8, <1>9, FreedBounded

\* FlushBlock ends and frees its block; inside Internalize nCacheUsed is then
\* below what it was before the round, so that the loop goes on.
LEMMA DeleteBounded ==
  ASSUME Inv, Inv', Bounded, NEW t \in Threads, Delete(t)
  PROVE  Bounded'
<1>1. /\ pc[t] = "delete" /\ Control(t) /\ Place(t) /\ pc[t] \in Flushing
      /\ local[t].target \in Slots /\ local[t].victim \in Blocks /\ local[t].failed \in BOOLEAN
      /\ mutex \in {NULL, t} /\ local[t] \in Locals
  BY DEF Delete, CanLock, Inv, Typed, Control, Flushing, Locals
<1>2. PICK b \in Blocks : b = local[t].victim
  BY <1>1
<1>3. b \in Live
  BY <1>2, HeldLive DEF Holds
<1>4. block'[b].at = NULL /\ \A c \in Blocks \ {b} : block'[c].at = block[c].at
  BY <1>2, FreeIsCell DEF Delete, Inv, Typed
<1>5. used' = used - SizeOf(b)
  BY <1>2 DEF Delete
<1>6. b \notin Live' /\ Live' \subseteq Live
  BY <1>4 DEF Live
<1>7. UsedIsAllocated' /\ used' < used
  BY <1>3, <1>4, <1>5, <1>6, SizesLess DEF Bounded
<1>8. /\ mutex' = mutex /\ maxRead' = maxRead /\ cacheMax' = cacheMax
      /\ FlushBack(t, local[t].failed)
  BY DEF Delete
<1>8a. Others(t)
  BY <1>1, <1>8, FlushBackStep
<1>9. CASE mutex = NULL /\ ~Setting(t)
  <2>1. ~Setting(t)'
    BY <1>1, <1>8, <1>9, FlushBackSets
  <2> QED BY <1>6, <1>7, <1>8, <1>8a, <1>9, <2>1, FreedBounded
<1>10. CASE mutex = t \/ Setting(t)
  <2>1. /\ pc'[t] = "evict" /\ local'[t].limit = local[t].limit
        /\ local'[t].oldUsed = local[t].oldUsed /\ local'[t].kind = local[t].kind
    <3>1. local[t].kind \in Requests \cup {"setmax"}
      BY <1>1, <1>10 DEF Control, Setting
    <3>2. /\ pc' = [pc EXCEPT ![t] = "evict"]
          /\ local' = [local EXCEPT ![t].victim = NULL, ![t].target = NULL, ![t].failed = FALSE]
      BY <1>8, <1>10, <3>1 DEF FlushBack, Requests, Setting
    <3> QED BY <1>1, <3>2 DEF Inv, Typed, Locals
  <2>2. used = local[t].oldUsed
    BY <1>1, <1>10 DEF Bounded, Inside
  <2>3. used' # local'[t].oldUsed
    <3>1. used \in Int /\ used' \in Int
      BY DEF Inv, Typed
    <3> QED BY <1>7, <2>1, <2>2, <3>1
  <2>4. Inside(t)'
    BY <1>8, <1>10, <2>1, <2>3 DEF Inside, Bounded, Flushing
  <2>5. \A u \in Threads \ {t} : Inside(u)'
    <3>1. \A u \in Threads \ {t} : mutex' # u
      <4>1. Setting(t) => mutex = NULL
        BY SettingAlone DEF SettersAlone
      <4> QED BY <1>8, <1>10, <4>1, Constants
    <3>2. \A u \in Threads \ {t} : ~Setting(u)'
      <4>1. \A u \in Threads \ {t} : ~Setting(u)
        BY SettingAlone DEF SettersAlone, Alone
      <4> QED BY <1>8a, <4>1 DEF Others, Setting
    <3> QED BY <3>1, <3>2 DEF Inside
  <2>6. mutex' # NULL \/ Setting(t)'
    BY <1>8, <1>10, <2>1, Constants DEF Setting
  <2>7. ~maxRead' => Live' = {}
    BY <1>6, <1>8 DEF Bounded
  <2> QED BY <1>7, <2>4, <2>5, <2>6, <2>7 DEF Bounded
<1> QED BY <1>1, <1>9, <1>10

\* GDALSetCacheMax begins, with a cache that may be above the new limit.
LEMMA SetCacheMaxBounded ==
  ASSUME Orderly, Inv, Inv', Bounded, NEW t \in Threads, NEW n \in NewMaxes, SetCacheMax(t, n)
  PROVE  Bounded'
<1>1. /\ used' = used /\ block' = block /\ maxRead' = maxRead /\ mutex' = mutex
      /\ pc[t] = "idle" /\ pc'[t] = "evict"
      /\ local'[t].kind = "setmax" /\ local'[t].oldUsed = local[t].oldUsed
  BY DEF SetCacheMax, Inv, Typed, Locals
<1>2. local[t].oldUsed = 0 /\ mutex # t
  <2>1. local[t] = Idle /\ mutex # t
    BY <1>1 DEF Inv, Control, Flushing
  <2> QED BY <2>1 DEF Idle
<1>3. Alone(t)
  BY DEF SetCacheMax, Orderly, Alone
<1>4. UsedIsAllocated' /\ Live' = Live
  BY <1>1, SizesKept DEF Bounded
<1>5. used \in Nat /\ OneBlockEach \in Nat
  BY SumsTyped DEF Bounded
<1>6. Inside(t)' /\ Setting(t)'
  BY <1>1, <1>2, <1>5 DEF Inside, Setting, Flushing
<1>7. \A u \in Threads : Inside(u)'
  BY <1>3, <1>6 DEF Alone
<1> QED BY <1>1, <1>4, <1>6, <1>7 DEF Bounded

\* The invariant holds of the empty cache.
LEMMA InitBounded == Init => Bounded
<1> SUFFICES ASSUME Init PROVE Bounded
  OBVIOUS
<1>1. Inv
  BY InitInv
<1>2. Live = {}
  BY FreeIsCell DEF Init, Live
<1>3. used = SumFunction(Sizes)
  <2>1. PICK f : f = Sizes
    OBVIOUS
  <2>2. DOMAIN f = {}
    BY <1>2, <2>1 DEF Sizes
  <2> QED BY <2>1, <2>2, TotalOfNone DEF Init
<1>4. UsedIsAllocated
  BY <1>3 DEF UsedIsAllocated, Sizes
<1>5. used = 0 /\ cacheMax \in Nat /\ used <= cacheMax
  BY Constants DEF Init
<1>6. \A t \in Threads : Inside(t)
  BY Constants DEF Init, Inside, Setting
<1> QED BY <1>2, <1>4, <1>5, <1>6 DEF Bounded

\* Every step preserves it.
LEMMA NextBounded ==
  Orderly /\ Inv /\ SweptInv /\ Inv' /\ Findable /\ Bounded /\ [Next]_vars => Bounded'
<1> SUFFICES ASSUME Orderly, Inv, SweptInv, Inv', Findable, Bounded, [Next]_vars PROVE Bounded'
  OBVIOUS
<1>1. CASE UNCHANGED vars
  <2>1. \A b \in Blocks : block'[b].at = block[b].at
    BY <1>1 DEF vars, shared
  <2>2. UsedIsAllocated' /\ Live' = Live
    BY <1>1, <2>1, SizesKept DEF Bounded, vars, shared
  <2> QED BY <1>1, <2>2 DEF Bounded, Inside, Setting, vars, shared
<1>2. CASE Next
  <2>1. PICK t \in Threads :
          \/ \E kind \in Requests, i \in 1 .. NBlocks : Request(t, kind, i)
          \/ \E kind \in {"flush", "close"} : Sweep(t, kind)
          \/ \E n \in NewMaxes : SetCacheMax(t, n)
          \/ OpenBand(t)
          \/ Step(t)
    BY <1>2 DEF Next
  <2>2. CASE \/ \E kind \in Requests, i \in 1 .. NBlocks : Request(t, kind, i)
             \/ \E kind \in {"flush", "close"} : Sweep(t, kind)
    BY <2>2, QuietBounded
  <2>3. CASE \E n \in NewMaxes : SetCacheMax(t, n)
    BY <2>3, SetCacheMaxBounded
  <2>4. CASE OpenBand(t)
    <3>1. \A b \in Blocks : block'[b].at = block[b].at
      BY <2>4 DEF OpenBand
    <3>2. UsedIsAllocated' /\ Live' = Live
      BY <2>4, <3>1, SizesKept DEF Bounded, OpenBand
    <3> QED BY <2>4, <3>2 DEF Bounded, Inside, Setting, OpenBand
  <2>5. CASE Step(t)
    <3>1. CASE FlushCacheReturns(t) \/ DestroyBand(t) \/ BandDestroyed(t)
      <4>1. /\ Others(t) /\ mutex # t
            /\ pc[t] = "sweep" /\ pc'[t] \in {"idle", "sweep"}
            /\ UNCHANGED <<block, used, cacheMax, maxRead, mutex>>
        BY <3>1, NothingLeft, SweepEnds
      <4>2. ~Setting(t) /\ ~Setting(t)'
        BY <4>1, SettingAlone, SettingAloneNext DEF SettersAlone, Flushing
      <4> QED BY <4>1, <4>2, BoundedKept DEF Inside
    <3>2. CASE \E b \in Blocks : Allocate(t, b)
      BY <3>2, AllocateBounded
    <3>3. CASE AllocateFails(t) \/ EvictionDone(t) \/ PickVictim(t) \/ NoVictim(t)
      BY <3>3, AllocateFailsBounded, EvictionDoneBounded, RoundBounded
    <3>4. CASE Discard(t) \/ Delete(t)
      BY <3>4, DiscardBounded, DeleteBounded
    <3>5. CASE FlushLock(t) \/ FlushTake(t) \/ FlushDetach(t) \/ \E ok \in BOOLEAN : WriteOut(t, ok)
      BY <3>5, FlushBounded
    <3>6. CASE \/ LockIfCached(t) \/ Fetch(t) \/ Adopt(t) \/ AdoptFails(t) \/ TouchAdopted(t)
               \/ ReadIn(t) \/ ReadInFails(t) \/ UseBlock(t) \/ Release(t) \/ SweepNext(t)
      BY <3>6, QuietBounded
    <3> QED BY <2>5, <3>1, <3>2, <3>3, <3>4, <3>5, <3>6 DEF Step
  <2> QED BY <2>1, <2>2, <2>3, <2>4, <2>5
<1> QED BY <1>1, <1>2

\* Bounded holds in every state.
THEOREM BoundedInvariance == Orderly => (Spec => []Bounded)
<1>1. ASSUME Orderly PROVE Spec => []Bounded
  <2>1. Inv /\ SweptInv /\ Inv' /\ Findable /\ Bounded /\ [Next]_vars => Bounded'
    BY <1>1, NextBounded
  <2>2. Inv /\ SweptInv /\ Findable /\ [Next]_vars => Findable'
    BY <1>1, NextFindable
  <2>3. Spec => []Inv /\ []SweptInv
    BY <1>1, CacheInvariance
  <2> QED BY <2>1, <2>2, <2>3, InitFindable, InitBounded, PTL DEF Spec
<1> QED BY <1>1

\* nCacheUsed counts the bytes of the blocks in memory, whatever read, write or
\* allocation failed.
THEOREM UsedIsAllocatedHolds == Orderly => (Spec => []UsedIsAllocated)
<1>1. Bounded => UsedIsAllocated
  BY DEF Bounded
<1> QED BY <1>1, BoundedInvariance, PTL

\* Whenever no thread is inside Internalize the cache keeps to its limit, or to
\* one block per thread when these alone exceed it.  Not so when AdoptBlock may fail:
\* an eviction that picks the block on its way out frees nothing and ends the loop.
THEOREM CacheBoundedHolds == Orderly /\ ~GridFails => (Spec => []CacheBounded)
<1>1. ASSUME Orderly, ~GridFails PROVE Spec => []CacheBounded
  <2>1. Bounded => CacheBounded
    BY <1>1 DEF Bounded, CacheBounded, Setting
  <2>2. Spec => []Bounded
    BY <1>1, BoundedInvariance
  <2> QED BY <2>1, <2>2, PTL
<1> QED BY <1>1
----------------------------------------------------------------------------
\* poBlock of GetLockedBlockRef is allocated and not filled yet ...
Fresh(t) ==
  Mine(t) # NULL /\ pc[t] \in {"evict", "adopt", "discard", "touch", "reading"} \cup Flushing
\* ... or IReadBlock failed, and t is about to flush what is in its slot.
Dropped(t) == Mine(t) = NULL /\ local[t].kind \in Requests /\ pc[t] \in Flushing

\* Its owner is the only one to blame when a block has not been filled.
Unfilled(b) ==
  LET o == block[b].at[1] IN
  \/ Mine(o) = b /\ Fresh(o)
  \/ Mine(o) = b /\ pc[o] = "locked" /\ local[o].kind = "fill"
  \/ Dropped(o) /\ local[o].target = block[b].at

BeingWritten(b) == \E t \in Threads : pc[t] = "writing" /\ local[t].victim = b

\* What the program counter of a thread says about data.
DataOf(t) ==
  /\ Fresh(t) => block[Mine(t)].data = Garbage /\ ~block[Mine(t)].dirty
  /\ pc[t] = "writing" => block[local[t].victim].data # Garbage
  /\ pc[t] \in {"writing", "delete"} => ~block[local[t].victim].dirty
  /\ Dropped(t) /\ pc[t] = "flushtake" /\ slot[local[t].target] = NULL =>
       \A b \in Live : block[b].at # local[t].target
  /\ local[t].got # NULL <=> pc[t] = "used"

\* A block in memory is the same in the file, dirty, or being written.
BlockData(b) ==
  /\ block[b].data = Garbage => ~block[b].dirty /\ Unfilled(b)
  /\ block[b].data # Garbage /\ ~block[b].dirty =>
       block[b].data = disk[block[b].at] \/ BeingWritten(b)

DataInv ==
  /\ \A t \in Threads : DataOf(t)
  /\ \A b \in Live : BlockData(b)
  /\ \A s \in Slots : disk[s] # Garbage

\* A step of t that touches the data of the blocks in X, which no other thread
\* holds, and their places in the file: what remains to be shown is what it
\* does to these blocks and to t.
LEMMA DataFrame ==
  ASSUME Inv, Inv', DataInv, NEW t \in Threads, Others(t), NEW X \in SUBSET Blocks,
         \A b \in Blocks \ X : /\ block'[b].at = block[b].at /\ block'[b].data = block[b].data
                               /\ block'[b].dirty = block[b].dirty,
         \A b \in X, u \in Threads \ {t} : ~Holds(u, b),
         \A b \in Live' : (b \in Live /\ block'[b].at = block[b].at) \/ block'[b].at[1] = t,
         \A s \in Slots : /\ disk'[s] # Garbage
                          /\ disk'[s] = disk[s] \/ \A b \in Live \ X : block[b].at # s,
         \A s \in Slots : slot'[s] = NULL => slot[s] = NULL \/ Holds(t, slot[s]),
         DataOf(t)',
         \A b \in Live' \cap X : BlockData(b)',
         \A b \in Live \ X : block[b].data = Garbage /\ block[b].at[1] = t => Unfilled(b)',
         pc[t] = "writing" => local[t].victim \in X
  PROVE  DataInv'
<1>1. ASSUME NEW u \in Threads \ {t} PROVE DataOf(u)'
  <2>1. /\ pc'[u] = pc[u] /\ local'[u] = local[u] /\ DataOf(u)
        /\ Control(u) /\ Place(u) /\ local[u] \in Locals
    BY DEF Others, Inv, Typed, DataInv
  <2>2. ASSUME NEW b \in Blocks, Holds(u, b)
        PROVE  block'[b].data = block[b].data /\ block'[b].dirty = block[b].dirty
    BY <2>2
  <2>3. Fresh(u)' => block'[Mine(u)'].data = Garbage /\ ~block'[Mine(u)'].dirty
    <3> SUFFICES ASSUME Fresh(u)'
                 PROVE  block'[Mine(u)'].data = Garbage /\ ~block'[Mine(u)'].dirty
      OBVIOUS
    <3>1. Fresh(u) /\ Mine(u)' = Mine(u)
      BY <2>1 DEF Fresh, Mine
    <3>2. Mine(u) \in Blocks /\ Holds(u, Mine(u))
      BY <2>1, <3>1 DEF Fresh, Mine, Locals, Holds
    <3> QED BY <2>1, <2>2, <3>1, <3>2 DEF DataOf
  <2>4. pc[u] \in {"writing", "delete"} =>
          local[u].victim \in Blocks /\ Holds(u, local[u].victim)
    BY <2>1 DEF Control, Locals, Holds
  <2>5. Dropped(u)' /\ pc'[u] = "flushtake" /\ slot'[local'[u].target] = NULL =>
          \A b \in Live' : block'[b].at # local'[u].target
    <3> SUFFICES ASSUME Dropped(u)', pc'[u] = "flushtake", slot'[local'[u].target] = NULL,
                        NEW b \in Live', block'[b].at = local'[u].target
                 PROVE  FALSE
      OBVIOUS
    <3> DEFINE s == local[u].target
    <3>1. Dropped(u) /\ pc[u] = "flushtake" /\ s \in Slots /\ s[1] = u /\ slot'[s] = NULL
      BY <2>1 DEF Dropped, Mine, Control, Flushing
    <3>2. slot[s] = NULL
      <4> SUFFICES ASSUME slot[s] # NULL PROVE FALSE
        OBVIOUS
      <4>1. slot[s] \in Blocks /\ Holds(u, slot[s]) /\ Holds(t, slot[s])
        BY <3>1 DEF Inv, Typed, Holds
      <4> QED BY <4>1 DEF Inv, OneHolder
    <3>3. b \in Live /\ block[b].at = s
      BY <2>1, <3>1
    <3> QED BY <2>1, <3>1, <3>2, <3>3 DEF DataOf
  <2> QED BY <2>1, <2>2, <2>3, <2>4, <2>5 DEF DataOf
<1>2. ASSUME NEW b \in Live' PROVE BlockData(b)'
  <2>1. CASE b \in X
    BY <2>1
  <2>2. CASE b \notin X
    <3>1. /\ b \in Blocks \ X /\ b \in Live /\ BlockData(b) /\ block[b].at \in Slots
          /\ block'[b].at = block[b].at /\ block'[b].data = block[b].data
          /\ block'[b].dirty = block[b].dirty
      BY <2>2 DEF Live, DataInv, Inv, Typed, Cells
    <3>2. disk'[block[b].at] = disk[block[b].at]
      BY <2>2, <3>1
    <3>3. BeingWritten(b) => BeingWritten(b)'
      BY <2>2 DEF BeingWritten, Others
    <3>4. block[b].data = Garbage => Unfilled(b)'
      <4>1. CASE block[b].at[1] = t
        BY <2>2, <3>1, <4>1
      <4>2. CASE block[b].at[1] # t
        <5>1. block[b].at[1] \in Threads \ {t}
          BY <3>1, <4>2, Constants
        <5>2. PICK o \in Threads \ {t} : o = block[b].at[1]
          BY <5>1
        <5>3. /\ pc'[o] = pc[o] /\ local'[o] = local[o]
              /\ block'[b].at[1] = o
          BY <3>1, <5>2 DEF Others
        <5>4. Mine(o)' = Mine(o) /\ (Fresh(o)' <=> Fresh(o)) /\ (Dropped(o)' <=> Dropped(o))
          BY <5>3 DEF Fresh, Dropped, Mine
        <5>5. block[b].data = Garbage => Unfilled(b)
          BY <3>1 DEF BlockData
        <5> QED BY <3>1, <5>2, <5>3, <5>4, <5>5 DEF Unfilled
      <4> QED BY <4>1, <4>2
    <3> QED BY <3>1, <3>2, <3>3, <3>4 DEF BlockData
  <2> QED BY <2>1, <2>2
<1> QED BY <1>1, <1>2 DEF DataInv

\* A step that touches no data and does not write.
LEMMA DataKept ==
  ASSUME Inv, Inv', DataInv, NEW t \in Threads, Others(t), pc[t] # "writing",
         \A b \in Blocks : /\ block'[b].at = block[b].at /\ block'[b].data = block[b].data
                           /\ block'[b].dirty = block[b].dirty,
         disk' = disk,
         \A s \in Slots : slot'[s] = NULL => slot[s] = NULL \/ Holds(t, slot[s]),
         DataOf(t)',
         \A b \in Live : block[b].data = Garbage /\ block[b].at[1] = t => Unfilled(b)'
  PROVE  DataInv'
<1> DEFINE X == {}
<1>1. X \in SUBSET Blocks
  OBVIOUS
<1>2. \A b \in Live' : b \in Live /\ block'[b].at = block[b].at
  BY DEF Live
<1>3. \A s \in Slots : disk'[s] # Garbage /\ disk'[s] = disk[s]
  BY DEF DataInv
<1>4. \A b \in Blocks : b \notin X
  OBVIOUS
<1> HIDE DEF X
<1> QED BY <1>1, <1>2, <1>3, <1>4, DataFrame DEF Live

\* Steps of a thread that has no block to fill.
LEMMA IdleData ==
  ASSUME Inv, Inv', DataInv, NEW t \in Threads,
         \/ \E kind \in Requests, i \in 1 .. NBlocks : Request(t, kind, i)
         \/ \E kind \in {"flush", "close"} : Sweep(t, kind)
         \/ LockIfCached(t) \/ Fetch(t) \/ AllocateFails(t) \/ Release(t)
         \/ SweepNext(t) \/ FlushCacheReturns(t)
  PROVE  DataInv'
<1>1. /\ pc[t] \in {"idle", "lookup", "fetch", "new", "used", "sweep"}
      /\ Control(t) /\ DataOf(t) /\ local[t] \in Locals
      /\ pc \in [Threads -> Places] /\ local \in [Threads -> Locals]
      /\ block \in [Blocks -> Cells] /\ slot \in [Slots -> Blocks \cup {NULL}]
  BY DEF Request, Sweep, LockIfCached, Fetch, AllocateFails, Release, SweepNext, SweepOver,
         FlushCacheReturns, Inv, DataInv, Typed
<1>2. disk' = disk /\ slot' = slot
  BY DEF Request, Sweep, LockIfCached, Fetch, AllocateFails, Release, SweepNext,
         FlushCacheReturns, shared
<1>3. Others(t)
  BY <1>1 DEF Request, Sweep, LockIfCached, Fetch, AllocateFails, Release, SweepNext,
         FlushCacheReturns, Goto, Return, Others
<1>4. \A b \in Blocks : /\ block'[b].at = block[b].at /\ block'[b].data = block[b].data
                        /\ block'[b].dirty = block[b].dirty
  <2>1. CASE UNCHANGED block
    BY <2>1
  <2>2. CASE LockIfCached(t)
    BY <1>1, <2>2 DEF LockIfCached, SafeLock, Cells
  <2>3. CASE Release(t)
    BY <1>1, <2>3 DEF Release, Cells
  <2> QED BY <2>1, <2>2, <2>3 DEF Request, Sweep, Fetch, AllocateFails, SweepNext,
         FlushCacheReturns, shared
<1>5. ASSUME NEW b \in Live, block[b].data = Garbage, block[b].at[1] = t PROVE FALSE
  <2>1. Unfilled(b)
    BY <1>5 DEF DataInv, BlockData
  <2> QED BY <1>1, <1>5, <2>1 DEF Unfilled, Fresh, Dropped, Flushing
<1>6. /\ pc'[t] \in {"idle", "lookup", "fetch", "new", "locked", "sweep", "flushlock"}
      /\ local'[t].got = NULL
      /\ pc'[t] = "flushlock" => Mine(t)' = NULL
  <2>1. pc[t] # "used" => local[t].got = NULL
    BY <1>1 DEF DataOf
  <2>4. CASE LockIfCached(t)
    BY <1>1, <2>1, <2>4 DEF LockIfCached, Goto, Locals
  <2>5. CASE Fetch(t)
    BY <1>1, <2>1, <2>5 DEF Fetch, Locals
  <2>6. CASE SweepNext(t)
    <3>1. Mine(t) = NULL /\ local[t].got = NULL
      BY <1>1, <2>1, <2>6 DEF SweepNext, SweepOver, Control, Flushing, Stored
    <3> QED BY <1>1, <2>6, <3>1 DEF SweepNext, SweepOver, Locals, Mine
  <2>7. CASE AllocateFails(t) \/ Release(t) \/ FlushCacheReturns(t)
    BY <1>1, <2>7, Constants DEF AllocateFails, Release, FlushCacheReturns, Return, Idle
  <2>8. ASSUME NEW kind \in Requests, NEW i \in 1 .. NBlocks, Request(t, kind, i)
        PROVE  pc'[t] = "lookup" /\ local'[t].got = NULL
    BY <1>1, <2>1, <2>8 DEF Request, Locals
  <2>9. ASSUME NEW kind \in {"flush", "close"}, Sweep(t, kind)
        PROVE  pc'[t] = "sweep" /\ local'[t].got = NULL
    BY <1>1, <2>1, <2>9 DEF Sweep, Locals
  <2> QED BY <2>4, <2>5, <2>6, <2>7, <2>8, <2>9
<1>7. DataOf(t)'
  <2>1. ~Fresh(t)'
    BY <1>6 DEF Fresh, Flushing
  <2> QED BY <1>6, <2>1 DEF DataOf
<1> QED BY <1>1, <1>2, <1>3, <1>4, <1>5, <1>7, DataKept

\* The end of a band, whose slots are empty: it has no block to fill either.
LEMMA DestroyData ==
  ASSUME Inv, Inv', DataInv, NEW t \in Threads,
         DestroyBand(t) \/ (BandDestroyed(t) /\ slot' = slot)
  PROVE  DataInv'
<1>1. /\ Others(t) /\ pc[t] = "sweep" /\ pc'[t] \in {"idle", "sweep"}
      /\ Mine(t) = NULL /\ UNCHANGED <<slot, block, disk>>
  BY SweepEnds
<1>2. local'[t].got = NULL
  <2>1. local \in [Threads -> Locals]
    BY DEF Inv, Typed
  <2> QED BY <2>1 DEF DestroyBand, BandDestroyed, Return, Idle
<1>3. DataOf(t)'
  BY <1>1, <1>2, Constants DEF DataOf, Fresh, Dropped, Flushing, Mine
<1>4. ASSUME NEW b \in Live, block[b].data = Garbage, block[b].at[1] = t PROVE FALSE
  <2>1. Unfilled(b)
    BY <1>4 DEF DataInv, BlockData
  <2> QED BY <1>1, <1>4, <2>1 DEF Unfilled, Fresh, Dropped, Flushing
<1> QED BY <1>1, <1>3, <1>4, DataKept

\* The steps of the loop of GDALSetCacheMax: its thread has no block to fill.
LEMMA SettingData ==
  ASSUME Inv, Inv', DataInv, NEW t \in Threads,
         \/ \E n \in NewMaxes : SetCacheMax(t, n)
         \/ local[t].kind = "setmax" /\ (PickVictim(t) \/ NoVictim(t) \/ EvictionDone(t))
  PROVE  DataInv'
<1>1. /\ pc \in [Threads -> Places] /\ local \in [Threads -> Locals]
      /\ Control(t) /\ DataOf(t) /\ local[t] \in Locals
  BY DEF Inv, Typed, DataInv
<1>2. UNCHANGED <<slot, block, disk>>
  BY DEF SetCacheMax, PickVictim, NoVictim, EvictionDone, shared
<1>3. /\ Others(t) /\ pc[t] \in {"idle", "evict"}
      /\ pc'[t] \in {"idle", "evict", "flushlock"}
      /\ local'[t] = Idle \/ (local'[t].mine = local[t].mine /\ local'[t].got = local[t].got)
  BY <1>1 DEF SetCacheMax, PickVictim, NoVictim, EvictionDone, Evicting, Return, shared, Others,
       Locals
<1>4. Mine(t) = NULL /\ local[t].got = NULL
  <2>1. pc[t] = "evict" => local[t].kind = "setmax"
    BY DEF SetCacheMax
  <2>2. Mine(t) = NULL
    BY <1>1, <1>3, <2>1 DEF Control, Flushing, Stored
  <2> QED BY <1>1, <1>3, <2>2 DEF DataOf
<1>5. Mine(t)' = NULL /\ local'[t].got = NULL
  BY <1>3, <1>4 DEF Mine, Idle
<1>6. DataOf(t)'
  BY <1>3, <1>5 DEF DataOf, Fresh
<1>7. ASSUME NEW b \in Live, block[b].data = Garbage, block[b].at[1] = t PROVE FALSE
  <2>1. Unfilled(b) /\ b # NULL
    BY <1>7, Constants DEF DataInv, BlockData, Live
  <2> QED BY <1>3, <1>4, <1>7, <2>1 DEF Unfilled, Dropped, Flushing
<1>8. \A b \in Blocks : /\ block'[b].at = block[b].at /\ block'[b].data = block[b].data
                        /\ block'[b].dirty = block[b].dirty
  BY <1>2
<1> QED BY <1>2, <1>3, <1>6, <1>7, <1>8, DataKept

\* Steps between the allocation of a block and its filling: the block of t is
\* the only one of its band that has not been filled.
LEMMA FreshData ==
  ASSUME Inv, Inv', DataInv, NEW t \in Threads, Orderly,
         \/ PickVictim(t) \/ NoVictim(t) \/ EvictionDone(t)
         \/ Adopt(t) \/ AdoptFails(t) \/ TouchAdopted(t),
         local[t].kind # "setmax"
  PROVE  DataInv'
<1>1. /\ pc[t] \in {"evict", "adopt", "touch"} /\ Mine(t) # NULL /\ Mine(t) \in Blocks
      /\ Control(t) /\ Place(t) /\ DataOf(t) /\ local[t] \in Locals
      /\ pc \in [Threads -> Places] /\ local \in [Threads -> Locals]
      /\ block \in [Blocks -> Cells] /\ slot \in [Slots -> Blocks \cup {NULL}]
      /\ local[t].kind \in Requests
  <2>1. /\ pc[t] \in {"evict", "adopt", "touch"}
        /\ Control(t) /\ Place(t) /\ DataOf(t) /\ local[t] \in Locals
        /\ pc \in [Threads -> Places] /\ local \in [Threads -> Locals]
        /\ block \in [Blocks -> Cells] /\ slot \in [Slots -> Blocks \cup {NULL}]
    BY DEF PickVictim, NoVictim, Evicting, EvictionDone, Adopt, AdoptFails, TouchAdopted, Inv, DataInv, Typed
  <2>2. Mine(t) # NULL /\ local[t].kind \in Requests
    BY <2>1 DEF Control, Stored
  <2>3. Mine(t) \in Blocks
    BY <2>1, <2>2 DEF Mine, Locals
  <2> QED BY <2>1, <2>2, <2>3
<1>2. disk' = disk
  BY DEF PickVictim, NoVictim, EvictionDone, Adopt, AdoptFails, TouchAdopted, shared
<1>3. \A s \in Slots : slot'[s] = NULL => slot[s] = NULL
  BY <1>1, Constants DEF PickVictim, NoVictim, EvictionDone, Adopt, AdoptFails, TouchAdopted, shared
<1>4. /\ Others(t) /\ Mine(t)' = Mine(t)
      /\ pc'[t] \in {"evict", "flushlock", "adopt", "discard", "touch", "reading"}
         \/ (pc'[t] = "locked" /\ local'[t].kind = "fill")
      /\ local'[t].got = local[t].got
  <2>1. CASE PickVictim(t)
    BY <1>1, <2>1 DEF PickVictim, Others, Mine, Locals
  <2>2. CASE NoVictim(t)
    BY <1>1, <2>2 DEF NoVictim, Others, Mine, Locals
  <2>3. CASE EvictionDone(t)
    <3>1. local[t].kind # "setmax"
      BY <1>1 DEF Requests
    <3> QED BY <1>1, <2>3, <3>1 DEF EvictionDone, Others, Mine, Locals
  <2>4. CASE Adopt(t) \/ AdoptFails(t)
    BY <1>1, <2>4 DEF Adopt, AdoptFails, Goto, Others, Mine
  <2>5. CASE TouchAdopted(t)
    BY <1>1, <2>5 DEF TouchAdopted, Goto, Others, Mine
  <2> QED BY <2>1, <2>2, <2>3, <2>4, <2>5
<1>5. \A b \in Blocks : /\ block'[b].at = block[b].at /\ block'[b].data = block[b].data
                        /\ block'[b].dirty = block[b].dirty
  <2>1. CASE UNCHANGED block
    BY <2>1
  <2>2. CASE EvictionDone(t) \/ AdoptFails(t)
    BY <1>1, <2>2 DEF EvictionDone, AdoptFails, Cells
  <2> QED BY <2>1, <2>2 DEF PickVictim, NoVictim, Adopt, TouchAdopted, shared
<1>6. Fresh(t)
  BY <1>1 DEF Fresh
<1>7. ASSUME NEW b \in Live, block[b].data = Garbage, block[b].at[1] = t PROVE Unfilled(b)'
  <2>1. Unfilled(b) /\ b \in Blocks
    BY <1>7 DEF DataInv, BlockData, Live
  <2>2. Mine(t) = b
    BY <1>1, <1>7, <2>1 DEF Unfilled, Dropped
  <2>3. block'[b].at[1] = t /\ Mine(t)' = b
    BY <1>4, <1>5, <1>7, <2>1, <2>2
  <2>4. Fresh(t)' \/ (pc'[t] = "locked" /\ local'[t].kind = "fill")
    BY <1>1, <1>4 DEF Fresh, Flushing
  <2> QED BY <2>3, <2>4 DEF Unfilled
<1>8. DataOf(t)'
  <2>1. block'[Mine(t)].data = Garbage /\ ~block'[Mine(t)].dirty
    BY <1>1, <1>5, <1>6 DEF DataOf
  <2>2. local'[t].got = NULL /\ pc'[t] # "used" /\ pc'[t] \notin {"writing", "delete", "flushtake"}
    BY <1>1, <1>4 DEF DataOf
  <2> QED BY <1>4, <2>1, <2>2 DEF DataOf
<1> QED BY <1>1, <1>2, <1>3, <1>4, <1>5, <1>7, <1>8, DataKept

\* FlushBlock is about to look at the slot of a block that IReadBlock did not
\* fill: if it finds none, nobody has that block in memory.
LEMMA ToFlushData ==
  ASSUME Inv, Inv', DataInv, NEW t \in Threads, ReadInFails(t) \/ FlushLock(t)
  PROVE  DataInv'
<1>1. /\ pc[t] \in {"reading", "flushlock"}
      /\ Control(t) /\ Place(t) /\ DataOf(t) /\ local[t] \in Locals
      /\ pc \in [Threads -> Places] /\ local \in [Threads -> Locals]
      /\ block \in [Blocks -> Cells] /\ slot \in [Slots -> Blocks \cup {NULL}]
  BY DEF ReadInFails, FlushLock, Inv, DataInv, Typed
<1>2. disk' = disk /\ slot' = slot /\ Others(t)
  BY <1>1 DEF ReadInFails, FlushLock, Goto, Others
<1>3. \A b \in Blocks : /\ block'[b].at = block[b].at /\ block'[b].data = block[b].data
                        /\ block'[b].dirty = block[b].dirty
  <2>1. CASE ReadInFails(t)
    BY <1>1, <2>1 DEF ReadInFails, Cells
  <2>2. CASE FlushLock(t)
    BY <1>1, <2>2 DEF FlushLock, SafeLock, Cells
  <2> QED BY <2>1, <2>2
<1>4. local[t].got = NULL
  BY <1>1 DEF DataOf
<1>5. CASE ReadInFails(t)
  <2>1. /\ Mine(t) # NULL /\ Fresh(t) /\ local[t].kind \in Requests
        /\ block[Mine(t)].at = Wanted(t)
    BY <1>1, <1>5 DEF ReadInFails, Control, Place, Stored, Fresh
  <2>2. /\ pc'[t] = "flushlock" /\ Mine(t)' = NULL /\ local'[t].got = NULL
        /\ local'[t].target = Wanted(t) /\ local'[t].kind = local[t].kind
    BY <1>1, <1>4, <1>5 DEF ReadInFails, Mine, Locals
  <2>3. DataOf(t)'
    BY <2>2 DEF DataOf, Fresh
  <2>4. ASSUME NEW b \in Live, block[b].data = Garbage, block[b].at[1] = t PROVE Unfilled(b)'
    <3>1. Unfilled(b) /\ b \in Blocks
      BY <2>4 DEF DataInv, BlockData, Live
    <3>2. Mine(t) = b
      BY <1>5, <2>1, <2>4, <3>1 DEF Unfilled, Dropped
    <3>3. block'[b].at = local'[t].target /\ block'[b].at[1] = t /\ Dropped(t)'
      BY <1>3, <2>1, <2>2, <2>4, <3>1, <3>2 DEF Dropped, Flushing
    <3> QED BY <3>3 DEF Unfilled
  <2>5. pc[t] # "writing"
    BY <1>1
  <2> QED BY <1>2, <1>3, <2>3, <2>4, <2>5, DataKept
<1>6. CASE FlushLock(t)
  <2>1. local' = local /\ pc'[t] = "flushtake" /\ pc[t] = "flushlock" /\ Mine(t)' = Mine(t)
    BY <1>1, <1>6 DEF FlushLock, Goto, Mine
  <2>2. ASSUME Dropped(t), slot[local[t].target] = NULL,
               NEW b \in Live, block[b].at = local[t].target
        PROVE  FALSE
    <3>1. /\ local[t].target[1] = t /\ local[t].victim = NULL /\ mutex # t
          /\ mutex \in {NULL, t} /\ Mine(t) = NULL /\ b \in Blocks
      BY <1>1, <1>6, <2>1, <2>2 DEF FlushLock, CanLock, Dropped, Control, Flushing, Live
    <3>2. PICK u \in Threads : Holds(u, b)
      BY <2>2, <3>1, Constants DEF Inv, UnheldStored
    <3>3. u # t
      BY <2>1, <3>1, <3>2, Constants DEF Holds
    <3>4. block[b].at[1] = u
      BY <3>1, <3>2, <3>3, OwnBlocks
    <3> QED BY <2>2, <3>1, <3>3, <3>4
  <2>3. DataOf(t)'
    <3>1. Fresh(t)' => block'[Mine(t)].data = Garbage /\ ~block'[Mine(t)].dirty
      <4>1. Fresh(t)' => Fresh(t) /\ Mine(t) \in Blocks
        BY <1>1, <2>1 DEF Fresh, Flushing, Mine, Locals
      <4> QED BY <1>1, <1>3, <4>1 DEF DataOf
    <3>2. Dropped(t)' => Dropped(t)
      BY <2>1 DEF Dropped, Flushing
    <3>3. Dropped(t) /\ slot[local[t].target] = NULL =>
            \A b \in Live' : block'[b].at # local[t].target
      BY <1>3, <2>2 DEF Live
    <3> QED BY <1>2, <1>4, <2>1, <3>1, <3>2, <3>3 DEF DataOf
  <2>4. ASSUME NEW b \in Live, block[b].data = Garbage, block[b].at[1] = t PROVE Unfilled(b)'
    <3>1. Unfilled(b) /\ b \in Blocks
      BY <2>4 DEF DataInv, BlockData, Live
    <3>2. (Fresh(t) => Fresh(t)') /\ (Dropped(t) => Dropped(t)')
      BY <2>1 DEF Fresh, Dropped, Flushing
    <3> QED BY <1>3, <2>1, <2>4, <3>1, <3>2 DEF Unfilled
  <2>5. pc[t] # "writing"
    BY <1>1
  <2> QED BY <1>2, <1>3, <2>3, <2>4, <2>5, DataKept
<1> QED BY <1>5, <1>6

\* A new block has not been filled.
LEMMA AllocateData ==
  ASSUME Inv, Inv', DataInv, NEW t \in Threads, NEW b \in Blocks, Allocate(t, b)
  PROVE  DataInv'
<1>1. /\ pc[t] = "new" /\ block[b] = Free /\ Control(t) /\ DataOf(t) /\ local[t] \in Locals
      /\ pc \in [Threads -> Places] /\ local \in [Threads -> Locals]
      /\ block \in [Blocks -> Cells] /\ slot \in [Slots -> Blocks \cup {NULL}]
      /\ local[t].kind \in Requests
  BY DEF Allocate, Inv, DataInv, Typed, Control
<1>2. b \notin Live
  BY <1>1, FreeIsCell DEF Live
<1>3. \A u \in Threads \ {t} : ~Holds(u, b)
  BY <1>2, HeldLive
<1>4. /\ disk' = disk /\ slot' = slot /\ Others(t) /\ pc'[t] = "evict" /\ Mine(t)' = b
      /\ local'[t].got = local[t].got
      /\ \A c \in Blocks \ {b} : block'[c] = block[c]
      /\ block'[b] = [Free EXCEPT !.at = Wanted(t), !.locks = 2]
  BY <1>1 DEF Allocate, Others, Mine, Locals
<1>5. block'[b].at = Wanted(t) /\ block'[b].data = Garbage /\ block'[b].dirty = FALSE
  BY <1>4 DEF Free
<1>6. block'[b].at[1] = t
  BY <1>5 DEF Wanted
<1>7. Fresh(t)'
  BY <1>4, Constants DEF Fresh
<1>8. DataOf(t)'
  <2>1. local'[t].got = NULL
    BY <1>1, <1>4 DEF DataOf
  <2> QED BY <1>4, <1>5, <2>1 DEF DataOf
<1>9. BlockData(b)'
  BY <1>4, <1>5, <1>6, <1>7 DEF BlockData, Unfilled
<1>10. ASSUME NEW c \in Live \ {b}, block[c].data = Garbage, block[c].at[1] = t
       PROVE  Unfilled(c)'
  <2>1. Unfilled(c)
    BY <1>10 DEF DataInv, BlockData
  <2> QED BY <1>1, <1>10, <2>1 DEF Unfilled, Fresh, Dropped, Flushing
<1>11. \A c \in Live' : (c \in Live /\ block'[c].at = block[c].at) \/ block'[c].at[1] = t
  BY <1>4, <1>6 DEF Live
<1>12. \A s \in Slots : disk'[s] # Garbage /\ disk'[s] = disk[s]
  BY <1>4 DEF DataInv
<1> DEFINE X == {b}
<1>13. X \in SUBSET Blocks /\ pc[t] # "writing" /\ \A c \in X : c = b
  BY <1>1
<1>14. \A c \in Live' \cap X : BlockData(c)'
  BY <1>9
<1>15. \A c \in Blocks \ X : c \in Blocks \ {b}
  OBVIOUS
<1>16. \A c \in Live \ X : c \in Live \ {b}
  OBVIOUS
<1> HIDE DEF X
<1> QED BY <1>3, <1>4, <1>8, <1>10, <1>11, <1>12, <1>13, <1>14, <1>15, <1>16, DataFrame

\* A step of the thread t that has block b, which is about b alone.
LEMMA OwnData ==
  ASSUME Inv, Inv', DataInv, NEW t \in Threads, NEW b \in Blocks, Holds(t, b), Others(t),
         \A c \in Blocks \ {b} : block'[c] = block[c],
         block'[b].at \in {block[b].at, NULL}, slot' = slot,
         \A s \in Slots : /\ disk'[s] # Garbage
                          /\ disk'[s] = disk[s] \/ s = block[b].at,
         DataOf(t)',
         b \in Live' => BlockData(b)',
         \A c \in Live \ {b} : block[c].data = Garbage /\ block[c].at[1] = t => Unfilled(c)',
         pc[t] = "writing" => local[t].victim = b
  PROVE  DataInv'
<1> DEFINE X == {b}
<1>1. X \in SUBSET Blocks /\ b \in X /\ \A c \in X : c = b
  OBVIOUS
<1>2. \A c \in Blocks \ X : block'[c] = block[c]
  OBVIOUS
<1>3. \A u \in Threads \ {t} : ~Holds(u, b)
  BY DEF Inv, OneHolder
<1>4. b \in Live
  BY HeldLive
<1>5. \A c \in Live' : c \in Live /\ block'[c].at = block[c].at
  BY <1>4 DEF Live
<1>6. \A s \in Slots : disk'[s] = disk[s] \/ \A c \in Live \ X : block[c].at # s
  BY <1>4 DEF Inv, OneBlock
<1>7. \A c \in Live \ X : c \in Live \ {b}
  OBVIOUS
<1>8. \A c \in Live' \cap X : BlockData(c)'
  OBVIOUS
<1> HIDE DEF X
<1> QED BY <1>1, <1>2, <1>3, <1>5, <1>6, <1>7, <1>8, DataFrame

\* The block that GetLockedBlockRef of t has, between hRBMutex and its return.
LEMMA MineData ==
  ASSUME Inv, Inv', DataInv, NEW t \in Threads, Discard(t) \/ ReadIn(t) \/ UseBlock(t)
  PROVE  DataInv'
<1>1. /\ pc[t] \in {"discard", "reading", "locked"} /\ Mine(t) \in Blocks
      /\ Control(t) /\ Place(t) /\ DataOf(t) /\ local[t] \in Locals /\ mutex # t
      /\ pc \in [Threads -> Places] /\ local \in [Threads -> Locals]
      /\ block \in [Blocks -> Cells] /\ slot \in [Slots -> Blocks \cup {NULL}]
      /\ disk \in [Slots -> Nat] /\ local[t].kind \in Requests
  <2>1. Typed /\ Control(t) /\ Place(t) /\ DataOf(t)
    BY DEF Inv, DataInv
  <2>2. pc[t] \in {"discard", "reading", "locked"}
    BY DEF Discard, ReadIn, UseBlock
  <2>3. local[t] \in Locals
    BY <2>1 DEF Typed
  <2>4. Mine(t) # NULL /\ mutex # t /\ local[t].kind \in Requests
    BY <2>1, <2>2 DEF Control, Stored, Flushing
  <2>5. Mine(t) \in Blocks
    BY <2>3, <2>4 DEF Mine, Locals
  <2> QED BY <2>1, <2>2, <2>3, <2>4, <2>5 DEF Typed
<1>2. PICK b \in Blocks : b = Mine(t)
  BY <1>1
<1>3. /\ b \in Live /\ Holds(t, b) /\ block[b] \in Cells
      /\ block[b].at = Wanted(t) /\ Wanted(t) \in Slots
  BY <1>1, <1>2, MineHeld
<1>4. disk' = disk /\ slot' = slot /\ Others(t)
  BY <1>1 DEF Discard, ReadIn, UseBlock, Goto, Return, Others
<1>5. \A s \in Slots : disk'[s] # Garbage /\ disk'[s] = disk[s]
  BY <1>4 DEF DataInv
<1>6. local[t].got = NULL
  BY <1>1 DEF DataOf
<1>7. block[b].at[1] = t
  BY <1>3 DEF Wanted
<1>8. ASSUME NEW c \in Live \ {b}, block[c].data = Garbage, block[c].at[1] = t PROVE FALSE
  <2>1. Unfilled(c)
    BY <1>8 DEF DataInv, BlockData
  <2> QED BY <1>1, <1>2, <1>8, <2>1 DEF Unfilled, Dropped, Flushing
<1>9. CASE Discard(t)
  <2>1. block'[b].at = NULL /\ \A c \in Blocks \ {b} : block'[c] = block[c]
    BY <1>1, <1>2, <1>9, FreeIsCell DEF Discard
  <2>2. pc'[t] = "idle" /\ local'[t] = Idle
    BY <1>1, <1>9 DEF Discard, Return
  <2>3. DataOf(t)'
    BY <2>2, IdleIsLocal DEF DataOf, Fresh, Dropped, Flushing, Idle, Mine
  <2>4. b \notin Live'
    BY <2>1 DEF Live
  <2> QED BY <1>1, <1>3, <1>4, <1>5, <1>8, <2>1, <2>3, <2>4, OwnData
<1>10. CASE ReadIn(t)
  <2>1. /\ block'[b] = [block[b] EXCEPT !.data = disk[Wanted(t)]]
        /\ \A c \in Blocks \ {b} : block'[c] = block[c]
        /\ pc[t] = "reading" /\ pc'[t] = "locked" /\ local' = local
    BY <1>1, <1>2, <1>10 DEF ReadIn, Goto
  <2>2. /\ block'[b].at = block[b].at /\ block'[b].dirty = block[b].dirty
        /\ block'[b].data = disk[Wanted(t)]
    BY <1>3, <2>1 DEF Cells
  <2>3. ~block[b].dirty
    BY <1>1, <1>2, <2>1, Constants DEF DataOf, Fresh
  <2>4. DataOf(t)'
    BY <1>6, <2>1 DEF DataOf, Fresh, Dropped, Flushing
  <2>5. BlockData(b)'
    BY <1>3, <1>5, <2>2, <2>3 DEF BlockData
  <2> QED BY <1>1, <1>3, <1>4, <1>5, <1>8, <2>1, <2>2, <2>4, <2>5, OwnData
<1>11. CASE UseBlock(t)
  <2>1. pc[t] = "locked" /\ pc'[t] = "used"
    BY <1>1, <1>11 DEF UseBlock
  <2>2. ~BeingWritten(b)
    <3>1. \A u \in Threads : local[u].victim = b => u = t
      BY <1>3 DEF Inv, OneHolder, Holds
    <3> QED BY <2>1, <3>1 DEF BeingWritten
  <2>3. local[t].kind # "fill" => block[b].data # Garbage
    <3>1. BlockData(b)
      BY <1>3 DEF DataInv
    <3>2. ~Fresh(t) /\ ~Dropped(t)
      BY <2>1 DEF Fresh, Dropped, Flushing
    <3> QED BY <1>7, <3>1, <3>2 DEF BlockData, Unfilled
  <2>4. \A c \in Blocks \ {b} : block'[c] = block[c]
    BY <1>1, <1>2, <1>11 DEF UseBlock
  <2>5. /\ block'[b].at = block[b].at
        /\ \/ block'[b] = block[b] /\ local[t].kind # "fill"
           \/ block'[b].dirty /\ block'[b].data \in Contents
        /\ local'[t].got \in Nat
    <3>0. block[b].data \in Nat /\ (block[b].data + 1) % NContents \in Contents
          /\ 0 \in Contents /\ Contents \subseteq Nat
      BY <1>3, Constants DEF Cells, Contents
    <3>1. CASE local[t].kind = "read"
      BY <1>1, <1>2, <1>11, <3>0, <3>1 DEF UseBlock, Locals
    <3>2. CASE local[t].kind = "update"
      <4>1. block' = [block EXCEPT ![b].data = (block[b].data + 1) % NContents, ![b].dirty = TRUE]
            /\ local' = [local EXCEPT ![t].got = (block[b].data + 1) % NContents]
        BY <1>2, <1>11, <3>2 DEF UseBlock
      <4> QED BY <1>1, <3>0, <4>1 DEF Cells, Locals
    <3>3. CASE local[t].kind = "fill"
      <4>1. block' = [block EXCEPT ![b].data = 0, ![b].dirty = TRUE]
            /\ local' = [local EXCEPT ![t].got = 0]
        BY <1>2, <1>11, <3>3 DEF UseBlock
      <4> QED BY <1>1, <3>0, <4>1 DEF Cells, Locals
    <3> QED BY <1>1, <3>1, <3>2, <3>3 DEF Requests
  <2>6. DataOf(t)'
    BY <2>1, <2>5, Constants DEF DataOf, Fresh, Dropped, Flushing
  <2>7. Garbage \notin Contents
    BY Constants DEF Garbage, Contents
  <2>8. BlockData(b)'
    <3>1. BlockData(b)
      BY <1>3 DEF DataInv
    <3> QED BY <1>4, <2>2, <2>3, <2>5, <2>7, <3>1 DEF BlockData
  <2> QED BY <1>1, <1>3, <1>4, <1>5, <1>8, <2>1, <2>4, <2>5, <2>6, <2>8, OwnData
<1> QED BY <1>9, <1>10, <1>11

\* FlushBlock leaves what its caller has read alone.
LEMMA FlushBackKeeps ==
  ASSUME Inv, NEW t \in Threads, NEW failed \in BOOLEAN, FlushBack(t, failed),
         local[t].got = NULL
  PROVE  local'[t].got = NULL
<1>1. local \in [Threads -> Locals] /\ local[t] \in Locals
  BY DEF Inv, Typed
<1>2. CASE Return(t)
  BY <1>1, <1>2 DEF Return, Idle
<1>3. CASE ~Return(t)
  <2>1. \/ local' = [local EXCEPT ![t].victim = NULL, ![t].target = NULL,
                                  ![t].i = @ + 1, ![t].failed = failed]
        \/ local' = [local EXCEPT ![t].victim = NULL, ![t].target = NULL,
                                  ![t].failed = FALSE]
    BY <1>3 DEF FlushBack
  <2> QED BY <1>1, <2>1 DEF Locals
<1> QED BY <1>2, <1>3

\* FlushBlock takes the block of its slot, if there is one.
LEMMA FlushTakeData ==
  ASSUME Inv, Inv', DataInv, NEW t \in Threads, FlushTake(t)
  PROVE  DataInv'
<1>1. /\ pc[t] = "flushtake" /\ pc[t] \in Flushing
      /\ Control(t) /\ Place(t) /\ DataOf(t) /\ local[t] \in Locals
      /\ pc \in [Threads -> Places] /\ local \in [Threads -> Locals]
      /\ slot \in [Slots -> Blocks \cup {NULL}] /\ local[t].target \in Slots
      /\ local[t].got = NULL
  BY DEF FlushTake, Inv, DataInv, DataOf, Typed, Control, Flushing
<1>2. /\ slot' = [slot EXCEPT ![local[t].target] = NULL]
      /\ block' = block /\ disk' = disk /\ mutex' = mutex
  BY DEF FlushTake
<1>3. \A s \in Slots : slot'[s] = NULL => slot[s] = NULL \/ Holds(t, slot[s])
  BY <1>1, <1>2 DEF Holds
<1>4. \A b \in Blocks : /\ block'[b].at = block[b].at /\ block'[b].data = block[b].data
                        /\ block'[b].dirty = block[b].dirty
  BY <1>2
<1>5. CASE slot[local[t].target] = NULL
  <2>1. FlushBack(t, FALSE)
    BY <1>5 DEF FlushTake
  <2>2. /\ Others(t) /\ Mine(t)' = Mine(t)
        /\ pc'[t] \in {"sweep", "evict", "idle"}
        /\ mutex # t => Mine(t) = NULL
        /\ mutex = t => Mine(t) # NULL /\ pc'[t] = "evict"
    BY <1>1, <1>2, <2>1, FlushBackStep
  <2>4. local'[t].got = NULL
    BY <1>1, <2>1, FlushBackKeeps
  <2>5. DataOf(t)'
    <3>1. Fresh(t)' => Fresh(t)
      BY <1>1, <2>2 DEF Fresh
    <3>2. block'[Mine(t)] = block[Mine(t)]
      BY <1>2
    <3> QED BY <1>1, <2>2, <2>4, <3>1, <3>2 DEF DataOf, Dropped, Flushing
  <2>6. ASSUME NEW b \in Live, block[b].data = Garbage, block[b].at[1] = t PROVE Unfilled(b)'
    <3>1. Unfilled(b) /\ b \in Blocks
      BY <2>6 DEF DataInv, BlockData, Live
    <3>2. CASE Dropped(t) /\ local[t].target = block[b].at
      BY <1>1, <1>5, <3>2 DEF DataOf
    <3>3. CASE ~(Dropped(t) /\ local[t].target = block[b].at)
      <4>1. Mine(t) = b
        BY <2>6, <3>1, <3>3 DEF Unfilled
      <4>2. Fresh(t)' /\ Mine(t)' = b
        BY <2>2, <3>1, <4>1, Constants DEF Fresh
      <4> QED BY <1>2, <2>6, <4>2 DEF Unfilled
    <3> QED BY <3>2, <3>3
  <2>7. pc[t] # "writing"
    BY <1>1
  <2> QED BY <1>2, <1>3, <1>4, <2>2, <2>5, <2>6, <2>7, DataKept
<1>6. CASE slot[local[t].target] # NULL
  <2>1. /\ local' = [local EXCEPT ![t].victim = slot[local[t].target]]
        /\ pc' = [pc EXCEPT ![t] = "flushdetach"]
    BY <1>6 DEF FlushTake
  <2>2. /\ Others(t) /\ Mine(t)' = Mine(t) /\ pc'[t] = "flushdetach"
        /\ local'[t].got = NULL /\ local'[t].target = local[t].target
        /\ local'[t].kind = local[t].kind
    BY <1>1, <2>1 DEF Others, Mine, Locals
  <2>3. (Fresh(t)' <=> Fresh(t)) /\ (Dropped(t)' <=> Dropped(t))
    BY <1>1, <2>2 DEF Fresh, Dropped, Flushing
  <2>4. DataOf(t)'
    <3>1. block'[Mine(t)] = block[Mine(t)]
      BY <1>2
    <3> QED BY <1>1, <2>2, <2>3, <3>1 DEF DataOf
  <2>5. ASSUME NEW b \in Live, block[b].data = Garbage, block[b].at[1] = t PROVE Unfilled(b)'
    <3>1. Unfilled(b)
      BY <2>5 DEF DataInv, BlockData
    <3> QED BY <1>1, <1>2, <2>2, <2>3, <2>5, <3>1 DEF Unfilled
  <2>6. pc[t] # "writing"
    BY <1>1
  <2> QED BY <1>2, <1>3, <1>4, <2>2, <2>4, <2>5, <2>6, DataKept
<1> QED BY <1>5, <1>6

\* A block that is flushed is written when it is dirty, and then deleted.
LEMMA VictimData ==
  ASSUME Inv, Inv', DataInv, NEW t \in Threads, FlushDetach(t) \/ WriteOut(t, TRUE) \/ Delete(t)
  PROVE  DataInv'
<1>0. /\ pc[t] \in {"flushdetach", "writing", "delete"}
      /\ Control(t) /\ Place(t) /\ DataOf(t) /\ local[t] \in Locals
      /\ pc \in [Threads -> Places] /\ local \in [Threads -> Locals]
      /\ block \in [Blocks -> Cells] /\ disk \in [Slots -> Nat]
  BY DEF FlushDetach, WriteOut, Delete, Inv, DataInv, Typed
<1>1. /\ pc[t] \in {"flushdetach", "writing", "delete"} /\ pc[t] \in Flushing
      /\ Control(t) /\ Place(t) /\ DataOf(t) /\ local[t] \in Locals
      /\ pc \in [Threads -> Places] /\ local \in [Threads -> Locals]
      /\ block \in [Blocks -> Cells] /\ disk \in [Slots -> Nat]
      /\ local[t].victim \in Blocks /\ local[t].got = NULL /\ local[t].target \in Slots
  BY <1>0 DEF DataOf, Control, Locals, Flushing
<1>2. PICK b \in Blocks : b = local[t].victim
  BY <1>1
<1>3. /\ Holds(t, b) /\ block[b].at = local[t].target /\ Mine(t) # b
      /\ block[b] \in Cells
  BY <1>1, <1>2, Constants DEF Holds, Place
<1>4. b \in Live /\ BlockData(b)
  BY <1>3, HeldLive DEF DataInv
<1>5. /\ mutex' = mutex /\ slot' = slot
      /\ \A c \in Blocks \ {b} : block'[c] = block[c]
  BY <1>1, <1>2 DEF FlushDetach, WriteOut, Delete
<1>6. \A u \in Threads : local[u].victim = b => u = t
  BY <1>3 DEF Inv, OneHolder, Holds
<1>7. \A u \in Threads : Mine(u) # b
  BY <1>3 DEF Inv, OneHolder, Holds
<1>8. Mine(t) # NULL => Mine(t) \in Blocks \ {b}
  BY <1>1, <1>3 DEF Mine, Locals
<1>9. CASE FlushDetach(t) \/ WriteOut(t, TRUE)
  <2>1. /\ Others(t) /\ Mine(t)' = Mine(t) /\ pc'[t] \in {"writing", "delete"}
        /\ local'[t].victim = b /\ local'[t].got = NULL /\ local'[t].target = local[t].target
        /\ local'[t].kind = local[t].kind
    BY <1>1, <1>2, <1>9 DEF FlushDetach, WriteOut, Goto, Others, Mine, Locals
  <2>2. (Fresh(t)' <=> Fresh(t)) /\ (Dropped(t)' <=> Dropped(t))
    BY <1>1, <2>1 DEF Fresh, Dropped, Flushing
  <2>3. Fresh(t) => block'[Mine(t)] = block[Mine(t)]
    BY <1>5, <1>8 DEF Fresh
  <2>4. ASSUME NEW c \in Live \ {b}, block[c].data = Garbage, block[c].at[1] = t
        PROVE  Unfilled(c)'
    <3>1. Unfilled(c) /\ c \in Blocks \ {b}
      BY <2>4 DEF DataInv, BlockData, Live
    <3>2. block'[c] = block[c] /\ ~(pc[t] = "locked")
      BY <1>1, <1>5, <3>1
    <3> QED BY <2>1, <2>2, <2>4, <3>1, <3>2 DEF Unfilled
  <2>5. /\ block'[b].at = block[b].at /\ block'[b].data = block[b].data
        /\ ~block'[b].dirty
        /\ pc'[t] = "writing" => block[b].data # Garbage
        /\ block[b].data # Garbage =>
             pc'[t] = "writing" \/ block[b].data = disk'[block[b].at]
        /\ \A s \in Slots : disk'[s] # Garbage /\ (disk'[s] = disk[s] \/ s = block[b].at)
    <3>1. CASE FlushDetach(t)
      <4>1. /\ block'[b] = [block[b] EXCEPT !.dirty = FALSE] /\ disk' = disk
            /\ pc'[t] = (IF block[b].dirty THEN "writing" ELSE "delete")
            /\ pc[t] = "flushdetach"
        BY <1>1, <1>2, <3>1 DEF FlushDetach, Goto
      <4>2. ~BeingWritten(b)
        BY <1>6, <4>1 DEF BeingWritten
      <4> QED BY <1>3, <1>4, <4>1, <4>2 DEF Cells, BlockData, DataInv
    <3>2. CASE WriteOut(t, TRUE)
      <4>1. /\ block' = block /\ disk' = [disk EXCEPT ![local[t].target] = block[b].data]
            /\ pc[t] = "writing" /\ pc'[t] = "delete"
        BY <1>1, <1>2, <3>2 DEF WriteOut
      <4>2. block[b].data # Garbage /\ ~block[b].dirty
        BY <1>1, <1>2, <4>1 DEF DataOf
      <4> QED BY <1>1, <1>3, <4>1, <4>2 DEF DataInv
    <3> QED BY <1>9, <3>1, <3>2
  <2>6. DataOf(t)'
    BY <1>1, <2>1, <2>2, <2>3, <2>5 DEF DataOf
  <2>7. BlockData(b)'
    <3>1. block[b].data = Garbage => Unfilled(b)'
      <4>1. ASSUME block[b].data = Garbage PROVE Unfilled(b)'
        <5>0. PICK o \in Threads : o = block[b].at[1]
          BY <1>1, <1>3, Constants
        <5>1. Dropped(o) /\ local[o].target = block[b].at
          BY <1>4, <1>7, <4>1, <5>0 DEF BlockData, Unfilled
        <5>2. Dropped(o)' /\ local'[o].target = block[b].at
          <6>1. CASE o = t
            BY <2>1, <2>2, <5>1, <6>1
          <6>2. CASE o # t
            BY <2>1, <5>1, <6>2 DEF Others, Dropped, Mine
          <6> QED BY <6>1, <6>2
        <5> QED BY <2>5, <5>0, <5>2 DEF Unfilled
      <4> QED BY <4>1
    <3>2. pc'[t] = "writing" => BeingWritten(b)'
      BY <2>1 DEF BeingWritten
    <3> QED BY <2>5, <3>1, <3>2 DEF BlockData
  <2> QED BY <1>2, <1>3, <1>5, <2>1, <2>4, <2>5, <2>6, <2>7, OwnData
<1>10. CASE Delete(t)
  <2>1. /\ pc[t] = "delete" /\ FlushBack(t, local[t].failed) /\ disk' = disk
        /\ block'[b].at = NULL /\ local[t].failed \in BOOLEAN
    BY <1>1, <1>2, <1>10, FreeIsCell DEF Delete, Locals
  <2>2. /\ Others(t) /\ Mine(t)' = Mine(t)
        /\ mutex = t => pc'[t] = "evict" /\ Mine(t) # NULL
        /\ mutex # t => Mine(t) = NULL /\ pc'[t] \in {"sweep", "evict", "idle"}
    BY <1>1, <1>5, <2>1, FlushBackStep
  <2>3. local'[t].got = NULL
    BY <1>1, <2>1, FlushBackKeeps
  <2>4. /\ Fresh(t)' <=> mutex = t
        /\ Fresh(t) <=> mutex = t
    BY <1>1, <2>1, <2>2 DEF Fresh
  <2>5. DataOf(t)'
    <3>1. Fresh(t) => block'[Mine(t)] = block[Mine(t)]
      BY <1>5, <1>8 DEF Fresh
    <3> QED BY <1>1, <2>2, <2>3, <2>4, <3>1 DEF DataOf
  <2>6. ASSUME NEW c \in Live \ {b}, block[c].data = Garbage, block[c].at[1] = t
        PROVE  Unfilled(c)'
    <3>1. Unfilled(c) /\ c \in Blocks \ {b} /\ block'[c] = block[c]
      BY <1>5, <2>6 DEF DataInv, BlockData, Live
    <3>2. ~(Dropped(t) /\ local[t].target = block[c].at)
      BY <1>3, <1>4, <2>6 DEF Inv, OneBlock
    <3>3. Mine(t) = c /\ Fresh(t)
      BY <2>1, <2>6, <3>1, <3>2 DEF Unfilled
    <3> QED BY <2>2, <2>4, <2>6, <3>1, <3>3 DEF Unfilled
  <2>7. b \notin Live' /\ pc[t] # "writing"
    BY <2>1 DEF Live
  <2>8. \A s \in Slots : disk'[s] # Garbage /\ disk'[s] = disk[s]
    BY <2>1 DEF DataInv
  <2> QED BY <1>3, <1>5, <2>1, <2>2, <2>5, <2>6, <2>7, <2>8, OwnData
<1> QED BY <1>9, <1>10

LEMMA StillData ==
  ASSUME DataInv, AllKept
  PROVE  DataInv'
<1>1. /\ \A t \in Threads : Mine(t)' = Mine(t)
      /\ \A t \in Threads : Fresh(t)' <=> Fresh(t)
      /\ \A t \in Threads : Dropped(t)' <=> Dropped(t)
      /\ Live' = Live
  BY DEF AllKept, Mine, Fresh, Dropped, Live
<1>2. /\ \A b : Unfilled(b)' <=> Unfilled(b)
      /\ \A b : BeingWritten(b)' <=> BeingWritten(b)
  BY DEF AllKept, Unfilled, BeingWritten, Mine, Fresh, Dropped
<1>3. \A t \in Threads : DataOf(t)'
  BY <1>1 DEF AllKept, DataInv, DataOf
<1>4. \A b \in Live' : BlockData(b)'
  BY <1>1, <1>2 DEF AllKept, DataInv, BlockData
<1>5. \A s \in Slots : disk'[s] # Garbage
  BY DEF AllKept, DataInv
<1> QED BY <1>3, <1>4, <1>5 DEF DataInv

\* Every step but a write that fails keeps the data.
LEMMA NextData ==
  Orderly /\ Inv /\ SweptInv /\ DataInv /\ [Next]_vars
  /\ [\A t \in Threads : ~WriteOut(t, FALSE)]_vars
    => DataInv'
<1> SUFFICES ASSUME Orderly, Inv, SweptInv, DataInv, [Next]_vars,
                    [\A t \in Threads : ~WriteOut(t, FALSE)]_vars
             PROVE  DataInv'
  OBVIOUS
<1>1. CASE UNCHANGED vars
  BY <1>1, StillData DEF vars, shared, AllKept
<1>2. CASE ~UNCHANGED vars
  <2>1. PICK t \in Threads :
          \/ \E kind \in Requests, i \in 1 .. NBlocks : Request(t, kind, i)
          \/ \E kind \in {"flush", "close"} : Sweep(t, kind)
          \/ \E n \in NewMaxes : SetCacheMax(t, n)
          \/ OpenBand(t)
          \/ Step(t)
    BY <1>2 DEF Next
  <2>0. Inv' /\ ~WriteOut(t, FALSE)
    BY <1>2, NextInv
  <2>2. CASE \/ \E kind \in Requests, i \in 1 .. NBlocks : Request(t, kind, i)
             \/ \E kind \in {"flush", "close"} : Sweep(t, kind)
    BY <2>0, <2>2, IdleData
  <2>3. CASE \E n \in NewMaxes : SetCacheMax(t, n)
    BY <2>0, <2>3, SettingData
  <2>4. CASE OpenBand(t)
    BY <2>4, StillData DEF OpenBand, AllKept
  <2>5. CASE Step(t)
    <3>1. CASE DestroyBand(t) \/ BandDestroyed(t)
      BY <2>0, <3>1, NothingLeft, DestroyData
    <3>2. CASE \E b \in Blocks : Allocate(t, b)
      BY <2>0, <3>2, AllocateData
    <3>3. CASE \/ LockIfCached(t) \/ Fetch(t) \/ AllocateFails(t) \/ Release(t)
               \/ SweepNext(t) \/ FlushCacheReturns(t)
      BY <2>0, <3>3, IdleData
    <3>4. CASE \/ PickVictim(t) \/ NoVictim(t) \/ EvictionDone(t)
               \/ Adopt(t) \/ AdoptFails(t) \/ TouchAdopted(t)
      <4>1. CASE local[t].kind # "setmax"
        BY <2>0, <3>4, <4>1, FreshData
      <4>2. CASE local[t].kind = "setmax"
        <5>1. ~Adopt(t) /\ ~AdoptFails(t) /\ ~TouchAdopted(t)
          BY <4>2 DEF Adopt, AdoptFails, TouchAdopted, Inv, Control, Flushing
        <5> QED BY <2>0, <3>4, <4>2, <5>1, SettingData
      <4> QED BY <4>1, <4>2
    <3>5. CASE ReadInFails(t) \/ FlushLock(t)
      BY <2>0, <3>5, ToFlushData
    <3>6. CASE Discard(t) \/ ReadIn(t) \/ UseBlock(t)
      BY <2>0, <3>6, MineData
    <3>7. CASE FlushTake(t)
      BY <2>0, <3>7, FlushTakeData
    <3>8. CASE FlushDetach(t) \/ Delete(t) \/ \E ok \in BOOLEAN : WriteOut(t, ok)
      BY <2>0, <3>8, VictimData
    <3> QED BY <2>5, <3>1, <3>2, <3>3, <3>4, <3>5, <3>6, <3>7, <3>8 DEF Step
  <2> QED BY <2>1, <2>2, <2>3, <2>4, <2>5
<1> QED BY <1>1, <1>2

\* Initially no block is in memory.
LEMMA InitData == Init => DataInv
<1> SUFFICES ASSUME Init PROVE DataInv
  OBVIOUS
<1>1. Live = {}
  BY FreeIsCell DEF Init, Live
<1>2. \A t \in Threads : DataOf(t)
  BY DEF Init, DataOf, Fresh, Dropped, Flushing, Idle, Mine
<1>3. \A s \in Slots : disk[s] # Garbage
  BY Constants DEF Init, Garbage
<1> QED BY <1>1, <1>2, <1>3 DEF DataInv
----------------------------------------------------------------------------
\* The refinement mapping of RasterSpec.
Values == [s \in Slots |-> Current(s)]
Results == [t \in Threads |-> local[t].got]

\* What the callers see of a block: the data of the block in memory, if there is
\* one that has been filled, and the file otherwise.
MemoryOrFile ==
  \A s \in Slots :
    /\ \A b \in Live : block[b].at = s /\ block[b].data # Garbage => Current(s) = block[b].data
    /\ (\A b \in Live : block[b].at = s => block[b].data = Garbage) => Current(s) = disk[s]

\* A block of the raster is in memory at most once.
LEMMA CurrentIs == Inv => MemoryOrFile
<1> SUFFICES ASSUME Inv, NEW s \in Slots
             PROVE  /\ \A b \in Live : block[b].at = s /\ block[b].data # Garbage =>
                                         Current(s) = block[b].data
                    /\ (\A b \in Live : block[b].at = s => block[b].data = Garbage) =>
                         Current(s) = disk[s]
  BY DEF MemoryOrFile
<1>1. ASSUME NEW b \in Live, block[b].at = s, block[b].data # Garbage
      PROVE  Current(s) = block[b].data
  <2>1. Loaded(s) = {b}
    BY <1>1 DEF Loaded, Inv, OneBlock
  <2> QED BY <2>1 DEF Current
<1>2. ASSUME \A b \in Live : block[b].at = s => block[b].data = Garbage
      PROVE  Current(s) = disk[s]
  BY <1>2 DEF Current, Loaded
<1> QED BY <1>1, <1>2

\* A step that neither fills nor changes nor frees a filled block, nor writes.
LEMMA CurrentKept ==
  ASSUME Inv, Inv', NEW s \in Slots, disk'[s] = disk[s],
         \A b \in Live : block[b].at = s /\ block[b].data # Garbage =>
           b \in Live' /\ block'[b].at = s /\ block'[b].data = block[b].data,
         \A b \in Live' : block'[b].at = s /\ block'[b].data # Garbage =>
           b \in Live /\ block[b].at = s /\ block[b].data = block'[b].data
  PROVE  Current(s)' = Current(s)
<1>0. MemoryOrFile /\ MemoryOrFile'
  <2>1. Inv' => MemoryOrFile'
    BY CurrentIs, PTL
  <2> QED BY <2>1, CurrentIs
<1>1. CASE \E b \in Live : block[b].at = s /\ block[b].data # Garbage
  <2>1. PICK b \in Live : block[b].at = s /\ block[b].data # Garbage
    BY <1>1
  <2>2. b \in Live' /\ block'[b].at = s /\ block'[b].data = block[b].data
    BY <2>1
  <2> QED BY <1>0, <2>1, <2>2 DEF MemoryOrFile
<1>2. CASE \A b \in Live : block[b].at = s => block[b].data = Garbage
  <2>1. \A b \in Live' : block'[b].at = s => block'[b].data = Garbage
    BY <1>2
  <2> QED BY <1>0, <1>2, <2>1 DEF MemoryOrFile
<1> QED BY <1>1, <1>2

\* No step but UseBlock and Release changes what a caller has in hands.
LEMMA ResultsKept ==
  ASSUME Inv, DataInv, DataInv', NEW t \in Threads, Others(t),
         pc[t] # "used", pc'[t] # "used"
  PROVE  Results' = Results
<1>1. \A u \in Threads : local'[u].got = local[u].got
  <2>1. local'[t].got = NULL /\ local[t].got = NULL
    BY DEF DataInv, DataOf
  <2> QED BY <2>1 DEF Others
<1> QED BY <1>1 DEF Results

\* The steps that do not touch the data of any block, and leave the caller with
\* nothing in hands.
LEMMA SilentSteps ==
  ASSUME Inv, DataInv, Inv', DataInv', NEW t \in Threads,
         \/ \E kind \in Requests, i \in 1 .. NBlocks : Request(t, kind, i)
         \/ \E kind \in {"flush", "close"} : Sweep(t, kind)
         \/ \E n \in NewMaxes : SetCacheMax(t, n)
         \/ LockIfCached(t) \/ Fetch(t) \/ AllocateFails(t)
         \/ PickVictim(t) \/ NoVictim(t) \/ EvictionDone(t)
         \/ Adopt(t) \/ AdoptFails(t) \/ TouchAdopted(t) \/ ReadInFails(t)
         \/ SweepNext(t) \/ FlushCacheReturns(t)
         \/ FlushLock(t) \/ FlushTake(t) \/ FlushDetach(t)
  PROVE  UNCHANGED <<Values, disk, Results>>
<1>1. /\ block \in [Blocks -> Cells] /\ pc \in [Threads -> Places] /\ local \in [Threads -> Locals]
  BY DEF Inv, Typed
<1>2. disk' = disk
  BY DEF Request, Sweep, SetCacheMax, LockIfCached, Fetch, AllocateFails, PickVictim, NoVictim, EvictionDone,
         Adopt, AdoptFails, TouchAdopted, ReadInFails, SweepNext, FlushCacheReturns, FlushLock, FlushTake,
         FlushDetach, shared
<1>3. ASSUME NEW b \in Blocks PROVE block'[b].at = block[b].at /\ block'[b].data = block[b].data
  <2>1. CASE UNCHANGED block
    BY <2>1
  <2>2. CASE LockIfCached(t) \/ FlushLock(t)
    BY <1>1, <2>2 DEF LockIfCached, FlushLock, SafeLock, Cells
  <2>3. CASE EvictionDone(t) \/ AdoptFails(t) \/ ReadInFails(t) \/ FlushDetach(t)
    BY <1>1, <2>3 DEF EvictionDone, AdoptFails, ReadInFails, FlushDetach, Cells
  <2> QED BY <2>1, <2>2, <2>3 DEF Request, Sweep, SetCacheMax, Fetch, AllocateFails, PickVictim, NoVictim,
         Adopt, AdoptFails, TouchAdopted, SweepNext, FlushCacheReturns, FlushTake, shared
<1>4. \A s \in Slots : Current(s)' = Current(s)
  BY <1>2, <1>3, CurrentKept DEF Live
<1>5. Others(t) /\ pc[t] # "used" /\ pc'[t] # "used"
  <2>1. CASE FlushTake(t)
    <3>1. CASE FlushBack(t, FALSE)
      <4>1. pc[t] \in Flushing /\ mutex' = mutex
        BY <2>1 DEF FlushTake, Flushing
      <4> QED BY <2>1, <3>1, <4>1, FlushBackStep DEF FlushTake
    <3>2. CASE ~FlushBack(t, FALSE)
      BY <1>1, <2>1, <3>2 DEF FlushTake, Others
    <3> QED BY <3>1, <3>2
  <2>2. CASE EvictionDone(t)
    BY <1>1, <2>2 DEF EvictionDone, Return, Others
  <2>3. CASE SweepNext(t) \/ Fetch(t)
    BY <1>1, <2>3 DEF SweepNext, SweepOver, Fetch, Others
  <2> QED BY <1>1, <2>1, <2>2, <2>3 DEF Request, Sweep, SetCacheMax, LockIfCached, AllocateFails, PickVictim,
         NoVictim, Evicting, Adopt, AdoptFails, TouchAdopted, ReadInFails, FlushCacheReturns, SweepOver, FlushLock,
         FlushDetach, Goto, Return, Others
<1> QED BY <1>2, <1>4, <1>5, ResultsKept DEF Values

\* A block is allocated empty, filled with what the file has, and freed empty or
\* equal to the file.
LEMMA SilentBlockSteps ==
  ASSUME Inv, DataInv, Inv', DataInv', NEW t \in Threads,
         (\E b \in Blocks : Allocate(t, b)) \/ Discard(t) \/ ReadIn(t) \/ Delete(t)
  PROVE  UNCHANGED <<Values, disk, Results>>
<1>1. /\ block \in [Blocks -> Cells] /\ pc \in [Threads -> Places] /\ local \in [Threads -> Locals]
      /\ Control(t) /\ Place(t) /\ DataOf(t) /\ local[t] \in Locals
  BY DEF Inv, Typed, DataInv
<1>2. disk' = disk
  BY DEF Allocate, Discard, ReadIn, Delete
<1>3. Others(t) /\ pc[t] # "used" /\ pc'[t] # "used"
  <2>1. CASE Delete(t)
    <3>1. pc[t] \in Flushing /\ mutex' = mutex /\ FlushBack(t, local[t].failed)
          /\ local[t].failed \in BOOLEAN /\ pc[t] = "delete"
      BY <1>1, <2>1 DEF Delete, Flushing, Locals
    <3> QED BY <3>1, FlushBackStep
  <2> QED BY <1>1, <2>1 DEF Allocate, Discard, ReadIn, Goto, Return, Others
<1>4. Results' = Results
  BY <1>3, ResultsKept
<1>5. MemoryOrFile /\ MemoryOrFile'
  <2>1. Inv' => MemoryOrFile'
    BY CurrentIs, PTL
  <2> QED BY <2>1, CurrentIs
<1>6. \A b \in Live : block[b].at \in Slots
  BY <1>1 DEF Live, Cells
<1>7. \A s \in Slots : Current(s)' = Current(s)
  <2>1. ASSUME NEW b \in Blocks, Allocate(t, b), NEW s \in Slots PROVE Current(s)' = Current(s)
    <3>1. b \notin Live
      BY <2>1, FreeIsCell DEF Allocate, Live
    <3>2. block'[b].data = Garbage /\ \A c \in Blocks \ {b} : block'[c] = block[c]
      BY <1>1, <2>1 DEF Allocate, Free
    <3> QED BY <1>2, <3>1, <3>2, CurrentKept DEF Live
  <2>2. CASE Discard(t)
    <3>1. Fresh(t) /\ Mine(t) \in Blocks
      BY <1>1, <2>2 DEF Discard, Fresh, Control, Mine, Locals
    <3>2. block[Mine(t)].data = Garbage /\ block'[Mine(t)].data = Garbage
          /\ \A c \in Blocks \ {Mine(t)} : block'[c] = block[c]
      BY <1>1, <2>2, <3>1 DEF Discard, DataOf, Free
    <3> QED BY <1>2, <3>1, <3>2, CurrentKept DEF Live
  <2>3. ASSUME ReadIn(t), NEW s \in Slots PROVE Current(s)' = Current(s)
    <3>1. Fresh(t) /\ Mine(t) \in Blocks /\ mutex # t /\ Mine(t) # NULL
      BY <1>1, <2>3 DEF ReadIn, Fresh, Control, Mine, Locals, Stored, Flushing
    <3>2. PICK b \in Blocks : b = Mine(t)
      BY <3>1
    <3>3. b \in Live /\ block[b].at = Wanted(t) /\ block[b].data = Garbage
          /\ \A c \in Live \ {b} : block[c].at # Wanted(t)
      BY <1>1, <3>1, <3>2, MineHeld DEF DataOf
    <3>4. /\ block'[b].at = block[b].at /\ block'[b].data = disk[Wanted(t)]
          /\ \A c \in Blocks \ {b} : block'[c] = block[c]
      BY <1>1, <2>3, <3>2 DEF ReadIn, Cells
    <3>5. CASE s = Wanted(t)
      <4>1. Current(s) = disk[s]
        BY <1>5, <3>3, <3>5 DEF MemoryOrFile
      <4>2. b \in Live' /\ block'[b].at = s /\ block'[b].data = disk[s] /\ disk[s] # Garbage
        BY <3>3, <3>4, <3>5 DEF Live, DataInv
      <4> QED BY <1>5, <4>1, <4>2 DEF MemoryOrFile
    <3>6. CASE s # Wanted(t)
      BY <1>2, <3>3, <3>4, <3>6, CurrentKept DEF Live
    <3> QED BY <3>5, <3>6
  <2>4. ASSUME Delete(t), NEW s \in Slots PROVE Current(s)' = Current(s)
    <3>1. local[t].victim \in Blocks /\ pc[t] = "delete"
      BY <1>1, <2>4 DEF Delete, Control, Locals
    <3>2. PICK b \in Blocks : b = local[t].victim
      BY <3>1
    <3>3. Holds(t, b) /\ b \in Live /\ BlockData(b) /\ ~block[b].dirty
      BY <1>1, <3>1, <3>2, HeldLive DEF Holds, DataInv, DataOf
    <3>4. ~BeingWritten(b)
      BY <3>1, <3>3 DEF BeingWritten, Inv, OneHolder, Holds
    <3>5. \A c \in Blocks \ {b} : block'[c] = block[c]
      BY <1>1, <2>4, <3>2 DEF Delete
    <3>6. b \notin Live'
      BY <1>1, <2>4, <3>2, FreeIsCell DEF Delete, Live
    <3>7. CASE s = block[b].at /\ block[b].data # Garbage
      <4>1. Current(s) = disk[s]
        BY <1>5, <3>3, <3>4, <3>7 DEF MemoryOrFile, BlockData
      <4>2. \A c \in Live' : block'[c].at # s
        BY <3>3, <3>5, <3>6, <3>7 DEF Live, Inv, OneBlock
      <4> QED BY <1>2, <1>5, <4>1, <4>2 DEF MemoryOrFile
    <3>8. CASE s # block[b].at \/ block[b].data = Garbage
      BY <1>2, <3>3, <3>5, <3>6, <3>8, CurrentKept DEF Live
    <3> QED BY <3>7, <3>8
  <2> QED BY <2>1, <2>2, <2>3, <2>4
<1> QED BY <1>2, <1>4, <1>7 DEF Values

\* The caller reads, modifies or sets its block: here its call takes effect.
LEMMA UseBlockTakesEffect ==
  ASSUME Inv, DataInv, Inv', DataInv', NEW t \in Threads, UseBlock(t)
  PROVE  Register!Next
<1>1. /\ block \in [Blocks -> Cells] /\ pc \in [Threads -> Places] /\ local \in [Threads -> Locals]
      /\ Control(t) /\ Place(t) /\ DataOf(t) /\ local[t] \in Locals /\ pc[t] = "locked"
      /\ local[t].kind \in Requests /\ local[t].i \in 1 .. NBlocks /\ mutex # t
      /\ Mine(t) # NULL /\ local[t].got = NULL
  BY DEF UseBlock, Inv, Typed, DataInv, DataOf, Control, Mine, Stored, Flushing
<1>2. PICK b \in Blocks : b = Mine(t)
  BY <1>1 DEF Mine, Locals
<1>3. /\ b \in Live /\ Holds(t, b) /\ block[b] \in Cells
      /\ block[b].at = Wanted(t) /\ Wanted(t) \in Slots
      /\ \A c \in Live \ {b} : block[c].at # Wanted(t)
  BY <1>1, <1>2, MineHeld
<1>4. MemoryOrFile /\ MemoryOrFile'
  <2>1. Inv' => MemoryOrFile'
    BY CurrentIs, PTL
  <2> QED BY <2>1, CurrentIs
<1>5. local[t].kind # "fill" => Current(Wanted(t)) = block[b].data /\ block[b].data # Garbage
  <2>1. BlockData(b) /\ block[b].at[1] = t
    BY <1>3 DEF DataInv, Wanted
  <2>2. ~Fresh(t) /\ ~Dropped(t)
    BY <1>1 DEF Fresh, Dropped, Flushing
  <2> QED BY <1>1, <1>3, <1>4, <2>1, <2>2 DEF BlockData, Unfilled, MemoryOrFile
<1>6. PICK v : /\ local[t].kind = "read" => v = block[b].data
               /\ local[t].kind = "update" => v = (block[b].data + 1) % NContents
               /\ local[t].kind = "fill" => v = 0
               /\ block' = IF local[t].kind = "read" THEN block
                           ELSE [block EXCEPT ![b].data = v, ![b].dirty = TRUE]
               /\ local' = [local EXCEPT ![t].got = v]
  <2>1. CASE local[t].kind = "read"
    BY <1>2, <2>1 DEF UseBlock
  <2>2. CASE local[t].kind = "update"
    BY <1>2, <2>2 DEF UseBlock
  <2>3. CASE local[t].kind = "fill"
    BY <1>2, <2>3 DEF UseBlock
  <2> QED BY <1>1, <2>1, <2>2, <2>3 DEF Requests
<1>7. /\ block'[b].at = block[b].at /\ block'[b].data = v
      /\ \A c \in Blocks \ {b} : block'[c] = block[c]
      /\ disk' = disk
  <2>1. disk' = disk
    BY DEF UseBlock
  <2>2. CASE local[t].kind = "read"
    BY <1>6, <2>1, <2>2
  <2>3. CASE local[t].kind # "read"
    BY <1>1, <1>3, <1>6, <2>1, <2>3 DEF Cells
  <2> QED BY <2>2, <2>3
<1>8. v # Garbage
  <2>0. block[b].data \in Nat /\ (block[b].data + 1) % NContents \in Contents /\ 0 \in Contents
    BY <1>3, Constants DEF Cells, Contents
  <2>1. Garbage \notin Contents
    BY Constants DEF Garbage, Contents
  <2> QED BY <1>1, <1>5, <1>6, <2>0, <2>1 DEF Requests
<1>9. PICK i \in 1 .. NBlocks : i = local[t].i
  BY <1>1
<1>10. Wanted(t) = <<t, i>> /\ <<t, i>> \in Slots
  BY <1>3, <1>9 DEF Wanted
<1>11. Current(<<t, i>>)' = v
  <2>1. b \in Live' /\ block'[b].at = <<t, i>>
    BY <1>3, <1>7, <1>10 DEF Live
  <2> QED BY <1>4, <1>7, <1>8, <1>10, <2>1 DEF MemoryOrFile
<1>12. ASSUME NEW s \in Slots, s # <<t, i>> PROVE Current(s)' = Current(s)
  BY <1>3, <1>7, <1>10, <1>12, CurrentKept DEF Live
<1>13. Values' = [Values EXCEPT ![<<t, i>>] = v]
  BY <1>10, <1>11, <1>12 DEF Values
<1>14. Results' = [Results EXCEPT ![t] = v] /\ Results[t] = NULL
  BY <1>1, <1>6 DEF Results, Locals
<1>15. local[t].kind # "fill" => Values[<<t, i>>] = block[b].data
  BY <1>5, <1>10 DEF Values
<1>16. Register!Read(t, i) \/ Register!Update(t, i) \/ Register!Overwrite(t, i)
  <2>1. CASE local[t].kind = "read"
    <3>1. v = Values[<<t, i>>]
      BY <1>6, <1>15, <2>1
    <3> QED BY <1>7, <1>13, <1>14, <3>1 DEF Register!Read, Register!TakeEffect, Values, Results
  <2>2. CASE local[t].kind = "update"
    <3>1. v = (Values[<<t, i>>] + 1) % NContents
      BY <1>6, <1>15, <2>2
    <3> QED BY <1>7, <1>13, <1>14, <3>1 DEF Register!Update, Register!TakeEffect, Values, Results
  <2>3. CASE local[t].kind = "fill"
    BY <1>6, <1>7, <1>13, <1>14, <2>3 DEF Register!Overwrite, Register!TakeEffect, Values, Results
  <2> QED BY <1>1, <2>1, <2>2, <2>3 DEF Requests
<1> QED BY <1>16 DEF Register!Next

\* The caller drops its lock: its call returns.
LEMMA ReleaseReturns ==
  ASSUME Inv, DataInv, Inv', DataInv', NEW t \in Threads, Release(t)
  PROVE  Register!Next
<1>1. /\ block \in [Blocks -> Cells] /\ local \in [Threads -> Locals]
  BY DEF Inv, Typed
<1>2. \A b \in Blocks : block'[b].at = block[b].at /\ block'[b].data = block[b].data
  BY <1>1 DEF Release, Cells
<1>3. disk' = disk /\ local' = [local EXCEPT ![t] = Idle]
  BY DEF Release, Return
<1>4. \A s \in Slots : Current(s)' = Current(s)
  BY <1>2, <1>3, CurrentKept DEF Live
<1>5. Values' = Values
  BY <1>4 DEF Values
<1>6. Results' = [Results EXCEPT ![t] = NULL]
  BY <1>1, <1>3 DEF Results, Idle
<1>7. Register!Return(t)
  BY <1>3, <1>5, <1>6 DEF Register!Return, Values, Results
<1> QED BY <1>7 DEF Register!Next

\* IWriteBlock stores what the callers see, although the block has left papoBlocks.
LEMMA WriteOutStores ==
  ASSUME Inv, DataInv, Inv', DataInv', NEW t \in Threads, WriteOut(t, TRUE)
  PROVE  Register!Next
<1>0. /\ disk \in [Slots -> Nat] /\ local \in [Threads -> Locals] /\ pc \in [Threads -> Places]
      /\ Control(t) /\ Place(t) /\ DataOf(t) /\ local[t] \in Locals /\ pc[t] = "writing"
  BY DEF WriteOut, Inv, Typed, DataInv
<1>1. local[t].victim \in Blocks /\ local[t].target \in Slots
  BY <1>0 DEF Control, Flushing, Locals
<1>2. PICK b \in Blocks, s \in Slots : b = local[t].victim /\ s = local[t].target
  BY <1>1
<1>3. b \in Live /\ block[b].at = s /\ block[b].data # Garbage
  <2>1. Holds(t, b)
    BY <1>2 DEF Holds
  <2> QED BY <1>0, <1>1, <1>2, <2>1, HeldLive, Constants DEF Place, DataOf
<1>4. MemoryOrFile /\ MemoryOrFile'
  <2>1. Inv' => MemoryOrFile'
    BY CurrentIs, PTL
  <2> QED BY <2>1, CurrentIs
<1>5. block' = block /\ disk' = [disk EXCEPT ![s] = block[b].data] /\ Live' = Live
  BY <1>2 DEF WriteOut, Live
<1>6. Current(s) = block[b].data /\ Current(s)' = block[b].data
  <2>1. b \in Live' /\ block'[b].at = s /\ block'[b].data = block[b].data
    BY <1>3, <1>5
  <2> QED BY <1>3, <1>4, <2>1 DEF MemoryOrFile
<1>7. ASSUME NEW r \in Slots, r # s PROVE Current(r)' = Current(r)
  BY <1>0, <1>5, <1>7, CurrentKept
<1>8. Values' = Values /\ disk' = [disk EXCEPT ![s] = Values[s]]
  BY <1>5, <1>6, <1>7 DEF Values
<1>9. Results' = Results
  <2>1. Others(t) /\ pc'[t] # "used"
    BY <1>0 DEF WriteOut, Others
  <2> QED BY <1>0, <2>1, ResultsKept
<1>10. Register!Store(s)
  BY <1>8, <1>9 DEF Register!Store, Values, Results
<1> QED BY <1>10 DEF Register!Next, Register!Slots, Slots

\* Every step but a write that fails is one of the registers, or none.
LEMMA StepMaps ==
  Orderly /\ Inv /\ SweptInv /\ DataInv /\ [Next]_vars
  /\ [\A t \in Threads : ~WriteOut(t, FALSE)]_vars
    => [Register!Next]_<<Values, disk, Results>>
<1> SUFFICES ASSUME Orderly, Inv, SweptInv, DataInv, [Next]_vars,
                    [\A t \in Threads : ~WriteOut(t, FALSE)]_vars
             PROVE  Register!Next \/ UNCHANGED <<Values, disk, Results>>
  OBVIOUS
<1>1. CASE UNCHANGED vars
  BY <1>1 DEF vars, shared, Values, Results, Current, Loaded, Live
<1>2. CASE ~UNCHANGED vars
  <2>1. PICK t \in Threads :
          \/ \E kind \in Requests, i \in 1 .. NBlocks : Request(t, kind, i)
          \/ \E kind \in {"flush", "close"} : Sweep(t, kind)
          \/ \E n \in NewMaxes : SetCacheMax(t, n)
          \/ OpenBand(t)
          \/ Step(t)
    BY <1>2 DEF Next
  <2>0. Inv' /\ DataInv' /\ ~WriteOut(t, FALSE)
    BY <1>2, NextInv, NextData
  <2>2. CASE \/ \E kind \in Requests, i \in 1 .. NBlocks : Request(t, kind, i)
             \/ \E kind \in {"flush", "close"} : Sweep(t, kind)
    BY <2>0, <2>2, SilentSteps
  <2>3. CASE \E n \in NewMaxes : SetCacheMax(t, n)
    BY <2>0, <2>3, SilentSteps
  <2>4. CASE OpenBand(t)
    BY <2>4 DEF OpenBand, Values, Results, Current, Loaded, Live
  <2>5. CASE Step(t)
    <3>1. CASE DestroyBand(t) \/ BandDestroyed(t)
      <4>1. /\ Others(t) /\ pc[t] = "sweep" /\ pc'[t] \in {"idle", "sweep"}
            /\ UNCHANGED <<block, disk>>
        BY <3>1, NothingLeft, SweepEnds
      <4>2. Results' = Results
        BY <2>0, <4>1, ResultsKept
      <4> QED BY <4>1, <4>2 DEF Values, Current, Loaded, Live
    <3>2. CASE \/ LockIfCached(t) \/ Fetch(t) \/ AllocateFails(t)
               \/ PickVictim(t) \/ NoVictim(t) \/ EvictionDone(t)
               \/ Adopt(t) \/ AdoptFails(t) \/ TouchAdopted(t) \/ ReadInFails(t)
               \/ SweepNext(t) \/ FlushCacheReturns(t)
               \/ FlushLock(t) \/ FlushTake(t) \/ FlushDetach(t)
      BY <2>0, <3>2, SilentSteps
    <3>3. CASE (\E b \in Blocks : Allocate(t, b)) \/ Discard(t) \/ ReadIn(t) \/ Delete(t)
      BY <2>0, <3>3, SilentBlockSteps
    <3>4. CASE UseBlock(t)
      BY <2>0, <3>4, UseBlockTakesEffect
    <3>5. CASE Release(t)
      BY <2>0, <3>5, ReleaseReturns
    <3>6. CASE \E ok \in BOOLEAN : WriteOut(t, ok)
      BY <2>0, <3>6, WriteOutStores
    <3> QED BY <2>5, <3>1, <3>2, <3>3, <3>4, <3>5, <3>6 DEF Step
  <2> QED BY <2>1, <2>2, <2>3, <2>4, <2>5
<1> QED BY <1>1, <1>2

\* A register starts with what the file has, and no call has a result.
LEMMA InitMaps == Init => Register!Init
<1> SUFFICES ASSUME Init PROVE Register!Init
  OBVIOUS
<1>1. Live = {}
  BY FreeIsCell DEF Init, Live
<1>2. \A s \in Slots : Current(s) = 0
  BY <1>1 DEF Init, Current, Loaded
<1> QED BY <1>2 DEF Init, Idle, Register!Init, Register!Slots, Slots

\* Every block behaves as one register, whatever is evicted, written and read
\* again meanwhile and whatever reads and allocations fail, unless a write of
\* the driver fails: only that loses data.
THEOREM RasterSpecHolds ==
  Orderly => (Spec /\ [][\A t \in Threads : ~WriteOut(t, FALSE)]_vars => RasterSpec)
<1>1. ASSUME Orderly
      PROVE  Spec /\ [][\A t \in Threads : ~WriteOut(t, FALSE)]_vars => RasterSpec
  <2>1. Inv /\ SweptInv /\ DataInv /\ [Next]_vars /\ [\A t \in Threads : ~WriteOut(t, FALSE)]_vars
          => DataInv'
    BY <1>1, NextData
  <2>2. Inv /\ SweptInv /\ DataInv /\ [Next]_vars /\ [\A t \in Threads : ~WriteOut(t, FALSE)]_vars
          => [Register!Next]_<<[s \in Slots |-> Current(s)], disk, [t \in Threads |-> local[t].got]>>
    BY <1>1, StepMaps DEF Values, Results
  <2>3. Spec => []Inv /\ []SweptInv
    BY <1>1, CacheInvariance
  <2> QED BY <2>1, <2>2, <2>3, InitData, InitMaps, PTL DEF Spec, RasterSpec, Register!Spec
<1> QED BY <1>1

\* In particular when the driver never fails.
THEOREM RasterSpecWithoutFailures == Orderly /\ ~IOFails => (Spec => RasterSpec)
<1>1. ASSUME Orderly, ~IOFails PROVE Spec => RasterSpec
  <2>1. SweptInv => [\A t \in Threads : ~WriteOut(t, FALSE)]_vars
    BY <1>1 DEF WriteOut, SweptInv, Swept
  <2>2. Spec => []SweptInv
    BY <1>1, CacheInvariance
  <2>3. Spec /\ [][\A t \in Threads : ~WriteOut(t, FALSE)]_vars => RasterSpec
    BY <1>1, RasterSpecHolds
  <2> QED BY <2>1, <2>2, <2>3, PTL
<1> QED BY <1>1
----------------------------------------------------------------------------
\* When FlushCache returns without error, a block of its band that differs from
\* the file is one that another thread is evicting.
FlushedOrEvicted ==
  \A t \in Threads :
    FlushCacheReturns(t) /\ ~local[t].failed =>
      \A i \in 1 .. NBlocks :
        \/ Current(<<t, i>>) = disk[<<t, i>>]
        \/ \E u \in Threads \ {t} : local[u].victim # NULL /\ local[u].target = <<t, i>>

\* A block in memory is in its slot or another thread is evicting it, when the
\* thread of its band is between two blocks of a sweep, sets the limit or does
\* nothing.
LEMMA InSlotOrEvicted ==
  ASSUME Inv, NEW b \in Live, slot[block[b].at] = NULL,
         \/ pc[block[b].at[1]] \in {"idle", "sweep"}
         \/ pc[block[b].at[1]] = "evict" /\ local[block[b].at[1]].kind = "setmax"
  PROVE  \E u \in Threads \ {block[b].at[1]} :
           local[u].victim = b /\ local[u].target = block[b].at
<1> DEFINE s == block[b].at
<1>0. b \in Blocks /\ b # NULL /\ s \in Slots /\ s[1] \in Threads
  BY Constants DEF Live, Inv, Typed, Cells
<1>1. PICK u \in Threads : Holds(u, b)
  BY <1>0 DEF Inv, UnheldStored
<1>2. Control(u) /\ Place(u) /\ SlotsAgree
  BY DEF Inv
<1>3. CASE Mine(u) = b
  <2>1. s = Wanted(u)
    BY <1>0, <1>2, <1>3 DEF Place
  <2>2. u = s[1]
    BY <2>1 DEF Wanted
  <2> QED BY <1>0, <1>2, <1>3, <2>2 DEF Control, Flushing, Stored
<1>4. CASE local[u].victim = b
  <2>1. local[u].target = s
    BY <1>0, <1>2, <1>4 DEF Place
  <2>2. u # s[1]
    BY <1>0, <1>2, <1>4 DEF Control
  <2> QED BY <1>4, <2>1, <2>2
<1>5. CASE pc[u] = "fetch" /\ slot[Wanted(u)] = b
  <2>1. Wanted(u) \in Slots
    BY <1>2, <1>5, Constants DEF Control, Wanted, Requests
  <2> QED BY <1>0, <1>2, <1>5, <2>1 DEF SlotsAgree
<1>6. CASE pc[u] = "flushtake" /\ slot[local[u].target] = b
  <2>1. local[u].target \in Slots
    BY <1>2, <1>6 DEF Control, Flushing
  <2> QED BY <1>0, <1>2, <1>6, <2>1 DEF SlotsAgree
<1> QED BY <1>1, <1>3, <1>4, <1>5, <1>6 DEF Holds

\* After a sweep the slots of the band are empty.
LEMMA SweptFlushed == Inv /\ SweptInv => FlushedOrEvicted
<1> SUFFICES ASSUME Inv, SweptInv, NEW t \in Threads, FlushCacheReturns(t), ~local[t].failed,
                    NEW i \in 1 .. NBlocks,
                    \A u \in Threads \ {t} :
                      ~(local[u].victim # NULL /\ local[u].target = <<t, i>>)
             PROVE  Current(<<t, i>>) = disk[<<t, i>>]
  BY DEF FlushedOrEvicted
<1>1. PICK s : s = <<t, i>>
  OBVIOUS
<1>2. s \in Slots /\ s[1] = t /\ pc[t] = "sweep"
  BY <1>1 DEF Slots, FlushCacheReturns, SweepOver
<1>3. slot[s] = NULL
  BY <1>1, SweptOver DEF FlushCacheReturns, Sweeps
<1>4. \A b \in Live : block[b].at # s
  <2> SUFFICES ASSUME NEW b \in Live, block[b].at = s PROVE FALSE
    OBVIOUS
  <2>1. PICK u \in Threads \ {t} : local[u].victim = b /\ local[u].target = s
    BY <1>2, <1>3, InSlotOrEvicted
  <2>2. b # NULL
    BY Constants DEF Live
  <2> QED BY <1>1, <2>1, <2>2
<1> QED BY <1>1, <1>2, <1>4, CurrentIs DEF MemoryOrFile

\* FlushCache, when it returns without error, has everything written through the
\* band in the file, but for what other threads are evicting at that moment.
THEOREM FlushedOrEvictedHolds == Orderly => (Spec => [][FlushedOrEvicted]_vars)
<1>1. ASSUME Orderly PROVE Spec => [][FlushedOrEvicted]_vars
  <2>1. Inv /\ SweptInv => [FlushedOrEvicted]_vars
    BY SweptFlushed
  <2>2. Spec => []Inv /\ []SweptInv
    BY <1>1, CacheInvariance
  <2> QED BY <2>1, <2>2, PTL
<1> QED BY <1>1

\* In a process of one thread everything is in the file.
THEOREM FlushStoresHolds ==
  Orderly /\ (\A t, u \in Threads : t = u) => (Spec => FlushStores)
<1>1. ASSUME Orderly, \A t, u \in Threads : t = u PROVE Spec => FlushStores
  <2>1. [FlushedOrEvicted]_vars
          => [\A t \in Threads : FlushCacheReturns(t) /\ ~local[t].failed =>
                \A i \in 1 .. NBlocks : Current(<<t, i>>) = disk[<<t, i>>]]_vars
    BY <1>1 DEF FlushedOrEvicted
  <2>2. Spec => [][FlushedOrEvicted]_vars
    BY <1>1, FlushedOrEvictedHolds
  <2> QED BY <2>1, <2>2, PTL DEF FlushStores
<1> QED BY <1>1
\* A block of a band that does not exist any more is one that another thread is
\* evicting: its IWriteBlock and its destructor use the deleted band.
ClosedOrEvicted ==
  \A b \in Live : block[b].at[1] \notin open =>
    \E u \in Threads \ {block[b].at[1]} :
      local[u].victim = b /\ local[u].target = block[b].at

\* When no write fails, a band that is destroyed leaves nothing in memory but what
\* another thread is evicting at that moment.
THEOREM ClosedOrEvictedHolds == Orderly => (Spec => []ClosedOrEvicted)
<1>1. Inv /\ SweptInv => ClosedOrEvicted
  <2> SUFFICES ASSUME Inv, SweptInv, NEW b \in Live, block[b].at[1] \notin open
               PROVE  \E u \in Threads \ {block[b].at[1]} :
                        local[u].victim = b /\ local[u].target = block[b].at
    BY DEF ClosedOrEvicted
  <2>1. PICK s \in Slots : s = block[b].at
    BY DEF Live, Inv, Typed, Cells
  <2>2. s[1] \in Threads /\ s = <<s[1], s[2]>> /\ s[2] \in 1 .. NBlocks
    BY DEF Slots
  <2>3. /\ slot[<<s[1], s[2]>>] = NULL
        /\ pc[s[1]] = "idle" \/ (pc[s[1]] = "evict" /\ local[s[1]].kind = "setmax")
    BY <2>1, <2>2 DEF SweptInv, Swept
  <2>4. slot[s] = NULL
    BY <2>2, <2>3
  <2> QED BY <2>1, <2>3, <2>4, InSlotOrEvicted
<1> QED BY <1>1, CacheInvariance, PTL

\* In a process of one thread it leaves nothing in the list.
THEOREM ClosedBandLeavesNoBlockHolds ==
  Orderly /\ (\A t, u \in Threads : t = u) => (Spec => []ClosedBandLeavesNoBlock)
<1>1. ASSUME Orderly, \A t, u \in Threads : t = u PROVE Spec => []ClosedBandLeavesNoBlock
  <2>1. Inv /\ ClosedOrEvicted => ClosedBandLeavesNoBlock
    <3> SUFFICES ASSUME Inv, ClosedOrEvicted, NEW b \in Elements(order)
                 PROVE  block[b].at[1] \in open
      BY DEF ClosedBandLeavesNoBlock
    <3>1. b \in Live
      BY DEF Inv
    <3>2. block[b].at[1] \in Threads
      BY <3>1, Constants DEF Live, Inv, Typed, Cells
    <3> QED BY <1>1, <3>1, <3>2 DEF ClosedOrEvicted
  <2> QED BY <1>1, <2>1, CacheInvariance, ClosedOrEvictedHolds, PTL
<1> QED BY <1>1
----------------------------------------------------------------------------
\* The pointers of the list: Touch and Detach realise the operators of LruSeq.

\* The pointer that leads nowhere is no block.
LEMMA NullAssumption == NULL \notin Blocks
BY CacheAssumption

Item(s, i) == IF i \in DOMAIN s THEN s[i] ELSE NULL

\* The four pointers spell the list s (LinksMatchOrder for any values).
Spells(newest, oldest, next, previous, s) ==
  /\ s \in Seq(Blocks) /\ NoDuplicates(s)
  /\ next \in [Blocks -> Blocks \cup {NULL}]
  /\ previous \in [Blocks -> Blocks \cup {NULL}]
  /\ newest = Item(s, 1) /\ oldest = Item(s, Len(s))
  /\ \A i \in 1 .. Len(s) : /\ next[s[i]] = Item(s, i + 1)
                            /\ previous[s[i]] = Item(s, i - 1)
  /\ \A b \in Blocks \ Elements(s) : next[b] = NULL /\ previous[b] = NULL

\* Only listed blocks are pointed to.
LEMMA PointedAt ==
  ASSUME NEW newest, NEW oldest, NEW next, NEW previous, NEW s,
         Spells(newest, oldest, next, previous, s), NEW b \in Blocks
  PROVE  /\ next[b] \in Elements(s) \cup {NULL}
         /\ previous[b] \in Elements(s) \cup {NULL}
         /\ {newest, oldest} \subseteq Elements(s) \cup {NULL}
<1>1. \A i : Item(s, i) \in Elements(s) \cup {NULL}
  BY DEF Item, Elements
<1>2. CASE b \in Elements(s)
  <2>1. PICK i \in 1 .. Len(s) : s[i] = b
    BY <1>2, ElementsType DEF Spells
  <2> QED BY <2>1, <1>1 DEF Spells
<1>3. CASE b \notin Elements(s)
  BY <1>1, <1>3 DEF Spells
<1> QED BY <1>2, <1>3

\* Unlinking a listed block leaves pointers that spell the list without it.
LEMMA Unlink ==
  ASSUME NEW newest, NEW oldest, NEW next, NEW previous, NEW s,
         Spells(newest, oldest, next, previous, s), NEW b \in Elements(s)
  PROVE  Spells(IF newest = b THEN next[b] ELSE newest,
                IF oldest = b THEN previous[b] ELSE oldest,
                [c \in Blocks |-> IF c = b THEN NULL
                                  ELSE IF c = previous[b] THEN next[b] ELSE next[c]],
                [c \in Blocks |-> IF c = b THEN NULL
                                  ELSE IF c = next[b] THEN previous[b] ELSE previous[c]],
                Without(s, b))
<1> DEFINE w == Without(s, b)
           nx == [c \in Blocks |-> IF c = b THEN NULL
                                   ELSE IF c = previous[b] THEN next[b] ELSE next[c]]
           pv == [c \in Blocks |-> IF c = b THEN NULL
                                   ELSE IF c = next[b] THEN previous[b] ELSE previous[c]]
<1>1. /\ s \in Seq(Blocks) /\ NoDuplicates(s) /\ b \in Blocks
      /\ next \in [Blocks -> Blocks \cup {NULL}]
      /\ previous \in [Blocks -> Blocks \cup {NULL}]
  BY ElementsType DEF Spells
<1>2. PICK k \in 1 .. Len(s) :
        /\ s[k] = b
        /\ w \in Seq(Blocks) /\ Len(w) = Len(s) - 1
        /\ \A j \in 1 .. Len(s) - 1 : w[j] = IF j < k THEN s[j] ELSE s[j + 1]
  BY <1>1, WithoutAt
<1>3. NoDuplicates(w) /\ Elements(w) = Elements(s) \ {b}
  BY <1>1, WithoutProperties
<1> HIDE DEF w
<1>4. next[b] = Item(s, k + 1) /\ previous[b] = Item(s, k - 1)
  BY <1>2 DEF Spells
<1>5. \A i, j \in 1 .. Len(s) : s[i] = s[j] => i = j
  BY DEF Spells, NoDuplicates
<1>6. DOMAIN s = 1 .. Len(s) /\ DOMAIN w = 1 .. Len(s) - 1 /\ Len(s) \in Nat
  BY <1>1, <1>2
<1>7. \A i \in 1 .. Len(s) : s[i] \in Blocks /\ s[i] # NULL
  BY <1>1, NullAssumption
<1>8. \A i \in 1 .. Len(s) : /\ next[s[i]] = Item(s, i + 1)
                             /\ previous[s[i]] = Item(s, i - 1)
  BY DEF Spells
<1>9. ASSUME NEW j \in 1 .. Len(s) - 1
      PROVE  nx[w[j]] = Item(w, j + 1) /\ pv[w[j]] = Item(w, j - 1)
  <2> DEFINE i == IF j < k THEN j ELSE j + 1
  <2>1. i \in 1 .. Len(s) /\ w[j] = s[i] /\ i # k
    BY <1>2
  <2>2. s[i] # b /\ s[i] \in Blocks
    BY <2>1, <1>2, <1>5, <1>7
  <2>3. nx[s[i]] = IF i + 1 = k THEN Item(s, k + 1) ELSE Item(s, i + 1)
    <3>1. s[i] = previous[b] <=> i + 1 = k
      <4>1. k = 1 => previous[b] = NULL
        BY <1>4 DEF Item
      <4>2. k # 1 => k - 1 \in 1 .. Len(s) /\ previous[b] = s[k - 1]
        BY <1>2, <1>4, <1>6 DEF Item
      <4>3. i \in Nat /\ k \in Nat /\ 1 <= i
        BY <1>2, <1>6, <2>1
      <4> QED BY <1>5, <1>7, <2>1, <4>1, <4>2, <4>3
    <3> QED BY <3>1, <2>2, <2>1, <1>8, <1>4
  <2>4. pv[s[i]] = IF i - 1 = k THEN Item(s, k - 1) ELSE Item(s, i - 1)
    <3>1. s[i] = next[b] <=> i - 1 = k
      <4>1. CASE k = Len(s)
        BY <4>1, <1>4, <1>6, <1>7, <2>1 DEF Item
      <4>2. CASE k # Len(s)
        <5>1. k + 1 \in 1 .. Len(s) /\ next[b] = s[k + 1]
          BY <4>2, <1>2, <1>4, <1>6 DEF Item
        <5>2. i = k + 1 <=> i - 1 = k
          BY <2>1
        <5> QED BY <5>1, <5>2, <1>5, <2>1
      <4> QED BY <4>1, <4>2
    <3> QED BY <3>1, <2>2, <2>1, <1>8, <1>4
  <2>5. Item(w, j + 1) = IF i + 1 = k THEN Item(s, k + 1) ELSE Item(s, i + 1)
    BY <1>2, <1>6 DEF Item
  <2>6. Item(w, j - 1) = IF i - 1 = k THEN Item(s, k - 1) ELSE Item(s, i - 1)
    BY <1>2, <1>6 DEF Item
  <2> QED BY <2>1, <2>3, <2>4, <2>5, <2>6
<1>10. ASSUME NEW c \in Blocks \ Elements(w)
       PROVE  nx[c] = NULL /\ pv[c] = NULL
  <2>1. CASE c = b
    BY <2>1
  <2>2. CASE c # b
    <3>1. c \notin Elements(s) /\ next[c] = NULL /\ previous[c] = NULL
      BY <1>3, <2>2 DEF Spells
    <3>2. c # previous[b] /\ c # next[b]
      BY <3>1, <1>1, PointedAt, NullAssumption
    <3> QED BY <3>1, <3>2, <2>2
  <2> QED BY <2>1, <2>2
<1>11. (IF newest = b THEN next[b] ELSE newest) = Item(w, 1)
  <2>1. newest = b <=> k = 1
    BY <1>2, <1>5, <1>6 DEF Spells, Item
  <2> QED BY <2>1, <1>2, <1>4, <1>6 DEF Spells, Item
<1>12. (IF oldest = b THEN previous[b] ELSE oldest) = Item(w, Len(w))
  <2>1. oldest = b <=> k = Len(s)
    BY <1>2, <1>5, <1>6 DEF Spells, Item
  <2> QED BY <2>1, <1>2, <1>4, <1>6 DEF Spells, Item
<1>13. nx \in [Blocks -> Blocks \cup {NULL}] /\ pv \in [Blocks -> Blocks \cup {NULL}]
  BY <1>1
<1> QED
  <2> HIDE DEF nx, pv
  <2> SUFFICES Spells(IF newest = b THEN next[b] ELSE newest,
                      IF oldest = b THEN previous[b] ELSE oldest, nx, pv, w)
    BY DEF nx, pv, w
  <2> QED BY <1>2, <1>3, <1>9, <1>10, <1>11, <1>12, <1>13 DEF Spells

\* Pushing an unlisted block in front of the newest one.
LEMMA Push ==
  ASSUME NEW newest, NEW oldest, NEW next, NEW previous, NEW s,
         Spells(newest, oldest, next, previous, s), NEW b \in Blocks \ Elements(s)
  PROVE  Spells(b, IF oldest = NULL THEN b ELSE oldest,
                [next EXCEPT ![b] = newest],
                [c \in Blocks |-> IF c = newest THEN b ELSE previous[c]],
                <<b>> \o s)
<1> DEFINE m == <<b>> \o s
           nx == [next EXCEPT ![b] = newest]
           pv == [c \in Blocks |-> IF c = newest THEN b ELSE previous[c]]
<1>1. /\ s \in Seq(Blocks) /\ NoDuplicates(s)
      /\ next \in [Blocks -> Blocks \cup {NULL}]
      /\ previous \in [Blocks -> Blocks \cup {NULL}]
      /\ next[b] = NULL /\ previous[b] = NULL
  BY DEF Spells
<1>2. /\ m \in Seq(Blocks) /\ Len(m) = Len(s) + 1 /\ Len(s) \in Nat
      /\ \A j \in 1 .. Len(s) + 1 : m[j] = IF j = 1 THEN b ELSE s[j - 1]
  BY <1>1
<1>3. Without(s, b) = s
  BY DEF Without
<1>4. Elements(m) = Elements(s) \cup {b} /\ NoDuplicates(m)
  BY <1>1, <1>3, MoveToFrontProperties DEF MoveToFront
<1> HIDE DEF m
<1>5. DOMAIN s = 1 .. Len(s) /\ DOMAIN m = 1 .. Len(s) + 1
  BY <1>1, <1>2
<1>6. \A i \in 1 .. Len(s) : s[i] \in Blocks /\ s[i] # NULL /\ s[i] # b
  BY <1>1, NullAssumption, ElementsType
<1>7. \A i, j \in 1 .. Len(s) : s[i] = s[j] => i = j
  BY <1>1 DEF NoDuplicates
<1>8. newest = Item(s, 1) /\ oldest = Item(s, Len(s))
  BY DEF Spells
<1>9. ASSUME NEW j \in 1 .. Len(s) + 1
      PROVE  nx[m[j]] = Item(m, j + 1) /\ pv[m[j]] = Item(m, j - 1)
  <2>1. CASE j = 1
    <3>1. m[j] = b /\ Item(m, j - 1) = NULL /\ Item(m, j + 1) = Item(s, 1)
      BY <2>1, <1>2, <1>5 DEF Item
    <3>2. newest # b
      BY <1>5, <1>6, <1>8, NullAssumption DEF Item
    <3> QED BY <3>1, <3>2, <1>1, <1>8
  <2>2. CASE j # 1
    <3>1. j - 1 \in 1 .. Len(s) /\ m[j] = s[j - 1] /\ m[j] # b /\ m[j] \in Blocks
      BY <2>2, <1>2, <1>6
    <3>2. next[s[j - 1]] = Item(s, j) /\ previous[s[j - 1]] = Item(s, j - 2)
      BY <3>1 DEF Spells
    <3>3. Item(m, j + 1) = Item(s, j)
      BY <2>2, <1>2, <1>5 DEF Item
    <3>4. s[j - 1] = newest <=> j = 2
      BY <3>1, <1>5, <1>7, <1>8, <1>6 DEF Item
    <3>5. Item(m, j - 1) = IF j = 2 THEN b ELSE Item(s, j - 2)
      BY <2>2, <1>2, <1>5 DEF Item
    <3> QED BY <3>1, <3>2, <3>3, <3>4, <3>5, <1>1
  <2> QED BY <2>1, <2>2
<1>10. ASSUME NEW c \in Blocks \ Elements(m)
       PROVE  nx[c] = NULL /\ pv[c] = NULL
  <2>1. c # b /\ c \notin Elements(s) /\ next[c] = NULL /\ previous[c] = NULL
    BY <1>4 DEF Spells
  <2>2. c # newest
    BY <2>1, PointedAt, NullAssumption
  <2> QED BY <2>1, <2>2, <1>1
<1>11. b = Item(m, 1) /\ (IF oldest = NULL THEN b ELSE oldest) = Item(m, Len(m))
  <2>1. oldest = NULL <=> Len(s) = 0
    BY <1>2, <1>5, <1>6, <1>8 DEF Item
  <2> QED BY <2>1, <1>2, <1>5, <1>8 DEF Item
<1>12. nx \in [Blocks -> Blocks \cup {NULL}] /\ pv \in [Blocks -> Blocks \cup {NULL}]
  <2>1. newest \in Blocks \cup {NULL}
    BY <1>5, <1>6, <1>8 DEF Item
  <2> QED BY <2>1, <1>1
<1> QED
  <2> HIDE DEF nx, pv
  <2> SUFFICES Spells(b, IF oldest = NULL THEN b ELSE oldest, nx, pv, m)
    BY DEF nx, pv, m
  <2> QED BY <1>2, <1>4, <1>9, <1>10, <1>11, <1>12 DEF Spells

\* The invariant of the proof is at least as strong as the one TLC checks.
LEMMA SpellsIsListInv ==
  ListInv <=> Spells(poNewest, poOldest, poNext, poPrevious, order)
<1>1. order \in Seq(Blocks) => DOMAIN order = 1 .. Len(order)
  OBVIOUS
<1> QED BY <1>1 DEF ListInv, LinksMatchOrder, At, Spells, Item

\* Detaching an unlisted block changes nothing, as ~GDALRasterBlock relies on.
LEMMA UnlinkUnlisted ==
  ASSUME ListInv, NEW b \in Blocks \ Elements(order)
  PROVE  /\ poNewest # b /\ poOldest # b
         /\ NextWithout(b) = poNext /\ PreviousWithout(b) = poPrevious
         /\ Without(order, b) = order
<1>1. /\ poNext[b] = NULL /\ poPrevious[b] = NULL
      /\ poNext \in [Blocks -> Blocks \cup {NULL}]
      /\ poPrevious \in [Blocks -> Blocks \cup {NULL}]
  BY DEF ListInv, LinksMatchOrder
<1>2. poNewest # b /\ poOldest # b
  BY SpellsIsListInv, PointedAt, NullAssumption
<1>3. NextWithout(b) = poNext
  BY <1>1, NullAssumption DEF NextWithout
<1>4. PreviousWithout(b) = poPrevious
  BY <1>1, NullAssumption DEF PreviousWithout
<1> QED BY <1>2, <1>3, <1>4 DEF Without

\* The pointers after unlinking b, listed or not.
LEMMA Unlinked ==
  ASSUME ListInv, NEW b \in Blocks
  PROVE  Spells(IF poNewest = b THEN poNext[b] ELSE poNewest,
                IF poOldest = b THEN poPrevious[b] ELSE poOldest,
                NextWithout(b), PreviousWithout(b), Without(order, b))
<1>1. Spells(poNewest, poOldest, poNext, poPrevious, order)
  BY SpellsIsListInv
<1>2. CASE b \in Elements(order)
  BY <1>1, <1>2, Unlink DEF NextWithout, PreviousWithout
<1>3. CASE b \notin Elements(order)
  BY <1>1, <1>3, UnlinkUnlisted
<1> QED BY <1>2, <1>3

\* A newest block that is touched stays where it is.
LEMMA TouchNewest ==
  ASSUME ListInv, NEW b \in Blocks, poNewest = b
  PROVE  MoveToFront(order, b) = order
<1> DEFINE w == Without(order, b)
<1>1. order \in Seq(Blocks) /\ NoDuplicates(order) /\ Len(order) >= 1 /\ order[1] = b
  BY NullAssumption DEF ListInv, LinksMatchOrder, At
<1>2. b \in Elements(order)
  BY <1>1, ElementsType
<1>3. PICK k \in 1 .. Len(order) :
        /\ order[k] = b
        /\ w \in Seq(Blocks) /\ Len(w) = Len(order) - 1
        /\ \A j \in 1 .. Len(order) - 1 : w[j] = IF j < k THEN order[j] ELSE order[j + 1]
  BY <1>1, <1>2, WithoutAt
<1>4. k = 1
  BY <1>1, <1>3 DEF NoDuplicates
<1> HIDE DEF w
<1>5. <<b>> \o w \in Seq(Blocks) /\ Len(<<b>> \o w) = Len(order)
  BY <1>1, <1>3
<1>6. \A j \in 1 .. Len(order) : (<<b>> \o w)[j] = order[j]
  BY <1>1, <1>3, <1>4
<1>7. <<b>> \o w = order
  BY <1>1, <1>5, <1>6
<1> QED BY <1>7 DEF w, MoveToFront

\* The pointers spell the order in which blocks were last used, whatever is
\* touched and detached in whatever order (Touch, Detach).
THEOREM ListCorrect == ListSpec => []ListInv
<1>1. ListInit => ListInv
  BY DEF ListInit, Init, ListInv, LinksMatchOrder, At, NoDuplicates, Elements
<1>2. ASSUME ListInv, NEW b \in Blocks, Touch(b)
      PROVE  ListInv'
  <2>1. CASE poNewest = b
    <3>1. MoveToFront(order, b) = order
      BY <1>2, <2>1, TouchNewest
    <3>2. UNCHANGED <<order, pointers>>
      BY <1>2, <2>1, <3>1 DEF Touch
    <3> QED BY <1>2, <3>2 DEF pointers, ListInv, LinksMatchOrder, At
  <2>2. CASE poNewest # b
    <3> DEFINE oldest == IF poOldest = b THEN poPrevious[b] ELSE poOldest
               w == Without(order, b)
    <3>1. Spells(poNewest, oldest, NextWithout(b), PreviousWithout(b), w)
      BY <1>2, <2>2, Unlinked
    <3>2. b \notin Elements(w)
      BY <1>2, WithoutProperties DEF ListInv
    <3>3. Spells(b, IF oldest = NULL THEN b ELSE oldest,
                 [NextWithout(b) EXCEPT ![b] = poNewest],
                 [c \in Blocks |-> IF c = poNewest THEN b ELSE PreviousWithout(b)[c]],
                 <<b>> \o w)
      BY <3>1, <3>2, Push
    <3>4. Spells(poNewest', poOldest', poNext', poPrevious', order')
      BY <1>2, <2>2, <3>3 DEF Touch, MoveToFront
    <3>5. order' \in Seq(Blocks) /\ DOMAIN order' = 1 .. Len(order')
      BY <3>4 DEF Spells
    <3> QED BY <3>4, <3>5 DEF Spells, Item, ListInv, LinksMatchOrder, At
  <2> QED BY <2>1, <2>2
<1>3. ASSUME ListInv, NEW b \in Blocks, Detach(b)
      PROVE  ListInv'
  <2>1. Spells(poNewest', poOldest', poNext', poPrevious', order')
    BY <1>3, Unlinked DEF Detach
  <2>2. order' \in Seq(Blocks) /\ DOMAIN order' = 1 .. Len(order')
    BY <2>1 DEF Spells
  <2> QED BY <2>1, <2>2 DEF Spells, Item, ListInv, LinksMatchOrder, At
<1>4. ASSUME ListInv, UNCHANGED <<order, pointers>>
      PROVE  ListInv'
  BY <1>4 DEF pointers, ListInv, LinksMatchOrder, At
<1>5. ListInv /\ [ListNext]_<<vars, pointers>> => ListInv'
  BY <1>2, <1>3, <1>4 DEF ListNext, LinkStep, vars, shared
<1> QED BY <1>1, <1>5, PTL DEF ListSpec

\* Verify() never fails.
THEOREM VerifyHolds == ListSpec => []Verify
<1>1. ListInv => Verify
  <2> SUFFICES ASSUME ListInv PROVE Verify
    OBVIOUS
  <2>1. order \in Seq(Blocks) /\ DOMAIN order = 1 .. Len(order) /\ Len(order) \in Nat
    BY DEF ListInv
  <2>2. \A i \in 1 .. Len(order) :
          /\ order[i] \in Blocks /\ order[i] # NULL
          /\ poNext[order[i]] = At(i + 1) /\ poPrevious[order[i]] = At(i - 1)
    BY <2>1, NullAssumption DEF ListInv, LinksMatchOrder
  <2>3. poNewest = At(1) /\ poOldest = At(Len(order))
    BY DEF ListInv, LinksMatchOrder
  <2>4. poNewest = NULL <=> poOldest = NULL
    BY <2>1, <2>2, <2>3 DEF At
  <2>5. poNewest # NULL => poPrevious[poNewest] = NULL /\ poNext[poOldest] = NULL
    BY <2>1, <2>2, <2>3 DEF At
  <2>6. ASSUME NEW b \in Blocks
        PROVE  /\ poPrevious[b] # NULL => poNext[poPrevious[b]] = b
               /\ poNext[b] # NULL => poPrevious[poNext[b]] = b
    <3>1. CASE b \in Elements(order)
      <4>1. PICK i \in 1 .. Len(order) : order[i] = b
        BY <3>1, <2>1, ElementsType
      <4>2. poPrevious[b] # NULL => poNext[poPrevious[b]] = b
        BY <4>1, <2>1, <2>2 DEF At
      <4>3. poNext[b] # NULL => poPrevious[poNext[b]] = b
        BY <4>1, <2>1, <2>2 DEF At
      <4> QED BY <4>2, <4>3
    <3>2. CASE b \notin Elements(order)
      BY <3>2 DEF ListInv, LinksMatchOrder
    <3> QED BY <3>1, <3>2
  <2> QED BY <2>4, <2>5, <2>6 DEF Verify
<1> QED BY <1>1, ListCorrect, PTL
=============================================================================
