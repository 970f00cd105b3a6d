----------------------------- MODULE WarpMulti -----------------------------
(***************************************************************************)
(* GDALWarpOperation::ChunkAndWarpMulti (alg/gdalwarpoperation.cpp): the   *)
(* parent starts a thread per chunk, at most two at a time, and polls the  *)
(* slot of the older one; a thread holds hIOMutex while it uses the        *)
(* datasets and hWarpMutex while it resamples.  A thread is named by its   *)
(* chunk k and uses slot k % 2 of papThreadDataList and the mutex of it.   *)
(*                                                                         *)
(* The variable threadingModel is CPLGetThreadingModel(): with pthreads    *)
(* CPLAcquireMutex ignores its timeout and a mutex whose holder has ended  *)
(* stays locked; with win32 a wait may time out and an abandoned mutex     *)
(* goes to whoever waits for it.  Releasing a mutex that another thread    *)
(* holds has no effect in either.                                          *)
(***************************************************************************)
EXTENDS Naturals

CONSTANTS
  N,              \* nChunkListCount
  ThreadingModels,\* the threading models of the build
  MayFail,        \* the calls that may fail: "dest", "source", "kernel", ...
  Parent,         \* the thread that called ChunkAndWarpMulti
  NoOwner         \* of a mutex that is free

Chunks == 0 .. N - 1
Slots == {0, 1}
Mutexes == {"slot0", "slot1", "IO", "warp"}
Calls == {"thread", "dest", "window", "source", "kernel", "write"}

ASSUME WarpAssumption ==
  /\ N \in Nat \ {0}
  /\ ThreadingModels \subseteq {"pthread", "win32"}
  /\ MayFail \subseteq Calls
  /\ Parent \notin Nat /\ NoOwner \notin Nat /\ Parent # NoOwner

VARIABLES
  threadingModel,
  owner,     \* owner[m]: the thread that holds m
  parent,    \* where the parent is
  iChunk,    \* its loop variable
  eErr,      \* its result
  inUse,     \* inUse[s]: papThreadDataList[3s+1], the operation, is not NULL
  data,      \* data[s]: papThreadDataList[3s+2], the chunk or the result
  thread,    \* thread[k]: where the thread of chunk k is
  err,       \* err[k]: eErr in WarpRegion and WarpRegionToBuffer
  dfProgressBase,  \* the chunk whose progress was last stored in each of these
  dfProgressScale, \* two members
  base,      \* base[k], scale[k]: the chunks whose base and scale thread k has
  scale      \* copied to its kernel

vars == <<threadingModel, owner, parent, iChunk, eErr, inUse, data, thread,
          err, dfProgressBase, dfProgressScale, base, scale>>
slotVars == <<inUse, data>>
progressVars == <<base, scale>>
parentVars == <<parent, iChunk, eErr, dfProgressBase, dfProgressScale>>
----------------------------------------------------------------------------
Slot(k) == k % 2
SlotMutex(s) == IF s = 0 THEN "slot0" ELSE "slot1"

Ended(k) == thread[k] \in {"ended", "timed out"}

\* A thread that ended cannot release what it holds.
Abandoned(m) == owner[m] \in Chunks /\ Ended(owner[m])

Free(m) ==
  \/ owner[m] = NoOwner
  \/ threadingModel = "win32" /\ Abandoned(m)

TakesOver(m, t) == Free(m) /\ owner' = [owner EXCEPT ![m] = t]

\* A wait may outlast its timeout only while someone holds the mutex.
TimesOut(m) == threadingModel = "win32" /\ ~Free(m)

Released(m, t) == IF owner[m] = t THEN [owner EXCEPT ![m] = NoOwner] ELSE owner

Go(k, step) == thread' = [thread EXCEPT ![k] = step]

\* The outcomes a call may have.
Outcomes(call) == {"CE_None"} \cup IF call \in MayFail THEN {"CE_Failure"} ELSE {}
----------------------------------------------------------------------------
\* ChunkThreadMain and WarpRegion, in the thread of chunk k.
Start(k) ==
  /\ thread[k] = "start"
  /\ TakesOver(SlotMutex(Slot(k)), k)
  /\ Go(k, "wait for IO")
  /\ UNCHANGED <<threadingModel, parentVars, slotVars, err, progressVars>>

\* "Failed to acquire thread mutex in ChunkThreadMain()".
StartTimesOut(k) ==
  /\ thread[k] = "start"
  /\ TimesOut(SlotMutex(Slot(k)))
  /\ Go(k, "timed out")
  /\ UNCHANGED <<threadingModel, owner, parentVars, slotVars, err, progressVars>>

AcquireIO(k) ==
  /\ thread[k] = "wait for IO"
  /\ TakesOver("IO", k)
  /\ Go(k, "read destination")
  /\ UNCHANGED <<threadingModel, parentVars, slotVars, err, progressVars>>

\* Returns at once; nothing is held.
AcquireIOTimesOut(k) ==
  /\ thread[k] = "wait for IO"
  /\ TimesOut("IO")
  /\ err' = [err EXCEPT ![k] = "CE_Failure"]
  /\ Go(k, "store result")
  /\ UNCHANGED <<threadingModel, owner, parentVars, slotVars, progressVars>>

\* The buffer is allocated, then initialised or read.  Both failures return
\* without releasing hIOMutex.
ReadDestination(k) ==
  /\ thread[k] = "read destination"
  /\ \E r \in Outcomes("dest") :
       /\ err' = [err EXCEPT ![k] = r]
       /\ Go(k, IF r = "CE_None" THEN "read source" ELSE "store result")
  /\ UNCHANGED <<threadingModel, owner, parentVars, slotVars, progressVars>>

\* ComputeSourceWindow fails: WarpRegionToBuffer returns with hIOMutex held.
NoSourceWindow(k) ==
  /\ thread[k] = "read source"
  /\ "window" \in MayFail
  /\ err' = [err EXCEPT ![k] = "CE_Failure"]
  /\ Go(k, "release IO")
  /\ UNCHANGED <<threadingModel, owner, parentVars, slotVars, progressVars>>

\* The kernel gets a copy of the progress members ...
CopyBase(k) ==
  /\ thread[k] = "read source"
  /\ base' = [base EXCEPT ![k] = dfProgressBase]
  /\ Go(k, "copy scale")
  /\ UNCHANGED <<threadingModel, owner, parentVars, slotVars, err, scale>>

\* Mutant: hIOMutex is kept while waiting for hWarpMutex.
ReadSourceKeepIO(k) ==
  /\ thread[k] = "copy scale"
  /\ scale' = [scale EXCEPT ![k] = dfProgressScale]
  /\ err' \in {[err EXCEPT ![k] = r] : r \in Outcomes("source")}
  /\ Go(k, "wait for warp")
  /\ UNCHANGED <<threadingModel, owner, parentVars, slotVars, base>>

\* ... the source and the masks are read; an error is kept in eErr while
\* hIOMutex is given up for hWarpMutex.
ReadSource(k) ==
  /\ thread[k] = "copy scale"
  /\ scale' = [scale EXCEPT ![k] = dfProgressScale]
  /\ err' \in {[err EXCEPT ![k] = r] : r \in Outcomes("source")}
  /\ owner' = Released("IO", k)
  /\ Go(k, "wait for warp")
  /\ UNCHANGED <<threadingModel, parentVars, slotVars, base>>

AcquireWarp(k) ==
  /\ thread[k] = "wait for warp"
  /\ TakesOver("warp", k)
  /\ Go(k, "warp")
  /\ UNCHANGED <<threadingModel, parentVars, slotVars, err, progressVars>>

\* WarpRegionToBuffer fails without hIOMutex, which WarpRegion releases.
AcquireWarpTimesOut(k) ==
  /\ thread[k] = "wait for warp"
  /\ TimesOut("warp")
  /\ err' = [err EXCEPT ![k] = "CE_Failure"]
  /\ Go(k, "release IO")
  /\ UNCHANGED <<threadingModel, owner, parentVars, slotVars, progressVars>>

\* PerformWarp and the chunk processors, unless the source had failed.
Warp(k) ==
  /\ thread[k] = "warp"
  /\ IF err[k] = "CE_None"
     THEN err' \in {[err EXCEPT ![k] = r] : r \in Outcomes("kernel")}
     ELSE UNCHANGED err
  /\ owner' = Released("warp", k)
  /\ Go(k, "wait for IO again")
  /\ UNCHANGED <<threadingModel, parentVars, slotVars, progressVars>>

AcquireIOAgain(k) ==
  /\ thread[k] = "wait for IO again"
  /\ TakesOver("IO", k)
  /\ Go(k, "write")
  /\ UNCHANGED <<threadingModel, parentVars, slotVars, err, progressVars>>

\* Mutant: the result of the wait is not looked at.
AcquireIOAgainIgnored(k) ==
  /\ thread[k] = "wait for IO again"
  /\ TimesOut("IO")
  /\ Go(k, "write")
  /\ UNCHANGED <<threadingModel, owner, parentVars, slotVars, err, progressVars>>

AcquireIOAgainTimesOut(k) ==
  /\ thread[k] = "wait for IO again"
  /\ TimesOut("IO")
  /\ err' = [err EXCEPT ![k] = "CE_Failure"]
  /\ Go(k, "release IO")
  /\ UNCHANGED <<threadingModel, owner, parentVars, slotVars, progressVars>>

\* The alpha band and the destination are written if all went well.
Write(k) ==
  /\ thread[k] = "write"
  /\ IF err[k] = "CE_None"
     THEN err' \in {[err EXCEPT ![k] = r] : r \in Outcomes("write")}
     ELSE UNCHANGED err
  /\ Go(k, "release IO")
  /\ UNCHANGED <<threadingModel, owner, parentVars, slotVars, progressVars>>

\* The end of WarpRegion.
ReleaseIO(k) ==
  /\ thread[k] = "release IO"
  /\ owner' = Released("IO", k)
  /\ Go(k, "store result")
  /\ UNCHANGED <<threadingModel, parentVars, slotVars, err, progressVars>>

StoreResult(k) ==
  /\ thread[k] = "store result"
  /\ data' = [data EXCEPT ![Slot(k)] = err[k]]
  /\ Go(k, "clear slot")
  /\ UNCHANGED <<threadingModel, owner, parentVars, inUse, err, progressVars>>

ClearSlot(k) ==
  /\ thread[k] = "clear slot"
  /\ inUse' = [inUse EXCEPT ![Slot(k)] = FALSE]
  /\ Go(k, "release slot")
  /\ UNCHANGED <<threadingModel, owner, parentVars, data, err, progressVars>>

ReleaseSlot(k) ==
  /\ thread[k] = "release slot"
  /\ owner' = Released(SlotMutex(Slot(k)), k)
  /\ Go(k, "ended")
  /\ UNCHANGED <<threadingModel, parentVars, slotVars, err, progressVars>>

ThreadStep(k) ==
  \/ Start(k) \/ StartTimesOut(k)
  \/ AcquireIO(k) \/ AcquireIOTimesOut(k)
  \/ ReadDestination(k) \/ NoSourceWindow(k)
  \/ CopyBase(k) \/ ReadSource(k)
  \/ AcquireWarp(k) \/ AcquireWarpTimesOut(k) \/ Warp(k)
  \/ AcquireIOAgain(k) \/ AcquireIOAgainTimesOut(k)
  \/ Write(k) \/ ReleaseIO(k)
  \/ StoreResult(k) \/ ClearSlot(k) \/ ReleaseSlot(k)
----------------------------------------------------------------------------
\* ChunkAndWarpMulti, in the parent.
\* Mutant: it waits for the chunk it has just launched.
AwaitedLatest == Slot(iChunk)

\* The slot of the chunk it waits for in its loop.
Awaited == Slot(iChunk - 1)

\* After launching chunk 0 (and a sleep) it goes on with chunk 1.
AfterLaunch == IF iChunk = 0 THEN "launch" ELSE "wait"

\* The progress members are stored one after the other.
StoreBase ==
  /\ parent = "launch" /\ iChunk < N
  /\ dfProgressBase' = iChunk
  /\ parent' = "prepare"
  /\ UNCHANGED <<threadingModel, owner, iChunk, eErr, slotVars, thread, err,
                 dfProgressScale, progressVars>>

Prepare ==
  /\ parent = "prepare" /\ iChunk < N
  /\ dfProgressScale' = iChunk
  /\ inUse' = [inUse EXCEPT ![Slot(iChunk)] = TRUE]
  /\ data' = [data EXCEPT ![Slot(iChunk)] = "chunk"]
  /\ UNCHANGED <<threadingModel, owner, err, dfProgressBase, progressVars>>

Launch ==
  /\ Prepare
  /\ Go(iChunk, "start")
  /\ parent' = AfterLaunch
  /\ iChunk' = IF iChunk = 0 THEN 1 ELSE iChunk
  /\ UNCHANGED eErr

\* CPLCreateThread fails: return at once, with the other slot in use.
LaunchFails ==
  /\ Prepare
  /\ "thread" \in MayFail
  /\ parent' = "no thread"
  /\ eErr' = "CE_Failure"
  /\ UNCHANGED <<iChunk, thread>>

\* The last round launches nothing.
NothingToLaunch ==
  /\ parent = "launch" /\ iChunk = N
  /\ parent' = "wait"
  /\ UNCHANGED <<threadingModel, owner, iChunk, eErr, slotVars, thread, err,
                 dfProgressBase, dfProgressScale, progressVars>>

\* Mutant: a failure does not end the loop.
WaitOverGoOn ==
  /\ parent = "wait" /\ ~inUse[Awaited]
  /\ eErr' = data[Awaited]
  /\ IF iChunk < N
     THEN parent' = "launch" /\ iChunk' = iChunk + 1
     ELSE parent' = "join 0" /\ UNCHANGED iChunk
  /\ UNCHANGED <<threadingModel, owner, slotVars, thread, err, dfProgressBase,
                 dfProgressScale, progressVars>>

\* The slot is no longer in use: its result ends the loop or starts another round.
WaitOver ==
  /\ parent = "wait" /\ ~inUse[Awaited]
  /\ eErr' = data[Awaited]
  /\ IF data[Awaited] = "CE_None" /\ iChunk < N
     THEN parent' = "launch" /\ iChunk' = iChunk + 1
     ELSE parent' = "join 0" /\ UNCHANGED iChunk
  /\ UNCHANGED <<threadingModel, owner, slotVars, thread, err, dfProgressBase,
                 dfProgressScale, progressVars>>

\* Mutant: after an error the other thread is not waited for.
JoinFirst ==
  /\ parent = "join 0" /\ ~inUse[0]
  /\ parent' = "returned"
  /\ UNCHANGED <<threadingModel, owner, iChunk, eErr, slotVars, thread, err,
                 dfProgressBase, dfProgressScale, progressVars>>

Join ==
  /\ \/ parent = "join 0" /\ ~inUse[0] /\ parent' = "join 1"
     \/ parent = "join 1" /\ ~inUse[1] /\ parent' = "returned"
  /\ UNCHANGED <<threadingModel, owner, iChunk, eErr, slotVars, thread, err,
                 dfProgressBase, dfProgressScale, progressVars>>

\* The slot the parent polls, and the places from which it polls.
Polled == IF parent \in {"wait", "poll wait"} THEN Awaited
          ELSE IF parent \in {"join 0", "poll join 0"} THEN 0 ELSE 1

\* It takes the mutex of the slot, then releases it and looks again.  With
\* win32 a wait of one second may fail, which changes nothing.
PollTake ==
  /\ parent \in {"wait", "join 0", "join 1"}
  /\ inUse[Polled]
  /\ TakesOver(SlotMutex(Polled), Parent)
  /\ parent' = CASE parent = "wait" -> "poll wait"
                 [] parent = "join 0" -> "poll join 0"
                 [] OTHER -> "poll join 1"
  /\ UNCHANGED <<threadingModel, iChunk, eErr, slotVars, thread, err,
                 dfProgressBase, dfProgressScale, progressVars>>

PollGive ==
  /\ parent \in {"poll wait", "poll join 0", "poll join 1"}
  /\ owner' = Released(SlotMutex(Polled), Parent)
  /\ parent' = CASE parent = "poll wait" -> "wait"
                 [] parent = "poll join 0" -> "join 0"
                 [] OTHER -> "join 1"
  /\ UNCHANGED <<threadingModel, iChunk, eErr, slotVars, thread, err,
                 dfProgressBase, dfProgressScale, progressVars>>

ParentStep ==
  \/ StoreBase \/ Launch \/ LaunchFails \/ NothingToLaunch
  \/ WaitOver \/ Join \/ PollTake \/ PollGive
----------------------------------------------------------------------------
Init ==
  /\ threadingModel \in ThreadingModels
  /\ owner = [m \in Mutexes |-> NoOwner]
  /\ parent = "launch" /\ iChunk = 0 /\ eErr = "CE_None"
  /\ inUse = [s \in Slots |-> FALSE]
  /\ data = [s \in Slots |-> "CE_None"]
  /\ thread = [k \in Chunks |-> "none"]
  /\ err = [k \in Chunks |-> "CE_None"]
  /\ dfProgressBase = 0 /\ dfProgressScale = 0
  /\ base = [k \in Chunks |-> k] /\ scale = [k \in Chunks |-> k]

Next == ParentStep \/ \E k \in Chunks : ThreadStep(k)

Spec == Init /\ [][Next]_vars

\* The parent goes on, and a thread that can go on, be it only again and again
\* because the parent polls the mutex it waits for, does so in the end.  It is
\* enough to ask this of the threads together: they take finitely many steps.
FairSpec ==
  /\ Spec
  /\ WF_vars(ParentStep)
  /\ SF_vars(\E k \in Chunks : ThreadStep(k))
----------------------------------------------------------------------------
Running(k) == thread[k] # "none" /\ ~Ended(k)

TypeOK ==
  /\ threadingModel \in ThreadingModels
  /\ owner \in [Mutexes -> Chunks \cup {Parent, NoOwner}]
  /\ parent \in {"launch", "prepare", "wait", "join 0", "join 1", "poll wait",
                 "poll join 0", "poll join 1", "returned", "no thread"}
  /\ iChunk \in 0 .. N
  /\ eErr \in {"CE_None", "CE_Failure"}
  /\ inUse \in [Slots -> BOOLEAN]
  /\ data \in [Slots -> {"chunk", "CE_None", "CE_Failure"}]
  /\ thread \in [Chunks -> {"none", "start", "wait for IO", "read destination",
       "read source", "copy scale", "wait for warp", "warp", "wait for IO again", "write",
       "release IO", "store result", "clear slot", "release slot", "ended", "timed out"}]
  /\ err \in [Chunks -> {"CE_None", "CE_Failure"}]
  /\ dfProgressBase \in 0 .. N - 1 /\ dfProgressScale \in 0 .. N - 1
  /\ base \in [Chunks -> 0 .. N - 1] /\ scale \in [Chunks -> 0 .. N - 1]

AtDatasets == {"read destination", "read source", "copy scale", "write"}

\* The two datasets and the warper are used by one thread at a time, although
\* hIOMutex is handed over for hWarpMutex and back, and is released by threads
\* that failed to take it.
OneAtATime ==
  \A j, k \in Chunks :
    j # k => /\ ~ (thread[j] \in AtDatasets /\ thread[k] \in AtDatasets)
             /\ ~ (thread[j] = "warp" /\ thread[k] = "warp")

\* Once the call returned, its threads work no more: they use neither the
\* datasets nor papThreadDataList, an array on its stack, nor the chunk list it
\* wiped.  Two things may be left.  A thread that cleared its slot has yet to
\* release the mutex of it, which the parent did not wait for and which
\* ~GDALWarpOperation destroys; and when a thread could not be created, that of
\* the chunk before is still at work, on slots that are gone with the stack.
NoWorkLeft ==
  \A k \in Chunks :
    /\ parent = "returned" => thread[k] \in {"none", "release slot", "ended"}
    /\ parent = "no thread" /\ k + 1 # iChunk =>
         thread[k] \in {"none", "release slot", "ended"}

\* A thread reports the progress of its chunk, or of the next one when that
\* was launched before it looked, and of no other: base and scale are stored
\* and copied without a lock, and may be those of different chunks.
ProgressNearby ==
  \A k \in Chunks : {base[k], scale[k]} \subseteq {k, k + 1}

\* Refinement: what was promised of a warp in chunks.
Finished(k) == thread[k] \in {"release IO", "store result", "clear slot", "release slot", "ended"}

Done == [k \in Chunks |-> IF Finished(k) THEN err[k] ELSE "todo"]
Outcome == IF parent = "returned" THEN eErr
           ELSE IF parent = "no thread" THEN "no thread" ELSE "running"

WarpPromise == INSTANCE ChunkedWarp WITH
  Ahead <- 2, done <- Done, outcome <- Outcome

\* ChunkAndWarpMulti keeps the promise of a warp in chunks: every chunk once
\* and in order, two at a time, and a truthful result after which nothing happens.
WarpKept == WarpPromise!Spec

\* A thread ended and left a mutex locked, or its slot in use.
ThreadLost == \E k \in Chunks :
  \/ thread[k] = "timed out"
  \/ Ended(k) /\ owner["IO"] = k

\* The call returns, unless a thread ended without giving back hIOMutex or its slot.
CallReturns == <>(parent \in {"returned", "no thread"} \/ ThreadLost)

\* What the documentation of ChunkAndWarpMulti says: CE_None or CE_Failure is
\* returned in any case.
AlwaysReturns == <>(parent \in {"returned", "no thread"})
----------------------------------------------------------------------------
\* The invariant behind the theorems.  Launched chunks are the first ones; all
\* but the last two of them are done, and the slots are those of these two.
Cleared(k) == thread[k] \in {"release slot", "ended"}
Launched == IF parent \in {"launch", "prepare", "no thread"} \/ iChunk = N
            THEN iChunk ELSE iChunk + 1
Recent == {k \in Chunks : iChunk <= k + 1 /\ k < Launched}
Joining == {"join 0", "join 1", "poll join 0", "poll join 1", "returned"}

MutexesHeld ==
  \A k \in Chunks : /\ thread[k] \in AtDatasets => owner["IO"] = k
                    /\ thread[k] = "warp" => owner["warp"] = k

InOrder ==
  /\ parent \notin {"launch", "prepare", "no thread"} => iChunk > 0
  /\ \A k \in Chunks : thread[k] = "none" <=> k >= Launched
  /\ \A k \in Chunks : k + 1 < iChunk => Cleared(k) /\ err[k] = "CE_None"

SlotsOfRecent ==
  parent # "no thread" =>
    \A k \in Recent :
      /\ inUse[Slot(k)] <=> ~Cleared(k)
      /\ Cleared(k) \/ thread[k] = "clear slot" => data[Slot(k)] = err[k]

ResultKept ==
  parent \in Joining =>
    /\ Cleared(iChunk - 1) /\ err[iChunk - 1] = eErr
    /\ eErr = "CE_None" => iChunk = N

JoinedSoFar ==
  \A k \in Chunks :
    /\ parent \in {"join 1", "poll join 1"} /\ k < Launched /\ Slot(k) = 0 => Cleared(k)
    /\ parent = "returned" /\ k < Launched => Cleared(k)

BaseOfLatest ==
  /\ IF parent \in {"prepare", "no thread"} THEN dfProgressBase = iChunk
     ELSE Launched > 0 => dfProgressBase = Launched - 1
  /\ IF parent = "no thread" THEN dfProgressScale = iChunk
     ELSE Launched > 0 => dfProgressScale = Launched - 1

WarpInv ==
  /\ TypeOK /\ MutexesHeld /\ InOrder /\ SlotsOfRecent
  /\ ResultKept /\ JoinedSoFar /\ BaseOfLatest /\ ProgressNearby
=============================================================================
