-------------------------- MODULE WarpMultiProofs --------------------------
(***************************************************************************)
(* For any number of chunks, either threading model and any failures:      *)
(* ChunkAndWarpMulti keeps the promise of ChunkedWarp, its threads use the *)
(* datasets and the warper one at a time, and none has work left when it   *)
(* returns.  WarpInv is inductive: it orders the chunks by the loop of the *)
(* parent, so that the two slots belong to the last two launched, whatever *)
(* the threads do; their steps are first reduced to what each of them does *)
(* to its mutexes, its slot and its result.                                *)
(***************************************************************************)
EXTENDS WarpMulti, Integers, TLAPS

Steps == {"none", "start", "wait for IO", "read destination",
  "read source", "copy scale", "wait for warp", "warp", "wait for IO again", "write",
  "release IO", "store result", "clear slot", "release slot", "ended", "timed out"}

\* What the steps of a thread have in common.
OnlyItself(k) ==
  /\ UNCHANGED <<threadingModel, parentVars>>
  /\ thread[k] \notin {"none", "ended", "timed out"}
  /\ thread' = [thread EXCEPT ![k] = thread'[k]]
  /\ thread'[k] \in Steps \ {"none", "start"}
  /\ err' = [err EXCEPT ![k] = err'[k]]
  /\ err'[k] \in {"CE_None", "CE_Failure"}
  /\ base' = [base EXCEPT ![k] = base'[k]]
  /\ base'[k] \in {base[k], dfProgressBase}
  /\ scale' = [scale EXCEPT ![k] = scale'[k]]
  /\ scale'[k] \in {scale[k], dfProgressScale}

\* Its slot: the result is stored, the slot is cleared, or neither.
SlotStep(k) ==
  \/ /\ thread[k] = "store result" /\ thread'[k] = "clear slot"
     /\ data' = [data EXCEPT ![Slot(k)] = err[k]]
     /\ UNCHANGED <<inUse, err>>
  \/ /\ thread[k] = "clear slot" /\ thread'[k] = "release slot"
     /\ inUse' = [inUse EXCEPT ![Slot(k)] = FALSE]
     /\ UNCHANGED <<data, err>>
  \/ /\ thread[k] = "release slot" /\ thread'[k] = "ended"
     /\ UNCHANGED <<slotVars, err>>
  \/ /\ thread[k] \notin {"store result", "clear slot", "release slot"}
     /\ thread'[k] \notin {"clear slot", "release slot", "ended"}
     /\ UNCHANGED slotVars

\* The mutexes of the datasets and of the warper are taken when they are free,
\* and given up by who leaves what they protect.
MutexStep(k) ==
  /\ owner' \in [Mutexes -> Chunks \cup {Parent, NoOwner}]
  /\ \A m \in {"IO", "warp"} : owner'[m] # owner[m] =>
       \/ Free(m) /\ owner'[m] = k
       \/ owner[m] = k /\ owner'[m] = NoOwner
  /\ thread'[k] \in AtDatasets =>
       \/ owner'["IO"] = k
       \/ thread[k] \in AtDatasets /\ owner'["IO"] = owner["IO"]
  /\ thread'[k] = "warp" => owner'["warp"] = k

\* The result of a chunk is settled when it is finished, and not changed later.
ResultStep(k) ==
  \/ ~Finished(k)
  \/ Finished(k) /\ Finished(k)' /\ UNCHANGED <<err, progressVars>>

LEMMA NIs == N \in Nat /\ N > 0
BY WarpAssumption

\* The counters of the parent, apart from the rest of TypeOK.
LEMMA Counters ==
  ASSUME TypeOK
  PROVE  /\ iChunk \in 0 .. N
         /\ dfProgressBase \in 0 .. N - 1 /\ dfProgressScale \in 0 .. N - 1
         /\ base \in [Chunks -> 0 .. N - 1] /\ scale \in [Chunks -> 0 .. N - 1]
BY DEF TypeOK

LEMMA LaunchedIs ==
  ASSUME TypeOK
  PROVE  /\ iChunk \in Nat /\ Launched \in Nat
         /\ Launched = iChunk \/ Launched = iChunk + 1
         /\ parent = "no thread" => Launched = iChunk
<1>1. iChunk \in Nat
  BY NIs, Counters
<1>2. Launched = iChunk \/ Launched = iChunk + 1
  BY Zenon DEF Launched
<1>3. Launched \in Nat
  BY <1>1, <1>2
<1>4. parent = "no thread" => Launched = iChunk
  BY DEF Launched
<1> QED BY <1>1, <1>2, <1>3, <1>4

LEMMA SlotIs ==
  /\ \A k \in Int : Slot(k) \in Slots
  /\ \A k \in Chunks : k \in Nat /\ Slot(k) \in Slots
  /\ \A k \in Nat : Slot(k) # Slot(k + 1) /\ (k > 0 => Slot(k) # Slot(k - 1))
<1>1. \A k \in Int : Slot(k) \in Slots
  BY DEF Slot, Slots
<1>2. \A k \in Chunks : k \in Nat /\ Slot(k) \in Slots
  BY <1>1, NIs DEF Chunks
<1>3. \A k \in Nat : Slot(k) # Slot(k + 1) /\ (k > 0 => Slot(k) # Slot(k - 1))
  BY DEF Slot
<1> QED BY <1>1, <1>2, <1>3

\* The error of a call is recorded only if the thread had none so far.
LEMMA ErrorOfItself ==
  ASSUME TypeOK, NEW k \in Chunks, NEW call,
         IF err[k] = "CE_None"
           THEN err' \in {[err EXCEPT ![k] = r] : r \in Outcomes(call)}
           ELSE UNCHANGED err
  PROVE  err'[k] \in {"CE_None", "CE_Failure"} /\ err' = [err EXCEPT ![k] = err'[k]]
<1>1. err \in [Chunks -> {"CE_None", "CE_Failure"}]
  BY DEF TypeOK
<1>2. Outcomes(call) \subseteq {"CE_None", "CE_Failure"}
  BY Zenon DEF Outcomes
<1>3. CASE err[k] = "CE_None"
  <2>1. err' \in {[err EXCEPT ![k] = r] : r \in Outcomes(call)}
    BY <1>3, Zenon
  <2>2. PICK r \in {"CE_None", "CE_Failure"} : err' = [err EXCEPT ![k] = r]
    BY <2>1, <1>2
  <2> QED BY <2>2, <1>1
<1>4. CASE err[k] # "CE_None"
  <2>1. err' = err
    BY <1>4, Zenon
  <2> QED BY <2>1, <1>1
<1> QED BY <1>3, <1>4

\* Writing a Boolean into a slot.
LEMMA SlotWritten ==
  ASSUME NEW f \in [Slots -> BOOLEAN], NEW s \in Slots, NEW b \in BOOLEAN
  PROVE  [f EXCEPT ![s] = b] \in [Slots -> BOOLEAN]
OBVIOUS

LEMMA ThreadStepIs ==
  ASSUME TypeOK, NEW k \in Chunks, ThreadStep(k)
  PROVE  OnlyItself(k) /\ SlotStep(k) /\ MutexStep(k) /\ ResultStep(k)
<1> USE DEF TypeOK, Go, TakesOver, Released, OnlyItself, SlotStep, MutexStep,
            ResultStep, Finished, Steps, AtDatasets, Outcomes, parentVars, slotVars,
            progressVars, Mutexes, Slots, Slot, SlotMutex
<1>1. CASE Start(k)
  BY <1>1 DEF Start
<1>2. CASE StartTimesOut(k)
  BY <1>2 DEF StartTimesOut
<1>3. CASE AcquireIO(k)
  BY <1>3 DEF AcquireIO
<1>4. CASE AcquireIOTimesOut(k)
  BY <1>4 DEF AcquireIOTimesOut
<1>5. CASE ReadDestination(k)
  <2>1. PICK r \in Outcomes("dest") :
          /\ err' = [err EXCEPT ![k] = r]
          /\ Go(k, IF r = "CE_None" THEN "read source" ELSE "store result")
    BY <1>5 DEF ReadDestination
  <2>2. r \in {"CE_None", "CE_Failure"}
    BY <2>1
  <2>3. /\ thread[k] = "read destination"
        /\ UNCHANGED <<threadingModel, owner, parentVars, slotVars, progressVars>>
    BY <1>5 DEF ReadDestination
  <2>4. OnlyItself(k)
    BY <2>1, <2>2, <2>3
  <2>5. SlotStep(k) /\ MutexStep(k) /\ ResultStep(k)
    BY <2>1, <2>2, <2>3
  <2> QED BY <2>4, <2>5
<1>6. CASE NoSourceWindow(k)
  BY <1>6 DEF NoSourceWindow
<1>7. CASE ReadSource(k)
  BY <1>7 DEF ReadSource
<1>18. CASE CopyBase(k)
  BY <1>18 DEF CopyBase
<1>8. CASE AcquireWarp(k)
  BY <1>8 DEF AcquireWarp
<1>9. CASE AcquireWarpTimesOut(k)
  BY <1>9 DEF AcquireWarpTimesOut
<1>10. CASE Warp(k)
  <2>1. err'[k] \in {"CE_None", "CE_Failure"} /\ err' = [err EXCEPT ![k] = err'[k]]
    BY <1>10, ErrorOfItself DEF Warp
  <2>2. OnlyItself(k) /\ SlotStep(k) /\ ResultStep(k)
    BY <1>10, <2>1 DEF Warp
  <2>3. MutexStep(k)
    BY <1>10 DEF Warp
  <2> QED BY <2>2, <2>3
<1>11. CASE AcquireIOAgain(k)
  BY <1>11 DEF AcquireIOAgain
<1>12. CASE AcquireIOAgainTimesOut(k)
  BY <1>12 DEF AcquireIOAgainTimesOut
<1>13. CASE Write(k)
  <2>1. err'[k] \in {"CE_None", "CE_Failure"} /\ err' = [err EXCEPT ![k] = err'[k]]
    BY <1>13, ErrorOfItself DEF Write
  <2>2. OnlyItself(k) /\ SlotStep(k) /\ ResultStep(k)
    BY <1>13, <2>1 DEF Write
  <2>3. MutexStep(k)
    BY <1>13 DEF Write
  <2> QED BY <2>2, <2>3
<1>14. CASE ReleaseIO(k)
  BY <1>14 DEF ReleaseIO
<1>15. CASE StoreResult(k)
  BY <1>15 DEF StoreResult
<1>16. CASE ClearSlot(k)
  BY <1>16 DEF ClearSlot
<1>17. CASE ReleaseSlot(k)
  BY <1>17 DEF ReleaseSlot
<1> QED BY <1>1, <1>2, <1>3, <1>4, <1>5, <1>6, <1>7, <1>8, <1>9, <1>10, <1>11,
           <1>12, <1>13, <1>14, <1>15, <1>16, <1>17, <1>18 DEF ThreadStep

\* The types survive the steps of the threads ...
LEMMA ThreadKeepsTypes ==
  ASSUME TypeOK, NEW k \in Chunks, ThreadStep(k)
  PROVE  TypeOK'
<1>1. OnlyItself(k) /\ SlotStep(k) /\ MutexStep(k)
  BY ThreadStepIs
<1>2. thread' \in [Chunks -> Steps] /\ err' \in [Chunks -> {"CE_None", "CE_Failure"}]
  BY <1>1 DEF OnlyItself, TypeOK, Steps
<1>3. base' \in [Chunks -> 0 .. N - 1] /\ scale' \in [Chunks -> 0 .. N - 1]
  <2>1. base'[k] \in 0 .. N - 1 /\ base' = [base EXCEPT ![k] = base'[k]]
    BY <1>1, NIs, Counters DEF OnlyItself
  <2>2. scale'[k] \in 0 .. N - 1 /\ scale' = [scale EXCEPT ![k] = scale'[k]]
    BY <1>1, NIs, Counters DEF OnlyItself
  <2> QED BY <2>1, <2>2, NIs, Counters
<1>4. inUse' \in [Slots -> BOOLEAN]
  <2>1. inUse \in [Slots -> BOOLEAN] /\ Slot(k) \in Slots
    BY SlotIs DEF TypeOK
  <2>2. [inUse EXCEPT ![Slot(k)] = FALSE] \in [Slots -> BOOLEAN]
    BY <2>1, SlotWritten
  <2> QED BY <1>1, <2>1, <2>2, Zenon DEF SlotStep, slotVars
<1>5. data' \in [Slots -> {"chunk", "CE_None", "CE_Failure"}]
  BY <1>1 DEF SlotStep, TypeOK, slotVars
<1> QED BY <1>1, <1>2, <1>3, <1>4, <1>5 DEF OnlyItself, MutexStep, TypeOK, parentVars, Steps

\* ... and of the parent.
LEMMA ParentKeepsTypes ==
  ASSUME WarpInv, ParentStep
  PROVE  TypeOK'
<1>1. CASE Launch
  <2>1. iChunk \in 0 .. N - 1 /\ iChunk \in Chunks /\ Slot(iChunk) \in Slots
    BY <1>1, NIs, Counters, SlotIs DEF Launch, Prepare, WarpInv, Chunks
  <2>2. inUse' \in [Slots -> BOOLEAN]
    BY <1>1, <2>1, SlotWritten DEF Launch, Prepare, WarpInv, TypeOK
  <2>3. thread' \in [Chunks -> Steps]
    BY <1>1, <2>1 DEF Launch, WarpInv, TypeOK, Go, Steps
  <2>5. iChunk' \in 0 .. N /\ dfProgressScale' \in 0 .. N - 1
    BY <1>1, <2>1, NIs DEF Launch, Prepare
  <2>4. data' \in [Slots -> {"chunk", "CE_None", "CE_Failure"}]
    BY <1>1, <2>1 DEF Launch, Prepare, WarpInv, TypeOK
  <2> QED BY <1>1, <2>2, <2>3, <2>4, <2>5
          DEF Launch, Prepare, AfterLaunch, WarpInv, TypeOK, Steps, progressVars
<1>8. CASE StoreBase
  <2>1. dfProgressBase' \in 0 .. N - 1
    BY <1>8, NIs, Counters DEF StoreBase, WarpInv
  <2> QED BY <1>8, <2>1 DEF StoreBase, WarpInv, TypeOK, slotVars, progressVars
<1>2. CASE LaunchFails
  <2>1. iChunk \in 0 .. N - 1 /\ Slot(iChunk) \in Slots
    <3>1. iChunk < N
      BY <1>2 DEF LaunchFails, Prepare
    <3>2. iChunk \in 0 .. N
      BY Counters DEF WarpInv
    <3> QED BY <3>1, <3>2, NIs, SlotIs
  <2>2. inUse' \in [Slots -> BOOLEAN]
    BY <1>2, <2>1, SlotWritten DEF LaunchFails, Prepare, WarpInv, TypeOK
  <2>3. data' \in [Slots -> {"chunk", "CE_None", "CE_Failure"}]
    BY <1>2, <2>1 DEF LaunchFails, Prepare, WarpInv, TypeOK
  <2>4. dfProgressScale' \in 0 .. N - 1
    BY <1>2, <2>1, NIs DEF LaunchFails, Prepare
  <2> QED BY <1>2, <2>1, <2>2, <2>3, <2>4
          DEF LaunchFails, Prepare, WarpInv, TypeOK, progressVars
<1>3. CASE NothingToLaunch
  BY <1>3 DEF NothingToLaunch, WarpInv, TypeOK, slotVars, progressVars
<1>4. CASE WaitOver
  <2>1. iChunk > 0 /\ iChunk \in 0 .. N /\ Awaited = Slot(iChunk - 1)
    BY <1>4, NIs, Counters DEF WaitOver, WarpInv, InOrder, Awaited
  <2>2. iChunk - 1 \in Recent
    <3>1. parent = "wait"
      BY <1>4 DEF WaitOver
    <3> QED BY <2>1, <3>1, NIs DEF Recent, Launched, Chunks
  <2>3. Cleared(iChunk - 1) /\ data[Awaited] = err[iChunk - 1]
    BY <1>4, <2>1, <2>2 DEF WaitOver, WarpInv, SlotsOfRecent
  <2>4. eErr' \in {"CE_None", "CE_Failure"}
    BY <1>4, <2>2, <2>3 DEF WaitOver, WarpInv, TypeOK, Recent
  <2>5. iChunk' \in 0 .. N
    <3>1. iChunk' = iChunk \/ (iChunk < N /\ iChunk' = iChunk + 1)
      BY <1>4, Zenon DEF WaitOver
    <3> QED BY <2>1, <3>1, NIs
  <2> QED BY <1>4, <2>4, <2>5 DEF WaitOver, WarpInv, TypeOK, slotVars, progressVars
<1>5. CASE Join
  BY <1>5 DEF Join, WarpInv, TypeOK, slotVars, progressVars
<1>6. CASE PollTake
  <2>1. owner' \in [Mutexes -> Chunks \cup {Parent, NoOwner}]
    BY <1>6 DEF PollTake, TakesOver, WarpInv, TypeOK
  <2> QED BY <1>6, <2>1 DEF PollTake, WarpInv, TypeOK, slotVars, progressVars
<1>7. CASE PollGive
  <2>1. owner' \in [Mutexes -> Chunks \cup {Parent, NoOwner}]
    BY <1>7 DEF PollGive, Released, WarpInv, TypeOK
  <2> QED BY <1>7, <2>1 DEF PollGive, WarpInv, TypeOK, slotVars, progressVars
<1> QED BY <1>1, <1>2, <1>3, <1>4, <1>5, <1>6, <1>7, <1>8 DEF ParentStep
----------------------------------------------------------------------------
\* The places of the parent, and what its steps leave alone.
LEMMA ThreadFrame ==
  ASSUME TypeOK, NEW k \in Chunks, ThreadStep(k)
  PROVE  /\ UNCHANGED <<parent, iChunk, eErr, dfProgressBase, dfProgressScale, threadingModel>>
         /\ \A j \in Chunks : j # k => /\ thread'[j] = thread[j] /\ err'[j] = err[j]
                                       /\ base'[j] = base[j] /\ scale'[j] = scale[j]
         /\ Launched' = Launched /\ Recent' = Recent
<1>1. OnlyItself(k)
  BY ThreadStepIs
<1>2. UNCHANGED <<parent, iChunk, eErr, dfProgressBase, dfProgressScale, threadingModel>>
  BY <1>1 DEF OnlyItself, parentVars
<1>3. \A j \in Chunks : j # k => /\ thread'[j] = thread[j] /\ err'[j] = err[j]
                                 /\ base'[j] = base[j] /\ scale'[j] = scale[j]
  BY <1>1 DEF OnlyItself, TypeOK
<1>4. Launched' = Launched
  BY <1>2 DEF Launched
<1>5. Recent' = Recent
  BY <1>2, <1>4 DEF Recent
<1> QED BY <1>2, <1>3, <1>4, <1>5

\* A thread that takes a step was launched, is one of the last two, and its
\* slot is still in use, but for the very last step.
LEMMA ThreadIsRecent ==
  ASSUME WarpInv, NEW k \in Chunks, ThreadStep(k)
  PROVE  /\ k < Launched
         /\ ~Cleared(k) => k \in Recent
<1>1. OnlyItself(k) /\ TypeOK
  BY ThreadStepIs DEF WarpInv
<1>2. k < Launched
  <2>1. iChunk \in Nat /\ k \in Nat
    BY <1>1, NIs, SlotIs, Counters
  <2>2. Launched \in Nat
    BY <1>1, LaunchedIs
  <2>3. thread[k] # "none"
    BY <1>1 DEF OnlyItself
  <2>4. ~(k >= Launched)
    BY <2>3 DEF WarpInv, InOrder
  <2> QED BY <2>1, <2>2, <2>4
<1>3. ASSUME ~Cleared(k) PROVE iChunk <= k + 1
  <2>1. ~(k + 1 < iChunk)
    BY <1>3 DEF WarpInv, InOrder
  <2> QED BY <2>1, <1>1, NIs, SlotIs, Counters
<1> QED BY <1>2, <1>3 DEF Recent

\* A mutex is not taken from a thread that is at the datasets or warps.
LEMMA ThreadKeepsMutexes ==
  ASSUME WarpInv, NEW k \in Chunks, ThreadStep(k)
  PROVE  MutexesHeld'
<1>1. OnlyItself(k) /\ MutexStep(k) /\ TypeOK /\ MutexesHeld
  BY ThreadStepIs DEF WarpInv
<1> SUFFICES ASSUME NEW j \in Chunks
             PROVE  /\ thread'[j] \in AtDatasets => owner'["IO"] = j
                    /\ thread'[j] = "warp" => owner'["warp"] = j
  BY DEF MutexesHeld
<1>2. CASE j = k
  BY <1>1, <1>2 DEF MutexStep, MutexesHeld
<1>3. CASE j # k
  <2>1. thread'[j] = thread[j]
    BY <1>1, <1>3 DEF OnlyItself, TypeOK
  <2>2. j \in Nat /\ j # NoOwner
    BY WarpAssumption, SlotIs
  <2>3. thread[j] \in AtDatasets \cup {"warp"} => ~Ended(j)
    BY DEF AtDatasets, Ended
  <2>4. ASSUME NEW m \in {"IO", "warp"}, owner[m] = j,
               thread[j] \in AtDatasets \cup {"warp"}
        PROVE  owner'[m] = j
    <3>1. ~Free(m)
      BY <2>2, <2>3, <2>4 DEF Free, Abandoned
    <3> QED BY <3>1, <2>4, <1>1, <1>3 DEF MutexStep
  <2> QED BY <1>1, <2>1, <2>4 DEF MutexesHeld
<1> QED BY <1>2, <1>3

LEMMA ParentKeepsMutexes ==
  ASSUME WarpInv, ParentStep
  PROVE  MutexesHeld'
<1>1. TypeOK /\ MutexesHeld
  BY DEF WarpInv
<1>2. ASSUME UNCHANGED <<owner, thread>> PROVE MutexesHeld'
  BY <1>1, <1>2 DEF MutexesHeld
<1>3. ASSUME UNCHANGED thread, NEW s \in Slots, NEW v,
             owner' = [owner EXCEPT ![SlotMutex(s)] = v]
      PROVE  MutexesHeld'
  <2>1. owner'["IO"] = owner["IO"] /\ owner'["warp"] = owner["warp"]
    BY <1>1, <1>3 DEF TypeOK, SlotMutex, Mutexes
  <2> QED BY <1>1, <1>3, <2>1 DEF MutexesHeld
<1>4. CASE Launch
  <2>1. \A j \in Chunks : thread'[j] = thread[j] \/ thread'[j] = "start"
    BY <1>1, <1>4 DEF Launch, Go, TypeOK
  <2>2. owner' = owner
    BY <1>4 DEF Launch, Prepare
  <2> QED BY <1>1, <2>1, <2>2 DEF MutexesHeld, AtDatasets
<1>5. Polled \in Slots
  <2>1. iChunk - 1 \in Int
    BY <1>1, NIs, Counters
  <2> QED BY <2>1, SlotIs DEF Polled, Awaited, Slots
<1>6. CASE PollTake
  BY <1>3, <1>5, <1>6 DEF PollTake, TakesOver
<1>7. CASE PollGive
  BY <1>2, <1>3, <1>5, <1>7 DEF PollGive, Released
<1>8. CASE StoreBase \/ LaunchFails \/ NothingToLaunch \/ WaitOver \/ Join
  BY <1>2, <1>8 DEF StoreBase, LaunchFails, Prepare, NothingToLaunch, WaitOver, Join
<1> QED BY <1>4, <1>6, <1>7, <1>8 DEF ParentStep
----------------------------------------------------------------------------
\* The order of the chunks: a thread changes neither who was launched nor what
\* is done; the parent moves on when the older of the two is done.
LEMMA ThreadKeepsOrder ==
  ASSUME WarpInv, NEW k \in Chunks, ThreadStep(k)
  PROVE  InOrder'
<1>1. OnlyItself(k) /\ ResultStep(k) /\ SlotStep(k) /\ TypeOK /\ InOrder
  BY ThreadStepIs DEF WarpInv
<1>2. /\ UNCHANGED <<parent, iChunk>> /\ Launched' = Launched
      /\ \A j \in Chunks : j # k => thread'[j] = thread[j] /\ err'[j] = err[j]
  BY <1>1, ThreadFrame
<1>3. thread[k] # "none" /\ thread'[k] # "none"
  BY <1>1 DEF OnlyItself
<1>4. Cleared(k) => Cleared(k)' /\ err' = err
  BY <1>1 DEF Cleared, OnlyItself, SlotStep, ResultStep, Finished
<1>5. \A j \in Chunks : (thread[j] = "none")' <=> (j >= Launched)'
  BY <1>1, <1>2, <1>3 DEF InOrder
<1>6. \A j \in Chunks : j + 1 < iChunk => Cleared(j)' /\ err'[j] = "CE_None"
  BY <1>1, <1>2, <1>4 DEF InOrder, Cleared
<1> QED BY <1>1, <1>2, <1>5, <1>6 DEF InOrder

\* When the parent waits, the older of the last two chunks is there and its slot
\* tells whether it is done.
LEMMA OlderOfTwo ==
  ASSUME WarpInv, parent = "wait"
  PROVE  /\ iChunk - 1 \in Recent /\ iChunk \in 1 .. N
         /\ Awaited = Slot(iChunk - 1)
         /\ ~inUse[Awaited] => /\ Cleared(iChunk - 1)
                               /\ data[Awaited] = err[iChunk - 1]
<1>1. iChunk \in 1 .. N
  BY NIs, Counters DEF WarpInv, InOrder
<1>2. iChunk - 1 \in Recent
  BY <1>1, NIs DEF Recent, Launched, Chunks
<1> QED BY <1>1, <1>2 DEF WarpInv, SlotsOfRecent, Awaited

LEMMA ParentKeepsOrder ==
  ASSUME WarpInv, ParentStep
  PROVE  InOrder'
<1>1. TypeOK /\ InOrder /\ iChunk \in 0 .. N
  BY Counters DEF WarpInv
<1>2. CASE Launch
  <2>1. parent = "prepare" /\ iChunk < N /\ iChunk \in Chunks
    BY <1>1, <1>2, NIs DEF Launch, Prepare, Chunks
  <2>2. thread' = [thread EXCEPT ![iChunk] = "start"] /\ err' = err
    BY <1>2 DEF Launch, Prepare, Go
  <2>3. Launched = iChunk /\ Launched' = iChunk + 1
    BY <1>1, <1>2, <2>1, NIs DEF Launch, Launched, AfterLaunch
  <2>4. \A j \in Chunks : thread'[j] = IF j = iChunk THEN "start" ELSE thread[j]
    BY <1>1, <2>2 DEF TypeOK
  <2>5. \A j \in Chunks : thread'[j] = "none" <=> j >= iChunk + 1
    BY <1>1, <2>1, <2>3, <2>4, SlotIs DEF InOrder
  <2>6. \A j \in Chunks : j + 1 < iChunk' => Cleared(j)' /\ err'[j] = "CE_None"
    <3>1. iChunk' = iChunk \/ (iChunk = 0 /\ iChunk' = 1)
      BY <1>2 DEF Launch
    <3>2. \A j \in Chunks : j + 1 < iChunk' => j + 1 < iChunk /\ j # iChunk
      BY <1>1, <3>1, SlotIs
    <3> QED BY <1>1, <3>2, <2>2, <2>4 DEF InOrder, Cleared
  <2>7. parent' \notin {"launch", "prepare"} => iChunk' > 0
    BY <1>1, <1>2 DEF Launch, AfterLaunch
  <2> QED BY <2>3, <2>5, <2>6, <2>7 DEF InOrder
<1>3. CASE WaitOver
  <2>1. parent = "wait" /\ ~inUse[Awaited]
    BY <1>3 DEF WaitOver
  <2>2. /\ iChunk - 1 \in Chunks /\ iChunk \in 1 .. N
        /\ Cleared(iChunk - 1) /\ data[Awaited] = err[iChunk - 1]
    BY <2>1, OlderOfTwo DEF Recent
  <2>3. UNCHANGED <<thread, err>>
    BY <1>3 DEF WaitOver
  <2>4. CASE data[Awaited] = "CE_None" /\ iChunk < N
    <3>1. parent' = "launch" /\ iChunk' = iChunk + 1
      BY <1>3, <2>4 DEF WaitOver
    <3>2. Launched = iChunk + 1 /\ Launched' = iChunk + 1
      BY <2>1, <2>2, <2>4, <3>1, NIs DEF Launched
    <3>3. \A j \in Chunks : j + 1 < iChunk' => j + 1 < iChunk \/ j = iChunk - 1
      BY <2>2, <3>1, SlotIs
    <3>4. \A j \in Chunks : j + 1 < iChunk' => Cleared(j)' /\ err'[j] = "CE_None"
      BY <1>1, <2>2, <2>3, <2>4, <3>3 DEF InOrder, Cleared
    <3> QED BY <1>1, <2>3, <3>1, <3>2, <3>4 DEF InOrder
  <2>5. CASE ~(data[Awaited] = "CE_None" /\ iChunk < N)
    <3>1. parent' = "join 0" /\ iChunk' = iChunk
      BY <1>3, <2>5 DEF WaitOver
    <3>2. Launched' = Launched
      BY <2>1, <2>2, <3>1, NIs DEF Launched
    <3>3. \A j \in Chunks : (thread[j] = "none")' <=> (j >= Launched)'
      BY <1>1, <2>3, <3>2 DEF InOrder
    <3>4. \A j \in Chunks : (j + 1 < iChunk => Cleared(j) /\ err[j] = "CE_None")'
      BY <1>1, <2>3, <3>1 DEF InOrder, Cleared
    <3>5. iChunk' > 0
      <4>1. iChunk > 0
        BY <2>2, NIs
      <4> QED BY <3>1, <4>1
    <3> QED BY <3>3, <3>4, <3>5 DEF InOrder
  <2> QED BY <2>4, <2>5
<1>4. CASE StoreBase \/ LaunchFails \/ NothingToLaunch \/ Join \/ PollTake \/ PollGive
  <2>1. UNCHANGED <<thread, err, iChunk>>
    BY <1>4 DEF StoreBase, LaunchFails, Prepare, NothingToLaunch, Join, PollTake, PollGive
  <2>2. Launched' = Launched
    BY <1>4, <2>1 DEF StoreBase, LaunchFails, Prepare, NothingToLaunch, Join, PollTake, PollGive, Launched
  <2>3. parent' \notin {"launch", "prepare", "no thread"} => iChunk > 0
    BY <1>1, <1>4, NIs DEF StoreBase, LaunchFails, Prepare, NothingToLaunch, Join, PollTake, PollGive, InOrder
  <2> QED BY <1>1, <2>1, <2>2, <2>3 DEF InOrder, Cleared
<1> QED BY <1>2, <1>3, <1>4 DEF ParentStep
----------------------------------------------------------------------------
\* A slot belongs to one of the two recent chunks: what a thread writes into its
\* own slot is not in the other one's.
LEMMA RecentSlotsDiffer ==
  ASSUME TypeOK, NEW j \in Recent, NEW k \in Recent, j # k
  PROVE  Slot(j) # Slot(k)
<1>1. j \in Nat /\ k \in Nat /\ iChunk \in Nat
  BY NIs, SlotIs, Counters DEF Recent
<1>2. Launched <= iChunk + 1 /\ Launched \in Nat
  <2>1. Launched \in Nat /\ (Launched = iChunk \/ Launched = iChunk + 1)
    BY LaunchedIs
  <2> QED BY <1>1, <2>1
<1>3. j = k + 1 \/ k = j + 1
  BY <1>1, <1>2 DEF Recent
<1> QED BY <1>1, <1>3, SlotIs

LEMMA ThreadKeepsSlots ==
  ASSUME WarpInv, NEW k \in Chunks, ThreadStep(k)
  PROVE  SlotsOfRecent'
<1>1. OnlyItself(k) /\ SlotStep(k) /\ ResultStep(k) /\ TypeOK
  BY ThreadStepIs DEF WarpInv
<1>2. /\ parent' = parent /\ Recent' = Recent
      /\ \A j \in Chunks : j # k => thread'[j] = thread[j] /\ err'[j] = err[j]
  BY <1>1, ThreadFrame
<1> SUFFICES ASSUME parent # "no thread", NEW j \in Recent
             PROVE  /\ inUse'[Slot(j)] <=> ~Cleared(j)'
                    /\ (Cleared(j) \/ thread[j] = "clear slot")' => data'[Slot(j)] = err'[j]
  BY <1>2 DEF SlotsOfRecent
<1>3. /\ inUse[Slot(j)] <=> ~Cleared(j)
      /\ Cleared(j) \/ thread[j] = "clear slot" => data[Slot(j)] = err[j]
  BY DEF WarpInv, SlotsOfRecent
<1>4. j \in Chunks /\ k \in Chunks /\ Slot(j) \in Slots /\ Slot(k) \in Slots
  BY SlotIs DEF Recent
<1>5. inUse \in [Slots -> BOOLEAN] /\ DOMAIN data = Slots
  BY <1>1 DEF TypeOK
<1>6. CASE j # k
  <2>1. thread'[j] = thread[j] /\ err'[j] = err[j]
    BY <1>2, <1>4, <1>6
  <2>2. CASE Cleared(k)
    <3>1. UNCHANGED slotVars
      BY <1>1, <2>2 DEF SlotStep, Cleared
    <3> QED BY <1>3, <2>1, <3>1 DEF slotVars, Cleared
  <2>3. CASE ~Cleared(k)
    <3>1. Slot(j) # Slot(k)
      BY <1>1, <1>6, <2>3, ThreadIsRecent, RecentSlotsDiffer
    <3>2. inUse'[Slot(j)] = inUse[Slot(j)]
      BY <1>1, <1>4, <1>5, <3>1, Zenon DEF SlotStep, slotVars
    <3>3. data'[Slot(j)] = data[Slot(j)]
      BY <1>1, <1>4, <1>5, <3>1, Zenon DEF SlotStep, slotVars
    <3> QED BY <1>3, <2>1, <3>2, <3>3 DEF Cleared
  <2> QED BY <2>2, <2>3
<1>7. CASE j = k
  <2>1. CASE thread[k] = "store result"
    <3>1. /\ thread'[k] = "clear slot" /\ inUse' = inUse /\ err' = err
          /\ data' = [data EXCEPT ![Slot(k)] = err[k]]
      BY <1>1, <2>1 DEF SlotStep
    <3> QED BY <1>3, <1>4, <1>5, <1>7, <2>1, <3>1 DEF Cleared
  <2>2. CASE thread[k] = "clear slot"
    <3>1. /\ thread'[k] = "release slot" /\ data' = data /\ err' = err
          /\ inUse' = [inUse EXCEPT ![Slot(k)] = FALSE]
      BY <1>1, <2>2 DEF SlotStep
    <3>2. ~inUse'[Slot(k)]
      BY <1>4, <1>5, <3>1, Zenon
    <3> QED BY <1>3, <1>7, <2>2, <3>1, <3>2 DEF Cleared
  <2>3. CASE thread[k] = "release slot"
    <3>1. thread'[k] = "ended" /\ UNCHANGED slotVars /\ err' = err
      BY <1>1, <2>3 DEF SlotStep
    <3> QED BY <1>3, <1>7, <2>3, <3>1 DEF Cleared, slotVars
  <2>4. CASE thread[k] \notin {"store result", "clear slot", "release slot"}
    <3>1. UNCHANGED slotVars /\ thread'[k] \notin {"clear slot", "release slot", "ended"}
      BY <1>1, <2>4 DEF SlotStep
    <3>2. thread[k] # "ended"
      BY <1>1 DEF OnlyItself
    <3> QED BY <1>3, <1>7, <2>4, <3>1, <3>2 DEF Cleared, slotVars
  <2> QED BY <2>1, <2>2, <2>3, <2>4
<1> QED BY <1>6, <1>7

LEMMA ParentKeepsSlots ==
  ASSUME WarpInv, ParentStep
  PROVE  SlotsOfRecent'
<1>1. TypeOK /\ SlotsOfRecent /\ InOrder /\ iChunk \in 0 .. N
  BY Counters DEF WarpInv
<1>2. CASE Launch
  <2>1. parent = "prepare" /\ iChunk < N /\ iChunk \in Chunks
    BY <1>1, <1>2, NIs DEF Launch, Prepare, Chunks
  <2>2. /\ thread' = [thread EXCEPT ![iChunk] = "start"] /\ err' = err
        /\ inUse' = [inUse EXCEPT ![Slot(iChunk)] = TRUE]
        /\ data' = [data EXCEPT ![Slot(iChunk)] = "chunk"]
    BY <1>2 DEF Launch, Prepare, Go
  <2>3. Launched = iChunk /\ Launched' = iChunk + 1
    BY <1>1, <1>2, <2>1, NIs DEF Launch, Launched, AfterLaunch
  <2>4. iChunk' = iChunk \/ (iChunk = 0 /\ iChunk' = 1)
    BY <1>2 DEF Launch
  <2>5. \A j \in Recent' : j = iChunk \/ (j \in Recent /\ j + 1 = iChunk)
    BY <1>1, <2>1, <2>3, <2>4, NIs, SlotIs DEF Recent
  <2> SUFFICES ASSUME NEW j \in Recent'
               PROVE  /\ inUse'[Slot(j)] <=> ~Cleared(j)'
                      /\ (Cleared(j) \/ thread[j] = "clear slot")' => data'[Slot(j)] = err'[j]
    BY DEF SlotsOfRecent
  <2>6. CASE j = iChunk
    <3>1. inUse'[Slot(iChunk)]
      BY <1>1, <2>1, <2>2, SlotIs, Zenon DEF TypeOK
    <3>2. thread'[iChunk] = "start"
      BY <1>1, <2>1, <2>2 DEF TypeOK
    <3> QED BY <2>6, <3>1, <3>2 DEF Cleared
  <2>7. CASE j \in Recent /\ j + 1 = iChunk
    <3>1. j \in Chunks /\ j \in Nat /\ Slot(j) \in Slots /\ j # iChunk
      BY <2>7, SlotIs DEF Recent
    <3>2. Slot(j) # Slot(iChunk) /\ Slot(iChunk) \in Slots
      BY <2>1, <2>7, <3>1, SlotIs
    <3>3. inUse'[Slot(j)] = inUse[Slot(j)]
      BY <1>1, <2>2, <3>1, <3>2, Zenon DEF TypeOK
    <3>4. data'[Slot(j)] = data[Slot(j)] /\ thread'[j] = thread[j]
      BY <1>1, <2>2, <3>1, <3>2 DEF TypeOK
    <3>5. /\ inUse[Slot(j)] <=> ~Cleared(j)
          /\ Cleared(j) \/ thread[j] = "clear slot" => data[Slot(j)] = err[j]
      BY <1>1, <2>1, <2>7 DEF SlotsOfRecent
    <3> QED BY <2>2, <3>3, <3>4, <3>5 DEF Cleared
  <2> QED BY <2>5, <2>6, <2>7
<1>3. ASSUME UNCHANGED <<slotVars, thread, err>>, Recent' \subseteq Recent,
             parent # "no thread"
      PROVE  SlotsOfRecent'
  BY <1>1, <1>3 DEF SlotsOfRecent, slotVars, Cleared
<1>4. CASE WaitOver
  <2>1. parent = "wait"
    BY <1>4 DEF WaitOver
  <2>2. iChunk \in 1 .. N
    BY <2>1, OlderOfTwo
  <2>3. \/ parent' = "launch" /\ iChunk' = iChunk + 1 /\ iChunk < N
        \/ parent' = "join 0" /\ iChunk' = iChunk
    BY <1>4, Zenon DEF WaitOver
  <2>4. Recent' \subseteq Recent
    <3>1. CASE parent' = "launch" /\ iChunk' = iChunk + 1 /\ iChunk < N
      <4>1. Launched = iChunk + 1 /\ Launched' = iChunk + 1
        BY <2>1, <2>2, <3>1, NIs DEF Launched
      <4> QED BY <2>2, <3>1, <4>1, NIs, SlotIs DEF Recent
    <3>2. CASE parent' = "join 0" /\ iChunk' = iChunk
      <4>1. Launched' = Launched
        BY <2>1, <2>2, <3>2, NIs DEF Launched
      <4> QED BY <3>2, <4>1 DEF Recent
    <3> QED BY <2>3, <3>1, <3>2
  <2>5. UNCHANGED <<slotVars, thread, err>>
    BY <1>4 DEF WaitOver
  <2> QED BY <1>3, <2>1, <2>4, <2>5
<1>5. CASE LaunchFails
  BY <1>5 DEF LaunchFails, SlotsOfRecent
<1>6. CASE StoreBase \/ NothingToLaunch \/ Join \/ PollTake \/ PollGive
  <2>1. UNCHANGED <<slotVars, thread, err, iChunk>> /\ parent # "no thread"
    BY <1>6 DEF StoreBase, NothingToLaunch, Join, PollTake, PollGive
  <2>2. Launched' = Launched
    BY <1>6, <2>1 DEF StoreBase, NothingToLaunch, Join, PollTake, PollGive, Launched
  <2>3. Recent' = Recent
    BY <2>1, <2>2 DEF Recent
  <2> QED BY <1>3, <2>1, <2>3
<1> QED BY <1>2, <1>4, <1>5, <1>6 DEF ParentStep
----------------------------------------------------------------------------
\* The result, the threads that were waited for, and the progress.
LEMMA ThreadKeepsRest ==
  ASSUME WarpInv, NEW k \in Chunks, ThreadStep(k)
  PROVE  ResultKept' /\ JoinedSoFar' /\ BaseOfLatest' /\ ProgressNearby'
<1>1. OnlyItself(k) /\ SlotStep(k) /\ ResultStep(k) /\ TypeOK
  BY ThreadStepIs DEF WarpInv
<1>2. /\ UNCHANGED <<parent, iChunk, eErr, dfProgressBase, dfProgressScale>>
      /\ Launched' = Launched /\ Recent' = Recent
      /\ \A j \in Chunks : j # k => /\ thread'[j] = thread[j] /\ err'[j] = err[j]
                                    /\ base'[j] = base[j] /\ scale'[j] = scale[j]
  BY <1>1, ThreadFrame
<1>3. Cleared(k) => Cleared(k)' /\ UNCHANGED <<err, progressVars>>
  BY <1>1 DEF Cleared, OnlyItself, SlotStep, ResultStep, Finished
<1>4. \A j \in Chunks : Cleared(j) => Cleared(j)' /\ err'[j] = err[j]
  BY <1>2, <1>3 DEF Cleared
<1>5. ResultKept'
  <2> SUFFICES ASSUME parent \in Joining
               PROVE  /\ Cleared(iChunk - 1)' /\ err'[iChunk - 1] = eErr
                      /\ eErr = "CE_None" => iChunk = N
    BY <1>2 DEF ResultKept, Cleared
  <2>1. iChunk - 1 \in Chunks
    <3>1. iChunk > 0
      BY DEF WarpInv, InOrder, Joining
    <3>2. iChunk \in 0 .. N
      BY <1>1, Counters
    <3> QED BY <3>1, <3>2, NIs DEF Chunks
  <2>2. /\ Cleared(iChunk - 1) /\ err[iChunk - 1] = eErr
        /\ eErr = "CE_None" => iChunk = N
    BY DEF WarpInv, ResultKept
  <2>3. Cleared(iChunk - 1)' /\ err'[iChunk - 1] = err[iChunk - 1]
    BY <1>2, <1>4, <2>1, <2>2 DEF Cleared
  <2> QED BY <2>2, <2>3
<1>6. JoinedSoFar'
  BY <1>2, <1>4 DEF WarpInv, JoinedSoFar
<1>7. BaseOfLatest'
  BY <1>2 DEF WarpInv, BaseOfLatest
<1>8. ProgressNearby'
  <2>1. base'[k] \in {base[k], dfProgressBase} /\ scale'[k] \in {scale[k], dfProgressScale}
    BY <1>1 DEF OnlyItself
  <2>2. ASSUME ~Cleared(k)
        PROVE  dfProgressBase \in {k, k + 1} /\ dfProgressScale \in {k, k + 1}
    <3>1. k \in Recent
      BY <2>2, ThreadIsRecent
    <3>2. k \in Nat /\ iChunk <= k + 1 /\ k < Launched
      BY <3>1, SlotIs DEF Recent
    <3>3. /\ iChunk \in Nat /\ Launched \in Nat
          /\ Launched = iChunk \/ Launched = iChunk + 1
      BY <1>1, LaunchedIs
    <3>4. Launched > 0
      BY <3>2, <3>3
    <3>5. Launched - 1 = k \/ Launched - 1 = k + 1
      BY <3>2, <3>3
    <3>6. ASSUME parent \in {"prepare", "no thread"} PROVE iChunk = k + 1
      <4>1. Launched = iChunk
        BY <3>6 DEF Launched
      <4> QED BY <3>2, <3>3, <4>1
    <3>7. /\ \/ parent \in {"prepare", "no thread"} /\ dfProgressBase = iChunk
             \/ dfProgressBase = Launched - 1
          /\ \/ parent = "no thread" /\ dfProgressScale = iChunk
             \/ dfProgressScale = Launched - 1
      BY <3>4 DEF WarpInv, BaseOfLatest
    <3>8. dfProgressBase \in {k, k + 1}
      BY <3>5, <3>6, <3>7
    <3>9. dfProgressScale \in {k, k + 1}
      BY <3>5, <3>6, <3>7
    <3> QED BY <3>8, <3>9
  <2>3. Cleared(k) => UNCHANGED <<base, scale>>
    BY <1>3 DEF progressVars
  <2>4. \A j \in Chunks : {base[j], scale[j]} \subseteq {j, j + 1}
    BY DEF WarpInv, ProgressNearby
  <2>5. {base'[k], scale'[k]} \subseteq {k, k + 1}
    BY <2>1, <2>2, <2>3, <2>4
  <2> QED BY <1>2, <2>4, <2>5 DEF ProgressNearby
<1> QED BY <1>5, <1>6, <1>7, <1>8

LEMMA ParentKeepsResult ==
  ASSUME WarpInv, ParentStep
  PROVE  ResultKept'
<1>1. CASE WaitOver
  <2>1. /\ parent = "wait" /\ ~inUse[Awaited] /\ eErr' = data[Awaited]
        /\ UNCHANGED <<thread, err>>
    BY <1>1 DEF WaitOver
  <2>2. iChunk \in 1 .. N /\ Cleared(iChunk - 1) /\ data[Awaited] = err[iChunk - 1]
    BY <2>1, OlderOfTwo
  <2>3. CASE data[Awaited] = "CE_None" /\ iChunk < N
    BY <1>1, <2>3 DEF WaitOver, ResultKept, Joining
  <2>4. CASE ~(data[Awaited] = "CE_None" /\ iChunk < N)
    <3>1. iChunk' = iChunk
      BY <1>1, <2>4 DEF WaitOver
    <3>2. eErr' = "CE_None" => iChunk = N
      BY <2>1, <2>2, <2>4, NIs
    <3> QED BY <2>1, <2>2, <3>1, <3>2 DEF ResultKept, Cleared
  <2> QED BY <2>3, <2>4
<1>2. CASE Launch
  BY <1>2 DEF Launch, AfterLaunch, ResultKept, Joining
<1>3. CASE StoreBase \/ LaunchFails
  BY <1>3 DEF StoreBase, LaunchFails, ResultKept, Joining
<1>4. CASE NothingToLaunch
  BY <1>4 DEF NothingToLaunch, ResultKept, Joining
<1>5. CASE Join \/ PollTake \/ PollGive
  <2>1. UNCHANGED <<thread, err, iChunk, eErr>>
    BY <1>5 DEF Join, PollTake, PollGive
  <2>2. parent' \in Joining => parent \in Joining
    BY <1>5 DEF Join, PollTake, PollGive, Joining
  <2> QED BY <2>1, <2>2 DEF WarpInv, ResultKept, Cleared
<1> QED BY <1>1, <1>2, <1>3, <1>4, <1>5 DEF ParentStep

\* The parent looks at slot 0, then at slot 1: with the slots of the last two
\* chunks both free, every chunk is done.
LEMMA ParentKeepsJoined ==
  ASSUME WarpInv, ParentStep
  PROVE  JoinedSoFar'
<1>1. CASE Join
  <2>1. UNCHANGED <<thread, iChunk>> /\ parent \in {"join 0", "join 1"}
    BY <1>1 DEF Join
  <2>2. parent' \in {"join 1", "returned"}
    BY <1>1 DEF Join
  <2>3. Launched' = Launched
    BY <2>1, <2>2 DEF Launched
  <2>4. \A j \in Chunks : j < Launched /\ j \notin Recent => Cleared(j)
    <3>1. TypeOK /\ InOrder
      BY DEF WarpInv
    <3>2. iChunk \in Nat
      BY <3>1, NIs, Counters
    <3>3. \A j \in Chunks : j + 1 < iChunk \/ iChunk <= j + 1
      BY <3>2, SlotIs
    <3> QED BY <3>1, <3>3 DEF Recent, InOrder
  <2>5. \A j \in Recent : ~inUse[Slot(j)] => Cleared(j)
    BY <2>1 DEF WarpInv, SlotsOfRecent
  <2>6. CASE parent = "join 0"
    <3>1. parent' = "join 1" /\ ~inUse[0]
      BY <1>1, <2>6 DEF Join
    <3>2. \A j \in Chunks : j < Launched /\ Slot(j) = 0 => Cleared(j)
      BY <2>4, <2>5, <3>1
    <3> QED BY <2>1, <2>3, <3>1, <3>2 DEF JoinedSoFar, Cleared
  <2>7. CASE parent = "join 1"
    <3>1. parent' = "returned" /\ ~inUse[1]
      BY <1>1, <2>7 DEF Join
    <3>2. ASSUME NEW j \in Chunks, j < Launched PROVE Cleared(j)
      <4>1. Slot(j) = 0 \/ Slot(j) = 1
        BY SlotIs DEF Slots
      <4>2. Slot(j) = 0 => Cleared(j)
        BY <2>7, <3>2 DEF WarpInv, JoinedSoFar
      <4> QED BY <2>4, <2>5, <3>1, <3>2, <4>1, <4>2
    <3> QED BY <2>1, <2>3, <3>1, <3>2 DEF JoinedSoFar, Cleared
  <2> QED BY <2>1, <2>6, <2>7
<1>2. CASE PollTake \/ PollGive
  <2>1. UNCHANGED <<thread, iChunk>>
    BY <1>2 DEF PollTake, PollGive
  <2>2. /\ parent' # "returned" /\ Launched' = Launched
        /\ parent' \in {"join 1", "poll join 1"} => parent \in {"join 1", "poll join 1"}
    BY <1>2, <2>1 DEF PollTake, PollGive, Launched
  <2> QED BY <2>1, <2>2 DEF WarpInv, JoinedSoFar, Cleared
<1>3. CASE StoreBase \/ Launch \/ LaunchFails \/ NothingToLaunch \/ WaitOver
  <2>1. parent' \notin {"join 1", "poll join 1", "returned"}
    BY <1>3 DEF StoreBase, Launch, LaunchFails, NothingToLaunch, WaitOver, AfterLaunch
  <2> QED BY <2>1 DEF JoinedSoFar
<1> QED BY <1>1, <1>2, <1>3 DEF ParentStep

LEMMA ParentKeepsProgress ==
  ASSUME WarpInv, ParentStep
  PROVE  BaseOfLatest' /\ ProgressNearby'
<1>1. base' = base /\ scale' = scale
  BY DEF ParentStep, StoreBase, Launch, LaunchFails, Prepare, NothingToLaunch, WaitOver,
         Join, PollTake, PollGive, progressVars
<1>2. ProgressNearby'
  BY <1>1 DEF WarpInv, ProgressNearby
<1>3. TypeOK /\ BaseOfLatest /\ iChunk \in 0 .. N
  BY Counters DEF WarpInv
<1>4. CASE Launch
  <2>1. /\ parent = "prepare" /\ iChunk < N
        /\ dfProgressScale' = iChunk /\ dfProgressBase' = dfProgressBase
    BY <1>4 DEF Launch, Prepare
  <2>2. Launched' = iChunk + 1 /\ parent' \notin {"prepare", "no thread"}
    BY <1>3, <1>4, <2>1, NIs DEF Launch, Launched, AfterLaunch
  <2>3. Launched' - 1 = iChunk
    <3>1. (iChunk + 1) - 1 = iChunk
      <4>1. iChunk \in Nat
        BY <1>3, LaunchedIs
      <4> QED BY <4>1
    <3> QED BY <2>2, <3>1
  <2>4. dfProgressBase = iChunk
    BY <1>3, <2>1 DEF BaseOfLatest
  <2> QED BY <1>2, <2>1, <2>2, <2>3, <2>4 DEF BaseOfLatest
<1>5. CASE LaunchFails
  <2>1. /\ parent = "prepare" /\ parent' = "no thread" /\ iChunk' = iChunk
        /\ dfProgressScale' = iChunk /\ dfProgressBase' = dfProgressBase
    BY <1>5 DEF LaunchFails, Prepare
  <2>2. Launched' = iChunk /\ Launched = iChunk
    BY <2>1 DEF Launched
  <2> QED BY <1>2, <1>3, <2>1, <2>2 DEF BaseOfLatest
<1>8. CASE StoreBase
  <2>1. /\ parent = "launch" /\ parent' = "prepare" /\ iChunk' = iChunk
        /\ dfProgressBase' = iChunk /\ dfProgressScale' = dfProgressScale
    BY <1>8 DEF StoreBase
  <2>2. Launched' = Launched
    BY <2>1 DEF Launched
  <2> QED BY <1>2, <1>3, <2>1, <2>2 DEF BaseOfLatest
<1>6. CASE WaitOver
  <2>1. parent = "wait" /\ UNCHANGED <<dfProgressBase, dfProgressScale>>
    BY <1>6 DEF WaitOver
  <2>2. iChunk \in 1 .. N
    BY <2>1, OlderOfTwo
  <2>3. \/ parent' = "launch" /\ iChunk' = iChunk + 1 /\ iChunk < N
        \/ parent' = "join 0" /\ iChunk' = iChunk
    BY <1>6, Zenon DEF WaitOver
  <2>4. Launched' = Launched /\ parent' \notin {"prepare", "no thread"}
    <3>1. CASE parent' = "launch" /\ iChunk' = iChunk + 1 /\ iChunk < N
      BY <2>1, <2>2, <3>1, NIs DEF Launched
    <3>2. CASE parent' = "join 0" /\ iChunk' = iChunk
      BY <2>1, <2>2, <3>2, NIs DEF Launched
    <3> QED BY <2>3, <3>1, <3>2
  <2> QED BY <1>2, <1>3, <2>1, <2>4 DEF BaseOfLatest
<1>7. CASE NothingToLaunch \/ Join \/ PollTake \/ PollGive
  <2>1. /\ UNCHANGED <<dfProgressBase, dfProgressScale, iChunk>>
        /\ {parent, parent'} \cap {"prepare", "no thread"} = {}
    BY <1>7 DEF NothingToLaunch, Join, PollTake, PollGive
  <2>2. Launched' = Launched
    BY <1>7, <2>1 DEF NothingToLaunch, Join, PollTake, PollGive, Launched
  <2> QED BY <1>2, <1>3, <2>1, <2>2 DEF BaseOfLatest
<1> QED BY <1>4, <1>5, <1>6, <1>7, <1>8 DEF ParentStep

LEMMA WarpInvHolds == Spec => []WarpInv
<1>1. Init => WarpInv
  <2> SUFFICES ASSUME Init PROVE WarpInv
    OBVIOUS
  <2>1. TypeOK
    <3>1. /\ iChunk \in 0 .. N
          /\ dfProgressBase \in 0 .. N - 1 /\ dfProgressScale \in 0 .. N - 1
      BY NIs DEF Init
    <3>2. base \in [Chunks -> 0 .. N - 1] /\ scale \in [Chunks -> 0 .. N - 1]
      BY NIs DEF Init, Chunks
    <3>3. inUse \in [Slots -> BOOLEAN]
      BY Zenon DEF Init
    <3>4. /\ owner \in [Mutexes -> Chunks \cup {Parent, NoOwner}]
          /\ data \in [Slots -> {"chunk", "CE_None", "CE_Failure"}]
          /\ thread \in [Chunks -> Steps]
          /\ err \in [Chunks -> {"CE_None", "CE_Failure"}]
      BY DEF Init, Steps
    <3> QED BY <3>1, <3>2, <3>3, <3>4 DEF Init, TypeOK, Steps
  <2>2. Launched = 0 /\ Recent = {}
    BY NIs, SlotIs DEF Init, Launched, Recent
  <2>3. MutexesHeld /\ ResultKept /\ JoinedSoFar /\ ProgressNearby
    BY DEF Init, MutexesHeld, AtDatasets, ResultKept, Joining, JoinedSoFar, ProgressNearby
  <2>4. InOrder /\ SlotsOfRecent /\ BaseOfLatest
    BY <2>2, NIs, SlotIs DEF Init, InOrder, SlotsOfRecent, BaseOfLatest
  <2> QED BY <2>1, <2>3, <2>4 DEF WarpInv
<1>2. ASSUME WarpInv, NEW k \in Chunks, ThreadStep(k) PROVE WarpInv'
  BY <1>2, ThreadKeepsTypes, ThreadKeepsMutexes, ThreadKeepsOrder, ThreadKeepsSlots,
     ThreadKeepsRest DEF WarpInv
<1>3. ASSUME WarpInv, ParentStep PROVE WarpInv'
  BY <1>3, ParentKeepsTypes, ParentKeepsMutexes, ParentKeepsOrder, ParentKeepsSlots,
     ParentKeepsResult, ParentKeepsJoined, ParentKeepsProgress DEF WarpInv
<1>4. ASSUME WarpInv, UNCHANGED vars PROVE WarpInv'
  <2>0. TypeOK'
    BY <1>4 DEF vars, WarpInv, TypeOK
  <2>1. Launched' = Launched /\ Recent' = Recent /\ \A k : Cleared(k)' <=> Cleared(k)
    BY <1>4 DEF vars, Launched, Recent, Cleared
  <2>2. MutexesHeld' /\ ResultKept' /\ JoinedSoFar'
    BY <1>4, <2>1 DEF vars, WarpInv, MutexesHeld, ResultKept, JoinedSoFar
  <2>3. InOrder' /\ SlotsOfRecent' /\ BaseOfLatest' /\ ProgressNearby'
    BY <1>4, <2>1 DEF vars, WarpInv, InOrder, SlotsOfRecent, BaseOfLatest, ProgressNearby
  <2> QED BY <2>0, <2>2, <2>3 DEF WarpInv
<1>5. WarpInv /\ [Next]_vars => WarpInv'
  BY <1>2, <1>3, <1>4 DEF Next
<1> QED BY <1>1, <1>5, PTL DEF Spec

\* No variable leaves its type, iChunk and the result of the call in particular.
THEOREM TypeCorrect == Spec => []TypeOK
<1>1. WarpInv => TypeOK
  BY DEF WarpInv
<1> QED BY <1>1, WarpInvHolds, PTL

\* The datasets and the warper are used by one thread at a time (hIOMutex and
\* hWarpMutex in WarpRegion and WarpRegionToBuffer).
THEOREM OneAtATimeHolds == Spec => []OneAtATime
<1>1. WarpInv => OneAtATime
  BY DEF WarpInv, MutexesHeld, OneAtATime
<1> QED BY <1>1, WarpInvHolds, PTL

\* After the return of ChunkAndWarpMulti its threads have cleared their slots
\* and have the mutex of the slot to release at most, but for the chunk before
\* one whose thread could not be created.
THEOREM NoWorkLeftHolds == Spec => []NoWorkLeft
<1>1. ASSUME WarpInv, NEW k \in Chunks,
             parent = "returned" \/ (parent = "no thread" /\ k + 1 # iChunk)
      PROVE  thread[k] \in {"none", "release slot", "ended"}
  <2>1. TypeOK /\ InOrder /\ JoinedSoFar
    BY <1>1 DEF WarpInv
  <2>2. k \in Nat /\ Launched \in Nat /\ iChunk \in Nat
    BY <2>1, LaunchedIs, SlotIs
  <2>3. CASE k < Launched /\ parent = "returned"
    BY <1>1, <2>1, <2>3 DEF JoinedSoFar, Cleared
  <2>4. CASE k >= Launched
    BY <2>1, <2>4 DEF InOrder
  <2>5. CASE k < Launched /\ parent = "no thread"
    <3>1. k < iChunk /\ k + 1 # iChunk
      BY <1>1, <2>1, <2>5, LaunchedIs
    <3>2. k + 1 < iChunk
      BY <2>2, <3>1
    <3> QED BY <2>1, <3>2 DEF InOrder, Cleared
  <2>6. k < Launched \/ k >= Launched
    BY <2>2
  <2> QED BY <1>1, <2>3, <2>4, <2>5, <2>6
<1>2. WarpInv => NoWorkLeft
  BY <1>1 DEF NoWorkLeft
<1> QED BY <1>2, WarpInvHolds, PTL

\* A thread reports the progress of its own chunk or of the next (dfProgressBase,
\* dfProgressScale), although both are set for the next while it copies them.
THEOREM ProgressNearbyHolds == Spec => []ProgressNearby
<1>1. WarpInv => ProgressNearby
  BY DEF WarpInv
<1> QED BY <1>1, WarpInvHolds, PTL
----------------------------------------------------------------------------
\* The promise: a step of a thread processes its chunk or changes nothing ...
LEMMA ThreadKeepsPromise ==
  ASSUME WarpInv, NEW k \in Chunks, ThreadStep(k)
  PROVE  WarpPromise!Next \/ UNCHANGED <<Done, Outcome>>
<1>1. OnlyItself(k) /\ ResultStep(k) /\ SlotStep(k) /\ TypeOK
  BY ThreadStepIs DEF WarpInv
<1>2. /\ UNCHANGED <<parent, iChunk, eErr>>
      /\ \A j \in Chunks : j # k => thread'[j] = thread[j] /\ err'[j] = err[j]
  BY <1>1, ThreadFrame
<1>3. Outcome' = Outcome
  BY <1>2 DEF Outcome
<1>4. \A j \in Chunks : j # k => Done'[j] = Done[j]
  BY <1>2 DEF Done, Finished
<1>5. CASE Done'[k] = Done[k]
  <2>1. Done' = Done
    BY <1>4, <1>5 DEF Done
  <2> QED BY <1>3, <2>1
<1>6. CASE Done'[k] # Done[k]
  <2>1. ~Finished(k)
    BY <1>1, <1>6 DEF ResultStep, Done, Finished
  <2>2. Finished(k)'
    BY <1>6, <2>1 DEF Done, Finished
  <2>3. Done[k] = "todo" /\ Done'[k] = err'[k] /\ err'[k] \in {"CE_None", "CE_Failure"}
    BY <1>1, <2>1, <2>2 DEF Done, Finished, OnlyItself
  <2>4. Done' = [Done EXCEPT ![k] = Done'[k]]
    BY <1>4 DEF Done
  <2>5. k \in Recent /\ ~Cleared(k)
    BY <2>1, ThreadIsRecent DEF Cleared, Finished
  <2>6. Outcome \in {"running", "no thread"}
    <3>1. parent # "returned"
      BY <2>5 DEF WarpInv, JoinedSoFar, Recent
    <3> QED BY <3>1 DEF Outcome
  <2>7. ASSUME NEW j \in Chunks, j + 2 <= k PROVE Done[j] = "CE_None"
    <3>1. k <= iChunk
      <4>1. k \in Nat /\ iChunk \in Nat /\ Launched \in Nat /\ k < Launched
        BY <1>1, <2>5, LaunchedIs, SlotIs DEF Recent
      <4>2. Launched = iChunk \/ Launched = iChunk + 1
        BY <1>1, LaunchedIs
      <4> QED BY <4>1, <4>2
    <3>2. j + 1 < iChunk
      <4>1. j \in Nat /\ k \in Nat /\ iChunk \in Nat
        BY <1>1, LaunchedIs, SlotIs
      <4> QED BY <2>7, <3>1, <4>1
    <3>3. Cleared(j) /\ err[j] = "CE_None"
      BY <3>2 DEF WarpInv, InOrder
    <3> QED BY <3>3 DEF Done, Finished, Cleared
  <2>8. WarpPromise!Process(k, Done'[k])
    BY <1>3, <2>3, <2>4, <2>6, <2>7 DEF WarpPromise!Process, WarpPromise!Chunks, Chunks
  <2> QED BY <2>3, <2>8 DEF WarpPromise!Next, WarpPromise!Chunks, WarpPromise!Results, Chunks
<1> QED BY <1>5, <1>6

\* ... and the parent returns what became of the chunks, or goes on.
LEMMA ParentKeepsPromise ==
  ASSUME WarpInv, ParentStep
  PROVE  WarpPromise!Next \/ UNCHANGED <<Done, Outcome>>
<1>1. TypeOK /\ InOrder /\ ResultKept /\ JoinedSoFar /\ SlotsOfRecent
  BY DEF WarpInv
<1>2. Done' = Done
  <2>1. CASE Launch
    <3>1. err' = err /\ thread' = [thread EXCEPT ![iChunk] = "start"]
      BY <2>1 DEF Launch, Prepare, Go
    <3>2. iChunk \in Chunks => thread[iChunk] = "none"
      <4>1. Launched = iChunk
        BY <2>1 DEF Launch, Prepare, Launched
      <4>2. iChunk >= Launched
        BY <1>1, <4>1, LaunchedIs
      <4> QED BY <1>1, <4>2 DEF InOrder
    <3>3. \A j \in Chunks : Finished(j)' <=> Finished(j)
      BY <1>1, <3>1, <3>2 DEF Finished, TypeOK
    <3> QED BY <3>1, <3>3 DEF Done
  <2>2. CASE ~Launch
    <3>1. UNCHANGED <<thread, err>>
      BY <2>2 DEF ParentStep, StoreBase, LaunchFails, Prepare, NothingToLaunch, WaitOver,
                  Join, PollTake, PollGive
    <3> QED BY <3>1 DEF Done, Finished
  <2> QED BY <2>1, <2>2
<1>3. CASE LaunchFails
  <2>1. Outcome = "running" /\ Outcome' = "no thread"
    BY <1>3 DEF LaunchFails, Prepare, Outcome
  <2> QED BY <1>2, <2>1 DEF WarpPromise!Next, WarpPromise!NoThread
<1>4. CASE Join
  <2>1. UNCHANGED <<iChunk, eErr, thread, err>>
    BY <1>4 DEF Join
  <2>2. CASE parent' = "join 1"
    BY <1>2, <1>4, <2>2 DEF Join, Outcome
  <2>3. CASE parent' = "returned"
    <3>1. parent = "join 1" /\ Outcome = "running" /\ Outcome' = eErr
      BY <1>4, <2>1, <2>3 DEF Join, Outcome
    <3>2. Cleared(iChunk - 1) /\ err[iChunk - 1] = eErr /\ (eErr = "CE_None" => iChunk = N)
      BY <1>1, <3>1 DEF ResultKept, Joining
    <3>3. iChunk \in 1 .. N /\ iChunk - 1 \in Chunks
      <4>1. iChunk > 0 /\ iChunk \in 0 .. N
        BY <1>1, <3>1, Counters DEF InOrder
      <4> QED BY <4>1, NIs DEF Chunks
    <3>4. CASE eErr = "CE_None"
      <4>1. ASSUME NEW j \in Chunks PROVE Done[j] = "CE_None"
        <5>1. j + 1 < iChunk \/ j = iChunk - 1
          BY <3>2, <3>3, <3>4, NIs DEF Chunks
        <5>2. Cleared(j) /\ err[j] = "CE_None"
          BY <1>1, <3>2, <3>4, <5>1 DEF InOrder
        <5> QED BY <5>2 DEF Done, Finished, Cleared
      <4> QED BY <1>2, <3>1, <3>4, <4>1
              DEF WarpPromise!Next, WarpPromise!ReturnNone, WarpPromise!Chunks, Chunks
    <3>5. CASE eErr = "CE_Failure"
      <4>1. Done[iChunk - 1] = "CE_Failure"
        BY <3>2, <3>3, <3>5 DEF Done, Finished, Cleared
      <4> QED BY <1>2, <3>1, <3>3, <3>5, <4>1
              DEF WarpPromise!Next, WarpPromise!ReturnFailure, WarpPromise!Chunks, Chunks
    <3> QED BY <1>1, <3>4, <3>5 DEF TypeOK
  <2> QED BY <1>4, <2>2, <2>3 DEF Join
<1>5. CASE StoreBase \/ Launch \/ NothingToLaunch \/ WaitOver \/ PollTake \/ PollGive
  <2>1. Outcome = "running" /\ Outcome' = "running"
    BY <1>5 DEF StoreBase, Launch, Prepare, NothingToLaunch, WaitOver, PollTake, PollGive,
                AfterLaunch, Outcome
  <2> QED BY <1>2, <2>1
<1> QED BY <1>3, <1>4, <1>5 DEF ParentStep

\* ChunkAndWarpMulti implements a warp in chunks: each chunk once and in order,
\* at most two ahead, nothing after the return, and a truthful result.
THEOREM WarpKeptHolds == Spec => WarpKept
<1>1. Init => WarpPromise!Init
  BY DEF Init, WarpPromise!Init, WarpPromise!Chunks, Chunks, Done, Finished, Outcome
<1>2. WarpInv /\ [Next]_vars => [WarpPromise!Next]_<<Done, Outcome>>
  <2>1. ASSUME UNCHANGED vars PROVE UNCHANGED <<Done, Outcome>>
    BY <2>1 DEF vars, Done, Finished, Outcome
  <2> QED BY <2>1, ThreadKeepsPromise, ParentKeepsPromise DEF Next
<1> QED BY <1>1, <1>2, WarpInvHolds, PTL DEF Spec, WarpKept, WarpPromise!Spec
=============================================================================
