---------------------------- MODULE ChunkedWarp ----------------------------
(***************************************************************************)
(* What a warp in chunks promises to its caller (ChunkAndWarpImage and     *)
(* ChunkAndWarpMulti of alg/gdalwarpoperation.cpp): the chunks are         *)
(* processed in order, at most Ahead of them at the same time; each is     *)
(* done once; nothing more is begun two chunks after a failure; the call   *)
(* returns CE_None only when every chunk was written and CE_Failure only   *)
(* when one was not; and once it has returned nothing happens any more.    *)
(***************************************************************************)
EXTENDS Naturals

CONSTANTS N,     \* nChunkListCount
          Ahead  \* chunks in progress at the same time

VARIABLES done,    \* done[k]: the outcome of chunk k, "todo" before
          outcome  \* what the call returned, "running" before

Chunks == 0 .. N - 1
Results == {"CE_None", "CE_Failure"}

Init == done = [k \in Chunks |-> "todo"] /\ outcome = "running"

Process(k, r) ==
  /\ outcome \in {"running", "no thread"}
  /\ done[k] = "todo"
  /\ \A j \in Chunks : j + Ahead <= k => done[j] = "CE_None"
  /\ done' = [done EXCEPT ![k] = r]
  /\ UNCHANGED outcome

ReturnNone ==
  /\ outcome = "running"
  /\ \A k \in Chunks : done[k] = "CE_None"
  /\ outcome' = "CE_None"
  /\ UNCHANGED done

ReturnFailure ==
  /\ outcome = "running"
  /\ \E k \in Chunks : done[k] = "CE_Failure"
  /\ outcome' = "CE_Failure"
  /\ UNCHANGED done

\* A thread cannot be created: the call gives up, chunks in progress go on.
NoThread ==
  /\ outcome = "running"
  /\ outcome' = "no thread"
  /\ UNCHANGED done

Next ==
  \/ \E k \in Chunks, r \in Results : Process(k, r)
  \/ ReturnNone
  \/ ReturnFailure
  \/ NoThread

Spec == Init /\ [][Next]_<<done, outcome>>
=============================================================================
