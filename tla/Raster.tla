------------------------------- MODULE Raster -------------------------------
(***************************************************************************)
(* What the callers of GDALRasterBand expect of cached raster data          *)
(* (gcore/gdalrasterband.cpp, gcore/rasterio.cpp): every block behaves as   *)
(* one register.  Each call takes effect exactly once between its beginning *)
(* and its return, a read gives the last contents written through GDAL, and *)
(* the file only ever receives the current contents.  BlockCache implements *)
(* this specification.                                                      *)
(***************************************************************************)
EXTENDS Integers

CONSTANTS Threads, NBlocks, NContents, NULL

Slots == Threads \X (1 .. NBlocks)   \* block i of the band of thread t
Contents == 0 .. NContents - 1

VARIABLES
  value,  \* value[s]: the contents of block s for the callers
  stored, \* stored[s]: its contents in the file
  result  \* result[t]: the contents that the call of t has read or left in
          \* its block, NULL until it has

Init ==
  /\ value = [s \in Slots |-> 0]
  /\ stored = [s \in Slots |-> 0]
  /\ result = [t \in Threads |-> NULL]

\* The call of t on its block i takes effect and leaves v in the block.
TakeEffect(t, i, v) ==
  /\ result[t] = NULL
  /\ result' = [result EXCEPT ![t] = v]
  /\ value' = [value EXCEPT ![<<t, i>>] = v]
  /\ UNCHANGED stored

Read(t, i) == TakeEffect(t, i, value[<<t, i>>])

\* A write of a part of the block: the new contents depend on the old ones.
Update(t, i) == TakeEffect(t, i, (value[<<t, i>>] + 1) % NContents)

\* A write of the whole block.
Overwrite(t, i) == TakeEffect(t, i, 0)

Return(t) ==
  /\ result' = [result EXCEPT ![t] = NULL]
  /\ UNCHANGED <<value, stored>>

Store(s) ==
  /\ stored' = [stored EXCEPT ![s] = value[s]]
  /\ UNCHANGED <<value, result>>

Next ==
  \/ \E t \in Threads, i \in 1 .. NBlocks : Read(t, i) \/ Update(t, i) \/ Overwrite(t, i)
  \/ \E t \in Threads : Return(t)
  \/ \E s \in Slots : Store(s)

Spec == Init /\ [][Next]_<<value, stored, result>>
=============================================================================
