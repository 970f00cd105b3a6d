------------------------------ MODULE RasterIO ------------------------------
(***************************************************************************)
(* One request of gcore/rasterio.cpp on a cached band: how IRasterIO,      *)
(* BlockBasedRasterIO and Fill walk over the blocks of a window, while     *)
(* other requests may evict any block that is not locked, and the block    *)
(* they evict may fail to be written.                                      *)
(*                                                                         *)
(* A request visits blocks.  A visit obtains the block with                *)
(* GetLockedBlockRef, which reads it from the file unless it is cached or  *)
(* bJustInitialize says that all of it will be set, and reads or sets the  *)
(* pixels that the request takes from one line of blocks.  Pixels carry    *)
(* one of three values: what they were before the request, what the        *)
(* request writes, and what malloc left in a block nobody filled.          *)
(***************************************************************************)
EXTENDS Integers, FiniteSets

CONSTANTS
  Width, Height,   \* nRasterXSize, nRasterYSize
  BlockW, BlockH,  \* nBlockXSize, nBlockYSize
  Windows,         \* the windows requested: records [x, y, w, h]
  BufSizes,        \* the sizes of the buffers: pairs <<nBufXSize, nBufYSize>>
  Calls,           \* subset of AllCalls
  IOFails,         \* may blocks fail to be read, or to be written?
  Resolution,      \* a double tells positions 1 / Resolution of a pixel apart
  Errors           \* the rounding errors of the samples, as functions of their
                   \* number, in units of 1 / Resolution

\* RasterIO of a band or of a dataset, for reading or for writing, and Fill.
AllCalls == {"bandread", "bandwrite", "datasetread", "datasetwrite", "fill"}

Ceil(a, b) == (a + b - 1) \div b
BlockIds == (0 .. Ceil(Width, BlockW) - 1) \X (0 .. Ceil(Height, BlockH) - 1)
Pixels == (0 .. Ceil(Width, BlockW) * BlockW - 1) \X (0 .. Ceil(Height, BlockH) * BlockH - 1)
Raster == (0 .. Width - 1) \X (0 .. Height - 1)   \* Pixels pads the last blocks
BlockOf(p) == <<p[1] \div BlockW, p[2] \div BlockH>>

ASSUME RasterIOAssumption ==
  /\ {Width, Height, BlockW, BlockH} \subseteq Nat \ {0}
  /\ \A n \in Windows : /\ n.x \in Nat /\ n.w \in Nat \ {0} /\ n.x + n.w <= Width
                        /\ n.y \in Nat /\ n.h \in Nat \ {0} /\ n.y + n.h <= Height
  /\ BufSizes \subseteq (Nat \ {0}) \X (Nat \ {0})
  /\ Calls \subseteq AllCalls
  /\ IOFails \in BOOLEAN
  /\ Resolution \in Nat \ {0}
  /\ \A b \in BufSizes, e \in Errors :
       \A i \in (0 .. b[1] - 1) \cup (0 .. b[2] - 1) : e[i] \in -1 .. 1

VARIABLES
  call, window, buf, \* the request
  error,             \* the errors of its samples, along x and along y
  line, column,      \* where the walk is: line of the walk, column of blocks
  cached, dirty,     \* blocks in the cache, and those marked dirty
  locked,            \* the blocks the request has locked
  mem, file,         \* values of the pixels, in the cache and in the file
  lost,              \* the blocks that were evicted without being written
  result             \* "running", "CE_None" or "CE_Failure"

request == <<call, window, buf, error>>
vars == <<request, line, column, cached, dirty, locked, mem, file, lost, result>>
----------------------------------------------------------------------------
Writing == call \in {"bandwrite", "datasetwrite", "fill"}
SameSize == buf = <<window.w, window.h>>

\* Fill, cases 1 and 2 of IRasterIO and the full-resolution case of
\* BlockBasedRasterIO: one line of blocks at a time.
ByBlocks == call = "fill" \/ SameSize

\* Mutant: samples at the end of their cell rather than in its middle.
SampleEnd(off, size, n, i, e) == off + ((i + 1) * size) \div n

\* The nearest-neighbour loops of BlockBasedRasterIO.
DatasetResampled == ~ByBlocks /\ call \in {"datasetread", "datasetwrite"}

\* The write part of case 3 goes over the lines of the window ...
ByLines == ~ByBlocks /\ call = "bandwrite"
\* ... and everything else over the lines of the buffer, taking sample i of n
\* from (int)((i + 0.5) * (size / n) + off), computed in doubles: e is how far
\* the roundings take it from the exact value, but never to below off.
Sample(off, size, n, i, e) ==
  off + LET cells == ((2 * i + 1) * size * Resolution + 2 * n * e) \div (2 * n * Resolution)
        IN  IF cells < 0 THEN 0 ELSE cells

Xs == window.x .. window.x + window.w - 1
Ys == window.y .. window.y + window.h - 1
Lines ==
  IF ByBlocks THEN {p[2] \div BlockH : p \in Xs \X Ys}
  ELSE IF ByLines THEN Ys
  ELSE 0 .. buf[2] - 1
RowsOf(i) ==
  IF ByBlocks THEN {y \in Ys : y \div BlockH = i}
  ELSE IF ByLines THEN {i}
  ELSE {Sample(window.y, window.h, buf[2], i, error.y[i])}
Columns ==
  IF ByBlocks \/ ByLines THEN Xs
  ELSE {Sample(window.x, window.w, buf[1], i, error.x[i]) : i \in 0 .. buf[1] - 1}
BlockColumns == {x \div BlockW : x \in Columns}

First(S) == CHOOSE n \in S : \A m \in S : n <= m
\* Mutant: the walk skips a block or a line.
BeyondNext(S, n) == {m \in S : m > n + 1}

Beyond(S, n) == {m \in S : m > n}
Row == (CHOOSE y \in RowsOf(line) : TRUE) \div BlockH
Visited == <<column, Row>>          \* the block the walk is at
Whole(b) == {p \in Pixels : BlockOf(p) = b}
Wanted ==
  IF call = "fill" THEN Whole(Visited)
  ELSE {p \in Columns \X RowsOf(line) : BlockOf(p) = Visited}

\* Mutant: the window need not begin at or above the block.
JustInitializeAbove ==
  /\ Writing
  /\ \/ call = "fill"
     \/ /\ window.y + window.h >= (Visited[2] + 1) * BlockH
        /\ window.x <= Visited[1] * BlockW
        /\ window.x + window.w >= (Visited[1] + 1) * BlockW

\* bJustInitialize: the window covers the block, padding included.
JustInitialize ==
  /\ Writing
  /\ \/ call = "fill"
     \/ /\ window.y <= Visited[2] * BlockH
        /\ window.y + window.h >= (Visited[2] + 1) * BlockH
        /\ window.x <= Visited[1] * BlockW
        /\ window.x + window.w >= (Visited[1] + 1) * BlockW
----------------------------------------------------------------------------
\* The pixels of the visited block once GetLockedBlockRef returned it.
Fetched(p) ==
  IF Visited \in cached THEN mem[p]
  ELSE IF JustInitialize THEN "junk" ELSE file[p]

\* On to the next column of blocks, to the next line, or out of the loops.
Advance ==
  IF Beyond(BlockColumns, column) # {}
  THEN /\ column' = First(Beyond(BlockColumns, column))
       /\ UNCHANGED <<line, result>>
  ELSE IF Beyond(Lines, line) # {}
  THEN /\ column' = First(BlockColumns)
       /\ line' = First(Beyond(Lines, line))
       /\ UNCHANGED result
  ELSE /\ result' = "CE_None"
       /\ UNCHANGED <<line, column>>

\* Case 1 and the samples let a block go when they obtain the next one; case 2
\* and Fill at once, and so does BlockBasedRasterIO at full resolution, which
\* makes a band request of each chunk.
KeepsLock == ByBlocks => call \in {"bandread", "bandwrite"} /\ BlockW = Width

Visit ==
  /\ result = "running" /\ Visited \in BlockIds
  /\ mem' = [p \in Pixels |->
               IF Writing /\ p \in Wanted THEN "new"
               ELSE IF p \in Whole(Visited) THEN Fetched(p) ELSE mem[p]]
  /\ cached' = cached \cup {Visited}
  /\ dirty' = IF Writing THEN dirty \cup {Visited} ELSE dirty
  /\ Advance
  /\ locked' = IF KeepsLock /\ result' = "running" THEN {Visited} ELSE {}
  /\ UNCHANGED <<request, file, lost>>

\* GetLockedBlockRef answers NULL, always so for a block beyond the raster.
\* BlockBasedRasterIO notes the failure in eErr, and returns CE_None; but its
\* full-resolution case returns eErr.
VisitFails ==
  /\ result = "running"
  /\ Visited \in BlockIds => IOFails /\ Visited \notin cached
  /\ result' = IF DatasetResampled THEN "CE_None" ELSE "CE_Failure"
  /\ locked' = {}
  /\ UNCHANGED <<request, line, column, cached, dirty, mem, file, lost>>

\* The cache takes a block back (FlushBlock), for another band or thread.
Evict(b) ==
  /\ b \in cached \ locked
  /\ cached' = cached \ {b} /\ dirty' = dirty \ {b}
  /\ file' = [p \in Pixels |-> IF b \in dirty /\ BlockOf(p) = b THEN mem[p] ELSE file[p]]
  /\ mem' = [p \in Pixels |-> IF BlockOf(p) = b THEN "junk" ELSE mem[p]]
  /\ UNCHANGED <<request, line, column, locked, lost, result>>

\* It cannot be written: FlushBlock deletes it all the same, and
\* FlushCacheBlock tells nobody.
EvictFails(b) ==
  /\ IOFails /\ b \in dirty \ locked
  /\ cached' = cached \ {b} /\ dirty' = dirty \ {b}
  /\ mem' = [p \in Pixels |-> IF BlockOf(p) = b THEN "junk" ELSE mem[p]]
  /\ lost' = lost \cup {b}
  /\ UNCHANGED <<request, line, column, locked, file, result>>

Init ==
  /\ call \in Calls
  /\ window \in IF call = "fill" THEN {[x |-> 0, y |-> 0, w |-> Width, h |-> Height]}
                ELSE Windows
  /\ buf \in BufSizes \cup {<<window.w, window.h>>}
  /\ error \in [x : Errors, y : Errors]
  /\ line = First(Lines) /\ column = First(BlockColumns)
  /\ cached \in SUBSET BlockIds /\ dirty = {} /\ locked = {}
  /\ mem = [p \in Pixels |-> IF BlockOf(p) \in cached THEN "old" ELSE "junk"]
  /\ file = [p \in Pixels |-> "old"]
  /\ lost = {}
  /\ result = "running"

Next == Visit \/ VisitFails \/ \E b \in BlockIds : Evict(b) \/ EvictFails(b)

Spec == Init /\ [][Next]_vars
----------------------------------------------------------------------------
\* What a later reader of the raster would get.
Effective(p) == IF BlockOf(p) \in cached THEN mem[p] ELSE file[p]
Window == Xs \X Ys

\* The walk of a request by blocks has passed the block of p.
Passed(p) ==
  \/ p[2] \div BlockH < line
  \/ p[2] \div BlockH = line /\ p[1] \div BlockW < column

\* A write that returned CE_None has set every pixel of its window, whichever
\* blocks were evicted, written and fetched again on the way.
WindowWritten ==
  Writing /\ result = "CE_None" => \A p \in Window : Effective(p) = "new"

\* At full resolution (Fill, cases 1 and 2 of IRasterIO, and the block by block
\* loops of BlockBasedRasterIO) exactly the pixels that the walk has passed
\* are written, all of them in the end, but for the blocks that could not be
\* written when they were evicted, which are as before: whichever blocks are
\* evicted, and also after a failure, none is written by half or left unset.
WindowWrittenByBlocks ==
  ByBlocks /\ Writing =>
    \A p \in Window :
      Effective(p) = IF (result = "CE_None" \/ Passed(p)) /\ BlockOf(p) \notin lost
                     THEN "new" ELSE "old"

\* The samples of the request are further apart from the end of the window
\* than the error of a double.
Resolved ==
  \/ ByBlocks \/ ByLines
  \/ /\ 2 * buf[1] < Resolution * window.w
     /\ 2 * buf[2] < Resolution * window.h

\* A read changes no pixel of the raster, and a write none outside of its
\* window: a block that is not read first is overwritten entirely before its
\* lock is dropped, and no sample that is written lies beyond the window.
OutsideKept ==
  Resolved => \A p \in Raster : ~(Writing /\ p \in Window) => Effective(p) = "old"

\* The samples that fill a buffer larger or smaller than the window all lie in
\* the window, however the doubles are rounded.
SamplesInWindow == Resolved => Columns \subseteq Xs /\ RowsOf(line) \subseteq Ys
=============================================================================
