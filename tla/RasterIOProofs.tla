---------------------------- MODULE RasterIOProofs ----------------------------
(***************************************************************************)
(* Proofs about requests on cached blocks, for every size of the raster,   *)
(* of its blocks, of the window and of the buffer: where a request         *)
(* samples, what it leaves alone and what it writes, whatever fails.        *)
(***************************************************************************)
EXTENDS RasterIO, TLAPS, WellFoundedInduction

\* Integer division, as Sample and BlockOf use it.
LEMMA Quotient ==
  ASSUME NEW a \in Nat, NEW b \in Nat \ {0}
  PROVE  /\ a \div b \in Nat
         /\ (a \div b) * b <= a
         /\ a < (a \div b + 1) * b
OBVIOUS

\* A fraction of c is below c, rounded down.
LEMMA QuotientBelow ==
  ASSUME NEW a \in Nat, NEW b \in Nat \ {0}, NEW c \in Nat, a < b * c
  PROVE  a \div b \in 0 .. c - 1
<1> DEFINE q == a \div b
<1>1. q \in Nat /\ q * b <= a
  BY Quotient
<1> HIDE DEF q
<1>2. q * b < c * b
  BY <1>1
<1>3. q < c
  <2> SUFFICES ASSUME c <= q PROVE FALSE
    BY <1>1
  <2>1. c * b <= q * b
    BY <1>1
  <2> QED BY <1>1, <1>2, <2>1
<1>4. q \in 0 .. c - 1
  BY <1>1, <1>3
<1> QED BY <1>4 DEF q

\* (int)((i + 0.5) * (size / n) + off) lies in the size cells that begin at off,
\* with an error of at most one unit, when the window has more than twice as
\* many units as there are samples.
LEMMA SampleInside ==
  ASSUME NEW off \in Nat, NEW size \in Nat \ {0}, NEW n \in Nat \ {0}, NEW i \in 0 .. n - 1,
         NEW e \in -1 .. 1, 2 * n < Resolution * size
  PROVE  Sample(off, size, n, i, e) \in off .. off + size - 1
<1> DEFINE u == size * Resolution
           a == (2 * i + 1) * size * Resolution + 2 * n * e
           b == 2 * n * Resolution
           cells == a \div b
<1>0. Resolution \in Nat \ {0}
  BY RasterIOAssumption
<1>1. u \in Nat /\ 2 * n < u /\ a = (2 * i + 1) * u + 2 * n * e
  <2>1. (2 * i + 1) * size * Resolution = (2 * i + 1) * u
    BY <1>0
  <2> QED BY <1>0, <2>1
<1>2. a \in Int /\ b \in Nat \ {0} /\ b * size = 2 * n * u
  BY <1>0, <1>1
<1>3. a < b * size
  <2> HIDE DEF u, a, b, cells
  <2>1. 2 * n * e <= 2 * n
    <3>1. CASE e = 1
      BY <3>1
    <3>2. CASE e = 0
      BY <3>2
    <3>3. CASE e = -1
      BY <3>3
    <3> QED BY <3>1, <3>2, <3>3
  <2>2. (2 * i + 1) * u <= (2 * n - 1) * u
    <3>1. 2 * i + 1 <= 2 * n - 1
      OBVIOUS
    <3> QED BY <1>1, <3>1
  <2>3. (2 * n - 1) * u = 2 * n * u - u
    BY <1>1
  <2>4. {(2 * i + 1) * u, 2 * n * e, (2 * n - 1) * u, 2 * n * u} \subseteq Int
    BY <1>1
  <2> QED BY <1>1, <1>2, <2>1, <2>2, <2>3, <2>4
<1> HIDE DEF u, a, b
<1>4. CASE cells < 0
  BY <1>4 DEF Sample, a, b
<1>5. CASE ~(cells < 0)
  <2>1. a \in Nat
    <3> SUFFICES ASSUME a < 0 PROVE FALSE
      BY <1>2
    <3> QED BY <1>2, <1>5
  <2>2. cells \in 0 .. size - 1
    BY <1>2, <1>3, <2>1, QuotientBelow
  <2>3. off + cells \in off .. off + size - 1
    BY <2>2
  <2> HIDE DEF cells
  <2>4. Sample(off, size, n, i, e) = off + IF cells < 0 THEN 0 ELSE cells
    BY DEF Sample, a, b, cells
  <2> QED BY <1>5, <2>3, <2>4
<1> QED BY <1>4, <1>5

\* A set of numbers has a first element.
LEMMA FirstIn ==
  ASSUME NEW S, S \subseteq Nat, S # {}
  PROVE  First(S) \in S /\ \A n \in S : First(S) <= n
<1>1. PICK m \in S : \A n \in S : m <= n
  <2>1. PICK m \in S : \A n \in S : ~(n < m)
    <3>1. PICK m \in S : \A n \in S : ~(<<n, m>> \in OpToRel(<, Nat))
      BY NatLessThanWellFounded, WFMin
    <3> QED BY <3>1 DEF OpToRel
  <2> QED BY <2>1
<1> QED BY <1>1 DEF First

----------------------------------------------------------------------------
\* A window inside of the raster; that of Fill is the raster.
WindowFits ==
  /\ window.x \in Nat /\ window.w \in Nat \ {0} /\ window.x + window.w <= Width
  /\ window.y \in Nat /\ window.h \in Nat \ {0} /\ window.y + window.h <= Height
  /\ call = "fill" => window.x = 0 /\ window.y = 0 /\ window.w = Width /\ window.h = Height

\* What the request must not change.
Untouched == IF Writing THEN Raster \ Window ELSE Pixels

\* In the cache, too, a pixel has the value it had.
Kept(p) == file[p] = "old" /\ (BlockOf(p) \in cached => mem[p] = "old")

IOInv ==
  /\ WindowFits
  /\ buf[1] \in Nat \ {0} /\ buf[2] \in Nat \ {0}
  /\ \A i \in 0 .. buf[1] - 1 : ~ByBlocks => error.x[i] \in -1 .. 1
  /\ \A i \in 0 .. buf[2] - 1 : ~ByBlocks => error.y[i] \in -1 .. 1
  /\ line \in Lines
  /\ Resolved => \A p \in Untouched : Kept(p)

\* What stays as it is while the request is the same.
LEMMA SameRequest ==
  ASSUME UNCHANGED request
  PROVE  /\ Writing' = Writing /\ ByBlocks' = ByBlocks /\ Window' = Window
         /\ Lines' = Lines /\ Columns' = Columns /\ BlockColumns' = BlockColumns
         /\ WindowFits' = WindowFits /\ Untouched' = Untouched /\ Resolved' = Resolved
<1>1. call' = call /\ window' = window /\ buf' = buf /\ error' = error
  BY DEF request
<1>2. /\ Writing' = Writing /\ ByBlocks' = ByBlocks /\ ByLines' = ByLines
      /\ Xs' = Xs /\ Ys' = Ys /\ Window' = Window /\ WindowFits' = WindowFits
  BY <1>1 DEF Writing, ByBlocks, SameSize, ByLines, Window, Xs, Ys, WindowFits
<1>3. Columns' = Columns
  BY <1>1, <1>2 DEF Columns
<1>4. Lines' = Lines
  BY <1>1, <1>2 DEF Lines
<1>5. BlockColumns' = BlockColumns
  BY <1>3 DEF BlockColumns
<1>6. Untouched' = Untouched /\ Resolved' = Resolved
  BY <1>1, <1>2 DEF Untouched, Resolved
<1> QED BY <1>2, <1>3, <1>4, <1>5, <1>6

\* The constants, as the steps below use them.
LEMMA Sizes ==
  /\ Width \in Nat \ {0} /\ Height \in Nat \ {0}
  /\ BlockW \in Nat \ {0} /\ BlockH \in Nat \ {0}
BY RasterIOAssumption

\* The blocks cover the raster.
LEMMA CeilCovers ==
  ASSUME NEW a \in Nat \ {0}, NEW b \in Nat \ {0}
  PROVE  Ceil(a, b) \in Nat /\ a <= Ceil(a, b) * b
<1> DEFINE q == (a + b - 1) \div b
<1>1. a + b - 1 \in Nat
  OBVIOUS
<1>2. q \in Nat /\ a + b - 1 < (q + 1) * b
  BY <1>1, Quotient
<1> HIDE DEF q
<1>3. (q + 1) * b = q * b + b
  BY <1>2
<1>4. q * b \in Nat
  BY <1>2
<1>5. a <= q * b
  BY <1>2, <1>3, <1>4
<1> QED BY <1>2, <1>5 DEF q, Ceil

\* Padding aside, the blocks hold the pixels of the raster.
LEMMA RasterInPixels == Raster \subseteq Pixels
<1> DEFINE cx == Ceil(Width, BlockW) * BlockW
           cy == Ceil(Height, BlockH) * BlockH
<1>1. cx \in Nat /\ cy \in Nat /\ Width <= cx /\ Height <= cy
  BY Sizes, CeilCovers
<1>2. Pixels = (0 .. cx - 1) \X (0 .. cy - 1)
  BY DEF Pixels
<1> HIDE DEF cx, cy
<1> QED BY <1>1, <1>2, Sizes DEF Raster

\* RasterIO rejects other windows.
LEMMA WindowInRaster == WindowFits => Window \subseteq Raster
BY Sizes DEF WindowFits, Window, Raster, Xs, Ys

\* The walk has a first line, and lines are numbers.
LEMMA LinesProperties ==
  ASSUME WindowFits, buf[2] \in Nat \ {0}
  PROVE  Lines \subseteq Nat /\ Lines # {}
<1>1. CASE ByBlocks
  <2>0. Ys \subseteq Nat /\ BlockH \in Nat \ {0}
    BY Sizes DEF Ys, WindowFits
  <2>1. \A y \in Ys : y \div BlockH \in Nat
    BY <2>0, Quotient
  <2>2. <<window.x, window.y>> \in Xs \X Ys
    BY DEF Xs, Ys, WindowFits
  <2>3. Lines = {p[2] \div BlockH : p \in Xs \X Ys}
    BY <1>1 DEF Lines
  <2> QED BY <2>1, <2>2, <2>3
<1>2. CASE ~ByBlocks
  <2>1. Ys \subseteq Nat /\ window.y \in Ys
    BY DEF Ys, WindowFits
  <2>2. 0 .. buf[2] - 1 \subseteq Nat /\ 0 \in 0 .. buf[2] - 1
    OBVIOUS
  <2>3. Lines = Ys \/ Lines = 0 .. buf[2] - 1
    BY <1>2 DEF Lines
  <2> QED BY <2>1, <2>2, <2>3
<1> QED BY <1>1, <1>2

\* Every sample is inside of the window.
LEMMA InvSamples == IOInv => SamplesInWindow
<1> SUFFICES ASSUME IOInv, Resolved PROVE Columns \subseteq Xs /\ RowsOf(line) \subseteq Ys
  BY DEF SamplesInWindow
<1>1. CASE ByBlocks \/ ByLines
  BY <1>1 DEF Columns, RowsOf, Lines, IOInv
<1>2. CASE ~ByBlocks /\ ~ByLines
  <2>1. 2 * buf[1] < Resolution * window.w /\ 2 * buf[2] < Resolution * window.h
    BY <1>2 DEF Resolved
  <2>2. \A i \in 0 .. buf[1] - 1 : Sample(window.x, window.w, buf[1], i, error.x[i]) \in Xs
    BY <1>2, <2>1, SampleInside DEF IOInv, WindowFits, Xs
  <2>3. \A i \in 0 .. buf[2] - 1 : Sample(window.y, window.h, buf[2], i, error.y[i]) \in Ys
    BY <1>2, <2>1, SampleInside DEF IOInv, WindowFits, Ys
  <2>4. Columns \subseteq Xs
    BY <1>2, <2>2 DEF Columns
  <2>5. line \in 0 .. buf[2] - 1 /\ RowsOf(line) = {Sample(window.y, window.h, buf[2], line, error.y[line])}
    BY <1>2 DEF RowsOf, Lines, IOInv
  <2> QED BY <2>3, <2>4, <2>5
<1> QED BY <1>1, <1>2

\* A block that is not read first lies in the window, padding aside.
LEMMA NotReadInWindow ==
  ASSUME WindowFits, JustInitialize, NEW p \in Raster, BlockOf(p) = Visited
  PROVE  p \in Window
<1>1. p[1] \in 0 .. Width - 1 /\ p[2] \in 0 .. Height - 1 /\ p = <<p[1], p[2]>>
  BY DEF Raster
<1>2. CASE call = "fill"
  BY <1>1, <1>2, Sizes DEF WindowFits, Window, Xs, Ys
<1>3. CASE call # "fill"
  <2> DEFINE bx == p[1] \div BlockW
             by == p[2] \div BlockH
  <2>1. Visited[1] = bx /\ Visited[2] = by
    BY DEF BlockOf, Visited
  <2>2. /\ bx \in Nat /\ bx * BlockW <= p[1] /\ p[1] < (bx + 1) * BlockW
        /\ by \in Nat /\ by * BlockH <= p[2] /\ p[2] < (by + 1) * BlockH
    BY <1>1, Sizes, Quotient
  <2>3. /\ window.y <= by * BlockH /\ window.y + window.h >= (by + 1) * BlockH
        /\ window.x <= bx * BlockW /\ window.x + window.w >= (bx + 1) * BlockW
    BY <1>3, <2>1 DEF JustInitialize
  <2> HIDE DEF bx, by
  <2>4. /\ bx * BlockW \in Nat /\ (bx + 1) * BlockW \in Nat
        /\ by * BlockH \in Nat /\ (by + 1) * BlockH \in Nat
    BY <2>2, Sizes
  <2>5. /\ window.x <= p[1] /\ p[1] <= window.x + window.w - 1
        /\ window.y <= p[2] /\ p[2] <= window.y + window.h - 1
    BY <1>1, <2>2, <2>3, <2>4, Sizes DEF WindowFits
  <2> QED BY <1>1, <2>5 DEF WindowFits, Window, Xs, Ys
<1> QED BY <1>2, <1>3

\* Before the request everything is as it was.
LEMMA InitIO == Init => IOInv
<1> SUFFICES ASSUME Init PROVE IOInv
  OBVIOUS
<1>1. WindowFits
  <2>1. CASE call = "fill"
    BY <2>1, Sizes DEF Init, WindowFits
  <2>2. CASE call # "fill"
    BY <2>2, RasterIOAssumption DEF Init, WindowFits
  <2> QED BY <2>1, <2>2
<1>2. buf[1] \in Nat \ {0} /\ buf[2] \in Nat \ {0}
  <2>1. CASE buf \in BufSizes
    BY <2>1, RasterIOAssumption
  <2>2. CASE buf = <<window.w, window.h>>
    BY <2>2, <1>1 DEF WindowFits
  <2> QED BY <2>1, <2>2 DEF Init
<1>3. line \in Lines
  <2>1. Lines \subseteq Nat /\ Lines # {}
    BY <1>1, <1>2, LinesProperties
  <2> QED BY <2>1, FirstIn DEF Init
<1>4. Untouched \subseteq Pixels
  BY RasterInPixels DEF Untouched
<1>5. \A p \in Untouched : Kept(p)
  BY <1>4 DEF Init, Kept
<1>6. ~ByBlocks => buf \in BufSizes
  BY DEF Init, ByBlocks, SameSize
<1>7. error.x \in Errors /\ error.y \in Errors
  BY DEF Init
<1>8. ~ByBlocks => /\ \A i \in 0 .. buf[1] - 1 : error.x[i] \in -1 .. 1
                   /\ \A i \in 0 .. buf[2] - 1 : error.y[i] \in -1 .. 1
  BY <1>6, <1>7, RasterIOAssumption
<1> QED BY <1>1, <1>2, <1>3, <1>5, <1>8 DEF IOInv

\* A visit changes pixels of the window only: the others of the block were read.
LEMMA VisitIO ==
  ASSUME IOInv, Visit
  PROVE  IOInv'
<1>1. /\ WindowFits /\ buf[1] \in Nat \ {0} /\ buf[2] \in Nat \ {0} /\ line \in Lines
      /\ UNCHANGED request /\ file' = file
      /\ Resolved => Columns \subseteq Xs /\ RowsOf(line) \subseteq Ys
      /\ Lines \subseteq Nat
  BY InvSamples, LinesProperties DEF IOInv, Visit, SamplesInWindow
<1>2. /\ WindowFits' /\ Lines' = Lines /\ Untouched' = Untouched
      /\ ByBlocks' = ByBlocks /\ Resolved' = Resolved /\ error' = error /\ buf' = buf
  BY <1>1, SameRequest DEF request
<1>3. line' \in Lines'
  <2>1. Beyond(Lines, line) \subseteq Lines
    BY DEF Beyond
  <2>2. Beyond(Lines, line) # {} => First(Beyond(Lines, line)) \in Lines
    BY <1>1, <2>1, FirstIn
  <2> QED BY <1>1, <1>2, <2>2 DEF Visit, Advance
<1>4. Untouched \subseteq Pixels
  BY RasterInPixels DEF Untouched
<1>5. Resolved /\ call # "fill" => Wanted \subseteq Window
  BY <1>1 DEF Wanted, Window
<1>6. call = "fill" => Window = Raster
  BY <1>1 DEF WindowFits, Window, Raster, Xs, Ys
<1>7. ASSUME Resolved, NEW p \in Untouched, BlockOf(p) = Visited PROVE Fetched(p) = "old"
  <2>1. Kept(p)
    BY <1>7 DEF IOInv
  <2>2. ~JustInitialize
    <3> SUFFICES ASSUME JustInitialize PROVE FALSE
      OBVIOUS
    <3>1. Writing
      BY DEF JustInitialize
    <3>2. p \in Raster \ Window
      BY <3>1 DEF Untouched
    <3> QED BY <1>1, <1>7, <3>2, NotReadInWindow
  <2> QED BY <1>7, <2>1, <2>2 DEF Kept, Fetched
<1>8. ASSUME Resolved, NEW p \in Untouched PROVE Kept(p)'
  <2>1. Kept(p) /\ p \in Pixels
    BY <1>4, <1>8 DEF IOInv
  <2>2. ~(Writing /\ p \in Wanted)
    BY <1>5, <1>6, <1>8 DEF Untouched
  <2>3. mem'[p] = IF p \in Whole(Visited) THEN Fetched(p) ELSE mem[p]
    BY <2>1, <2>2 DEF Visit
  <2>4. BlockOf(p)' = BlockOf(p)
    BY DEF BlockOf
  <2>5. CASE BlockOf(p) = Visited
    BY <1>1, <1>7, <1>8, <2>1, <2>3, <2>4, <2>5 DEF Whole, Kept
  <2>6. CASE BlockOf(p) # Visited
    <3>1. p \notin Whole(Visited) /\ (BlockOf(p) \in cached' <=> BlockOf(p) \in cached)
      BY <2>6 DEF Whole, Visit
    <3> QED BY <1>1, <2>1, <2>3, <2>4, <3>1 DEF Kept
  <2> QED BY <2>5, <2>6
<1> QED BY <1>1, <1>2, <1>3, <1>8 DEF IOInv

\* An eviction writes to the file the pixels that the cache had, or leaves the
\* file as it was.
LEMMA EvictIO ==
  ASSUME IOInv, NEW b \in BlockIds, Evict(b) \/ EvictFails(b)
  PROVE  IOInv'
<1>1. /\ UNCHANGED request /\ line' = line
      /\ cached' = cached \ {b}
      /\ \A p \in Pixels : /\ mem'[p] = IF BlockOf(p) = b THEN "junk" ELSE mem[p]
                           /\ file'[p] # file[p] => b \in cached /\ BlockOf(p) = b /\ file'[p] = mem[p]
  BY DEF Evict, EvictFails
<1>2. /\ WindowFits' = WindowFits /\ Lines' = Lines /\ Untouched' = Untouched
      /\ ByBlocks' = ByBlocks /\ Resolved' = Resolved /\ error' = error /\ buf' = buf
  BY <1>1, SameRequest DEF request
<1>3. ASSUME Resolved, NEW p \in Untouched PROVE Kept(p)'
  <2>1. Kept(p) /\ p \in Pixels
    BY <1>3, RasterInPixels DEF IOInv, Untouched
  <2>2. BlockOf(p)' = BlockOf(p)
    BY DEF BlockOf
  <2> QED BY <1>1, <2>1, <2>2 DEF Kept
<1> QED BY <1>1, <1>2, <1>3 DEF IOInv

\* Every step keeps the invariant.
LEMMA NextIO == IOInv /\ [Next]_vars => IOInv'
<1> SUFFICES ASSUME IOInv, [Next]_vars PROVE IOInv'
  OBVIOUS
<1>1. CASE Visit
  BY <1>1, VisitIO
<1>2. CASE \E b \in BlockIds : Evict(b) \/ EvictFails(b)
  BY <1>2, EvictIO
<1>3. CASE VisitFails \/ UNCHANGED vars
  <2>1. UNCHANGED request /\ UNCHANGED <<line, cached, mem, file>>
    BY <1>3 DEF VisitFails, vars
  <2>2. /\ WindowFits' = WindowFits /\ Lines' = Lines /\ Untouched' = Untouched
        /\ ByBlocks' = ByBlocks /\ Resolved' = Resolved /\ error' = error /\ buf' = buf
    BY <2>1, SameRequest DEF request
  <2>3. \A p \in Untouched : Kept(p)' = Kept(p)
    BY <2>1 DEF Kept, BlockOf
  <2> QED BY <2>1, <2>2, <2>3 DEF IOInv
<1> QED BY <1>1, <1>2, <1>3 DEF Next

\* The invariant holds in every state.
LEMMA IOInvariance == Spec => []IOInv
BY InitIO, NextIO, PTL DEF Spec

\* However the doubles are rounded, every sample lies in the window, as long as
\* the window has more than twice as many distinguishable positions as there
\* are samples.
THEOREM SamplesInWindowHolds == Spec => []SamplesInWindow
BY IOInvariance, InvSamples, PTL

\* Whatever the sizes of raster, blocks and window, a write leaves every pixel
\* outside of its window as it was, and a read every pixel, even when their
\* blocks are evicted and cannot be written.
THEOREM OutsideKeptHolds == Spec => []OutsideKept
<1>1. IOInv => OutsideKept
  <2> SUFFICES ASSUME IOInv, Resolved, NEW p \in Raster, ~(Writing /\ p \in Window)
               PROVE  Effective(p) = "old"
    BY DEF OutsideKept
  <2>1. p \in Untouched
    BY RasterInPixels DEF Untouched
  <2> QED BY <2>1 DEF IOInv, Kept, Effective
<1> QED BY <1>1, IOInvariance, PTL

----------------------------------------------------------------------------
\* The walk is over, or was past the block of p when it was cut short.
Done(p) == result = "CE_None" \/ Passed(p)

\* What the walk has done to a pixel of its window: a dirty block is one that
\* it has passed and that the file has as it was, a lost one is in the file
\* only, what is neither lost nor still to come is written.
PixelInv(p) ==
  /\ BlockOf(p) \in dirty => Done(p) /\ BlockOf(p) \notin lost /\ file[p] = "old"
  /\ BlockOf(p) \in lost => Done(p) /\ BlockOf(p) \notin cached /\ file[p] = "old"
  /\ ~Done(p) => Kept(p)
  /\ Done(p) /\ BlockOf(p) \notin lost => Effective(p) = "new"

\* A block that is not dirty is the same in the file.
WrittenInv ==
  /\ \A p \in Pixels : BlockOf(p) \in cached \ dirty => mem[p] = file[p]
  /\ ByBlocks /\ Writing => column \in BlockColumns /\ \A p \in Window : PixelInv(p)

\* A request by blocks visits every block that has a pixel of the window.
LEMMA WalkOfWindow ==
  ASSUME WindowFits, ByBlocks
  PROVE  /\ Lines \subseteq Nat /\ BlockColumns \subseteq Nat
         /\ BlockColumns # {} /\ Lines # {}
         /\ \A p \in Window : /\ p[2] \div BlockH \in Lines
                              /\ p[1] \div BlockW \in BlockColumns
<1>1. /\ Lines = {p[2] \div BlockH : p \in Xs \X Ys} /\ Columns = Xs
      /\ BlockColumns = {x \div BlockW : x \in Columns}
  BY DEF Lines, Columns, BlockColumns
<1>2. \A x \in Xs : x \div BlockW \in Nat
  <2>1. Xs \subseteq Nat /\ BlockW \in Nat \ {0}
    BY Sizes DEF Xs, WindowFits
  <2> QED BY <2>1, Quotient
<1>3. \A y \in Ys : y \div BlockH \in Nat
  <2>1. Ys \subseteq Nat /\ BlockH \in Nat \ {0}
    BY Sizes DEF Ys, WindowFits
  <2> QED BY <2>1, Quotient
<1>4. window.x \in Xs /\ window.y \in Ys
  BY DEF Xs, Ys, WindowFits
<1>5. Lines \subseteq Nat /\ BlockColumns \subseteq Nat
  BY <1>1, <1>2, <1>3
<1>6. BlockColumns # {}
  BY <1>1, <1>4
<1>7. Lines # {}
  <2>1. <<window.x, window.y>> \in Xs \X Ys
    BY <1>4
  <2> QED BY <1>1, <2>1
<1>8. \A p \in Window : p[2] \div BlockH \in Lines /\ p[1] \div BlockW \in BlockColumns
  BY <1>1 DEF Window
<1> QED BY <1>5, <1>6, <1>7, <1>8

\* Its visits to a line of blocks are to that line.
LEMMA VisitedIs ==
  ASSUME IOInv, ByBlocks
  PROVE  Visited = <<column, line>> /\ RowsOf(line) = {y \in Ys : y \div BlockH = line}
<1>1. line \in {p[2] \div BlockH : p \in Xs \X Ys}
  BY DEF IOInv, Lines
<1>2. RowsOf(line) = {y \in Ys : y \div BlockH = line}
  BY DEF RowsOf
<1>3. RowsOf(line) # {}
  BY <1>1, <1>2
<1>4. (CHOOSE y \in RowsOf(line) : TRUE) \in RowsOf(line)
  BY <1>3
<1>5. Row = line
  BY <1>2, <1>4 DEF Row
<1> QED BY <1>2, <1>5 DEF Visited

\* Before the walk nothing was passed.
LEMMA InitWritten == Init => WrittenInv
<1> SUFFICES ASSUME Init PROVE WrittenInv
  OBVIOUS
<1>1. IOInv
  BY InitIO
<1>2. \A p \in Pixels : BlockOf(p) \in cached => mem[p] = file[p]
  BY DEF Init
<1>3. ASSUME ByBlocks
      PROVE  /\ column \in BlockColumns
             /\ \A p \in Window : ~Passed(p)
  <2>1. /\ line = First(Lines) /\ column = First(BlockColumns)
        /\ Lines \subseteq Nat /\ BlockColumns \subseteq Nat
        /\ BlockColumns # {} /\ Lines # {}
    BY <1>1, <1>3, WalkOfWindow DEF Init, IOInv
  <2>2. /\ line \in Lines /\ \A n \in Lines : line <= n
        /\ column \in BlockColumns /\ \A n \in BlockColumns : column <= n
    BY <2>1, FirstIn
  <2>3. ASSUME NEW p \in Window PROVE ~Passed(p)
    <3>1. p[2] \div BlockH \in Lines /\ p[1] \div BlockW \in BlockColumns
      BY <1>1, <1>3, WalkOfWindow DEF IOInv
    <3>2. /\ line <= p[2] \div BlockH /\ column <= p[1] \div BlockW
          /\ {line, column, p[2] \div BlockH, p[1] \div BlockW} \subseteq Nat
      BY <2>1, <2>2, <3>1
    <3> QED BY <3>2 DEF Passed
  <2> QED BY <2>2, <2>3
<1>4. /\ result = "running" /\ dirty = {} /\ lost = {}
      /\ \A p \in Pixels : file[p] = "old" /\ (BlockOf(p) \in cached => mem[p] = "old")
  BY DEF Init
<1>5. Window \subseteq Pixels
  BY <1>1, WindowInRaster, RasterInPixels DEF IOInv
<1>6. ByBlocks => \A p \in Window : PixelInv(p)
  BY <1>3, <1>4, <1>5 DEF PixelInv, Done, Kept
<1> QED BY <1>2, <1>3, <1>6 DEF WrittenInv

\* The step of the walk: what it has passed next is what it had passed and
\* the block it is at; when it ends that is all.
LEMMA AdvancePasses ==
  ASSUME WindowFits, ByBlocks, line \in Lines, column \in BlockColumns, Advance,
         result = "running", NEW p \in Window
  PROVE  Done(p)' <=> Passed(p) \/ (p[2] \div BlockH = line /\ p[1] \div BlockW = column)
<1> DEFINE row == p[2] \div BlockH
           col == p[1] \div BlockW
<1>1. /\ Lines \subseteq Nat /\ BlockColumns \subseteq Nat
      /\ BlockColumns # {} /\ row \in Lines /\ col \in BlockColumns
  BY WalkOfWindow
<1>2. /\ Done(p)' <=> result' = "CE_None" \/ row < line' \/ (row = line' /\ col < column')
      /\ Passed(p) <=> row < line \/ (row = line /\ col < column)
  BY DEF Passed, Done
<1> SUFFICES Done(p)' <=> Passed(p) \/ (row = line /\ col = column)
  OBVIOUS
<1> HIDE DEF row, col
<1>3. {row, col, line, column} \subseteq Nat
  BY <1>1
<1>4. /\ row > line => row \in Beyond(Lines, line)
      /\ col > column => col \in Beyond(BlockColumns, column)
  BY <1>1 DEF Beyond
<1>5. Beyond(Lines, line) \subseteq Nat /\ Beyond(BlockColumns, column) \subseteq Nat
  BY <1>1 DEF Beyond
<1>6. CASE Beyond(BlockColumns, column) # {}
  <2>1. /\ column' = First(Beyond(BlockColumns, column)) /\ line' = line
        /\ result' = "running"
    BY <1>6 DEF Advance
  <2>2. /\ \A n \in Beyond(BlockColumns, column) : column' <= n
        /\ column' \in Nat /\ column' > column
    <3>1. column' \in Beyond(BlockColumns, column)
      BY <1>5, <1>6, <2>1, FirstIn
    <3> QED BY <1>5, <1>6, <2>1, <3>1, FirstIn DEF Beyond
  <2>3. col > column => column' <= col
    BY <1>4, <2>2
  <2> QED BY <1>2, <1>3, <2>1, <2>2, <2>3
<1>7. CASE Beyond(BlockColumns, column) = {} /\ Beyond(Lines, line) # {}
  <2>1. /\ column' = First(BlockColumns) /\ line' = First(Beyond(Lines, line))
        /\ result' = "running"
    BY <1>7 DEF Advance
  <2>2. /\ \A n \in Beyond(Lines, line) : line' <= n
        /\ \A n \in BlockColumns : column' <= n
        /\ line' \in Nat /\ column' \in Nat /\ line' > line
    <3>1. line' \in Beyond(Lines, line)
      BY <1>5, <1>7, <2>1, FirstIn
    <3> QED BY <1>1, <1>5, <1>7, <2>1, <3>1, FirstIn DEF Beyond
  <2>3. /\ ~(col > column) /\ ~(col < column')
        /\ row > line => line' <= row
    BY <1>1, <1>3, <1>4, <1>7, <2>2
  <2> QED BY <1>2, <1>3, <2>1, <2>2, <2>3
<1>8. CASE Beyond(BlockColumns, column) = {} /\ Beyond(Lines, line) = {}
  <2>1. result' = "CE_None"
    BY <1>8 DEF Advance
  <2> QED BY <1>2, <1>3, <1>4, <1>8, <2>1
<1> QED BY <1>6, <1>7, <1>8

\* The pixels that a visit takes are pixels of the visited block.
LEMMA WantedVisited == \A p \in Wanted : BlockOf(p) = Visited
BY DEF Wanted, Whole

\* A visit writes what the request has of its block, and disturbs no other.
LEMMA VisitWritten ==
  ASSUME IOInv, WrittenInv, Visit
  PROVE  WrittenInv'
<1>1. /\ result = "running" /\ Advance /\ file' = file /\ lost' = lost
      /\ cached' = cached \cup {Visited}
      /\ Writing' = Writing /\ ByBlocks' = ByBlocks /\ Window' = Window
      /\ Lines' = Lines /\ BlockColumns' = BlockColumns
  BY SameRequest DEF Visit
<1>2. dirty' = IF Writing THEN dirty \cup {Visited} ELSE dirty
  BY DEF Visit
<1>3. \A p \in Pixels : mem'[p] = IF Writing /\ p \in Wanted THEN "new"
                                  ELSE IF BlockOf(p) = Visited THEN Fetched(p) ELSE mem[p]
  BY DEF Visit, Whole
<1>4. \A p \in Pixels : BlockOf(p) # Visited => mem'[p] = mem[p]
  BY <1>3, WantedVisited
<1>5. ASSUME NEW p \in Pixels, BlockOf(p) \in cached' \ dirty' PROVE mem'[p] = file'[p]
  <2>1. CASE BlockOf(p) # Visited
    BY <1>1, <1>2, <1>4, <1>5, <2>1 DEF WrittenInv
  <2>2. CASE BlockOf(p) = Visited
    <3>1. ~Writing /\ dirty' = dirty
      BY <1>2, <1>5, <2>2
    <3>2. ~JustInitialize
      BY <3>1 DEF JustInitialize
    <3>3. mem'[p] = IF Visited \in cached THEN mem[p] ELSE file[p]
      BY <1>3, <2>2, <3>1, <3>2 DEF Fetched
    <3> QED BY <1>1, <1>5, <2>2, <3>1, <3>3 DEF WrittenInv
  <2> QED BY <2>1, <2>2
<1>6. ASSUME ByBlocks, Writing
      PROVE  column' \in BlockColumns /\ \A p \in Window : PixelInv(p)'
  <2>1. /\ WindowFits /\ line \in Lines /\ column \in BlockColumns
        /\ Lines \subseteq Nat /\ BlockColumns \subseteq Nat /\ BlockColumns # {}
    BY <1>6, WalkOfWindow DEF IOInv, WrittenInv
  <2>2. column' \in BlockColumns
    <3>1. Beyond(BlockColumns, column) \subseteq BlockColumns
      BY DEF Beyond
    <3>2. /\ First(BlockColumns) \in BlockColumns
          /\ Beyond(BlockColumns, column) # {} =>
               First(Beyond(BlockColumns, column)) \in BlockColumns
      BY <2>1, <3>1, FirstIn
    <3> QED BY <1>1, <2>1, <3>2 DEF Advance
  <2>3. ASSUME NEW p \in Window PROVE PixelInv(p)'
    <3>1. p \in Pixels /\ PixelInv(p)
      BY <1>6, <2>1, WindowInRaster, RasterInPixels DEF WrittenInv
    <3>2. BlockOf(p)' = BlockOf(p)
      BY DEF BlockOf
    <3>3. Done(p)' <=> Passed(p) \/ (p[2] \div BlockH = line /\ p[1] \div BlockW = column)
      BY <1>1, <1>6, <2>1, AdvancePasses
    <3>4. Done(p) <=> Passed(p)
      BY <1>1 DEF Done
    <3>5. CASE BlockOf(p) = Visited
      <4>1. p[2] \div BlockH = line /\ p[1] \div BlockW = column
        BY <1>6, <3>5, VisitedIs DEF BlockOf
      <4>2. p \in Wanted
        <5>1. call = "fill" => p \in Wanted
          BY <3>1, <3>5 DEF Wanted, Whole
        <5>2. p \in Columns \X RowsOf(line)
          BY <1>6, <4>1, VisitedIs DEF Columns, Window
        <5> QED BY <3>5, <5>1, <5>2 DEF Wanted
      <4>3. ~Done(p)
        <5>1. line \in Nat /\ column \in Nat
          BY <2>1
        <5> QED BY <3>4, <4>1, <5>1 DEF Passed
      <4>4. mem'[p] = "new" /\ Done(p)'
        BY <1>3, <1>6, <3>1, <3>3, <4>1, <4>2
      <4>5. BlockOf(p) \notin lost /\ file[p] = "old"
        BY <3>1, <4>3 DEF PixelInv, Kept
      <4> QED BY <1>1, <3>2, <3>5, <4>4, <4>5 DEF PixelInv, Effective
    <3>6. CASE BlockOf(p) # Visited
      <4>1. Done(p)' <=> Done(p)
        BY <1>6, <3>3, <3>4, <3>6, VisitedIs DEF BlockOf
      <4>2. /\ mem'[p] = mem[p]
            /\ BlockOf(p) \in cached' <=> BlockOf(p) \in cached
            /\ BlockOf(p) \in dirty' <=> BlockOf(p) \in dirty
        BY <1>1, <1>2, <1>4, <3>1, <3>6
      <4> QED BY <1>1, <3>1, <3>2, <4>1, <4>2 DEF PixelInv, Effective, Kept
    <3> QED BY <3>5, <3>6
  <2> QED BY <2>2, <2>3
<1> QED BY <1>1, <1>5, <1>6 DEF WrittenInv

\* An eviction moves pixels to the file, or loses all of a block.
LEMMA EvictWritten ==
  ASSUME IOInv, WrittenInv, NEW b \in BlockIds, Evict(b) \/ EvictFails(b)
  PROVE  WrittenInv'
<1>1. /\ cached' = cached \ {b} /\ dirty' = dirty \ {b}
      /\ \A p \in Pixels : mem'[p] = IF BlockOf(p) = b THEN "junk" ELSE mem[p]
      /\ \A p \in Pixels : BlockOf(p) # b => file'[p] = file[p]
      /\ UNCHANGED request /\ UNCHANGED <<line, column, result>>
      /\ lost' \in {lost, lost \cup {b}}
  BY DEF Evict, EvictFails
<1>2. /\ Writing' = Writing /\ ByBlocks' = ByBlocks /\ Window' = Window
      /\ Lines' = Lines /\ BlockColumns' = BlockColumns
  BY <1>1, SameRequest
<1>3. ASSUME NEW p \in Pixels, BlockOf(p) \in cached' \ dirty' PROVE mem'[p] = file'[p]
  BY <1>1, <1>3 DEF WrittenInv
<1>4. ASSUME ByBlocks, Writing, NEW p \in Window PROVE PixelInv(p)'
  <2>1. p \in Pixels /\ PixelInv(p)
    BY <1>4, WindowInRaster, RasterInPixels DEF IOInv, WrittenInv
  <2>2. BlockOf(p)' = BlockOf(p) /\ (Done(p)' <=> Done(p))
    BY <1>1 DEF BlockOf, Done, Passed
  <2>3. CASE BlockOf(p) # b
    <3>1. /\ file'[p] = file[p] /\ mem'[p] = mem[p]
          /\ BlockOf(p) \in cached' <=> BlockOf(p) \in cached
          /\ BlockOf(p) \in dirty' <=> BlockOf(p) \in dirty
          /\ BlockOf(p) \in lost' <=> BlockOf(p) \in lost
      BY <1>1, <2>1, <2>3
    <3> QED BY <2>1, <2>2, <3>1 DEF PixelInv, Effective, Kept
  <2>4. CASE BlockOf(p) = b /\ Evict(b)
    <3>1. /\ b \in cached /\ lost' = lost
          /\ file'[p] = IF b \in dirty THEN mem[p] ELSE file[p]
      BY <2>1, <2>4 DEF Evict
    <3>2. b \notin lost /\ b \notin cached' /\ b \notin dirty'
      BY <1>1, <2>1, <2>4, <3>1 DEF PixelInv
    <3>3. b \notin dirty => mem[p] = file[p]
      BY <2>1, <2>4, <3>1 DEF WrittenInv
    <3>4. file'[p] = mem[p]
      BY <3>1, <3>3
    <3> QED BY <2>1, <2>2, <2>4, <3>1, <3>2, <3>4 DEF PixelInv, Effective, Kept
  <2>5. CASE BlockOf(p) = b /\ EvictFails(b)
    <3>1. b \in dirty /\ file' = file /\ b \in lost' /\ b \notin cached' /\ b \notin dirty'
      BY <2>5 DEF EvictFails
    <3> QED BY <2>1, <2>2, <2>5, <3>1 DEF PixelInv
  <2> QED BY <2>3, <2>4, <2>5
<1> QED BY <1>1, <1>2, <1>3, <1>4 DEF WrittenInv

\* A visit that fails ends a request by blocks where it is.
LEMMA FailWritten ==
  ASSUME WrittenInv, VisitFails
  PROVE  WrittenInv'
<1>1. /\ UNCHANGED request /\ UNCHANGED <<line, column, cached, dirty, mem, file, lost>>
      /\ result = "running"
      /\ ByBlocks => result' = "CE_Failure"
  BY DEF VisitFails, DatasetResampled
<1>2. /\ Writing' = Writing /\ ByBlocks' = ByBlocks /\ BlockColumns' = BlockColumns
      /\ Window' = Window
  BY <1>1, SameRequest
<1>3. \A p \in Pixels : BlockOf(p)' = BlockOf(p)
  BY DEF BlockOf
<1>4. \A p \in Pixels : BlockOf(p) \in cached' \ dirty' => mem'[p] = file'[p]
  BY <1>1 DEF WrittenInv
<1>5. ASSUME ByBlocks, Writing, NEW p \in Window PROVE PixelInv(p)'
  <2>1. PixelInv(p) /\ (Done(p)' <=> Done(p)) /\ BlockOf(p)' = BlockOf(p)
    BY <1>1, <1>5 DEF WrittenInv, Done, Passed, BlockOf
  <2> QED BY <1>1, <2>1 DEF PixelInv, Effective, Kept
<1> QED BY <1>1, <1>2, <1>4, <1>5 DEF WrittenInv

\* Every step keeps the invariant.
LEMMA NextWritten == IOInv /\ WrittenInv /\ [Next]_vars => WrittenInv'
<1> SUFFICES ASSUME IOInv, WrittenInv, [Next]_vars PROVE WrittenInv'
  OBVIOUS
<1>1. CASE Visit
  BY <1>1, VisitWritten
<1>2. CASE VisitFails
  BY <1>2, FailWritten
<1>3. CASE \E b \in BlockIds : Evict(b) \/ EvictFails(b)
  BY <1>3, EvictWritten
<1>4. CASE UNCHANGED vars
  <2>1. UNCHANGED request /\ UNCHANGED <<line, column, cached, dirty, mem, file, lost, result>>
    BY <1>4 DEF vars
  <2>2. /\ Writing' = Writing /\ ByBlocks' = ByBlocks /\ Window' = Window
        /\ BlockColumns' = BlockColumns
    BY <2>1, SameRequest
  <2>3. \A p : PixelInv(p)' = PixelInv(p)
    BY <2>1 DEF PixelInv, Effective, Kept, Done, Passed, BlockOf
  <2> QED BY <2>1, <2>2, <2>3 DEF WrittenInv, BlockOf
<1> QED BY <1>1, <1>2, <1>3, <1>4 DEF Next

\* At any moment, and when it has ended or failed, a write by blocks has written
\* exactly what its walk has passed, but for the blocks whose writing failed
\* when they were evicted, which are as they were.
THEOREM WindowWrittenByBlocksHolds == Spec => []WindowWrittenByBlocks
<1>1. WrittenInv => WindowWrittenByBlocks
  <2> SUFFICES ASSUME WrittenInv, ByBlocks, Writing, NEW p \in Window
               PROVE  Effective(p) = IF (result = "CE_None" \/ Passed(p)) /\ BlockOf(p) \notin lost
                                     THEN "new" ELSE "old"
    BY DEF WindowWrittenByBlocks
  <2>1. PixelInv(p)
    BY DEF WrittenInv
  <2> QED BY <2>1 DEF PixelInv, Kept, Effective, Done
<1>2. Spec => []WrittenInv
  BY InitIO, InitWritten, NextIO, NextWritten, PTL DEF Spec
<1> QED BY <1>1, <1>2, PTL
=============================================================================
