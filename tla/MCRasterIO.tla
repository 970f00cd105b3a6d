----------------------------- MODULE MCRasterIO -----------------------------
(***************************************************************************)
(* TLC instances of RasterIO: every window of a small raster.              *)
(***************************************************************************)
EXTENDS RasterIO

MCWindows ==
  {n \in [x : 0 .. Width - 1, y : 0 .. Height - 1, w : 1 .. Width, h : 1 .. Height] :
     n.x + n.w <= Width /\ n.y + n.h <= Height}
MCAllCalls == AllCalls
MCDouble == {<<6, 6>>}
MCBufs == {<<1, 1>>, <<2, 1>>, <<3, 5>>}
MCErrors == {[i \in 0 .. 4 |-> e] : e \in -1 .. 1}
MCExact == {[i \in 0 .. 5 |-> 0]}
MCBandWrite == {"bandwrite"}
=============================================================================
