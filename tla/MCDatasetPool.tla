--------------------------- MODULE MCDatasetPool ---------------------------
(***************************************************************************)
(* TLC instances of DatasetPool: f1 is a VRT made of f2, which lacks the   *)
(* band.                                                                   *)
(***************************************************************************)
EXTENDS DatasetPool, TLC

CONSTANTS t1, t2, f1, f2, p1, p2, p3

MCThreads == {t1, t2}
MCFiles == {f1, f2}
MCFilesWithBand == {f1}
MCSources == f1 :> {f2} @@ f2 :> {}
MCProxies == {p1, p2, p3}
MCSymmetry == Permutations(MCThreads) \cup Permutations(MCProxies)
=============================================================================
