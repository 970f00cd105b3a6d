-------------------------- MODULE MCSharedDatasets --------------------------
(***************************************************************************)
(* TLC instances of SharedDatasets.                                        *)
(***************************************************************************)
EXTENDS SharedDatasets, TLC

Interchangeable == Permutations(Datasets)
=============================================================================
