----------------------------- MODULE MCMemFiles -----------------------------
(***************************************************************************)
(* TLC instances of MemFiles.                                              *)
(***************************************************************************)
EXTENDS MemFiles, TLC

CONSTANTS Slashed, Backslashed

\* Two names: one with a backslash, and what Open makes of both.
MCNames == {Slashed, Backslashed}
MCNormalized == [n \in MCNames |-> Slashed]

Interchangeable ==
  Permutations(Files) \cup Permutations(Handles) \cup Permutations(Threads)
=============================================================================
