---------------------------- MODULE MCMapCanvas ----------------------------
(***************************************************************************)
(* TLC instances of MapCanvas.                                             *)
(***************************************************************************)
EXTENDS MapCanvas, SequencesExt

\* Every file of up to three bands, and colours with what may follow them.
MCRasters ==
  BoundedSeq(Bands, 3) \cup
  {<<"Red", "Other", "Other">> \o rest : rest \in BoundedSeq({"Alpha", "Gray"}, 3)}
=============================================================================
