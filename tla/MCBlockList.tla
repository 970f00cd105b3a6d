---------------------------- MODULE MCBlockList ----------------------------
(***************************************************************************)
(* TLC instance of BlockList, with the sets of MCBlockCache.               *)
(***************************************************************************)
EXTENDS MCBlockCache, BlockList
=============================================================================
