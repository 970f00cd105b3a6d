---------------------------- MODULE MCWarpMulti ----------------------------
(***************************************************************************)
(* TLC instances of WarpMulti.                                             *)
(***************************************************************************)
EXTENDS WarpMulti

MCBothModels == {"pthread", "win32"}
MCPthread == {"pthread"}
MCDestination == {"dest"}
=============================================================================
