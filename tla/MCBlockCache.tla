---------------------------- MODULE MCBlockCache ----------------------------
(***************************************************************************)
(* TLC instances of BlockCache: sets of model values and symmetries.       *)
(***************************************************************************)
EXTENDS BlockCache, TLC

CONSTANTS t1, t2, b1, b2, b3

MCOneThread == {t1}
MCTwoThreads == {t1, t2}
MCTwoBlocks == {b1, b2}
MCThreeBlocks == {b1, b2, b3}
MCUnitBlocks == [t \in {t1, t2} |-> 1]
MCUnitBlock == [t \in {t1} |-> 1]
MCUnequalBlocks == [t \in {t1, t2} |-> IF t = t1 THEN 1 ELSE 2]
MCSymmetry == Permutations(MCThreeBlocks) \cup Permutations(MCTwoThreads)
MCAccess == {"read", "update", "fill", "flush"}
MCAllButFill == {"read", "update", "flush", "close", "setmax"}
MCReadUpdateFlush == {"read", "update", "flush"}
MCNewMaxes == {0, 2}
=============================================================================
