--------------------------- MODULE MCIslandDatabase ---------------------------
(* Instances of IslandDatabase for TLC.                                    *)
EXTENDS IslandDatabase, TLC

CONSTANTS b1, b2, b3, b4

MCSymmetry == Permutations(Bodies)
===============================================================================
