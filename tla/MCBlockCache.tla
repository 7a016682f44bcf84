----------------------------- MODULE MCBlockCache -----------------------------
(* Instances of BlockCache for TLC.                                        *)
EXTENDS BlockCache

CONSTANTS t1, t2

MCSymmetry == Permutations(Threads)
===============================================================================
