--------------------------- MODULE MCBlockAllocator ---------------------------
(* Instances of BlockAllocator for TLC.                                    *)
EXTENDS BlockAllocator

CONSTANTS t1, t2, t3

===============================================================================
