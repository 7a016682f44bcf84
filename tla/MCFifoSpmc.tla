------------------------------ MODULE MCFifoSpmc ------------------------------
(* Instances of FifoSpmc for TLC: three consumers, a ring of four entries, *)
(* enough pushes for the ring to be lapped and for a_first to wrap.        *)
EXTENDS FifoSpmc

CONSTANTS w1, w2, w3

===============================================================================
