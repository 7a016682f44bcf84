--------------------------------- MODULE MCLog ---------------------------------
(* Instances of Log for TLC: a ring of two slots that a few calls fill and *)
(* lap, counters that wrap after two turns, and one empty message.         *)
EXTENDS Log

CONSTANTS t1, t2, t3

EmptyMessages == {1}
===============================================================================
