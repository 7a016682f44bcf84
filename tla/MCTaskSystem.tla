----------------------------- MODULE MCTaskSystem -----------------------------
(* Instances of TaskSystem for TLC.                                        *)
EXTENDS TaskSystem

CONSTANTS m, s1, s2

===============================================================================
