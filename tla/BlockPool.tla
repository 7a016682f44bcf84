------------------------------ MODULE BlockPool -------------------------------
(***************************************************************************)
(* What the thread-safe block allocator promises (allocator.h): a block is *)
(* handed to one thread at a time, and only after its owner gave it back.  *)
(***************************************************************************)
CONSTANTS Threads, Blocks

VARIABLE holder       \* per block: the thread that has it, or "free"

Init == holder = [b \in Blocks |-> "free"]

Alloc(t, b) ==
    /\ holder[b] = "free"
    /\ holder' = [holder EXCEPT ![b] = t]

Free(t, b) ==
    /\ holder[b] = t
    /\ holder' = [holder EXCEPT ![b] = "free"]

Next == \E t \in Threads, b \in Blocks : Alloc(t, b) \/ Free(t, b)

vars == <<holder>>

Spec == Init /\ [][Next]_vars
===============================================================================
