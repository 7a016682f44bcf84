------------------------------ MODULE FifoQueue ------------------------------
(***************************************************************************)
(* What a single-producer, multiple-consumer queue of the engine promises  *)
(* its users (src/containers/parallel/fifo_spmc.h): the items come out in  *)
(* the order they went in, each of them to exactly one consumer, and the   *)
(* queue never holds more of them than it has slots.  Items are numbered   *)
(* in the order of their pushes, so the queue is a window of the naturals. *)
(***************************************************************************)
EXTENDS Integers, FiniteSets

CONSTANTS
    Consumers,      \* the threads that may take items
    Slots,          \* capacity of the queue
    NoItem          \* what a consumer that holds nothing holds

VARIABLES
    first,          \* the oldest item in the queue
    next,           \* the item the producer will push next
    holds           \* per consumer: the item it has taken and not yet returned

vars == <<first, next, holds>>

InFlight == {c \in Consumers : holds[c] # NoItem}

Init ==
    /\ first = 0
    /\ next = 0
    /\ holds = [c \in Consumers |-> NoItem]

Push ==
    /\ next < first + Slots
    /\ next' = next + 1
    /\ UNCHANGED <<first, holds>>

Take(c) ==
    /\ holds[c] = NoItem
    /\ first < next
    /\ holds' = [holds EXCEPT ![c] = first]
    /\ first' = first + 1
    /\ UNCHANGED next

Return(c) ==
    /\ holds[c] # NoItem
    /\ holds' = [holds EXCEPT ![c] = NoItem]
    /\ UNCHANGED <<first, next>>

Next ==
    \/ Push
    \/ \E c \in Consumers : Take(c) \/ Return(c)

Spec == Init /\ [][Next]_vars
==============================================================================
