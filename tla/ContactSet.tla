------------------------------ MODULE ContactSet ------------------------------
(***************************************************************************)
(* What contact_database.c promises the islands: a set of contacts named   *)
(* by their bodies.  A frame finds contacts and reports those that were    *)
(* not there at the end of the last frame; it then drops those it did not  *)
(* find.  A body that is removed takes its contacts with it.               *)
(***************************************************************************)
CONSTANT Pairs

VARIABLES
    contacts,       \* the contacts there are
    before,         \* those of them that were there at the end of the last frame
    found,          \* the contacts the frame has found
    reported        \* those of them that are new

vars == <<contacts, before, found, reported>>

Init == contacts = {} /\ before = {} /\ found = {} /\ reported = {}

\* c_db_add_contact, once in a frame for a pair that touches.
Find(c) ==
    /\ c \notin found
    /\ contacts' = contacts \cup {c}
    /\ found' = found \cup {c}
    /\ reported' = IF c \in before THEN reported ELSE reported \cup {c}
    /\ UNCHANGED before

\* A contact is removed because its frame did not find it, or one of its bodies is
\* removed.
Drop(c) ==
    /\ c \in before \ found
    /\ contacts' = contacts \ {c}
    /\ before' = before \ {c}
    /\ UNCHANGED <<found, reported>>

\* c_db_update_persistent_contacts_usage: what was not found is gone.
EndFrame ==
    /\ before \subseteq found
    /\ before' = contacts
    /\ found' = {}
    /\ reported' = {}
    /\ UNCHANGED contacts

\* c_db_flush, between frames
Flush == found = {} /\ contacts' = {} /\ before' = {} /\ UNCHANGED <<found, reported>>

Next == (\E c \in Pairs : Find(c) \/ Drop(c)) \/ EndFrame \/ Flush

Spec == Init /\ [][Next]_vars
===============================================================================
