------------------------------- MODULE LogFile -------------------------------
(***************************************************************************)
(* What the log of src/misc/log.c promises: every message that was given a *)
(* ticket leaves the ring once, in the order of the tickets and only after *)
(* its thread has finished it; it is then in the file, or a failed write   *)
(* has lost it, or there was nothing to write.  Messages are numbered by   *)
(* their tickets, so the ring is a window of the naturals.                 *)
(***************************************************************************)
EXTENDS Integers, Sequences

CONSTANTS
    Slots,          \* messages the ring holds
    Empty           \* messages that format to nothing

VARIABLES
    has_file,       \* is there a file to write to
    first,          \* the oldest message in the ring
    next,           \* the message the next ticket is for
    finished,       \* messages of the ring that are ready to be written
    file,           \* contents of the file
    lost            \* messages whose write failed

vars == <<has_file, first, next, finished, file, lost>>

Init ==
    /\ has_file \in BOOLEAN
    /\ first = 0
    /\ next = 0
    /\ finished = {}
    /\ file = <<>>
    /\ lost = {}

Take ==
    /\ next < first + Slots
    /\ next' = next + 1
    /\ UNCHANGED <<has_file, first, finished, file, lost>>

Finish(k) ==
    /\ k \in first..(next - 1) \ finished
    /\ finished' = finished \cup {k}
    /\ UNCHANGED <<has_file, first, next, file, lost>>

Leave ==
    /\ first \in finished
    /\ first' = first + 1
    /\ finished' = finished \ {first}
    /\ UNCHANGED <<has_file, next>>

Save ==
    /\ Leave
    /\ has_file /\ first \notin Empty
    /\ file' = Append(file, first)
    /\ UNCHANGED lost

Lose ==
    /\ Leave
    /\ has_file /\ first \notin Empty
    /\ lost' = lost \cup {first}
    /\ UNCHANGED file

Skip ==
    /\ Leave
    /\ ~has_file \/ first \in Empty
    /\ UNCHANGED <<file, lost>>

Next ==
    \/ Take
    \/ \E k \in first..(next - 1) : Finish(k)
    \/ Save \/ Lose \/ Skip

Spec == Init /\ [][Next]_vars
==============================================================================
