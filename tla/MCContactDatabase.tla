-------------------------- MODULE MCContactDatabase ---------------------------
(* Instances of ContactDatabase for TLC.                                   *)
EXTENDS ContactDatabase

\* Body 1 is side 1 of one contact and side 0 of two; bodies 2 and 3 have a contact
\* with it and one or none with each other.
MCKeys == {<<0, 1>>, <<1, 2>>, <<1, 3>>, <<2, 3>>}
===============================================================================
