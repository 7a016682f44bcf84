------------------------------- MODULE MCUiNodes -------------------------------
(***************************************************************************)
(* An instance of UiNodes with a list, a field, the prompt of the console  *)
(* and one node that is not hashed.  Either nothing is clicked or typed    *)
(* and a frame builds the root and these four, so that a node with         *)
(* children can be lifted from between two siblings, or there is input and *)
(* a frame builds the root, the list and both fields.                      *)
(***************************************************************************)
EXTENDS UiNodes

CONSTANTS f1

MCBudgets == {[built |-> 5, anonymous |-> 1, input |-> FALSE],
              [built |-> 4, anonymous |-> 0, input |-> TRUE]}
===============================================================================
