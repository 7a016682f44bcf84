------------------------------- MODULE FrameTree -------------------------------
(***************************************************************************)
(* What the node cache of misc/ui/ui_core.c promises the code that builds  *)
(* an interface: the tree of a frame is what that frame built, children in *)
(* the order they were built in, whatever the frames before looked like;   *)
(* a node is the one its identifier had in the last frame, and a new one   *)
(* if it was not built there.                                              *)
(***************************************************************************)
EXTENDS Integers, Sequences

CONSTANTS
    Nodes,          \* what nodes are
    Ids,            \* identifiers of hashed nodes
    RootId,         \* the one of the root
    NoId            \* of nodes that are not hashed

VARIABLES
    building,       \* is a frame being built
    tree,           \* the children of each node built
    names,          \* the identifier of each node built
    last            \* the nodes of the last frame that were not built yet, by identifier

vars == <<building, tree, names, last>>

None == [n \in {} |-> NoId]

Named(f) == {n \in DOMAIN f : f[n] # NoId}

Inverse(f) == [id \in {f[n] : n \in Named(f)} |-> CHOOSE n \in Named(f) : f[n] = id]

Init ==
    /\ building = FALSE
    /\ tree = None
    /\ names = None
    /\ last = None

\* n becomes a node: the one of the last frame, or one that no node is.
Is(n, id, prior, taken) ==
    IF id \in DOMAIN prior THEN n = prior[id]
    ELSE n \in Nodes \ (taken \cup {prior[i] : i \in DOMAIN prior})

Without(prior, id) == [i \in DOMAIN prior \ {id} |-> prior[i]]

Begin(n) ==
    /\ ~building
    /\ Is(n, RootId, Inverse(names), {})
    /\ building' = TRUE
    /\ tree' = [m \in {n} |-> <<>>]
    /\ names' = [m \in {n} |-> RootId]
    /\ last' = Without(Inverse(names), RootId)

Extended(f, n, x) == [m \in DOMAIN f \cup {n} |-> IF m = n THEN x ELSE f[m]]

Build(n, id, p) ==
    /\ building
    /\ names' = Extended(names, n, id)
    /\ id \notin {names[m] : m \in Named(names)}
    /\ Is(n, id, last, DOMAIN tree)
    /\ p \in DOMAIN tree
    /\ tree' = Extended([tree EXCEPT ![p] = Append(@, n)], n, <<>>)
    /\ last' = Without(last, id)
    /\ UNCHANGED building

End ==
    /\ building
    /\ building' = FALSE
    /\ last' = None
    /\ UNCHANGED <<tree, names>>

Next ==
    \/ \E n \in Nodes : Begin(n)
    \/ \E n \in Nodes \ DOMAIN tree, id \in Ids \cup {NoId} : \E p \in DOMAIN tree : Build(n, id, p)
    \/ End

Spec == Init /\ [][Next]_vars
===============================================================================
