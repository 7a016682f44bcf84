--------------------------- MODULE ContactDatabase ----------------------------
(***************************************************************************)
(* The contact database of src/math/dynamics/contact_database.c over the   *)
(* net list of containers/list.c: each contact is a node of two doubly     *)
(* linked lists, those of its bodies.  Side 0 of a node belongs to the     *)
(* body of the smaller index, side 1 to the other; to unlink a node one    *)
(* must find on which side its neighbours keep the list of the same body.  *)
(*                                                                         *)
(* Contacts are named by their index in the pool, which is used again      *)
(* after a removal and grows by doubling, and the usage bits go by index.  *)
(* A frame is that of physics_pipeline.c: contacts are found in any order, *)
(* the others dropped, the bits brought up to date.                        *)
(***************************************************************************)
EXTENDS Integers, Sequences, FiniteSets

CONSTANTS
    Bodies,         \* indices of bodies
    Keys,           \* bound: the pairs of bodies that may touch
    Size            \* initial length of the pool and of the bit vectors

ASSUME BodiesAssumption == Bodies \subseteq Nat
ASSUME SizeAssumption == Size \in Nat /\ Size > 1

\* The key of a contact: its bodies, the smaller first.
ASSUME KeysAssumption == Keys \subseteq {k \in Bodies \X Bodies : k[1] < k[2]} /\ IsFiniteSet(Keys)

Sides == {0, 1}
NLL_NULL == 0       \* the index of the stub node
NoKey == <<>>

\* The pool never needs more slots: one per key and the stub.
Indices == 0..Cardinality(Keys)

VARIABLES
    key,            \* key of a node
    nll_next, nll_prev, \* links of a node, by side
    free, count_max, length, \* the pool: removed indices, the last one first
    contact_map,    \* key -> index
    first,          \* first_contact_index of a body
    persistent, persistent_count,   \* contacts_persistent_usage: bits set, bit_count
    frame, frame_count,             \* contacts_frame_usage
    contact_new,    \* indices of the new contacts of the frame
    found,          \* keys of the manifolds handled so far in the frame
    walk,           \* the body whose contacts are being removed, and the next of them
    pc

poolVars == <<free, count_max, length>>
netVars == <<key, nll_next, nll_prev, contact_map, first>>
bitVars == <<persistent, persistent_count, frame, frame_count>>
vars == <<netVars, poolVars, bitVars, contact_new, found, walk, pc>>

Body(k, s) == k[s + 1]

\* c_db_index_in_next_contact_node and c_db_index_in_previous_contact_node: the side
\* of node i that belongs to the list of body b.
SideOf(i, b) == IF b = Body(key[i], 0) THEN 0 ELSE 1

Init ==
    /\ key = [i \in Indices |-> NoKey]
    /\ nll_next = [i \in Indices |-> [s \in Sides |-> NLL_NULL]]
    /\ nll_prev = [i \in Indices |-> [s \in Sides |-> NLL_NULL]]
    /\ free = <<>> /\ count_max = 1 /\ length = Size
    /\ contact_map = [k \in Keys |-> NLL_NULL]
    /\ first = [b \in Bodies |-> NLL_NULL]
    /\ persistent = {} /\ persistent_count = Size
    /\ frame = {} /\ frame_count = 0
    /\ contact_new = {} /\ found = {}
    /\ walk = <<>>
    /\ pc = "idle"

-------------------------------------------------------------------------------
(* The pool and the net list.                                              *)

\* pool_add: the index removed last, or the next one, the pool doubled if it is full.
NewIndex == IF free # <<>> THEN Head(free) ELSE count_max

PoolAdd ==
    /\ free' = IF free # <<>> THEN Tail(free) ELSE free
    /\ count_max' = IF free # <<>> THEN count_max ELSE count_max + 1
    /\ length' = IF count_max - Len(free) = length THEN 2 * length ELSE length

PoolRemove(i) ==
    /\ free' = <<i>> \o free
    /\ UNCHANGED <<count_max, length>>

\* nll_add of a node with key k before the first nodes of its two lists, which
\* c_db_add_contact makes the first of both.  The links of the stub are not kept:
\* nothing reads them.
LinkFirst(i, k) ==
    LET head(s) == first[Body(k, s)]
    IN  /\ key' = [key EXCEPT ![i] = k]
        /\ nll_next' = [nll_next EXCEPT ![i] = [s \in Sides |-> head(s)]]
        /\ nll_prev' = [j \in Indices |-> [s \in Sides |->
                IF j = i THEN NLL_NULL
                ELSE IF j # NLL_NULL /\ \E t \in Sides : j = head(t) /\ s = SideOf(j, Body(k, t)) THEN i
                ELSE nll_prev[j][s]]]
        /\ first' = [b \in Bodies |-> IF \E s \in Sides : b = Body(k, s) THEN i ELSE first[b]]
        /\ contact_map' = [contact_map EXCEPT ![k] = i]

\* Mutant of Unlink: the neighbours are taken to have the body on the same side.
UnlinkSameSide(i) ==
    LET k == key[i]
        beside(j, s, link) == {t \in Sides : link[i][t] = j /\ s = t}
    IN  /\ nll_next' = [j \in Indices |-> [s \in Sides |->
                IF j = NLL_NULL \/ j = i THEN NLL_NULL
                ELSE IF beside(j, s, nll_prev) # {} THEN nll_next[i][CHOOSE t \in beside(j, s, nll_prev) : TRUE]
                ELSE nll_next[j][s]]]
        /\ nll_prev' = [j \in Indices |-> [s \in Sides |->
                IF j = NLL_NULL \/ j = i THEN NLL_NULL
                ELSE IF beside(j, s, nll_next) # {} THEN nll_prev[i][CHOOSE t \in beside(j, s, nll_next) : TRUE]
                ELSE nll_prev[j][s]]]
        /\ key' = [key EXCEPT ![i] = NoKey]
        /\ contact_map' = [contact_map EXCEPT ![k] = NLL_NULL]

\* nll_remove: the neighbours on each side are linked to each other, and a body
\* whose list began with the node gets the next one.
Unlink(i) ==
    LET k == key[i]
        beside(j, s, link) == {t \in Sides : link[i][t] = j /\ s = SideOf(j, Body(k, t))}
    IN  /\ nll_next' = [j \in Indices |-> [s \in Sides |->
                IF j = NLL_NULL \/ j = i THEN NLL_NULL
                ELSE IF beside(j, s, nll_prev) # {} THEN nll_next[i][CHOOSE t \in beside(j, s, nll_prev) : TRUE]
                ELSE nll_next[j][s]]]
        /\ nll_prev' = [j \in Indices |-> [s \in Sides |->
                IF j = NLL_NULL \/ j = i THEN NLL_NULL
                ELSE IF beside(j, s, nll_next) # {} THEN nll_prev[i][CHOOSE t \in beside(j, s, nll_next) : TRUE]
                ELSE nll_prev[j][s]]]
        /\ key' = [key EXCEPT ![i] = NoKey]
        /\ contact_map' = [contact_map EXCEPT ![k] = NLL_NULL]

\* The node after i on the list of body b.
After(i, b) == nll_next[i][SideOf(i, b)]

\* Heads of the two lists once the node i is gone.
FirstWithout(i) == [b \in Bodies |-> IF first[b] = i THEN After(i, b) ELSE first[b]]

-------------------------------------------------------------------------------
(* The removal of a body: c_db_remove_body_contacts, and the same walk in  *)
(* c_db_remove_static_contacts_and_store_affected_islands.                 *)

RemoveBodyStart(b) ==
    /\ pc = "idle"
    /\ pc' = "walk"
    /\ walk' = <<b, first[b]>>
    /\ first' = [first EXCEPT ![b] = NLL_NULL]
    /\ UNCHANGED <<key, nll_next, nll_prev, contact_map, poolVars, bitVars, contact_new, found>>

RemoveBodyContact ==
    LET b == walk[1]
        i == walk[2]
    IN  /\ pc = "walk" /\ i # NLL_NULL
        /\ walk' = <<b, After(i, b)>>
        /\ first' = [FirstWithout(i) EXCEPT ![b] = NLL_NULL]
        /\ persistent' = persistent \ {i}
        /\ Unlink(i)
        /\ PoolRemove(i)
        /\ UNCHANGED <<persistent_count, frame, frame_count, contact_new, found, pc>>

RemoveBodyEnd ==
    /\ pc = "walk" /\ walk[2] = NLL_NULL
    /\ pc' = "idle"
    /\ walk' = <<>>
    /\ UNCHANGED <<netVars, poolVars, bitVars, contact_new, found>>

\* c_db_flush
Flush ==
    /\ pc = "idle"
    /\ key' = [i \in Indices |-> NoKey]
    /\ nll_next' = [i \in Indices |-> [s \in Sides |-> NLL_NULL]]
    /\ nll_prev' = [i \in Indices |-> [s \in Sides |-> NLL_NULL]]
    /\ free' = <<>> /\ count_max' = 1
    /\ contact_map' = [k \in Keys |-> NLL_NULL]
    /\ first' = [b \in Bodies |-> NLL_NULL]
    /\ persistent' = {}
    /\ UNCHANGED <<length, persistent_count, frame, frame_count, contact_new, found, walk, pc>>

-------------------------------------------------------------------------------
(* A frame.                                                                *)

\* The frame's vector is as long as the persistent one.
BeginFrame ==
    /\ pc = "idle"
    /\ pc' = "push"
    /\ frame' = {} /\ frame_count' = persistent_count
    /\ UNCHANGED <<netVars, poolVars, persistent, persistent_count, contact_new, found, walk>>

\* Mutant of AddContact: a contact beyond the bits is taken for a known one.
AddContactAppendedKnown(k) ==
    LET known == contact_map[k]
        i == IF known = NLL_NULL THEN NewIndex ELSE known
    IN  /\ pc = "push" /\ k \notin found
        /\ found' = found \cup {k}
        /\ IF known = NLL_NULL
           THEN PoolAdd /\ LinkFirst(i, k)
           ELSE UNCHANGED <<netVars, poolVars>>
        /\ frame' = IF i < frame_count THEN frame \cup {i} ELSE frame
        /\ contact_new' = IF i < persistent_count /\ i \notin persistent THEN contact_new \cup {i} ELSE contact_new
        /\ UNCHANGED <<persistent, persistent_count, frame_count, walk, pc>>

\* c_db_add_contact for a manifold of the frame, and whether internal_parallel_push_contacts
\* takes the contact for a new one.
AddContact(k) ==
    LET known == contact_map[k]
        i == IF known = NLL_NULL THEN NewIndex ELSE known
    IN  /\ pc = "push" /\ k \notin found
        /\ found' = found \cup {k}
        /\ IF known = NLL_NULL
           THEN PoolAdd /\ LinkFirst(i, k)
           ELSE UNCHANGED <<netVars, poolVars>>
        /\ frame' = IF i < frame_count THEN frame \cup {i} ELSE frame
        /\ contact_new' = IF i >= persistent_count \/ i \notin persistent THEN contact_new \cup {i} ELSE contact_new
        /\ UNCHANGED <<persistent, persistent_count, frame_count, walk, pc>>

AllFound ==
    /\ pc = "push"
    /\ pc' = "drop"
    /\ UNCHANGED <<netVars, poolVars, bitVars, contact_new, found, walk>>

\* The contacts of the last frame that this one did not find.
Broken == {i \in persistent \ frame : key[i] # NoKey}

\* c_db_remove_contact, in the order of the bits.
RemoveContact ==
    LET i == CHOOSE j \in Broken : \A l \in Broken : j <= l
    IN  /\ pc = "drop" /\ Broken # {}
        /\ first' = FirstWithout(i)
        /\ Unlink(i)
        /\ PoolRemove(i)
        /\ UNCHANGED <<bitVars, contact_new, found, walk, pc>>

\* Mutant of UpdateUsage: the appended bits are set up to the length of the pool.
UpdateUsageToLength ==
    /\ pc = "drop" /\ Broken = {}
    /\ pc' = "idle"
    /\ IF persistent_count < count_max
       THEN /\ persistent_count' = length
            /\ persistent' = frame \cup (persistent_count .. length - 1)
       ELSE /\ persistent' = frame
            /\ UNCHANGED persistent_count
    /\ frame' = {} /\ frame_count' = 0
    /\ contact_new' = {} /\ found' = {}
    /\ UNCHANGED <<netVars, poolVars, walk>>

\* c_db_update_persistent_contacts_usage, and c_db_clear_frame before the next frame.
UpdateUsage ==
    /\ pc = "drop" /\ Broken = {}
    /\ pc' = "idle"
    /\ IF persistent_count < count_max
       THEN /\ persistent_count' = length
            /\ persistent' = frame \cup (persistent_count .. count_max - 1)
       ELSE /\ persistent' = frame
            /\ UNCHANGED persistent_count
    /\ frame' = {} /\ frame_count' = 0
    /\ contact_new' = {} /\ found' = {}
    /\ UNCHANGED <<netVars, poolVars, walk>>

Next ==
    \/ \E b \in Bodies : RemoveBodyStart(b)
    \/ RemoveBodyContact \/ RemoveBodyEnd
    \/ Flush
    \/ BeginFrame
    \/ \E k \in Keys : AddContact(k)
    \/ AllFound
    \/ RemoveContact
    \/ UpdateUsage

Spec == Init /\ [][Next]_vars

-------------------------------------------------------------------------------
(* Properties.                                                             *)

Removed == {free[n] : n \in 1..Len(free)}

\* The indices of contacts.
Live == (1 .. count_max - 1) \ Removed

\* The contacts of body b, where its list begins and what precedes a contact in it.
On(b) == {i \in Live : \E s \in Sides : Body(key[i], s) = b}

ListHead(b) == IF pc = "walk" /\ walk[1] = b THEN walk[2] ELSE first[b]

Previous(i, b) == nll_prev[i][SideOf(i, b)]

\* From head on, next leads through every one of the nodes, once, and prev back: no
\* part of them is out of reach of the head.
DoublyLinked(nodes, head, next, prev) ==
    /\ head = NLL_NULL <=> nodes = {}
    /\ \A i \in nodes :
        /\ i = head <=> prev[i] = NLL_NULL
        /\ next[i] \in nodes \cup {NLL_NULL}
        /\ next[i] # NLL_NULL => prev[next[i]] = i
    /\ \A part \in SUBSET nodes : part # {} /\ head \notin part => \E i \in nodes \ part : next[i] \in part

\* c_db_validate, and more: from first_contact_index on, the sides of a body link
\* exactly the contacts of the body.  A node unlinked on the wrong side would leave the
\* rest of the list of another body out of reach.
Lists ==
    \A b \in Bodies :
        DoublyLinked(On(b), ListHead(b), [i \in On(b) |-> After(i, b)], [i \in On(b) |-> Previous(i, b)])

\* The map finds every contact under its key and finds nothing else: a frame would
\* otherwise make a second contact of one pair, or reuse one that is gone.
MapAgrees ==
    /\ \A k \in Keys : contact_map[k] # NLL_NULL => contact_map[k] \in Live /\ key[contact_map[k]] = k
    /\ \A i \in Live : contact_map[key[i]] = i

\* The net is consistent: the contacts of a body, and those of a key, are found from
\* either side, however contacts are added, removed and put into used slots.
NetSound == Lists /\ MapAgrees

\* Between frames the bits are set exactly for the contacts, though indices are used
\* again and the bit vectors are shorter than a pool that grew in the frame.
UsageExact ==
    /\ pc \in {"idle", "walk"} => persistent = Live
    /\ pc \in {"idle", "walk"} => count_max <= persistent_count

\* The keys of a set of indices.
KeysOf(S) == {key[i] : i \in S}

Set == INSTANCE ContactSet WITH
    Pairs <- Keys,
    contacts <- KeysOf(Live),
    before <- KeysOf(Live \cap persistent),
    reported <- KeysOf(contact_new)

\* The database is the set of contacts it stands for: none is lost, doubled or dropped
\* in the frame that found it, and the new ones it reports are new.
ImplementsSet == Set!Spec

-------------------------------------------------------------------------------
(* The inductive invariant behind the properties.                          *)

TypeOK ==
    /\ key \in [Indices -> Keys \cup {NoKey}]
    /\ nll_next \in [Indices -> [Sides -> Indices]]
    /\ nll_prev \in [Indices -> [Sides -> Indices]]
    /\ contact_map \in [Keys -> Indices] /\ first \in [Bodies -> Indices]
    /\ free \in Seq(Indices) /\ count_max \in 1..(Cardinality(Keys) + 1) /\ length \in Nat
    /\ persistent \subseteq Indices /\ persistent_count \in Nat \ {0}
    /\ frame \subseteq Indices /\ frame_count \in Nat
    /\ contact_new \subseteq Indices /\ found \subseteq Keys
    /\ pc \in {"idle", "walk", "push", "drop"}

\* Every index below count_max is free, once, or the index of a contact.
Pool ==
    /\ \A n \in 1..Len(free) : free[n] \in 1..(count_max - 1)
    /\ \A m, n \in 1..Len(free) : free[m] = free[n] => m = n
    /\ \A i \in Indices : key[i] # NoKey <=> i \in Live
    /\ count_max <= length

\* A body that is being removed has given up the head of its list to the walk.
Walk == IF pc = "walk" THEN walk \in Bodies \X Indices /\ first[walk[1]] = NLL_NULL ELSE walk = <<>>

Quiet ==
    /\ persistent = Live /\ count_max <= persistent_count
    /\ found = {} /\ contact_new = {}

\* In a frame: persistent are the contacts of the last frame, those dropped meanwhile
\* among them, frame the ones found among the bits there are.
InFrame ==
    /\ frame_count = persistent_count
    /\ \A i \in persistent \cup Removed : i < persistent_count
    /\ frame = {i \in Live : i < frame_count /\ key[i] \in found}
    /\ contact_new = Live \ persistent
    /\ \A i \in contact_new : key[i] \in found
    /\ pc = "push" => persistent \subseteq Live

Bits == IF pc \in {"idle", "walk"} THEN Quiet ELSE InFrame

IInv == TypeOK /\ Pool /\ Walk /\ NetSound /\ Bits

===============================================================================
