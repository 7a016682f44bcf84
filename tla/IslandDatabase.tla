---------------------------- MODULE IslandDatabase ----------------------------
(***************************************************************************)
(* The persistent islands of the physics pipeline, src/math/dynamics: the  *)
(* contact database, the island database and the frame that keeps them in  *)
(* step.  A frame (physics_pipeline_tick) removes the bodies tagged since  *)
(* the last one, finds the touching pairs, merges the islands new contacts *)
(* join, splits those a lost contact may have broken, and solves or puts   *)
(* to sleep each awake island.                                             *)
(*                                                                         *)
(* Positions are abstracted to what they decide: which pairs of bodies     *)
(* touch.  Any pairs may, except that a pair neither of whose bodies moved *)
(* since the last frame touches if and only if it did.  Velocities are     *)
(* abstracted to low or not low.  A contact is named by its key, the pair  *)
(* of its bodies, and the intrusive lists of an island are sets.           *)
(***************************************************************************)
EXTENDS Integers, FiniteSets, Functions

CONSTANTS
    Bodies,         \* slots of body_pool
    Islands,        \* indices of the array list islands
    Static,         \* ISLAND_STATIC
    SleepThreshold, \* sleep_time_threshold, in frames
    Kinds,          \* the kinds of body there are: TRUE for dynamic
    Removable,      \* the kinds of body that may be tagged for removal
    Toggles         \* whether sleeping is switched on and off

ASSUME BodiesAssumption == IsFiniteSet(Bodies)
ASSUME IslandsAssumption == Islands \subseteq Nat /\ Static \notin Islands
ASSUME KindsAssumption == Kinds \subseteq BOOLEAN /\ Removable \subseteq Kinds
ASSUME ThresholdAssumption == SleepThreshold \in Nat \ {0}

VARIABLES
    bodies, dynamic, \* the allocated bodies, and those with RB_DYNAMIC
    marked,         \* body_marked_list
    awake,          \* bodies with RB_AWAKE
    low_time,       \* low_velocity_time of a body, up to SleepThreshold
    slow,           \* bodies whose velocity is under the sleep limits
    moved,          \* bodies placed or integrated since the last contacts
    island_index,   \* body -> island, or Static
    used,           \* island_usage
    members, links, \* the body list and the contact list of an island
    flags,          \* the flags of an island
    net,            \* contact_net, by key
    persistent,     \* contacts_persistent_usage
    frame_usage,    \* contacts_frame_usage
    contact_new,    \* contacts of this frame yet to be given to an island
    to_split,       \* possible_splits, or what the removal of a body splits
    to_solve,       \* islands dispatched and not solved yet
    sleep_enabled, pending, \* sleep_enabled and pending_sleep_enabled
    pc              \* the phase of the frame

bodyVars == <<bodies, dynamic, marked, awake, low_time, slow, moved>>
islandVars == <<island_index, used, members, links, flags>>
contactVars == <<net, persistent, frame_usage, contact_new>>
configVars == <<sleep_enabled, pending>>
vars == <<bodyVars, islandVars, contactVars, configVars, to_split, to_solve, pc>>

Flags == {"awake", "reset", "split", "try"}

\* The keys of contacts between the bodies of S.
Pairs(S) == {p \in SUBSET S : Cardinality(p) = 2}

\* A bit vector with no bits: every index lies beyond it and counts as in use.
NoBits == Pairs(Bodies)

ContactsOf(b) == {c \in net : b \in c}

\* array_list_reserve_index for each index of S.  Which free index a call returns does
\* not matter to the properties: here the least ones are handed out.
Reserve(S) ==
    /\ S \cap used = {}
    /\ \A i \in S, j \in Islands \ used : j < i => j \in S

\* The flags is_db_init_island_from_body gives.
InitialFlags == IF sleep_enabled THEN {"awake", "reset"} ELSE {}

Init ==
    /\ bodies = {} /\ dynamic = {} /\ marked = {} /\ awake = {} /\ slow = {} /\ moved = {}
    /\ low_time = [b \in Bodies |-> 0]
    /\ island_index = [b \in Bodies |-> Static]
    /\ used = {}
    /\ members = [i \in Islands |-> {}]
    /\ links = [i \in Islands |-> {}]
    /\ flags = [i \in Islands |-> {}]
    /\ net = {} /\ persistent = {} /\ contact_new = {}
    /\ frame_usage = NoBits
    /\ to_split = {} /\ to_solve = {}
    /\ sleep_enabled = TRUE /\ pending = TRUE
    /\ pc = "idle"

-------------------------------------------------------------------------------
(* Between frames.                                                         *)

\* physics_pipeline_rigid_body_alloc; a dynamic body starts an island of its own.
AllocBody(b, d) ==
    /\ pc = "idle" /\ b \notin bodies
    /\ bodies' = bodies \cup {b}
    /\ dynamic' = IF d THEN dynamic \cup {b} ELSE dynamic
    /\ awake' = IF sleep_enabled THEN awake \cup {b} ELSE awake
    /\ low_time' = [low_time EXCEPT ![b] = 0]
    /\ slow' = slow \cup {b}
    /\ moved' = moved \cup {b}
    /\ IF d
       THEN \E i \in Islands :
                /\ Reserve({i})
                /\ used' = used \cup {i}
                /\ island_index' = [island_index EXCEPT ![b] = i]
                /\ members' = [members EXCEPT ![i] = {b}]
                /\ links' = [links EXCEPT ![i] = {}]
                /\ flags' = [flags EXCEPT ![i] = InitialFlags]
       ELSE /\ island_index' = [island_index EXCEPT ![b] = Static]
            /\ UNCHANGED <<used, members, links, flags>>
    /\ UNCHANGED <<marked, contactVars, configVars, to_split, to_solve, pc>>

TagForRemoval(b) ==
    /\ pc = "idle" /\ b \in bodies \ marked
    /\ (b \in dynamic) \in Removable
    /\ marked' = marked \cup {b}
    /\ UNCHANGED <<bodies, dynamic, awake, low_time, slow, moved, islandVars, contactVars,
                   configVars, to_split, to_solve, pc>>

\* A client of the pipeline writes pending_sleep_enabled.
SetPending ==
    /\ pc = "idle" /\ Toggles
    /\ pending' = ~pending
    /\ UNCHANGED <<bodyVars, islandVars, contactVars, sleep_enabled, to_split, to_solve, pc>>

\* physics_pipeline_flush
Flush ==
    /\ pc = "idle"
    /\ bodies' = {} /\ dynamic' = {} /\ marked' = {} /\ awake' = {} /\ slow' = {} /\ moved' = {}
    /\ low_time' = [b \in Bodies |-> 0]
    /\ island_index' = [b \in Bodies |-> Static]
    /\ used' = {}
    /\ members' = [i \in Islands |-> {}]
    /\ links' = [i \in Islands |-> {}]
    /\ flags' = [i \in Islands |-> {}]
    /\ net' = {} /\ persistent' = {} /\ contact_new' = {}
    /\ frame_usage' = NoBits
    /\ UNCHANGED <<configVars, to_split, to_solve, pc>>

\* physics_pipeline_tick: the frame memory of the last frame is cleared.
Tick ==
    /\ pc = "idle"
    /\ pc' = "remove"
    /\ frame_usage' = NoBits
    /\ UNCHANGED <<bodyVars, islandVars, net, persistent, contact_new, configVars, to_split, to_solve>>

-------------------------------------------------------------------------------
(* internal_remove_marked_bodies.  A body is removed in one action; the    *)
(* islands its removal splits are split by the next ones.                  *)

Removing(b) == pc = "remove" /\ to_split = {} /\ b \in marked

\* pool_remove, and what the body list of the pool loses with the slot.
ForgetBody(b) ==
    /\ bodies' = bodies \ {b}
    /\ dynamic' = dynamic \ {b}
    /\ marked' = marked \ {b}
    /\ awake' = awake \ {b}
    /\ slow' = slow \ {b}
    /\ moved' = moved \ {b}
    /\ low_time' = [low_time EXCEPT ![b] = 0]
    /\ island_index' = [island_index EXCEPT ![b] = Static]
    /\ net' = net \ ContactsOf(b)
    /\ persistent' = persistent \ ContactsOf(b)

\* A dynamic body leaves its island; the island goes with its last body, and is
\* split if contacts remain.
RemoveDynamic(b) ==
    LET i == island_index[b]
        rest == links[i] \ ContactsOf(b)
    IN  /\ Removing(b) /\ i # Static
        /\ ForgetBody(b)
        /\ members' = [members EXCEPT ![i] = @ \ {b}]
        /\ links' = [links EXCEPT ![i] = rest]
        /\ IF members[i] = {b}
           THEN used' = used \ {i} /\ flags' = [flags EXCEPT ![i] = {}]
           ELSE UNCHANGED <<used, flags>>
        /\ to_split' = IF members[i] # {b} /\ rest # {} THEN {i} ELSE {}
        /\ UNCHANGED <<frame_usage, contact_new, configVars, to_solve, pc>>

\* The bodies a static body touches.
Touching(b) == (UNION ContactsOf(b)) \ {b}

\* Mutant of RemoveStatic: the contacts stay on the lists of the islands.
RemoveStaticKeepsLinks(b) ==
    LET affected == {island_index[a] : a \in Touching(b)}
    IN  /\ Removing(b) /\ island_index[b] = Static
        /\ Static \notin affected
        /\ ForgetBody(b)
        /\ links' = links
        /\ to_split' = {i \in affected : links[i] \ ContactsOf(b) # {}}
        /\ flags' = [i \in Islands |->
                IF i \notin affected THEN flags[i]
                ELSE IF i \in to_split' THEN flags[i] \cup {"split"}
                ELSE (flags[i] \ {"split"}) \cup {"reset", "awake"}]
        /\ UNCHANGED <<used, members, frame_usage, contact_new, configVars, to_solve, pc>>

\* Mutant of RemoveStatic: the islands left without contacts are not woken.
RemoveStaticAsleep(b) ==
    LET affected == {island_index[a] : a \in Touching(b)}
    IN  /\ Removing(b) /\ island_index[b] = Static
        /\ Static \notin affected
        /\ ForgetBody(b)
        /\ links' = [i \in Islands |-> links[i] \ ContactsOf(b)]
        /\ to_split' = {i \in affected : links[i] \ ContactsOf(b) # {}}
        /\ flags' = [i \in Islands |->
                IF i \notin affected THEN flags[i]
                ELSE IF i \in to_split' THEN flags[i] \cup {"split"}
                ELSE flags[i] \ {"split"}]
        /\ UNCHANGED <<used, members, frame_usage, contact_new, configVars, to_solve, pc>>

\* A static body leaves every island it touches; those left with no contact are
\* woken, the others split.
RemoveStatic(b) ==
    LET affected == {island_index[a] : a \in Touching(b)}
    IN  /\ Removing(b) /\ island_index[b] = Static
        /\ Static \notin affected
        /\ ForgetBody(b)
        /\ links' = [i \in Islands |-> links[i] \ ContactsOf(b)]
        /\ to_split' = {i \in affected : links[i] \ ContactsOf(b) # {}}
        /\ flags' = [i \in Islands |->
                IF i \notin affected THEN flags[i]
                ELSE IF i \in to_split' THEN flags[i] \cup {"split"}
                ELSE (flags[i] \ {"split"}) \cup {"reset", "awake"}]
        /\ UNCHANGED <<used, members, frame_usage, contact_new, configVars, to_solve, pc>>

\* A static body that touches another one: islands is read at ISLAND_STATIC, far
\* beyond its end, and the model goes no further.
RemoveStaticTouchingStatic(b) ==
    /\ Removing(b) /\ island_index[b] = Static
    /\ \E a \in Touching(b) : island_index[a] = Static
    /\ pc' = "undefined"
    /\ UNCHANGED <<bodyVars, islandVars, contactVars, configVars, to_split, to_solve>>

-------------------------------------------------------------------------------
(* Splitting.                                                              *)

\* The breadth-first search of is_db_split_island: the bodies of the island i
\* that b reaches through contacts, without passing through a static body.
Reach(i, b) ==
    LET inside == {a \in Bodies : island_index[a] = i}
        closed == {S \in SUBSET inside : b \in S /\ \A c \in net : c \cap S # {} => (c \cap inside) \subseteq S}
    IN  {a \in inside : \A S \in closed : a \in S}

\* Mutant of SplitIsland: contacts with static bodies are left out of the new lists.
SplitIslandDynamicOnly(i) ==
    LET parts == {Reach(i, b) : b \in members[i]}
        kept == {c \in links[i] : c \in frame_usage}
    IN  /\ pc \in {"remove", "split"} /\ i \in to_split
        /\ to_split' = to_split \ {i}
        /\ \E f \in Injection(parts, Islands \ used) :
            LET new == Range(f)
                part(j) == CHOOSE p \in parts : f[p] = j
            IN  /\ Reserve(new)
                /\ used' = (used \ {i}) \cup new
                /\ members' = [j \in Islands |->
                        IF j \in new THEN part(j) ELSE IF j = i THEN {} ELSE members[j]]
                /\ links' = [j \in Islands |->
                        IF j \in new THEN {c \in kept : c \subseteq part(j)} ELSE IF j = i THEN {} ELSE links[j]]
                /\ flags' = [j \in Islands |->
                        IF j \in new THEN InitialFlags ELSE IF j = i THEN {} ELSE flags[j]]
                /\ island_index' = [b \in Bodies |->
                        IF b \in members[i] THEN f[Reach(i, b)] ELSE island_index[b]]
        /\ UNCHANGED <<bodyVars, contactVars, configVars, to_solve, pc>>

\* Mutant of SplitIsland: the list of splits is not advanced.
SplitIslandAgain(i) ==
    LET parts == {Reach(i, b) : b \in members[i]}
        kept == {c \in links[i] : c \in frame_usage}
    IN  /\ pc \in {"remove", "split"} /\ i \in to_split
        /\ to_split' = to_split
        /\ \E f \in Injection(parts, Islands \ used) :
            LET new == Range(f)
                part(j) == CHOOSE p \in parts : f[p] = j
            IN  /\ Reserve(new)
                /\ used' = (used \ {i}) \cup new
                /\ members' = [j \in Islands |->
                        IF j \in new THEN part(j) ELSE IF j = i THEN {} ELSE members[j]]
                /\ links' = [j \in Islands |->
                        IF j \in new THEN {c \in kept : c \cap part(j) # {}} ELSE IF j = i THEN {} ELSE links[j]]
                /\ flags' = [j \in Islands |->
                        IF j \in new THEN InitialFlags ELSE IF j = i THEN {} ELSE flags[j]]
                /\ island_index' = [b \in Bodies |->
                        IF b \in members[i] THEN f[Reach(i, b)] ELSE island_index[b]]
        /\ UNCHANGED <<bodyVars, contactVars, configVars, to_solve, pc>>

\* One new island for each connected component, with the contacts of the old
\* island that are still in use; then is_db_island_remove.
SplitIsland(i) ==
    LET parts == {Reach(i, b) : b \in members[i]}
        kept == {c \in links[i] : c \in frame_usage}
    IN  /\ pc \in {"remove", "split"} /\ i \in to_split
        /\ to_split' = to_split \ {i}
        /\ \E f \in Injection(parts, Islands \ used) :
            LET new == Range(f)
                part(j) == CHOOSE p \in parts : f[p] = j
            IN  /\ Reserve(new)
                /\ used' = (used \ {i}) \cup new
                /\ members' = [j \in Islands |->
                        IF j \in new THEN part(j) ELSE IF j = i THEN {} ELSE members[j]]
                /\ links' = [j \in Islands |->
                        IF j \in new THEN {c \in kept : c \cap part(j) # {}} ELSE IF j = i THEN {} ELSE links[j]]
                /\ flags' = [j \in Islands |->
                        IF j \in new THEN InitialFlags ELSE IF j = i THEN {} ELSE flags[j]]
                /\ island_index' = [b \in Bodies |->
                        IF b \in members[i] THEN f[Reach(i, b)] ELSE island_index[b]]
        /\ UNCHANGED <<bodyVars, contactVars, configVars, to_solve, pc>>

-------------------------------------------------------------------------------
(* The frame.                                                              *)

\* internal_update_contact_solver_config, with physics_pipeline_enable_sleeping
\* or physics_pipeline_disable_sleeping when the pending value differs.
UpdateConfig ==
    /\ pc = "remove" /\ marked = {} /\ to_split = {}
    /\ pc' = "contacts"
    /\ sleep_enabled' = pending
    /\ IF pending = sleep_enabled THEN UNCHANGED <<awake, flags>>
       ELSE /\ awake' = bodies
            /\ flags' = [i \in Islands |->
                    IF i \notin used THEN {}
                    ELSE IF pending THEN (flags[i] \cup {"awake", "reset"}) \ {"try"}
                    ELSE (flags[i] \cup {"awake"}) \ {"reset", "try"}]
    /\ UNCHANGED <<bodies, dynamic, marked, low_time, slow, moved, island_index, used, members,
                   links, contactVars, pending, to_split, to_solve>>

\* internal_push_proxy_overlaps and internal_parallel_push_contacts: the pairs
\* that touch are added to the net or found in it.
PushContacts(touch) ==
    /\ pc = "contacts"
    /\ \A c \in Pairs(bodies) : c \cap moved = {} => (c \in touch <=> c \in net)
    /\ pc' = "merge"
    /\ net' = net \cup touch
    /\ frame_usage' = touch
    /\ contact_new' = touch \ persistent
    /\ moved' = {}
    /\ UNCHANGED <<bodies, dynamic, marked, awake, low_time, slow, islandVars, persistent,
                   configVars, to_split, to_solve>>

Ends(c) == {island_index[b] : b \in c}

\* is_db_add_contact_to_island, for a contact of which one body is static; a
\* contact of two static bodies belongs to no island.
AddContact(c) ==
    /\ pc = "merge" /\ c \in contact_new
    /\ Static \in Ends(c)
    /\ contact_new' = contact_new \ {c}
    /\ links' = [i \in Islands |-> IF i \in Ends(c) THEN links[i] \cup {c} ELSE links[i]]
    /\ UNCHANGED <<bodyVars, island_index, used, members, flags, net, persistent, frame_usage,
                   configVars, to_split, to_solve, pc>>

\* is_db_merge_islands, both bodies in one island.
AddLocalContact(c, i) ==
    /\ pc = "merge" /\ c \in contact_new
    /\ Ends(c) = {i} /\ i # Static
    /\ links[i] # {}
    /\ contact_new' = contact_new \ {c}
    /\ links' = [links EXCEPT ![i] = @ \cup {c}]
    /\ UNCHANGED <<bodyVars, island_index, used, members, flags, net, persistent, frame_usage,
                   configVars, to_split, to_solve, pc>>

\* kas_assert(is->contact_count != 0) of is_db_merge_islands stops the program.
LocalContactAssertionFails(c, i) ==
    /\ pc = "merge" /\ c \in contact_new
    /\ Ends(c) = {i} /\ i # Static
    /\ links[i] = {}
    /\ pc' = "stopped"
    /\ UNCHANGED <<bodyVars, islandVars, contactVars, configVars, to_split, to_solve>>

\* Mutant of SleepInterrupted: a sleeping island is not looked for.
SleepInterruptedByTry(expand, merge) ==
        \/ "try" \in flags[expand] \cup flags[merge]

\* Whether a merge interrupts the way to sleep of one of the islands.
SleepInterrupted(expand, merge) ==
    \/ "awake" \notin flags[expand] \cap flags[merge]
    \/ "try" \in flags[expand] \cup flags[merge]

\* Mutant of MergeIslands: the flags are added to those there.
MergeIslandsAddsFlags(c, expand, merge) ==
    /\ pc = "merge" /\ c \in contact_new
    /\ Ends(c) = {expand, merge} /\ expand # merge /\ Static \notin Ends(c)
    /\ contact_new' = contact_new \ {c}
    /\ used' = used \ {merge}
    /\ members' = [members EXCEPT ![expand] = @ \cup members[merge], ![merge] = {}]
    /\ links' = [links EXCEPT ![expand] = @ \cup links[merge] \cup {c}, ![merge] = {}]
    /\ flags' = [flags EXCEPT
            ![expand] = IF sleep_enabled /\ SleepInterrupted(expand, merge) THEN @ \cup {"awake", "reset"} ELSE @,
            ![merge] = {}]
    /\ island_index' = [b \in Bodies |-> IF b \in members[merge] THEN expand ELSE island_index[b]]
    /\ UNCHANGED <<bodyVars, net, persistent, frame_usage, configVars, to_split, to_solve, pc>>

\* is_db_merge_islands, the bodies in two islands: merge goes into expand.  The
\* order of a contact's bodies comes from the tree and may be either.
MergeIslands(c, expand, merge) ==
    /\ pc = "merge" /\ c \in contact_new
    /\ Ends(c) = {expand, merge} /\ expand # merge /\ Static \notin Ends(c)
    /\ contact_new' = contact_new \ {c}
    /\ used' = used \ {merge}
    /\ members' = [members EXCEPT ![expand] = @ \cup members[merge], ![merge] = {}]
    /\ links' = [links EXCEPT ![expand] = @ \cup links[merge] \cup {c}, ![merge] = {}]
    /\ flags' = [flags EXCEPT
            ![expand] = IF sleep_enabled /\ SleepInterrupted(expand, merge) THEN {"awake", "reset"} ELSE @,
            ![merge] = {}]
    /\ island_index' = [b \in Bodies |-> IF b \in members[merge] THEN expand ELSE island_index[b]]
    /\ UNCHANGED <<bodyVars, net, persistent, frame_usage, configVars, to_split, to_solve, pc>>

\* Mutant of RemoveContacts: an island is tagged only for a contact with a static body.
RemoveContactsStaticOnly ==
    LET broken == persistent \ frame_usage
    IN  /\ pc = "merge" /\ contact_new = {}
        /\ pc' = "split"
        /\ net' = net \ broken
        /\ to_split' = (UNION {Ends(c) : c \in {e \in broken : Static \in Ends(e)}}) \ {Static}
        /\ flags' = [i \in Islands |-> IF i \in to_split' THEN flags[i] \cup {"split"} ELSE flags[i]]
        /\ UNCHANGED <<bodyVars, island_index, used, members, links, persistent, frame_usage,
                       contact_new, configVars, to_solve>>

\* internal_remove_contacts_and_tag_split_islands: contacts of the last frame that
\* this one did not find.
RemoveContacts ==
    LET broken == persistent \ frame_usage
    IN  /\ pc = "merge" /\ contact_new = {}
        /\ pc' = "split"
        /\ net' = net \ broken
        /\ to_split' = (UNION {Ends(c) : c \in broken}) \ {Static}
        /\ flags' = [i \in Islands |-> IF i \in to_split' THEN flags[i] \cup {"split"} ELSE flags[i]]
        /\ UNCHANGED <<bodyVars, island_index, used, members, links, persistent, frame_usage,
                       contact_new, configVars, to_solve>>

\* Mutant of DispatchIslands: the bits of the last frame are kept.
DispatchIslandsStaleBits ==
    /\ pc = "split" /\ to_split = {}
    /\ pc' = "solve"
    /\ persistent' = persistent \cup frame_usage
    /\ to_solve' = {i \in used : sleep_enabled => "awake" \in flags[i]}
    /\ UNCHANGED <<bodyVars, islandVars, net, frame_usage, contact_new, configVars, to_split>>

\* The end of internal_split_islands, c_db_update_persistent_contacts_usage, and the
\* dispatch of internal_parallel_solve_islands.
DispatchIslands ==
    /\ pc = "split" /\ to_split = {}
    /\ pc' = "solve"
    /\ persistent' = frame_usage
    /\ to_solve' = {i \in used : sleep_enabled => "awake" \in flags[i]}
    /\ UNCHANGED <<bodyVars, islandVars, net, frame_usage, contact_new, configVars, to_split>>

\* island_solve of an island that was quiet for long enough, and uninterrupted for
\* a frame.
Drowsy(i) == sleep_enabled /\ "try" \in flags[i]

FallAsleep(i) ==
    /\ pc = "solve" /\ i \in to_solve /\ Drowsy(i)
    /\ to_solve' = to_solve \ {i}
    /\ flags' = [flags EXCEPT ![i] = {}]
    /\ awake' = (awake \ members[i]) \cup (members[i] \ awake)
    /\ UNCHANGED <<bodies, dynamic, marked, low_time, slow, moved, island_index, used, members,
                   links, contactVars, configVars, to_split, pc>>

\* Mutant of LowTime: the sleep timer is not reset.
LowTimeKept(i, b, quiet) ==
    IF b \in quiet /\ low_time[b] < SleepThreshold THEN low_time[b] + 1 ELSE low_time[b]

\* low_velocity_time after a solve in which the bodies of quiet were slow; a body that was
\* fast keeps the time it had.
LowTime(i, b, quiet) ==
    LET before == IF "reset" \in flags[i] THEN 0 ELSE low_time[b]
    IN  IF b \in quiet /\ before < SleepThreshold THEN before + 1 ELSE before

\* island_solve of any other island; quiet are its bodies whose velocity ends up
\* under the limits.
SolveIsland(i, quiet) ==
    /\ pc = "solve" /\ i \in to_solve /\ ~Drowsy(i)
    /\ to_solve' = to_solve \ {i}
    /\ slow' = (slow \ members[i]) \cup quiet
    /\ moved' = moved \cup members[i]
    /\ IF sleep_enabled
       THEN /\ awake' = awake \cup members[i]
            /\ low_time' = [b \in Bodies |-> IF b \in members[i] THEN LowTime(i, b, quiet) ELSE low_time[b]]
            /\ flags' = [flags EXCEPT ![i] = (@ \ {"reset"}) \cup
                    (IF \A b \in members[i] : low_time'[b] = SleepThreshold THEN {"try"} ELSE {})]
       ELSE UNCHANGED <<awake, low_time, flags>>
    /\ UNCHANGED <<bodies, dynamic, marked, island_index, used, members, links, contactVars,
                   configVars, to_split, pc>>

\* The assertions of is_db_validate.
Valid ==
    /\ \A i \in used :
        /\ members[i] = {b \in bodies : island_index[b] = i}
        /\ links[i] = {} => Cardinality(members[i]) = 1 /\ \A b \in members[i] : ContactsOf(b) = {}
        /\ links[i] \subseteq net
        /\ \A c \in links[i] : Ends(c) \subseteq {i, Static}
    /\ \A b \in bodies : island_index[b] \in used \cup {Static}

\* PHYSICS_PIPELINE_VALIDATE ends the frame.
Validate ==
    /\ pc = "solve" /\ to_solve = {}
    /\ pc' = IF Valid THEN "idle" ELSE "stopped"
    /\ UNCHANGED <<bodyVars, islandVars, contactVars, configVars, to_split, to_solve>>

-------------------------------------------------------------------------------
Remove == \E b \in Bodies : RemoveDynamic(b) \/ RemoveStatic(b) \/ RemoveStaticTouchingStatic(b)

GiveToIsland ==
    \E c \in contact_new :
        \/ AddContact(c)
        \/ \E i \in Islands : AddLocalContact(c, i) \/ LocalContactAssertionFails(c, i)
        \/ \E expand, merge \in Islands : MergeIslands(c, expand, merge)

Frame ==
    \/ Remove
    \/ UpdateConfig
    \/ \E touch \in SUBSET Pairs(bodies) : PushContacts(touch)
    \/ GiveToIsland
    \/ RemoveContacts
    \/ \E i \in Islands : SplitIsland(i)
    \/ DispatchIslands
    \/ \E i \in Islands : FallAsleep(i) \/ \E quiet \in SUBSET members[i] : SolveIsland(i, quiet)
    \/ Validate

Next ==
    \/ \E b \in Bodies, d \in Kinds : AllocBody(b, d)
    \/ \E b \in Bodies : TagForRemoval(b)
    \/ SetPending
    \/ Flush
    \/ Tick
    \/ Frame

Spec == Init /\ [][Next]_vars

FairSpec == Spec /\ WF_vars(Frame)
-------------------------------------------------------------------------------
(* Properties.                                                             *)

\* Every dynamic body is on the body list of the island it points to and on no other,
\* and an island is in use exactly as long as it has a body: what is_db_validate
\* counts, and what each merge, split and removal must keep.
MembersMatch ==
    /\ \A b \in Bodies : island_index[b] # Static <=> b \in dynamic
    /\ \A i \in Islands : members[i] = {b \in dynamic : island_index[b] = i}
    /\ \A i \in Islands : i \in used <=> members[i] # {}

\* When the islands are solved and until the next frame, touching dynamic bodies are
\* in one island, so that no two solver tasks have a contact in common; and the
\* contact list of an island is the contacts of its bodies, each on one list only.
TouchingTogether ==
    pc \in {"solve", "idle"} =>
        /\ \A c \in net : Cardinality(Ends(c) \ {Static}) <= 1
        /\ \A i \in used : links[i] = {c \in net : i \in Ends(c)}

\* The islands are the connected components of the contacts between dynamic bodies,
\* whatever merges and splits the frame needed: none is too large either.
IslandsAreComponents ==
    pc \in {"solve", "idle"} => \A i \in used : \A b \in members[i] : Reach(i, b) = members[i]

\* Between frames the usage bits name the contacts there are: a lost bit would keep a
\* contact for ever, a stale one would keep the next contact of that key from its island.
\* While islands are split the frame's bits do, as is_db_split_island asserts.
UsageKept ==
    /\ pc = "idle" => persistent = net
    /\ pc = "split" => frame_usage = net

\* A body and its island agree on being awake when the frame is over, and all bodies
\* of an island about to sleep are awake: RB_AWAKE is toggled, not cleared.
SleepAgrees ==
    /\ pc = "idle" /\ sleep_enabled => \A i \in used :
            IF "awake" \in flags[i] THEN members[i] \subseteq awake ELSE members[i] \cap awake = {}
    /\ \A i \in used : Drowsy(i) => members[i] \subseteq awake

\* The sleep timer of body b is to be reset when its island is next solved.
ResetPending(b) == island_index[b] # Static /\ "reset" \in flags[island_index[b]]

\* First way a reset is lost.  is_db_merge_islands leaves expand its flags when both islands
\* are awake and neither is tagged to sleep, also if only merge was to be reset: a body
\* woken by one merge and taken on by the next of the same frame keeps its old time.
ResetMergedAway(b) ==
    /\ pc = "merge" /\ island_index'[b] # island_index[b]
    /\ ~SleepInterrupted(island_index'[b], island_index[b])

\* Second way.  The removal of a static body wakes an island that has no other contact
\* but does not take its tag: the island goes to sleep in this frame all the same.
ResetSleptAway(b) == pc = "solve" /\ "try" \in flags[island_index[b]]

\* dynamics.h: "reset sleep timers on frame".  But for the two ways above, a body whose
\* island was woken, split, interrupted or switched back to sleeping starts its time at
\* low velocity over before the island is solved without the flag, in whichever island
\* later merges and splits put it.
ResetsReachBodies ==
    [][\A b \in bodies \cap bodies' : ResetPending(b) /\ ~ResetPending(b)' /\ sleep_enabled' =>
            low_time'[b] <= 1 \/ ResetMergedAway(b) \/ ResetSleptAway(b)]_vars

\* dynamics.h: an island tagged to sleep sleeps only "if the island is uninterrupted for
\* a frame": while tagged, no body joins it.
NoneJoinsDrowsy ==
    [][\A i \in Islands : "try" \in flags[i] /\ "try" \in flags'[i] => members'[i] \subseteq members[i]]_vars

\* The first part of the inductive invariant: the lists, what MembersMatch needs of the
\* types, and that an island about to sleep is in use, with sleeping on and the full time
\* of each of its bodies.
IslandInv ==
    /\ bodies \subseteq Bodies /\ dynamic \subseteq bodies
    /\ low_time \in [Bodies -> 0..SleepThreshold]
    /\ island_index \in [Bodies -> Islands \cup {Static}]
    /\ used \subseteq Islands
    /\ members \in [Islands -> SUBSET Bodies]
    /\ flags \in [Islands -> SUBSET Flags]
    /\ contact_new \subseteq SUBSET Bodies
    /\ MembersMatch
    /\ \A i \in Islands : "try" \in flags[i] =>
            i \in used /\ sleep_enabled /\ \A b \in members[i] : low_time[b] = SleepThreshold

\* The inductive invariant: an island handed to a solver task is also in use until that
\* task is done, which only holds because nothing removes islands meanwhile.
IInv ==
    /\ IslandInv
    /\ to_solve \subseteq used
    /\ pc # "solve" => to_solve = {}

\* A static body taken away wakes what rested on it: every dynamic body that loses a
\* contact to a removed body is in an island that is awake with its timers to be reset,
\* or about to be split.  (If it was tagged to sleep it still is: see ResetSleptAway.)
LostSupportWakes ==
    [][\A b \in bodies \ bodies', a \in bodies' : pc = "remove" /\ sleep_enabled /\ island_index[b] = Static
                /\ {a, b} \in net /\ island_index'[a] # Static =>
            \/ {"awake", "reset"} \subseteq flags'[island_index'[a]]
            \/ island_index'[a] \in to_split']_vars

\* No assertion of the frame fails: neither those that stop the model, nor, before the
\* step, those of is_db_merge_islands (with sleeping on, one of two merging islands is
\* awake) and of is_db_split_island (the island has contacts, all of them in use).
AssertionsHold ==
    /\ pc # "stopped"
    /\ pc = "merge" /\ sleep_enabled => \A c \in contact_new : \A i, j \in Ends(c) \ {Static} :
            i # j => "awake" \in flags[i] \cup flags[j]
    /\ \A i \in to_split : links[i] # {} /\ \A b \in members[i] : ContactsOf(b) \subseteq frame_usage

\* Every frame comes to its end.
FrameEnds == pc = "remove" ~> pc \in {"idle", "stopped", "undefined"}

-------------------------------------------------------------------------------
(* What the proofs add to IInv.                                            *)

\* The contacts the islands know of.
Settled == net \ contact_new

\* The contacts of an island, and those on its list that a split would keep.
Own(i) == {c \in Settled : c \cap members[i] # {}}
Listed(i) == IF i \in to_split THEN links[i] \cap frame_usage ELSE links[i]

\* How the net and the three sets of bits fit together in each phase.
BitsMatch ==
    /\ marked \subseteq bodies
    /\ net \subseteq Pairs(bodies) /\ frame_usage \subseteq Pairs(Bodies)
    /\ contact_new \subseteq net
    /\ pc \notin {"merge", "stopped"} => contact_new = {}
    /\ pc \in {"idle", "remove", "contacts", "solve"} => persistent = net
    /\ pc \in {"idle", "remove", "contacts"} => net \subseteq frame_usage
    /\ pc = "merge" => net = persistent \cup frame_usage /\ contact_new \cap persistent = {}
    /\ pc \in {"split", "solve"} => frame_usage = net
    /\ to_split \subseteq used
    /\ pc \notin {"remove", "split"} => to_split = {}

\* No settled contact joins two islands, and the list of an island has its contacts;
\* the list of one about to be split also those that the frame lost.
ListsMatch ==
    /\ links \in [Islands -> SUBSET Pairs(Bodies)]
    /\ \A c \in Settled : \A i, j \in Islands : c \cap members[i] # {} /\ c \cap members[j] # {} => i = j
    /\ \A i \in used : Listed(i) = Own(i)
    /\ \A i \in to_split : links[i] # {}

\* A body that moved, or is awake, is in an island that is awake; bodies of an island
\* that tries to sleep, or that its solver task has left, are awake.  An island not yet
\* solved has not moved, and a contact that is new joins no two islands that sleep.
AwakeMatch ==
    /\ sleep_enabled => \A i \in used : "awake" \notin flags[i] => members[i] \cap (awake \cup moved) = {}
    /\ \A i \in used : "try" \in flags[i] => members[i] \subseteq awake
    /\ sleep_enabled /\ pc \in {"idle", "solve"} =>
            \A i \in used \ to_solve : "awake" \in flags[i] => members[i] \subseteq awake
    /\ pc \in {"merge", "split"} => moved = {}
    /\ \A i \in to_solve : members[i] \cap moved = {} /\ (sleep_enabled => "awake" \in flags[i])
    /\ pc = "merge" /\ sleep_enabled => \A c \in contact_new : \A i, j \in used :
            c \cap members[i] # {} /\ c \cap members[j] # {} /\ i # j => "awake" \in flags[i] \cup flags[j]

\* The inductive invariant of the net of contacts, on top of IInv.
NetInv == BitsMatch /\ ListsMatch /\ AwakeMatch

\* No part of the island i is closed under its settled contacts but the whole.
Connected(i) ==
    \A S \in SUBSET members[i] :
        S # {} /\ (\A c \in Settled : c \cap S # {} => c \cap members[i] \subseteq S) => S = members[i]

\* While no dynamic body is removed, islands are connected until a contact breaks.
ConnectedInv ==
    /\ marked \cap dynamic = {}
    /\ \A i \in used \ to_split : Connected(i)
    /\ pc # "stopped"
===============================================================================
