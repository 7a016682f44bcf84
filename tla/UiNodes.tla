-------------------------------- MODULE UiNodes --------------------------------
(***************************************************************************)
(* The node cache of the interface library (misc/ui/ui_core.c), the        *)
(* widgets of misc/ui/ui_build.c that keep an index or the focus over      *)
(* frames, and the commands and events about text editing.                 *)
(*                                                                         *)
(* The program's loop takes the events, executes the commands queued since *)
(* the last frame, and builds a frame.  A hashed node built in consecutive *)
(* frames keeps its slot: when it is built again it is lifted out of the   *)
(* old tree into the new one, and what was not lifted is pruned at the end *)
(* of the frame.  Strings live in two arenas that take turns: one of this  *)
(* frame has age 0, one of the last age 1, and the memory of one of age 2  *)
(* is in use for something else.  Layout is left out: which field is under *)
(* the cursor is an input.                                                 *)
(***************************************************************************)
EXTENDS HierarchyIndex

CONSTANTS
    RootId,         \* "###root_%p"
    ListId,         \* the identifier of a ui_list
    Fields,         \* those of ui_fields: UI_TEXT_EDIT_INTER_BUF_ON_FOCUS and COPY_ON_FOCUS
    PromptId,       \* the one of the console: ui_text_input on console->prompt
    NoId,           \* the empty identifier
    LastSlot,       \* bound: slots are 2..LastSlot; the array of nodes does not grow
    Budgets         \* bound: for a behaviour, how many nodes a frame builds, how many of them
                    \* are not hashed, and whether there is input

Editable == Fields \cup {PromptId}
Ids == Editable \cup {RootId, ListId}

ASSUME IdsAssumption ==
    /\ PromptId \notin Fields
    /\ RootId \notin Editable
    /\ ListId \notin Editable \cup {RootId}
    /\ NoId \notin Ids
ASSUME BoundsAssumption ==
    /\ Budgets \subseteq [built : Nat, anonymous : Nat, input : BOOLEAN]
    /\ LastSlot \in Nat /\ \A b \in Budgets : LastSlot > 2 * b.built

VARIABLES
    links,          \* node_hierarchy: the links of each node
    node,           \* and what the node keeps: id, focus, hover, age of last touch and id
    free,           \* slots of node_hierarchy that are not reserved
    map,            \* node_map: pairs of an identifier and a slot
    root,
    stack_parent,
    node_hovered,   \* an identifier, with the age of its string
    text_edit_id,   \* an identifier, with the age of its string
    text_edit,      \* the ui_text_input that is edited
    text_edit_mode,
    list,           \* frame_node of the ui_list, with the age of last_build_frame
    queue,          \* commands in the order of their submission
    phase,          \* where the program's loop is
    click,          \* button_clicked
    escape,         \* key_clicked of escape
    budget          \* bound: of this behaviour

editVars  == <<text_edit_id, text_edit, text_edit_mode>>
inputVars == <<click, escape, budget>>
treeVars  == <<links, node, free, map, root>>
vars == <<links, node, free, map, root, stack_parent, node_hovered, text_edit_id, text_edit,
          text_edit_mode, list, queue, phase, click, escape, budget>>

Slots == 2..LastSlot

\* What text_edit points to: text_edit_stub, console->prompt, or the input of a node, by its slot.
StubInput == 0
PromptInput == 1

Older(age) == IF age = 2 THEN 2 ELSE age + 1

Blank == [id |-> NoId, age |-> 2, focus |-> FALSE, hover |-> FALSE]
NoName == [id |-> NoId, age |-> 0]

NoNode == 0

\* ui_node_lookup.
Lookup(id) == IF \E i \in Slots : <<id, i>> \in map THEN CHOOSE i \in Slots : <<id, i>> \in map ELSE NoNode

Init ==
    /\ links = [i \in 0..LastSlot |-> Unlinked]
    /\ node = [i \in Slots |-> Blank]
    /\ free = Slots
    /\ map = {}
    /\ root = HI_ROOT_STUB_INDEX
    /\ stack_parent = <<HI_ROOT_STUB_INDEX>>
    /\ node_hovered = NoName
    /\ text_edit_id = NoName
    /\ text_edit = StubInput
    /\ text_edit_mode = FALSE
    /\ list = [index |-> HI_NULL_INDEX, age |-> 2]
    /\ queue = <<>>
    /\ phase = "events"
    /\ click = FALSE
    /\ escape = FALSE
    /\ budget \in Budgets

Command(op, id, input) == [op |-> op, id |-> id, input |-> input]
Enable(id, input) == Command("enable", id, input)
Disable(id) == Command("disable", id, StubInput)
Flush(id) == Command("flush", id, StubInput)
TextOp == Command("text_op", NoId, StubInput)

-------------------------------------------------------------------------------
(* system_process_events.                                                  *)

\* The left button, escape while a text is edited or not, and at most one text,
\* in any order.
ProcessEvents(clicked, escaped, texts) ==
    LET ended == IF escaped /\ text_edit_mode THEN <<Disable(text_edit_id.id)>> ELSE <<>>
    IN  /\ phase = "events"
        /\ clicked \/ escaped \/ texts # <<>> => budget.input
        /\ click' = clicked
        /\ escape' = escaped
        /\ queue' \in {queue \o ended \o texts, queue \o texts \o ended}
        /\ phase' = "commands"
        /\ UNCHANGED <<treeVars, stack_parent, node_hovered, editVars, list, budget>>

-------------------------------------------------------------------------------
(* cmd_queue_execute on the commands about text editing.                   *)

NextCommand(op) ==
    /\ phase = "commands"
    /\ queue # <<>>
    /\ Head(queue).op = op
    /\ queue' = Tail(queue)

Unfocused(nodes, i) == IF i = NoNode THEN nodes ELSE [nodes EXCEPT ![i].focus = FALSE]

\* Mutant of ExecuteEnable: the node edited before keeps its focus.
ExecuteEnableKeeping ==
    /\ NextCommand("enable")
    /\ text_edit_mode' = TRUE
    /\ text_edit_id' = [id |-> Head(queue).id, age |-> 0]
    /\ text_edit' = Head(queue).input
    /\ UNCHANGED <<treeVars, stack_parent, node_hovered, list, phase, inputVars>>

\* ui_text_input_mode_enable.  The node it is about is dereferenced unchecked,
\* and its own input asserted to be the one that was submitted.
ExecuteEnable ==
    /\ NextCommand("enable")
    /\ LET id == Head(queue).id
           i == Lookup(id)
       IN  IF i = NoNode \/ (id \in Fields /\ Head(queue).input # i)
           THEN phase' = "stopped" /\ UNCHANGED <<node, editVars>>
           ELSE /\ node' = Unfocused(node, Lookup(text_edit_id.id))
                /\ text_edit_mode' = TRUE
                /\ text_edit_id' = [id |-> id, age |-> 0]
                /\ text_edit' = Head(queue).input
                /\ UNCHANGED phase
    /\ UNCHANGED <<links, free, map, root, stack_parent, node_hovered, list, inputVars>>

\* ui_text_input_mode_disable.
ExecuteDisable ==
    /\ NextCommand("disable")
    /\ IF Head(queue).id = text_edit_id.id
       THEN /\ node' = Unfocused(node, Lookup(text_edit_id.id))
            /\ text_edit_mode' = FALSE
            /\ text_edit_id' = NoName
            /\ text_edit' = StubInput
       ELSE UNCHANGED <<node, editVars>>
    /\ UNCHANGED <<links, free, map, root, stack_parent, node_hovered, list, phase, inputVars>>

\* ui_text_op, and ui_text_input_flush of the input that is edited, change the
\* text that text_edit points to.
ExecuteEdit ==
    /\ NextCommand("text_op") \/ NextCommand("flush")
    /\ UNCHANGED <<treeVars, stack_parent, node_hovered, editVars, list, phase, inputVars>>

-------------------------------------------------------------------------------
(* Building a frame.                                                       *)

Parent == stack_parent[Len(stack_parent)]

InUse == Slots \ free

\* Nodes built in this frame.
Built == {i \in Slots : node[i].age = 0}

\* The slot ui_node_alloc finds or reserves.  The code reserves the one freed
\* last; here it is the least, so that the order of frees is not part of a state.
SlotFor(id) == IF Lookup(id) = NoNode THEN Min(free) ELSE Lookup(id)

\* ui_node_alloc and, for nodes that are not hashed, internal_ui_pad, below p.
\* nodes is what is known of the nodes when it is called.
NodeAlloc(id, p, nodes, focus) ==
    LET i == SlotFor(id)
        found == Lookup(id) # NoNode
    IN  /\ free # {}
        /\ links' = IF found THEN AdoptNodeExclusive(links, i, p) ELSE HierarchyAdd(links, i, p)
        /\ free' = free \ {i}
        /\ map' = IF found \/ id = NoId THEN map ELSE map \cup {<<id, i>>}
        /\ node' = [nodes EXCEPT ![i] = [id |-> id, age |-> 0, focus |-> focus,
                                         hover |-> found /\ nodes[i].hover]]

\* ui_frame_begin: the other arena is flushed and becomes mem_frame.
FrameBegin ==
    LET older == [i \in Slots |-> [node[i] EXCEPT !.age = Older(@)]]
    IN  /\ phase = "commands"
        /\ queue = <<>>
        /\ NodeAlloc(RootId, HI_ROOT_STUB_INDEX, older, FALSE)
        /\ root' = SlotFor(RootId)
        /\ stack_parent' = Append(stack_parent, SlotFor(RootId))
        /\ node_hovered' = [node_hovered EXCEPT !.age = Older(@)]
        /\ text_edit_id' = [text_edit_id EXCEPT !.age = Older(@)]
        /\ list' = [list EXCEPT !.age = Older(@)]
        /\ phase' = "build"
        /\ UNCHANGED <<text_edit, text_edit_mode, queue, inputVars>>

\* The program builds no identifier twice in a frame.
MayBuild(id) ==
    /\ phase = "build"
    /\ Cardinality(Built) < budget.built
    /\ id # NoId => \A i \in Built : node[i].id # id

\* ui_node_set_interactions: escape takes the focus and a click gives it.
Focus(i) == (node[i].focus /\ ~escape) \/ (node[i].hover /\ click)

\* A ui_field has its input in its node, the prompt of the console elsewhere.
InputOf(id, i) == IF id \in Fields THEN i ELSE PromptInput

\* On enter a ui_field gives up the focus and the console ends a line.
Entered(id) == IF id \in Fields THEN Disable(id) ELSE Flush(id)

\* ui_field_u64 and its like, ui_text_input for the console: the focus comes in
\* or stays, and with it enter may be pressed.
BuildField(id, enter) ==
    LET i == SlotFor(id)
        before == Lookup(id) # NoNode /\ node[i].focus
        now == Lookup(id) # NoNode /\ Focus(i)
    IN  /\ MayBuild(id)
        /\ enter => now
        /\ NodeAlloc(id, Parent, node, now)
        /\ queue' = queue \o (IF now /\ ~before THEN <<Enable(id, InputOf(id, i))>> ELSE <<>>)
                          \o (IF enter THEN <<Entered(id)>> ELSE <<>>)
        /\ text_edit' = IF now /\ before /\ id = PromptId THEN PromptInput ELSE text_edit
        /\ UNCHANGED <<root, stack_parent, node_hovered, text_edit_id, text_edit_mode, list, phase,
                       inputVars>>

\* ui_list_push.  It reads the node at the index of the last frame (ListLive).
BuildList ==
    /\ MayBuild(ListId)
    /\ NodeAlloc(ListId, Parent, node, FALSE)
    /\ list' = [index |-> SlotFor(ListId), age |-> 0]
    /\ stack_parent' = Append(stack_parent, SlotFor(ListId))
    /\ UNCHANGED <<root, node_hovered, editVars, queue, phase, inputVars>>

\* ui_node_alloc_non_hashed and ui_node_push.
BuildAnonymous ==
    /\ MayBuild(NoId)
    /\ Cardinality({i \in Built : node[i].id = NoId}) < budget.anonymous
    /\ NodeAlloc(NoId, Parent, node, FALSE)
    /\ stack_parent' = Append(stack_parent, SlotFor(NoId))
    /\ UNCHANGED <<root, node_hovered, editVars, list, queue, phase, inputVars>>

\* ui_node_pop; the root is popped by ui_frame_end.
Pop ==
    /\ phase = "build"
    /\ Len(stack_parent) > 2
    /\ stack_parent' = Front(stack_parent)
    /\ UNCHANGED <<treeVars, node_hovered, editVars, list, queue, phase, inputVars>>

-------------------------------------------------------------------------------
(* ui_frame_end.                                                           *)

\* ui_identify_hovered_node, when the cursor is over the field in slot h, or none.
Hovered(h) ==
    [i \in Slots |-> [node[i] EXCEPT !.hover = i = h \/ (@ /\ i # Lookup(node_hovered.id))]]

\* Mutant of EditEnds: the identifier is left in the arena it is in.
EditEndsInPlace ==
    LET t == Lookup(text_edit_id.id)
        over == t # NoNode /\ (node[t].age # 0 \/ ~node[t].focus)
    IN  /\ queue' = IF over THEN Append(queue, Disable(text_edit_id.id)) ELSE queue
        /\ text_edit' = IF t # NoNode /\ ~over /\ node[t].id \in Fields THEN t ELSE text_edit
        /\ UNCHANGED text_edit_id

\* The identifier and the input of the node that is edited are renewed, or the
\* edit is ended if the node was not built or lost the focus.
EditEnds ==
    LET t == Lookup(text_edit_id.id)
        over == t # NoNode /\ (node[t].age # 0 \/ ~node[t].focus)
    IN  /\ queue' = IF over THEN Append(queue, Disable(text_edit_id.id)) ELSE queue
        /\ text_edit' = IF t # NoNode /\ ~over /\ node[t].id \in Fields THEN t ELSE text_edit
        /\ text_edit_id' = IF t = NoNode THEN text_edit_id ELSE [id |-> node[t].id, age |-> node[t].age]

\* What hangs from the orphan stub: all of the last frame's tree that was not
\* lifted into the new one.
Pruned == Below(links, HI_ORPHAN_STUB_INDEX)

\* It is freed, then the new tree is orphaned.
Prune(nodes) ==
    /\ links' = AdoptNode(RemoveBelow(links, HI_ORPHAN_STUB_INDEX), root, HI_ORPHAN_STUB_INDEX)
    /\ node' = [i \in Slots |-> IF i \in Pruned THEN Blank ELSE nodes[i]]
    /\ map' = {m \in map : m[2] \notin Pruned}
    /\ free' = free \cup Pruned

FrameEnd(h) ==
    /\ phase = "build"
    /\ Len(stack_parent) = 2
    /\ stack_parent' = <<HI_ROOT_STUB_INDEX>>
    /\ node_hovered' = IF h = NoNode THEN NoName ELSE [id |-> node[h].id, age |-> 0]
    /\ click' = FALSE
    /\ escape' = FALSE
    /\ EditEnds
    /\ Prune(Hovered(h))
    /\ phase' = "events"
    /\ UNCHANGED <<root, text_edit_mode, list, budget>>

Next ==
    \/ \E clicked, escaped \in BOOLEAN, texts \in {<<>>, <<TextOp>>} : ProcessEvents(clicked, escaped, texts)
    \/ ExecuteEnable \/ ExecuteDisable \/ ExecuteEdit
    \/ FrameBegin
    \/ \E id \in Editable, enter \in BOOLEAN : BuildField(id, enter)
    \/ BuildList \/ BuildAnonymous \/ Pop
    \/ \E h \in {i \in Built : budget.input /\ node[i].id \in Editable} \cup {NoNode} : FrameEnd(h)

Spec == Init /\ [][Next]_vars

-------------------------------------------------------------------------------
(* Properties.                                                             *)

\* Every string that is compared lies in an arena that was not flushed since.
StringsLive ==
    /\ \A m \in map : node[m[2]].id = m[1] /\ node[m[2]].age < 2
    /\ \A name \in {node_hovered, text_edit_id} : name.id = NoId \/ name.age < 2

\* The slot a list remembers from the last frame still is its node.
ListLive == phase = "build" /\ list.age = 1 => <<ListId, list.index>> \in map

\* No slot outlives the frame after the one that built its node, and none will
\* be freed twice or while it is in use.
SlotsAccounted ==
    /\ \A i \in InUse : node[i].age <= (IF phase = "build" THEN 1 ELSE 0)
    /\ \A i \in InUse : node[i].id # NoId => <<node[i].id, i>> \in map
    /\ phase = "build" => /\ FoundOnce(links, HI_ORPHAN_STUB_INDEX)
                          /\ Pruned \cap (free \cup Built) = {}

\* The input of the field that text_edit_id names.
EditedInput == InputOf(text_edit_id.id, Lookup(text_edit_id.id))

\* What is typed reaches the field that is edited, or nothing.
EditsLand ==
    (phase = "commands" /\ queue # <<>> /\ Head(queue).op = "text_op") =>
        text_edit = IF text_edit_mode THEN EditedInput ELSE StubInput

\* Nothing the library keeps over frames is stale when it is used: the strings
\* of identifiers, the index of a list, the slots of nodes and the input that is
\* edited; and no command meets a node that is gone.
NothingStale ==
    /\ StringsLive
    /\ ListLive
    /\ SlotsAccounted
    /\ EditsLand
    /\ phase # "stopped"

\* Before a frame is built, the node with the focus is the one that is edited.
FocusFollows ==
    phase = "commands" /\ queue = <<>> =>
        {i \in InUse : node[i].focus} =
            IF text_edit_mode THEN {Lookup(text_edit_id.id)} ELSE {}

\* The tree is what the frame has built so far, and a node is the one its
\* identifier had in the last frame (FrameTree).
Promise == INSTANCE FrameTree WITH
    Nodes <- Slots,
    building <- phase = "build",
    tree <- [i \in Built |-> Children(links, i)],
    names <- [i \in Built |-> node[i].id],
    last <- [id \in {m[1] : m \in {p \in map : node[p[2]].age = 1}} |-> Lookup(id)]

BuildsTree == Promise!Spec

-------------------------------------------------------------------------------
(* The inductive invariant behind them.                                    *)

Nodes == [id : Ids \cup {NoId}, age : 0..2, focus : BOOLEAN, hover : BOOLEAN]
Names == [id : Ids \cup {NoId}, age : 0..2]
Inputs == Slots \cup {StubInput, PromptInput}
Commands == [op : {"enable", "disable", "flush", "text_op"}, id : Ids \cup {NoId}, input : Inputs]

TypeOK ==
    /\ links \in [0..LastSlot -> LinksIn(0..LastSlot)]
    /\ node \in [Slots -> Nodes]
    /\ free \in SUBSET Slots
    /\ map \in SUBSET (Ids \X Slots)
    /\ root \in 0..LastSlot
    /\ stack_parent \in Seq(0..LastSlot)
    /\ node_hovered \in Names
    /\ text_edit_id \in Names
    /\ text_edit \in Inputs
    /\ text_edit_mode \in BOOLEAN
    /\ list \in [index : 0..LastSlot, age : 0..2]
    /\ queue \in Seq(Commands)
    /\ phase \in {"events", "commands", "build", "stopped"}
    /\ click \in BOOLEAN
    /\ escape \in BOOLEAN
    /\ budget \in Budgets

\* The nodes of the tree that is built, and of the tree of the last frame.
New == IF phase = "build" THEN Built ELSE {}
Old == InUse \ New

\* Either tree hangs from its stub.
TreesOK ==
    /\ Forest(links, Old, HI_ORPHAN_STUB_INDEX)
    /\ Forest(links, New, HI_ROOT_STUB_INDEX)
    /\ phase = "build" =>
          /\ root \in Built
          /\ links[HI_ROOT_STUB_INDEX].first = root
          /\ links[HI_ROOT_STUB_INDEX].last = root
          /\ \A i \in Built : links[i].parent = HI_ROOT_STUB_INDEX => i = root

\* Below each node built hang the nodes built below it.
OrderOK == \A p \in Built : Listed(links, p, Children(links, p))

StackOK ==
    IF phase = "build"
    THEN /\ Len(stack_parent) >= 2
         /\ \A k \in 2..Len(stack_parent) : stack_parent[k] \in Built
    ELSE stack_parent = <<HI_ROOT_STUB_INDEX>>

\* The map leads from the identifiers to the nodes, and no node is old.
CacheOK ==
    /\ \A i \in free : node[i] = Blank
    /\ \A i \in InUse : node[i].age <= (IF phase = "build" THEN 1 ELSE 0)
    /\ map = {<<node[i].id, i>> : i \in {j \in InUse : node[j].id # NoId}}
    /\ \A i, j \in InUse : node[i].id = node[j].id => i = j \/ node[i].id = NoId

\* The hovered node is the one that is named, and the list is where it was built.
KeptOK ==
    /\ \A i \in Slots : node[i].hover => node[i].id = node_hovered.id /\ node[i].id # NoId
    /\ node_hovered.id # NoId => node_hovered.age <= (IF phase = "build" THEN 1 ELSE 0)
    /\ list.age = 0 => <<ListId, list.index>> \in map /\ node[list.index].age = 0
    /\ phase = "build" /\ list.age = 1 => <<ListId, list.index>> \in map

Edited == Lookup(text_edit_id.id)

ModeOK ==
    /\ phase # "stopped"
    /\ IF text_edit_mode THEN text_edit_id.id \in Editable /\ text_edit_id.age <= 1
       ELSE text_edit_id.id = NoId /\ text_edit = StubInput

\* Queued edits are of fields that have the focus, of one field at a time and
\* not of the one that is edited.
EnablesOK ==
    /\ \A j \in DOMAIN queue : queue[j].op = "enable" =>
          /\ queue[j].id \in Editable \ {text_edit_id.id}
          /\ Lookup(queue[j].id) # NoNode
          /\ node[Lookup(queue[j].id)].focus
          /\ queue[j].input = InputOf(queue[j].id, Lookup(queue[j].id))
          /\ phase = "build" => /\ node[Lookup(queue[j].id)].age = 0
                                /\ node[Lookup(queue[j].id)].hover
    /\ \A j, k \in DOMAIN queue : queue[j].op = "enable" /\ queue[k].op = "enable" => j = k
    /\ \A j \in DOMAIN queue : queue[j].op = "text_op" => phase = "commands"

\* A node has the focus because it is edited or is about to be.
FocusOK ==
    \A i \in Slots : node[i].focus =>
        \/ text_edit_mode /\ i = Edited
        \/ \E j \in DOMAIN queue : queue[j].op = "enable" /\ Lookup(queue[j].id) = i

\* The edited field is a node with the focus, its input is the one that is
\* edited, and its identifier is a string of the last frame.
Sound ==
    text_edit_mode =>
        /\ Edited # NoNode
        /\ node[Edited].focus
        /\ text_edit = EditedInput
        /\ text_edit_id.age = 0

\* A command that makes it so.
Repairs(c) == c.op = "enable" \/ (c.op = "disable" /\ c.id = text_edit_id.id)

\* Between frames it is, or will be before a text is taken; while a frame is
\* built it may only lose the focus, when its node is built.
EditOK ==
    IF phase = "build"
    THEN text_edit_mode =>
            /\ Edited # NoNode
            /\ text_edit = EditedInput
            /\ node[Edited].age # 0 => node[Edited].focus
    ELSE \/ Sound
         \/ \E j \in DOMAIN queue :
               /\ Repairs(queue[j])
               /\ \A k \in DOMAIN queue : queue[k].op = "text_op" => j < k

IInv ==
    /\ TypeOK
    /\ TreesOK
    /\ OrderOK
    /\ StackOK
    /\ CacheOK
    /\ KeptOK
    /\ ModeOK
    /\ EnablesOK
    /\ FocusOK
    /\ EditOK
===============================================================================
