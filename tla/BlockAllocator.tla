---------------------------- MODULE BlockAllocator ----------------------------
(***************************************************************************)
(* The lock-free block allocator of src/memory/allocator.c:                *)
(* thread_block_alloc and thread_block_free, the path of the 1MB blocks,   *)
(* one access to shared memory per step.                                   *)
(*                                                                         *)
(* Free blocks form a stack whose top is a_next.  An identifier is a pair  *)
(* (generation, index) packed in 64 bits; the generation of a block grows  *)
(* with each allocation, so that a compare-and-swap with an old identifier *)
(* fails.  Generation 0 marks the blocks nobody has ever allocated: they   *)
(* are the ones from some index on, and are linked by their index alone.   *)
(***************************************************************************)
EXTENDS Integers, Sequences, FiniteSets

CONSTANTS
    Threads,
    BlockCount,     \* max_count
    MaxGen,         \* bound: no allocation begins once a block has this generation
    WriteBack       \* whether a failed compare-and-swap stores what it saw in
                    \* its second argument (__atomic_compare_exchange_n does)

ASSUME BlockCountAssumption == BlockCount \in Nat \ {0}
ASSUME MaxGenAssumption == MaxGen \in Nat
ASSUME ThreadsAssumption == "free" \notin Threads
ASSUME WriteBackAssumption == WriteBack \in BOOLEAN

Blocks == 0..(BlockCount - 1)

Id(g, i) == [gen |-> g, index |-> i]

Ids == [gen : Nat, index : 0..BlockCount]

VARIABLES
    a_next,         \* the top of the stack of free blocks
    id,             \* header->id of each block
    next,           \* header->next of each block
    pc,             \* where each thread is
    snap,           \* its local a_next, or the expected value of its free
    new_next,       \* its local new_next
    blk,            \* the block it is allocating or freeing
    owns,           \* the blocks whose addresses it was given and has not freed
    stack,          \* history: the identifiers on the stack, top last
    fresh           \* history: the first index never allocated

sharedVars == <<a_next, id, next>>
localVars == <<pc, snap, new_next, blk, owns>>
vars == <<a_next, id, next, pc, snap, new_next, blk, owns, stack, fresh>>

\* thread_block_allocator_alloc reserves zeroed pages and stores (0,0).
Init ==
    /\ a_next = Id(0, 0)
    /\ id = [b \in Blocks |-> Id(0, 0)]
    /\ next = [b \in Blocks |-> Id(0, 0)]
    /\ pc = [t \in Threads |-> "idle"]
    /\ snap = [t \in Threads |-> Id(0, 0)]
    /\ new_next = [t \in Threads |-> Id(0, 0)]
    /\ blk = [t \in Threads |-> 0]
    /\ owns = [t \in Threads |-> {}]
    /\ stack = <<>>
    /\ fresh = 0

-------------------------------------------------------------------------------
(* thread_block_alloc: a loop of thread_block_try_alloc.                   *)

AllocLoad(t) ==
    /\ pc[t] = "idle"
    /\ \A b \in Blocks : id[b].gen < MaxGen
    /\ snap' = [snap EXCEPT ![t] = a_next]
    /\ pc' = [pc EXCEPT ![t] = "read"]
    /\ UNCHANGED <<sharedVars, new_next, blk, owns, stack, fresh>>

\* thread_block_alloc asserts here that this never happens; the model is of a build
\* without assertions in this place, and thread_block_alloc_256B returns NULL unasserted.
OutOfMemory(t) ==
    /\ pc[t] = "read"
    /\ snap[t].index = BlockCount
    /\ pc' = [pc EXCEPT ![t] = "idle"]
    /\ UNCHANGED <<sharedVars, snap, new_next, blk, owns, stack, fresh>>

\* The header may be another thread's by now: what is read is then garbage.
ReadNext(t) ==
    /\ pc[t] = "read"
    /\ snap[t].index # BlockCount
    /\ new_next' = [new_next EXCEPT ![t] =
           IF snap[t].gen = 0 THEN Id(0, snap[t].index + 1) ELSE next[snap[t].index]]
    /\ pc' = [pc EXCEPT ![t] = "cas"]
    /\ UNCHANGED <<sharedVars, snap, blk, owns, stack, fresh>>

\* Mutant of AllocCas: a plain store.
AllocCasBlind(t) ==
    /\ pc[t] = "cas"
    /\ a_next' = new_next[t]
    /\ blk' = [blk EXCEPT ![t] = snap[t].index]
    /\ pc' = [pc EXCEPT ![t] = "stamp"]
    /\ IF snap[t].gen = 0
       THEN fresh' = fresh + 1 /\ stack' = stack
       ELSE fresh' = fresh /\ stack' = SubSeq(stack, 1, Len(stack) - 1)
    /\ UNCHANGED <<id, next, snap, new_next, owns>>

AllocCas(t) ==
    /\ pc[t] = "cas"
    /\ a_next = snap[t]
    /\ a_next' = new_next[t]
    /\ blk' = [blk EXCEPT ![t] = snap[t].index]
    /\ pc' = [pc EXCEPT ![t] = "stamp"]
    /\ IF snap[t].gen = 0
       THEN fresh' = fresh + 1 /\ stack' = stack
       ELSE fresh' = fresh /\ stack' = SubSeq(stack, 1, Len(stack) - 1)
    /\ UNCHANGED <<id, next, snap, new_next, owns>>

AllocCasFails(t) ==
    /\ pc[t] = "cas"
    /\ a_next # snap[t]
    /\ snap' = [snap EXCEPT ![t] = IF WriteBack THEN a_next ELSE snap[t]]
    /\ pc' = [pc EXCEPT ![t] = "read"]
    /\ UNCHANGED <<sharedVars, new_next, blk, owns, stack, fresh>>

\* Mutant of Stamp: the generation does not grow after the first allocation.
StampOldGen(t) ==
    /\ pc[t] = "stamp"
    /\ id' = [id EXCEPT ![blk[t]] = Id(1, snap[t].index)]
    /\ owns' = [owns EXCEPT ![t] = @ \cup {blk[t]}]
    /\ pc' = [pc EXCEPT ![t] = "idle"]
    /\ UNCHANGED <<a_next, next, snap, new_next, blk, stack, fresh>>

\* The store of the new generation is not part of the compare-and-swap.
Stamp(t) ==
    /\ pc[t] = "stamp"
    /\ id' = [id EXCEPT ![blk[t]] = Id(snap[t].gen + 1, snap[t].index)]
    /\ owns' = [owns EXCEPT ![t] = @ \cup {blk[t]}]
    /\ pc' = [pc EXCEPT ![t] = "idle"]
    /\ UNCHANGED <<a_next, next, snap, new_next, blk, stack, fresh>>

-------------------------------------------------------------------------------
(* thread_block_free: a loop of thread_block_try_free, whose expected      *)
(* value lives in the header of the block.                                 *)

FreeLoad(t, b) ==
    /\ pc[t] = "idle"
    /\ b \in owns[t]
    /\ owns' = [owns EXCEPT ![t] = @ \ {b}]
    /\ blk' = [blk EXCEPT ![t] = b]
    /\ snap' = [snap EXCEPT ![t] = a_next]
    /\ pc' = [pc EXCEPT ![t] = "link"]
    /\ UNCHANGED <<sharedVars, new_next, stack, fresh>>

FreeLink(t) ==
    /\ pc[t] = "link"
    /\ next' = [next EXCEPT ![blk[t]] = snap[t]]
    /\ pc' = [pc EXCEPT ![t] = "publish"]
    /\ UNCHANGED <<a_next, id, snap, new_next, blk, owns, stack, fresh>>

\* Mutant of FreeCas: a plain store.
FreeCasBlind(t) ==
    /\ pc[t] = "publish"
    /\ a_next' = id[blk[t]]
    /\ stack' = Append(stack, id[blk[t]])
    /\ pc' = [pc EXCEPT ![t] = "idle"]
    /\ UNCHANGED <<id, next, snap, new_next, blk, owns, fresh>>

FreeCas(t) ==
    /\ pc[t] = "publish"
    /\ a_next = next[blk[t]]
    /\ a_next' = id[blk[t]]
    /\ stack' = Append(stack, id[blk[t]])
    /\ pc' = [pc EXCEPT ![t] = "idle"]
    /\ UNCHANGED <<id, next, snap, new_next, blk, owns, fresh>>

\* Mutant of FreeCasFails: the expected value is not refreshed.
FreeCasFailsStale(t) ==
    /\ pc[t] = "publish"
    /\ a_next # next[blk[t]]
    /\ snap' = [snap EXCEPT ![t] = snap[t]]
    /\ pc' = [pc EXCEPT ![t] = "link"]
    /\ UNCHANGED <<sharedVars, new_next, blk, owns, stack, fresh>>

FreeCasFails(t) ==
    /\ pc[t] = "publish"
    /\ a_next # next[blk[t]]
    /\ snap' = [snap EXCEPT ![t] = IF WriteBack THEN a_next ELSE snap[t]]
    /\ pc' = [pc EXCEPT ![t] = "link"]
    /\ UNCHANGED <<sharedVars, new_next, blk, owns, stack, fresh>>

\* What a thread does inside the two functions; entering them is its choice.
Inside(t) ==
    \/ OutOfMemory(t) \/ ReadNext(t) \/ AllocCas(t) \/ AllocCasFails(t) \/ Stamp(t)
    \/ FreeLink(t) \/ FreeCas(t) \/ FreeCasFails(t)

Next ==
    \E t \in Threads :
        \/ AllocLoad(t)
        \/ \E b \in Blocks : FreeLoad(t, b)
        \/ Inside(t)

Spec == Init /\ [][Next]_vars

\* A thread inside the allocator is scheduled again and again.
LiveSpec == Spec /\ \A t \in Threads : WF_vars(Inside(t))

-------------------------------------------------------------------------------
(* Properties.                                                             *)

\* The blocks that are with a thread: given to its caller, or in its hands
\* between the compare-and-swap that took or will return them and the caller.
Held(t) == owns[t] \cup
    (IF pc[t] \in {"stamp", "link", "publish"} THEN {blk[t]} ELSE {})

OnStack == {stack[i].index : i \in 1..Len(stack)}

\* What lies under the i-th free block: the free block below it, or the blocks
\* never allocated.
Below(i) == IF i = 1 THEN Id(0, fresh) ELSE stack[i - 1]

TypeOK ==
    /\ a_next \in Ids
    /\ id \in [Blocks -> Ids]
    /\ next \in [Blocks -> Ids]
    /\ pc \in [Threads -> {"idle", "read", "cas", "stamp", "link", "publish"}]
    /\ snap \in [Threads -> Ids]
    /\ new_next \in [Threads -> Ids]
    /\ blk \in [Threads -> Blocks]
    /\ owns \in [Threads -> SUBSET Blocks]
    /\ stack \in Seq(Ids)
    /\ fresh \in 0..BlockCount

\* No block is with two threads, nor with a thread and on the free stack, whatever
\* a thread did between its load of a_next and its compare-and-swap (ABA).
NoDoubleAllocation ==
    /\ \A t, u \in Threads : t # u => Held(t) \cap Held(u) = {}
    /\ \A t \in Threads : Held(t) \cap OnStack = {}
    /\ \A t \in Threads : pc[t] \in {"stamp", "link", "publish"} => blk[t] \notin owns[t]

\* No block is lost: each one ever allocated is with a thread or on the stack.
NoLostBlock == \A b \in 0..(fresh - 1) : b \in OnStack \/ \E t \in Threads : b \in Held(t)

\* The links in the headers are the stack: following them from a_next visits
\* every free block once and ends at the blocks never allocated.
Linked ==
    /\ a_next = Below(Len(stack) + 1)
    /\ \A i \in 1..Len(stack) : next[stack[i].index] = Below(i)

\* NULL is returned only "on out of memory" (allocator.h): when a_next shows the
\* end of the blocks, every one of them is with some thread.
OutOfMemoryMeansAllHeld ==
    a_next.index = BlockCount => \A b \in Blocks : \E t \in Threads : b \in Held(t)

Pool == INSTANCE BlockPool WITH
    holder <- [b \in Blocks |->
        IF \E t \in Threads : b \in Held(t)
        THEN CHOOSE t \in Threads : b \in Held(t) ELSE "free"]

Refines == Pool!Spec

\* A thread in an allocation or a free gets out of it.
CallsReturn == \A t \in Threads : pc[t] # "idle" ~> pc[t] = "idle"

-------------------------------------------------------------------------------
(* The inductive invariant.                                                *)

\* A block that was allocated carries its own identifier.
Stamped(b) == b \in 0..(fresh - 1) /\ id[b].index = b /\ id[b].gen > 0

StackIds ==
    /\ \A i \in 1..Len(stack) : Stamped(stack[i].index) /\ id[stack[i].index] = stack[i]
    /\ \A i, j \in 1..Len(stack) : stack[i].index = stack[j].index => i = j

\* The blocks taken from the stack whose new generation is not yet stored.
Stamping == {blk[t] : t \in {u \in Threads : pc[u] = "stamp"}}

FreshIds == \A b \in Blocks : b >= fresh => id[b].gen = 0

HeldIds ==
    \A t \in Threads :
        /\ \A b \in owns[t] : Stamped(b)
        /\ pc[t] \in {"link", "publish"} => Stamped(blk[t])
        /\ pc[t] = "stamp" =>
            /\ blk[t] = snap[t].index
            /\ blk[t] \in 0..(fresh - 1)
            /\ id[blk[t]].gen = snap[t].gen

\* A snapshot (g, b) with g > 0 is out of date for good once b has left the stack:
\* the generation of b has passed g, or is about to.  As long as it has not, a
\* compare-and-swap with it installs what lies under b.
SnapshotOf(t, s) ==
    /\ pc[t] \in {"read", "cas"} /\ s.gen = 0 => s.index <= fresh
    /\ pc[t] \in {"read", "cas"} /\ s.gen > 0 =>
        /\ s.index \in 0..(fresh - 1)
        /\ id[s.index].gen >= s.gen
        /\ \/ s.index \in OnStack
           \/ id[s.index].gen > s.gen
           \/ s.index \in Stamping
    /\ pc[t] = "cas" =>
        /\ s.index \in Blocks
        /\ s.gen = 0 => new_next[t] = Id(0, s.index + 1)
        /\ s.gen > 0 /\ s.index \in OnStack /\ id[s.index] = s
               => new_next[t] = next[s.index]

Snapshots == \A t \in Threads : SnapshotOf(t, snap[t])

IInv ==
    /\ TypeOK /\ StackIds /\ FreshIds /\ HeldIds /\ Snapshots
    /\ NoDoubleAllocation /\ NoLostBlock /\ Linked
===============================================================================
