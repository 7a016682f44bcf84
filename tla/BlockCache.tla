------------------------------ MODULE BlockCache ------------------------------
(***************************************************************************)
(* thread_block_alloc_256B and thread_block_free_256B of                   *)
(* src/memory/allocator.c: in front of the shared stack of BlockAllocator  *)
(* each thread keeps a private stack of blocks it freed.  A thread whose   *)
(* private stack is full first gives the upper part of it back to the      *)
(* shared stack, as one chain, with one compare-and-swap.                  *)
(***************************************************************************)
EXTENDS BlockAllocator, SequencesExt

CONSTANTS
    LocalMax,       \* LOCAL_MAX_COUNT (32), the dummy entry included
    LocalLow,       \* LOCAL_FREE_LOW (16)
    WideStore       \* whether atomic_store_rel_32 on the 64-bit header->next
                    \* stores 64 bits (GCC, clang) or the lower 32 (MSVC)

\* The static assertions of thread_block_allocator_alloc.
ASSUME LocalAssumption == LocalMax \in Nat /\ LocalLow \in 1..(LocalMax - 1)

VARIABLES
    local_next,     \* per thread: local_next[1 .. local_count - 1]
    giving          \* the block a thread frees while it empties its stack

cacheVars == <<local_next, giving>>
allVars == <<vars, cacheVars>>

LocalHigh == LocalMax - 1

Full(t) == Len(local_next[t]) = LocalHigh

\* local_next[local_count - 1]; entry 0 is the zeroed dummy.
LocalTop(stk) == IF stk = <<>> THEN Id(0, 0) ELSE Last(stk)

\* Mutant of Stored: the generation is not stored.
StoredNarrow(b, i) == Id(next[b].gen, i.index)

\* What header->next holds after the store of identifier i in free_256B.
Stored(b, i) == IF WideStore THEN i ELSE Id(next[b].gen, i.index)

CacheInit ==
    /\ Init
    /\ local_next = [t \in Threads |-> <<>>]
    /\ giving = [t \in Threads |-> 0]

-------------------------------------------------------------------------------
(* thread_block_alloc_256B.                                                *)

LocalAlloc(t) ==
    /\ pc[t] = "idle"
    /\ local_next[t] # <<>>
    /\ LET top == Last(local_next[t]) IN
        /\ top.gen < MaxGen
        /\ id' = [id EXCEPT ![top.index] = Id(top.gen + 1, top.index)]
        /\ owns' = [owns EXCEPT ![t] = @ \cup {top.index}]
    /\ local_next' = [local_next EXCEPT ![t] = Front(@)]
    /\ UNCHANGED <<a_next, next, pc, snap, new_next, blk, stack, fresh, giving>>

\* Mutant of SharedAlloc: the private stack is not tried first.
SharedAllocFirst(t) ==
    /\ AllocLoad(t)
    /\ UNCHANGED cacheVars

SharedAlloc(t) ==
    /\ local_next[t] = <<>>
    /\ AllocLoad(t)
    /\ UNCHANGED cacheVars

SharedAllocStep(t) ==
    /\ OutOfMemory(t) \/ ReadNext(t) \/ AllocCas(t) \/ AllocCasFails(t) \/ Stamp(t)
    /\ UNCHANGED cacheVars

-------------------------------------------------------------------------------
(* thread_block_free_256B.                                                 *)

\* The private stack with block b pushed on stk; only thread t looks at it.
PushLocal(t, b, stk) ==
    /\ next' = [next EXCEPT ![b] = Stored(b, LocalTop(stk))]
    /\ local_next' = [local_next EXCEPT ![t] = Append(stk, id[b])]

LocalFree(t, b) ==
    /\ pc[t] = "idle"
    /\ b \in owns[t]
    /\ ~Full(t)
    /\ PushLocal(t, b, local_next[t])
    /\ owns' = [owns EXCEPT ![t] = @ \ {b}]
    /\ UNCHANGED <<a_next, id, pc, snap, new_next, blk, stack, fresh, giving>>

\* The chain to give back is local_next[LocalLow .. LocalHigh]: its last block is
\* linked to what a_next shows.
ReturnLoad(t, b) ==
    /\ pc[t] = "idle"
    /\ b \in owns[t]
    /\ Full(t)
    /\ owns' = [owns EXCEPT ![t] = @ \ {b}]
    /\ giving' = [giving EXCEPT ![t] = b]
    /\ blk' = [blk EXCEPT ![t] = local_next[t][LocalLow].index]
    /\ snap' = [snap EXCEPT ![t] = a_next]
    /\ pc' = [pc EXCEPT ![t] = "link"]
    /\ UNCHANGED <<sharedVars, new_next, stack, fresh, local_next>>

ReturnStep(t) ==
    /\ FreeLink(t) \/ FreeCasFails(t)
    /\ UNCHANGED cacheVars

\* Mutant of ReturnCas: local_count is one too high afterwards.
ReturnCasKeepsTail(t) ==
    /\ pc[t] = "publish"
    /\ a_next = next[blk[t]]
    /\ a_next' = local_next[t][LocalHigh]
    /\ stack' = stack \o SubSeq(local_next[t], LocalLow, LocalHigh)
    /\ PushLocal(t, giving[t], SubSeq(local_next[t], 1, LocalLow))
    /\ pc' = [pc EXCEPT ![t] = "idle"]
    /\ UNCHANGED <<id, snap, new_next, blk, owns, fresh, giving>>

\* The compare-and-swap that publishes the chain, then the free of the block.
ReturnCas(t) ==
    /\ pc[t] = "publish"
    /\ a_next = next[blk[t]]
    /\ a_next' = local_next[t][LocalHigh]
    /\ stack' = stack \o SubSeq(local_next[t], LocalLow, LocalHigh)
    /\ PushLocal(t, giving[t], SubSeq(local_next[t], 1, LocalLow - 1))
    /\ pc' = [pc EXCEPT ![t] = "idle"]
    /\ UNCHANGED <<id, snap, new_next, blk, owns, fresh, giving>>

CacheNext ==
    \E t \in Threads :
        \/ LocalAlloc(t) \/ SharedAlloc(t) \/ SharedAllocStep(t)
        \/ ReturnStep(t) \/ ReturnCas(t)
        \/ \E b \in Blocks : LocalFree(t, b) \/ ReturnLoad(t, b)

CacheSpec == CacheInit /\ [][CacheNext]_allVars

-------------------------------------------------------------------------------
(* Properties.                                                             *)

Cached(t) == {local_next[t][i].index : i \in 1..Len(local_next[t])}

Given(t) == IF pc[t] \in {"link", "publish"} THEN {giving[t]} ELSE {}

Taken(t) == IF pc[t] = "stamp" THEN {blk[t]} ELSE {}

\* The blocks only thread t may touch: with its caller, in its private stack, or
\* on their way.
Private(t) == owns[t] \cup Taken(t) \cup Given(t) \cup Cached(t)

PlacesOf(t) ==
    /\ Private(t) \cap OnStack = {}
    /\ owns[t] \cap (Taken(t) \cup Given(t) \cup Cached(t)) = {}
    /\ Given(t) \cap Cached(t) = {}
    /\ \A i, j \in 1..Len(local_next[t]) :
        local_next[t][i].index = local_next[t][j].index => i = j

\* A block has one place: with the caller of one thread, in one private stack or
\* on the shared stack, also while a chain is being given back.
OnePlace ==
    /\ \A t, u \in Threads : t # u => Private(t) \cap Private(u) = {}
    /\ \A t \in Threads : PlacesOf(t)

\* The private stack holds the current identifier of each block in it, and links
\* each block to the one below it: the chain that ReturnCas publishes at once.
ChainOf(t) ==
    \A i \in 1..Len(local_next[t]) :
        LET b == local_next[t][i].index IN
        /\ id[b] = local_next[t][i]
        /\ (i > 1 /\ i # LocalLow => next[b] = local_next[t][i - 1])

EachPlaced == \A b \in 0..(fresh - 1) : b \in OnStack \/ \E t \in Threads : b \in Private(t)

\* A chain given back becomes part of the shared stack with its links in place, no
\* block is lost between the private and the shared stacks, and what stays private is
\* still a chain.
ChainsKept ==
    /\ \A t \in Threads : ChainOf(t)
    /\ Linked
    /\ EachPlaced

\* No block is lost or has two owners, and no chain is cut, while whole chains move
\* between the stacks.
BlocksKept == OnePlace /\ ChainsKept

\* allocator.c:300: "Unallocated blocks always start on generation 0, that we we can
\* identify if the free list is empty".  A generation 0 at the head of the stack
\* means that the stack is empty.
GenZeroMeansEmpty == a_next.gen = 0 => stack = <<>>

\* What thread t last saw of a_next, by its load or written back by its failed exchange,
\* says that there is no block: the next test of allocator.c:293 tells it out of memory.
SeesNone(t) == pc[t] = "read" /\ snap[t].index = BlockCount

\* NULL means out of memory up to the private stacks of the other threads: when a
\* thread comes to see that there is no block, whether at once or after losing a race
\* for the last one, it has no free block of its own and neither has the shared stack.
OutOfMemoryMeansTaken ==
    [][\A t \in Threads : ~SeesNone(t) /\ SeesNone(t)' =>
        \A b \in Blocks : b \in owns[t] \/ \E u \in Threads \ {t} : b \in Private(u)]_allVars

-------------------------------------------------------------------------------
(* The inductive invariant.                                                *)

CacheTypeOK ==
    /\ TypeOK
    /\ local_next \in [Threads -> Seq(Ids)]
    /\ giving \in [Threads -> Blocks]
    /\ \A t \in Threads : Len(local_next[t]) <= LocalHigh

\* What is private to a thread carries its own identifiers, an allocation reaches the
\* shared stack only past an empty private one, and a return only past a full one,
\* whose chain starts at the block being linked.
PrivateIdsOf(t) ==
    /\ \A b \in owns[t] \cup Given(t) \cup Cached(t) : Stamped(b)
    /\ pc[t] \in {"read", "cas", "stamp"} => local_next[t] = <<>>
    /\ pc[t] \in {"link", "publish"} =>
        Full(t) /\ blk[t] = local_next[t][LocalLow].index
    /\ pc[t] = "stamp" =>
        /\ blk[t] = snap[t].index
        /\ blk[t] \in 0..(fresh - 1)
        /\ id[blk[t]].gen = snap[t].gen

CacheIInv ==
    /\ CacheTypeOK /\ StackIds /\ FreshIds /\ Snapshots
    /\ \A t \in Threads : PrivateIdsOf(t)
    /\ OnePlace /\ ChainsKept
===============================================================================
