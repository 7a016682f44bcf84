------------------------------- MODULE FifoSpmc -------------------------------
(***************************************************************************)
(* The lock-free single-producer multiple-consumer ring of                 *)
(* src/containers/parallel/fifo_spmc.c, one shared access per step.        *)
(*                                                                         *)
(* A consumer first takes a unit of the semaphore able_for_reservation,    *)
(* then a ticket by fetch-and-add on a_first, then reads the entry its     *)
(* ticket names, and last clears in_use.  The producer looks at in_use of  *)
(* the next entry, claims it, stores the data and posts the semaphore.     *)
(* The k-th item pushed is the number k; pushed, posted, taken and ticket  *)
(* are history: no guard reads them.                                       *)
(***************************************************************************)
EXTENDS Integers, FiniteSets

CONSTANTS
    Consumers,      \* threads that pop: the workers of the task system
    N,              \* max_entry_count
    Wrap,           \* a_first is counted modulo Wrap (2^32 in the code)
    MaxPush,        \* bound: items pushed in a behaviour
    NoItem          \* data of an entry nobody has written (NULL)

\* fifo_spmc_init asserts a power of two, "so that on overflow of tickers,
\* modulo count still is correct": N divides Wrap.
ASSUME NAssumption == N \in Nat \ {0}
ASSUME WrapAssumption == Wrap \in Nat \ {0} /\ Wrap % N = 0
ASSUME ConsumersAssumption == IsFiniteSet(Consumers)
ASSUME MaxPushAssumption == MaxPush \in Nat
ASSUME NoItemAssumption == NoItem \notin Nat

VARIABLES
    in_use,         \* entries[i].in_use
    data,           \* entries[i].data
    able,           \* value of the semaphore able_for_reservation
    a_first,        \* the ticket counter
    next_alloc,     \* producer owned index
    ppc,            \* where the producer is
    ready,          \* count of the last fifo_spmc_pushable_count, less the pushes since
    pc,             \* where each consumer is
    idx,            \* the local i of fifo_spmc_pop
    item,           \* the local data of fifo_spmc_pop
    pushed,         \* history: entries claimed so far
    posted,         \* history: semaphore posts so far
    taken,          \* history: fetch-and-adds so far
    ticket          \* history: the last ticket of a consumer, before any wrap

entryVars == <<in_use, data>>
prodVars  == <<next_alloc, ppc, ready, pushed, posted>>
consVars  == <<pc, idx, item, ticket>>
vars == <<in_use, data, able, a_first, next_alloc, ppc, ready, pc, idx, item,
          pushed, posted, taken, ticket>>

Index == 0..(N - 1)

Init ==
    /\ in_use = [i \in Index |-> 0]
    /\ data = [i \in Index |-> NoItem]
    /\ able = 0
    /\ a_first = 0
    /\ next_alloc = 0
    /\ ppc = "idle"
    /\ ready = 0
    /\ pc = [c \in Consumers |-> "idle"]
    /\ idx = [c \in Consumers |-> 0]
    /\ item = [c \in Consumers |-> NoItem]
    /\ pushed = 0
    /\ posted = 0
    /\ taken = 0
    /\ ticket = [c \in Consumers |-> 0]

-------------------------------------------------------------------------------
(* The producer: fifo_spmc_try_push, and fifo_spmc_push, which calls it    *)
(* until it succeeds.                                                      *)

NextEntry == next_alloc % N

\* The caller has an item to push.
StartPush ==
    /\ ppc = "idle"
    /\ pushed < MaxPush
    /\ ppc' = "spin"
    /\ UNCHANGED <<entryVars, able, a_first, next_alloc, ready, consVars,
                   pushed, posted, taken>>

\* A try_push that finds the entry in use returns 0 and changes nothing:
\* fifo_spmc_push then tries again.
TryPush ==
    /\ ppc = "spin"
    /\ in_use[NextEntry] = 0
    /\ ppc' = "claim"
    /\ UNCHANGED <<entryVars, able, a_first, next_alloc, ready, consVars,
                   pushed, posted, taken>>

Claim ==
    /\ ppc = "claim"
    /\ in_use' = [in_use EXCEPT ![NextEntry] = 1]
    /\ next_alloc' = NextEntry + 1
    /\ pushed' = pushed + 1
    /\ ready' = IF ready > 0 THEN ready - 1 ELSE 0
    /\ ppc' = "store"
    /\ UNCHANGED <<data, able, a_first, consVars, posted, taken>>

\* Mutant of StoreData: the index has already been advanced.
StoreDataAdvanced ==
    /\ ppc = "store"
    /\ data' = [data EXCEPT ![next_alloc % N] = pushed - 1]
    /\ ppc' = "post"
    /\ UNCHANGED <<in_use, able, a_first, next_alloc, ready, consVars,
                   pushed, posted, taken>>

\* The entry claimed last is the one before next_alloc.
StoreData ==
    /\ ppc = "store"
    /\ data' = [data EXCEPT ![next_alloc - 1] = pushed - 1]
    /\ ppc' = "post"
    /\ UNCHANGED <<in_use, able, a_first, next_alloc, ready, consVars,
                   pushed, posted, taken>>

\* Mutant of Post: the semaphore is not posted.
PostNothing ==
    /\ ppc = "post"
    /\ able' = able
    /\ posted' = posted + 1
    /\ ppc' = "idle"
    /\ UNCHANGED <<entryVars, a_first, next_alloc, ready, consVars, pushed, taken>>

Post ==
    /\ ppc = "post"
    /\ able' = able + 1
    /\ posted' = posted + 1
    /\ ppc' = "idle"
    /\ UNCHANGED <<entryVars, a_first, next_alloc, ready, consVars, pushed, taken>>

\* fifo_spmc_pushable_count: a scan from next_alloc that stops at the first
\* entry in use, one entry per step.
CountStart ==
    /\ ppc = "idle"
    /\ ready' = 0
    /\ ppc' = "count"
    /\ UNCHANGED <<entryVars, able, a_first, next_alloc, consVars, pushed, posted, taken>>

\* Mutant of CountStep: the scan looks one entry too far.
CountStepOffByOne ==
    /\ ppc = "count"
    /\ IF ready < N /\ in_use[(next_alloc + ready + 1) % N] = 0
       THEN ready' = ready + 1 /\ ppc' = ppc
       ELSE ready' = ready /\ ppc' = "idle"
    /\ UNCHANGED <<entryVars, able, a_first, next_alloc, consVars, pushed, posted, taken>>

CountStep ==
    /\ ppc = "count"
    /\ IF ready < N /\ in_use[(next_alloc + ready) % N] = 0
       THEN ready' = ready + 1 /\ ppc' = ppc
       ELSE ready' = ready /\ ppc' = "idle"
    /\ UNCHANGED <<entryVars, able, a_first, next_alloc, consVars, pushed, posted, taken>>

Producer == TryPush \/ Claim \/ StoreData \/ Post

-------------------------------------------------------------------------------
(* A consumer: a semaphore wait that succeeded, then fifo_spmc_pop.        *)

\* Mutant of Reserve: the result of the wait is not looked at.
ReserveUnguarded(c) ==
    /\ pc[c] = "idle"
    /\ able' = able - 1
    /\ pc' = [pc EXCEPT ![c] = "fetch"]
    /\ UNCHANGED <<entryVars, a_first, prodVars, idx, item, ticket, taken>>

Reserve(c) ==
    /\ pc[c] = "idle"
    /\ able > 0
    /\ able' = able - 1
    /\ pc' = [pc EXCEPT ![c] = "fetch"]
    /\ UNCHANGED <<entryVars, a_first, prodVars, idx, item, ticket, taken>>

FetchTicket(c) ==
    /\ pc[c] = "fetch"
    /\ idx' = [idx EXCEPT ![c] = a_first % N]
    /\ a_first' = (a_first + 1) % Wrap
    /\ ticket' = [ticket EXCEPT ![c] = taken]
    /\ taken' = taken + 1
    /\ pc' = [pc EXCEPT ![c] = "load"]
    /\ UNCHANGED <<entryVars, able, prodVars, item>>

LoadData(c) ==
    /\ pc[c] = "load"
    /\ item' = [item EXCEPT ![c] = data[idx[c]]]
    /\ pc' = [pc EXCEPT ![c] = "release"]
    /\ UNCHANGED <<entryVars, able, a_first, prodVars, idx, ticket, taken>>

\* The caller runs the item; the model forgets it when the entry is released.
Release(c) ==
    /\ pc[c] = "release"
    /\ in_use' = [in_use EXCEPT ![idx[c]] = 0]
    /\ item' = [item EXCEPT ![c] = NoItem]
    /\ pc' = [pc EXCEPT ![c] = "idle"]
    /\ UNCHANGED <<data, able, a_first, prodVars, idx, ticket, taken>>

Consumer(c) == Reserve(c) \/ FetchTicket(c) \/ LoadData(c) \/ Release(c)

Next ==
    \/ StartPush
    \/ Producer
    \/ CountStart
    \/ CountStep
    \/ \E c \in Consumers : Consumer(c)

Spec == Init /\ [][Next]_vars

\* Worker threads never stop popping and the scheduler runs each of them
\* again; a push that has begun is finished by its thread.
Fairness ==
    /\ WF_vars(Producer)
    /\ WF_vars(CountStep)
    /\ \A c \in Consumers : WF_vars(Consumer(c))

LiveSpec == Spec /\ Fairness

-------------------------------------------------------------------------------
(* Properties.                                                             *)

TypeOK ==
    /\ in_use \in [Index -> {0, 1}]
    /\ data \in [Index -> Nat \cup {NoItem}]
    /\ able \in Nat
    /\ a_first \in 0..(Wrap - 1)
    /\ next_alloc \in 0..N
    /\ ppc \in {"idle", "spin", "claim", "store", "post", "count"}
    /\ ready \in 0..N
    /\ pc \in [Consumers -> {"idle", "fetch", "load", "release"}]
    /\ idx \in [Consumers -> Index]
    /\ item \in [Consumers -> Nat \cup {NoItem}]
    /\ pushed \in Nat
    /\ posted \in Nat
    /\ taken \in Nat
    /\ ticket \in [Consumers -> Nat]

Holders == {c \in Consumers : pc[c] \in {"load", "release"}}

\* The assertion of fifo_spmc_pop: an entry a consumer has a ticket for is in
\* use until that consumer releases it, however late it reads it.
EntryInUse == \A c \in Holders : in_use[idx[c]] = 1

\* Two consumers never work on the same entry, also when one of them lags a
\* whole turn of the ring behind the other or a_first wraps between them.
NoSharedEntry == \A c, d \in Holders : idx[c] = idx[d] => c = d

\* The k-th ticket is served the k-th item pushed: no consumer reads data that
\* is stale (an earlier lap) or not yet stored, and no item is delivered twice.
RightItem == \A c \in Consumers : pc[c] = "release" => item[c] = ticket[c]

\* Invariant (2) of fifo_spmc.h: "if able_for_reservation > 0, there must be
\* equally many valid entries starting from a_first" -- valid also after the
\* consumers that have reserved but not yet fetched have taken theirs.
AbleEntriesValid ==
    LET owed == able + Cardinality({c \in Consumers : pc[c] = "fetch"})
    IN  \A k \in 0..(owed - 1) :
            /\ in_use[(a_first + k) % N] = 1
            /\ data[(a_first + k) % N] = taken + k

\* fifo_spmc_pushable_count promises "the current number of slots ready to be
\* pushed": the count stays true while consumers run, so that many try_push
\* calls in a row succeed.
PushableKept == \A k \in 0..(ready - 1) : in_use[(next_alloc + k) % N] = 0

-------------------------------------------------------------------------------
(* The inductive invariant.                                                *)

Slot(k) == k % N

Fetching == {c \in Consumers : pc[c] = "fetch"}

\* The items whose entry may not be claimed again: still to be taken, or with a
\* consumer that has yet to clear in_use.
Outstanding == taken..(pushed - 1) \cup {ticket[c] : c \in Holders}

\* How the semaphore and the tickets count the items.
Counted ==
    /\ pushed = posted + (IF ppc \in {"store", "post"} THEN 1 ELSE 0)
    /\ taken + able + Cardinality(Fetching) = posted

\* The two indices of the code walk the ring in step with the history.
Indices ==
    /\ next_alloc % N = Slot(pushed)
    /\ a_first % N = Slot(taken)
    /\ ppc \in {"store", "post"} => next_alloc >= 1 /\ next_alloc - 1 = Slot(pushed - 1)

Tickets ==
    /\ \A c \in Holders : ticket[c] < taken /\ idx[c] = Slot(ticket[c])
    /\ \A c, d \in Holders : ticket[c] = ticket[d] => c = d

\* An entry carries one outstanding item, and is marked and filled for it.
Entries ==
    /\ \A k \in Outstanding : in_use[Slot(k)] = 1
    /\ \A j, k \in Outstanding : Slot(j) = Slot(k) => j = k
    /\ \A k \in Outstanding : (k = pushed - 1 /\ ppc = "store") \/ data[Slot(k)] = k
    /\ ppc = "claim" => in_use[NextEntry] = 0

IInv == TypeOK /\ Counted /\ Indices /\ Tickets /\ Entries /\ RightItem

\* The abstract queue: an item is in the queue from its post to its ticket,
\* and with a consumer from the ticket to the release of its entry.
HeldItems == [c \in Consumers |-> IF c \in Holders THEN ticket[c] ELSE NoItem]

Queue == INSTANCE FifoQueue WITH
    Slots <- N,
    first <- taken,
    next <- posted,
    holds <- HeldItems

Refines == Queue!Spec

\* fifo_spmc_push spins until an entry is free, and one becomes free: a push on a
\* full ring returns, and every item pushed is taken in the end.
QueueMoves ==
    /\ ppc = "spin" ~> ppc = "idle"
    /\ \A k \in 1..MaxPush : posted = k ~> taken >= k
===============================================================================
