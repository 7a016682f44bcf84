# A TLA+ model of engine_sandbox

`engine_sandbox` is a game and physics engine in C: a base layer over the operating
system, a parallel task system, lock-free containers, custom allocators, a 3D
rigid-body engine, an immediate-mode user interface and a level editor on top. This
directory holds TLA+ models of the parts whose correctness depends on the order of
things, the TLC configurations that check them on small instances, and proofs,
checked by TLAPS, of what can be stated for every size.

File names below are relative to `src/src/` of the repository unless they start with
`src/`. `PROJECT.json` is the index: components, runs, mutants (one plausible bug per
property, which TLC finds), the source lines of each definition, findings, hazards and
theorems.

Contents: 1 the system; 2 the modules; 3 the runs; 4 fairness; 5 proofs; 6 findings;
7 observations no run makes; 8 abstractions and assumptions; 9 what is left out;
10 plan; 11 how to run.

## 1. The system

### How the parts interact

One process, one *master* thread, and one *slave* per remaining logical core. The
master runs the program's loop: drain the window system's events, run the level
editor's core (`led_core`: remove marked nodes, start or stop the engine, tick the
physics), then its interface (`led_ui_main`: execute the commands queued so far, build
the widgets, queue new commands), then draw. In a physics tick the master splits work
(transform updates, narrow phase, one task per awake island) in *bundles* and *streams*,
pushes them on one bounded queue, works on them itself, and waits. Slaves do nothing
but pop tasks and run them. Memory for contacts and temporary results comes from
per-worker arenas that are cleared at every frame and from two lock-free block
allocators that all threads share.

So concurrency is confined to three places, the queue, the block allocators and the
hand-over of tasks, and everything else (physics data, editor data, interface) belongs to the
master between tasks. There the difficulty is different: data structures linked to each
other by indices, where one operation changes four of them and a later phase asserts
that they agree.

### Inventory

**Task queue** (`containers/parallel/fifo_spmc.*`). State: a ring of entries with an
`in_use` flag each, `a_first` (shared by consumers), `next_alloc` (producer only) and a
semaphore `able_for_reservation`. Operations: push (spins when full),
try_push, pushable_count (a scan of the flags), pop, init, destroy. Hard: a
consumer that has its ticket can be overtaken for a whole round of the ring; the counter
wraps at 2^32; the semaphore is posted after the entry is stored. Correct if: entries the semaphore
counts are there; what is popped is what was pushed, in order, once; a full ring is
waited for and not overwritten; every item is taken in the end.

**Task system** (`sys/task.c`). State: per worker a thread, two arenas and a flag to
clear them (`a_mem_frame_clear`); the bundle with `a_tasks_left` and its semaphore; streams with
`a_completed`; the gate that lets slaves start (`a_startup_complete`). Operations: init,
frame_clear, bundle_split_range, wait and release, stream init, dispatch, spin_wait and cleanup,
task_main (the loop of a worker), destroy. Hard: the last task to finish is in general not
the master's; the frame arenas are cleared by their owner only when it next takes a task;
a bundle is reused; the debug barrier spins a worker inside its task. Correct if: every task
runs once, before the master goes on; memory a task wrote is intact when the master
reads it; no flag, batch or post carries over; every wait ends.

**Block allocators** (`memory/allocator.c`). State: `a_next`, 64 bits of generation and
index; a header in each block; for the 256-byte allocator a stack per thread. Operations:
alloc, try_alloc, free, and giving part of a full private stack back. Hard: the ABA problem of
the lock-free stack, two ways to hand out a block (fresh or from the list), generation 0 as "no
header yet". Correct if: a block has one owner; none is lost; out of memory is told
only when all are taken. Arenas, the ring allocator and the two object pools in the same file are sequential.

**Physics pipeline and islands** (`math/dynamics/physics_pipeline.c`, `island.c`). State:
the bodies with their flags, `first_contact_index`, `island_index`, `low_velocity_time`;
the islands, each with a list of bodies, a list of contacts and flags; the lists of
islands to split and of bodies marked; the sleep configuration with its pending value. Operations: body alloc, tag for
removal, tick, flush; in the tick: remove marked bodies, split islands, take the
configuration, find contacts, add and remove them, merge, split again, solve, put to sleep,
validate. Hard: a body is a member of one island through removals, merges and splits,
all in one frame; sleeping islands are not solved but must be woken by contacts, lost
support and configuration. Correct if: islands are the connected components of the contact
graph; body and island agree on who is awake; nobody sleeps without having been slow;
the program's own assertions hold.

**Contact database** (`math/dynamics/contact_database.c`, `containers/list.c`). State: a
pool of contacts in which every contact is a node of *two* intrusive lists, one per body
(`nll`), a map of keys, two bit vectors of usage (this frame, last frame) and the list of
contacts new this frame. Operations: clear, alloc frame, add or update, update usage,
remove a body's contacts, remove. Hard: the side a contact has on a list depends on
which body follows it; the pool grows while indices are held; the bit vector that names live
contacts is resized and swapped between frames. Correct if: each list holds the
body's contacts and both directions agree; map, pool, bits name the same set.

**Contact solver** (`contact_solver.c`), **narrow phase** (`math/collision/collision.c`,
`math/common/geometry.c`), **bounding volume tree** (`math/collision/bvh.c`,
`containers/tree.c`), **mathematics and random numbers** (`math/common`, `math/random`):
numerical code; the tree also keeps a heap-shaped pool of nodes with parents and costs.
Correct if: leaves reported are the overlapping ones, parents contain children.

**Level editor** (`led/led_core.c`, `led_local.h`). State: databases of shapes, prefabs and render
meshes with reference counts; nodes with a handle on a prefab, a proxy in the renderer and a
mark; the engine's flags and their pending values. Operations: the `rb_prefab_*`,
`led_node_*`, `led_collision_shape_*`, `led_render_mesh_*`, `led_run/pause/stop` commands and the frame. Hard:
commands arrive in any order between frames, removal is deferred to the next frame, running bodies
refer to nodes. Correct if: counts are the handles there are, nothing named is freed,
bodies exist with the engine only. **Solid geometry** (`led/csg.c`): brushes; nothing calls it
yet. **Editor interface** (`led_ui.c`, `led_visual.c`): widgets that submit the commands.

**String database** (`containers/string_database.*`): entries by name, with a reference
count, in a map and a pool, entry 0 a stub returned when a lookup fails.

**Containers** (`containers/`): array_list, hash_map, ll/dll/nll, queue (min heap),
hierarchy_index, tree, bit_vector, kas_vector; sequential, intrusive, growing. Correct
if: links are consistent in both directions, freed indices are reused once, growth keeps
contents and capacity in step.

**Log** (`misc/log.c`, over `containers/parallel/ticket_factory.c`). State: a ring of messages with a
flag `a_in_use_and_completed` each; `a_next`, `a_serve`, `a_open` and a semaphore of free tickets;
`a_writing_to_disk`; the file. Operations: write a message (any thread, at any time), become the disk
writer when no ticket is free, shutdown, also from a fatal error while other threads run.
Hard: the writer is one of the threads that wait; counters wrap; a write that fails is itself logged;
closing races the calls. Correct if: a slot has one owner; messages leave in ticket order, once, finished;
what was logged before closing is in the file; every call returns.

**Other parallel queues** (`fifo_mpsc.c`, `fifo_spsc.c`): no code of the program uses them.

**User interface library** (`misc/ui`, over `containers/hierarchy_index.c`). State: nodes in a hierarchy, a map from
identifiers to nodes, the stack of parents, two frame arenas that take turns, the hovered node, the field that is edited (its
identifier, its input, the mode). Operations: begin a frame, allocate nodes (hashed or not), push and pop parents,
the widgets, end a frame (layout, hover, prune), the commands that start and end the editing of a field, type into it or flush it. Hard: nodes live
over frames while the tree is taken apart and built anew, one node at a time; what is kept over frames points into arenas and slots
that are reused; the focus moves in one frame and the edit follows in the next, after the events between them. Correct if: the tree is
what the frame built; nothing stale is used; the field with the focus is the field that is edited.

**Commands** (`misc/cmd.c`), **system events and input** (`sys/sys_event.c`,
`sys_input.c`, `sdl3_wrapper`): queues filled and drained by the master, handlers that submit
again. **Serialisation** (`misc/serialize.c`), **strings** (`kas_string.c`): bit streams and text.
**Renderer** (`renderer`), **assets** (`asset_system`), **windows** (`sys_graphics.c`),
**files, threads, clocks** (`sys/linux`, `sys/windows`, `sys/wasm`), **allocator debugging**:
input and output, layout, or wrappers. **Tests** (`src/test`) and **vendored libraries** (`src/lib`).

### Behaviours that are hard to test

`PROJECT.json` lists them with their lines. In short: about half are orders of steps of two
threads (the queue, the allocators, the hand-over of batches and of frame memory), the others
are sequences of legal operations that reach a state the code takes for impossible
(removal of bodies, sleeping and waking, deferred removal in the editor), values read
before an event and used after it (usage bits, stale indices), limits (full ring, wrapped
counters, doubled pools), and calls that must end.

## 2. The modules

```
FifoQueue   <-implements-  FifoSpmc  <- FifoSpmcProofs        the task queue
BlockPool   <-implements-  BlockAllocator <- BlockAllocatorProofs
                              ^ EXTENDS
                           BlockCache  <- BlockAllocatorProofs  the 256-byte allocator
TaskSystem  <- TaskSystemProofs  (over what FifoQueue promises)  task.c
ContactSet  <-implements-  ContactDatabase <- ContactDatabaseProofs  contact_database.c, list.c
IslandDatabase <- IslandDatabaseProofs                        physics_pipeline.c, island.c
StringDatabase <-EXTENDS-  LevelEditor <- LevelEditorProofs   led_core.c, string_database.c
LogFile     <-implements-  Log  <- LogProofs                  log.c, ticket_factory.c
FrameTree   <-implements-  UiNodes  <- UiNodesProofs          ui_core.c, ui_build.c, cmd.c, sys_event.c
                              | EXTENDS
                           HierarchyIndex                     hierarchy_index.c
```

Each component has an `MC...` module with the values and symmetry for TLC; mutants (a
definition mutated the way a bug would) stand next to what they mutate.

### FifoSpmc, FifoQueue

One *shared access* per step, as in the code. The producer's `ppc` goes through
`spin` (`TryPush`, the load of the next entry's `in_use`; repeated by `fifo_spmc_push`),
`claim` (the entry is marked and `next_alloc` advances), `store` (the data), `post` (the semaphore),
and, for `fifo_spmc_pushable_count`, `CountStart` and one `CountStep` per entry scanned. A consumer
goes through `Reserve` (the semaphore), `FetchTicket` (`a_first++`, modulo `Wrap`), `LoadData` and
`Release` (`in_use = 0`). `ready` keeps the last count, less the pushes since. `able` is the semaphore's value, `N` the ring's size and `Wrap` stands for
2^32. `pushed`, `posted`, `taken` and `ticket` are history: they number the items so that
properties can say *which* item is in an entry.

`FifoQueue` is the promise: items numbered by their pushes, of which a push adds the next, a take
hands the oldest to one consumer and a return makes it forget it, never more in the queue than
it has slots. The refinement maps its first item
to `taken`, its next to `posted`, its consumers' hands to `HeldItems`. The abstract queue's
pop happens where the code fetches the ticket, not where it reads the data: that this is sound is
what has to be shown.

### BlockAllocator, BlockPool

A thread is at one of `AllocLoad` (of `a_next`), `ReadNext` (the header of the head, which another
thread may own by then), `AllocCas`, `Stamp` (the generation, after the exchange), or
`FreeLoad`, `FreeLink`, `FreeCas`. Identifiers are records of generation and index as in the 64-bit word.
`stack` and `fresh` are history: what is free, in the order the list has it, and what was
never handed out (`fresh` counts from 0 which have been). `WriteBack` says whether a failed exchange stores what it saw in the expected
value: TRUE for the GCC builtin, FALSE for the macro of the Windows build. `BlockPool` is a
holder per block: a thread, or "free".

`BlockCache` adds the private stacks: `LocalAlloc`, `LocalFree`, `SharedAlloc` (when
the private stack is empty), and `ReturnLoad`..`ReturnCas`, which gives all but the lowest `LocalLow` of a full stack
back with one exchange. `WideStore` says whether `atomic_store_rel_32` on the 64-bit header writes 64
bits (GCC generic builtin over the type of the pointer) or 32 (MSVC).

### TaskSystem

Slaves and the master over a bounded queue with the semaphore's count `able`. Worker: `Boot`
and `Report` (start gate), `Pop`, `Enter` (which clears the worker's frame arena if its flag is set),
`Run`, `Exit`/`AccountBundle`/`PostBundle`/`AccountStream`. Master: the program of a frame, where
`BeginFrame` is `task_context_frame_clear`, `SplitRange` a bundle with its wait and release,
`SolveIslands` a stream with init, dispatch, spin-wait and cleanup, `SetCollisionDebug` the
tasks that all workers must be in at once, `Destroy` the shutdown. While it waits, the master takes
tasks too. `memory` keeps, per worker, which outputs are in its frame arena; `executor` who ran which task.
The queue is what FifoSpmc is shown to implement, not its steps.

### IslandDatabase

The data are sets: `net` is a set of pairs of bodies that touch, `members` and `links` map an
island to its bodies and contacts, `island_index` a body to its island or `Static`. A frame is a
walk of `pc` through the phases in the code's order:

| pc | code | steps |
|---|---|---|
| idle | between ticks | AllocBody, TagForRemoval, SetPending, Flush, Tick |
| remove | `internal_remove_marked_bodies` and the split after each | RemoveDynamic, RemoveStatic, SplitIsland |
| remove, nothing left to remove | `internal_update_contact_solver_config` | UpdateConfig |
| contacts | `internal_push_proxy_overlaps`, `internal_parallel_push_contacts` | PushContacts: any set of pairs, except that pairs that did not move keep what they had |
| merge | `internal_merge_islands`, `internal_remove_contacts_and_tag_split_islands` | AddContact, AddLocalContact or MergeIslands, one per new contact and in any order, then RemoveContacts |
| split | `internal_split_islands`, then the usage bits and the dispatch | SplitIsland, DispatchIslands |
| solve | `island_solve`, one task per awake island | SolveIsland with any set of slow bodies, FallAsleep |
| solve, nothing left to solve | `PHYSICS_PIPELINE_VALIDATE` | Validate |

Numbers are abstracted to what decides control: touching or not, slow or not, and the low-velocity time
in timesteps up to `SleepThreshold`. An assertion of the code that fails sets `pc = "stopped"`, an
access whose outcome C does not define sets `pc = "undefined"`; nothing follows either. The order of
new contacts and of splits is free, where the code takes the order of its lists.

### ContactDatabase, ContactSet

Here the same contacts are at the level of indices: a pool with a free list and capacity that
doubles, two `nll_next`/`nll_prev` per node, the side chosen by comparing the key with the body that is
followed, usage bits as sets of indices with the length of the bit vectors. A removal of a body is
one step per contact, as in the loop. `ContactSet` is the promise: a set of keys, to
which a frame adds those found and from which it drops those not found.

### StringDatabase, LevelEditor

`StringDatabase` has operators over a database: a function from slots to `[id, refs]`, with `Stub`
for what a failed lookup returns. The stub's own count is left out: nothing reads it. Where the code
takes the most recently freed slot, the model takes any.
`LevelEditor` is the master between two frames: one action per command of `led_core`, which is
atomic because all run on one thread, and `Frame`, which is `led_core` as a whole (remove marked
nodes, then start, stop or flush the engine). `bodies` are those of the pipeline with
the node and shape each was made from. Marking a marked node again sets `corrupt`, because
the second append damages the list of marked nodes; the model goes no further.

### Log, LogFile

One shared access per step. A thread in `log_write_message` goes through `CheckOpen`, `TryWait` (the
semaphore), `FetchTicket`, `Format` (into the slot) and `Publish` (the flag). One that gets no unit goes through
`TryWrite` (the exchange on `a_writing_to_disk`), then, if it became the writer, `TakeMessage` with `WriteMessage`,
`SkipWrite` or `FailWrite` until a message is not ready, and `ReturnTickets` with one `Post` per ticket and `Release`.
`FailWrite` starts a log call *inside* the writer (`nested`), which returns to its loop. `Close`,
`LoadFirst` and `Compare` are `log_shutdown`; they follow either after the main thread has joined the workers
(`joined`) or on a fatal error (`Shutdown`), when the others run on until `Exit`. A message is the number of its
ticket; `next` and `serve` count without wrapping, and the code sees them as `a_next` and `a_serve`, modulo
`Wrap`. The two loads of the drain's condition are two steps in either order, since C leaves their order open.
`semaphore_destroy` has no effect on the value threads still see, and the two statements that advance the writer's locals are
run before the nested call instead of after it (nobody else reads them).

`LogFile` is the promise: numbered messages are taken, finished in any order, and leave the ring oldest first, once
finished, into the file, to the lost ones or, when empty, nowhere.

### UiNodes, HierarchyIndex, FrameTree

`HierarchyIndex` has the operations on the links as operators from links to links, with the four cases of
`hierarchy_index_adopt_node_exclusive`, which takes a node away from its children, apart. `Below` is what the stack of
`hierarchy_index_apply_custom_free_and_remove` reaches, as a set; `RemoveBelow` frees it for every child of a node, as the end of a frame does
for the stub of orphans. That the stack gives no node out twice, so that a slot is freed once, is not assumed but stated
(`FoundOnce`). `UiNodes` is the thread that
runs the loop: `ProcessEvents` (clicks, escape, a text), one step per command (`ExecuteEnable`, `ExecuteDisable`, `ExecuteEdit`),
`FrameBegin`, one step per node (`BuildField` for `ui_field_u64` and its like and for the console's prompt, `BuildList` for
`ui_list_push`, `BuildAnonymous`) and per `Pop`, and `FrameEnd`, which is `ui_frame_end` as a whole. Which nodes are built, in
which order and under which parents is free, except that no identifier is built twice in a frame, which the code asserts; so a list that
culls an entry is a frame that does not build it. A
frame number is abstracted to an *age*: 0 in this frame, 1 in the last, 2 before; a string has the age of the arena it lies in, and at age 2 its
memory may hold something else. `text_edit` is a pointer: to the stub, to the console's prompt or to the input inside a slot. An assertion
that fails or a NULL that is dereferenced sets `phase = "stopped"`.

`FrameTree` is the promise: the tree of a frame is what was built in it, in that order, and a node is the one its identifier had in the last frame.

## 3. The runs

State counts are TLC's distinct states. Every passing run is complete: the bounds are in the
guards of the specification or in the constants, never in a state constraint.

**spmc** (`MCFifoSpmc`, `FifoSpmc.cfg`; 186 000 states). Three consumers, four entries, nine
pushes, tickets modulo 8.
- `AbleEntriesValid`: invariant (2) in `fifo_spmc.h`. As many entries as the semaphore and the reserved
  tickets count, from `a_first` on, are marked and hold the right item.
- `PushableKept`: a count of free slots, once taken, only becomes wrong by being too small.
- `Refines`: the ring implements `FifoQueue`: order, exactly once, never an item overwritten.
- `QueueMoves`: a push on a full ring returns; every item is taken.

Nine pushes go twice round the ring and once round the ticket counter; three consumers let one be
a round late while two others overtake each other. More of either only repeats that, and
the safety part is proved for any number (section 5).

**blocks** (`MCBlockAllocator`, `BlockAllocator.cfg`; 218 000). Three threads, two blocks, two
generations. `NoDoubleAllocation`, `NoLostBlock`; `OutOfMemoryMeansAllHeld` (while `a_next`
shows the end, which is when NULL is returned, every block is with a caller or in the middle of a call); `Refines` (`BlockPool`); `CallsReturn`. ABA
needs one thread delayed while another takes, another takes and the first gives back: three
threads and two blocks. Safety is proved for any number.

**cache** (`MCBlockCache`, `BlockCache.cfg`; 346 000). Two threads, four blocks, private stacks
that are given back at three, keeping one (at 31, keeping 15, in the code: what matters is that the
stack fills, that a part of at least two is returned and a part is kept). `BlocksKept` (each block is in one place,
with a caller, in a private stack, on the shared list or in transit; a returned chain is linked when it
becomes shared, and the rest is still a chain); `GenZeroMeansEmpty`
(allocator.c:300); `OutOfMemoryMeansTaken`: whenever a thread comes to see that no block is left, by its load or because the exchange
that failed wrote back the empty word (allocator.c:311, 380), which is what the next test of allocator.c:293 returns NULL on, each
block is with its own caller or with another thread. A free block may then be in another thread's private stack: that is
what the code does, and the property says no more.

**tasks** (`MCTaskSystem`, `TaskSystem.cfg`; 258 000). A master, two slaves, a queue of one task, batches of
at most two tasks, two batches, two frames: a batch larger than the queue, a
batch that one worker runs alone, a second batch right after the first, a worker that sleeps through a
whole frame. `RanOnce`; `MemoryHeld` (what a task wrote in a frame is there when the
master reads it, and nothing of an earlier frame is); `CallsSound` (a batch has one post, the
assertion of `task_stream_cleanup`, the handles joined, the queue empty at destruction); `CallsEnd` (batches and shutdown).

**islands_sleep** (`MCIslandDatabase`, `IslandDatabase_sleep.cfg`; 900 000). Three bodies, dynamic or
static, that touch and part in any way over any number of frames, two frames to fall asleep,
sleeping switched on and off at any time. `IslandsAreComponents`, `SleepAgrees` (`RB_AWAKE` is toggled, so body and island must agree
before), `ResetsReachBodies`, `AssertionsHold`, `NoneJoinsDrowsy` (dynamics.h: "uninterrupted for a
frame"). `ResetsReachBodies` is about `ISLAND_SLEEP_RESET`, by which a wake, a split, an interrupted attempt to sleep or the switch of the
configuration asks that the low-velocity time of the bodies start over: the flag is the island's, the time the body's, and
the body may change islands before the solve. It says that the request arrives but for two ways, both of them the code's
(section 7): `ResetMergedAway`, which this run reaches, and `ResetSleptAway`, which takes the removal of a static body and so is
in the theorem (section 5) but not in this run. Deadlock is checked: no frame gets stuck. Three is the least number with which one
contact's loss may or may not split an island; a threshold of two separates "slow once" from "slow for
long enough".

**islands_remove** (`IslandDatabase_remove.cfg`; 417 000). As above, with bodies of both kinds
removed and flushed at any time between frames. `TouchingTogether` (no contact is shared by two
solver tasks, each island's list is exactly its contacts), `UsageKept`, `LostSupportWakes` (what rested on a removed static body is
awake with its timers to be reset, or about to be split), `FrameEnds`. Here assertions do fail (finding 1), so the properties
speak of the states up to there; `AssertionsHold` (with the assertion of
`is_db_merge_islands`, that one of two merging islands is awake, and those of `is_db_split_island`, that the
island has contacts and all are in use) is in the run without removals.

**islands_orphans** (violation): finding 1.

**contacts** (`MCContactDatabase`, `ContactDatabase.cfg`; 79 000). Four bodies of which four pairs
may touch: one body with three contacts in its list, taking both sides of a key (it is the larger of one
pair and the smaller of two), and a cycle; a pool of two that doubles twice. `NetSound` (the lists of a body hold its contacts in both
directions; map and pool name the same contacts), `UsageExact`,
`ImplementsSet` (refinement of `ContactSet`). Deadlock is checked.

**editor** (`MCLevelEditor`, `LevelEditor.cfg`; 455 000). Two names and slots for shapes, prefabs and
nodes, one for meshes, two proxies, one start of the engine. `CountsExact`, `HandlesLive`,
`ProxiesOwned`, `BodiesFollowEngine`. `HandlesLive` says two things: shapes, prefabs and meshes, which are counted, are there as long
as something names them; and a body, whose node is *not* counted, is made for a node that is there and loses it only in the frame after that node was
removed by command. That it does lose it then is what the code does (section 7). Two of a kind are needed to change a handle from one to the other; two
proxies to see one leak. A second start of the engine (`MaxStarts`) differs only in larger counts of shapes,
since a flush leaves them (section 7); `CountsExact` says "at least" for shapes for that reason.

**log** (`MCLog`, `Log.cfg`; 329 000). Three threads with one call each, and the message of the shutdown on top, a ring of two
messages, counters modulo 4, one message that formats to nothing, one write that may fail: the ring is full with a
third thread waiting, the counters wrap, the call made inside the writer needs a ticket of its own.
`SlotsExclusive` (nobody formats a slot another thread or the writer has), `AssertionsHold` (those of
`ticket_factory_return_tickets`), `NothingLost` (what was logged before closing is in the file when `log_shutdown` returns,
if no write failed), `Refines` (LogFile), `CallsReturn` (if no write fails).

**log_disk_full** (violation): finding 2.

**ui** (`MCUiNodes`, `UiNodes.cfg`; 485 000). A root, a list, a field, the console's prompt and, without input, one node that is not
hashed, over any number of frames; with input, all but the last. `NothingStale` (strings lie in live arenas, the list's index is its node, slots
are freed once and none is kept a frame too long, a text reaches the field that is edited, no command meets a node that is gone),
`FocusFollows` (before a frame the node with the focus, at most one, is the one that is edited), `BuildsTree` (refinement of `FrameTree`). Deadlock is
checked. Four nodes below the root are the least with which a node that has a child is lifted from between two siblings; two fields, one
with its own input and one with an external one, are the two ways the focus can move.

Deadlock is not checked where the system really may stop: bounded pushes or generations, the end of the
program, a failed assertion, a corrupt list.

Each property has a mutant in `PROJECT.json`: a missing post, an index advanced twice, a blind exchange,
a frame flag that leaves out worker 0, a merge that keeps the tag to sleep, a list unlinked on the wrong
side, usage bits kept a frame too long, a proxy not freed. TLC finds each.

## 4. Fairness

- **FifoSpmc, TaskSystem**: weak fairness of each thread's next step (`Consumer(c)`, `Work(w)`, the master's
  `Drive`). The operating system schedules every runnable thread again; the threads of
  the pool run `for (;;)` and never block but on the semaphore. A thread that waits on a semaphore is not
  promised to be the one that wakes (no strong fairness): `QueueMoves` and `CallsEnd` hold although a given consumer may
  starve. In FifoSpmc nothing obliges the producer to *start* a push (`StartPush`, `CountStart` are not fair).
- **BlockAllocator**: weak fairness of a thread *inside* a call; none of starting one.
  `CallsReturn` needs, besides fairness, that generations are bounded: a lock-free retry loop may starve
  while others succeed for ever. With bounded successes it shows that no thread loops
  *without* another one succeeding, which is what the Windows macro breaks (section 7).
- **IslandDatabase**: weak fairness of `Frame`, the single thread that is in the tick. The actions between
  ticks are not fair.
- **Log**: weak fairness of every thread inside a call or the shutdown; nothing forces a call, a shutdown or an exit. `CallsReturn`
  speaks of runs in which no write fails; what happens otherwise is finding 2.
- No other run uses fairness: their properties are safety properties.

## 5. Proofs

TLAPS checks about 18 800 obligations in eight modules; the backends are Z3, Zenon and LS4. All safety properties and
refinements that the passing runs check are proved (those of BlockCache and two of IslandDatabase under a hypothesis named below); `PROJECT.json` lists each theorem with its property. A proof
follows one pattern: an inductive invariant (`IInv`, stated in the component's module and checked there by TLC on its
small instance before it was proved), a lemma per action, a theorem for `Spec => []IInv`, and the properties from it.

**FifoSpmcProofs**, for every finite set of consumers, every ring size `N > 0`, every number of
pushes and every wrap of the counter that `N` divides. `InvariantHolds` proves `Spec => []IInv`; from it
follow `PopIsSafe` (the assertion in `fifo_spmc_pop`, two consumers never on one
entry, the right item), `AbleTheorem`, `PushableTheorem` and `ImplementsQueue`
(`Spec => Queue!Spec`). The properties are not inductive: that the next entry is free says nothing without
knowing that the items outstanding, those between `taken` and `pushed` and those still held by slow
consumers, lie in *distinct* slots. `IInv` says so (`Entries`), counts the
semaphore against the history (`Counted`), and ties both indices to the history modulo `N`
(`Indices`), the step where `N` dividing `Wrap` is needed. The lemmas are about
`%`: successive items lie in successive slots, and less than `N` apart means different slots.

**BlockAllocatorProofs**, for every set of threads, number of blocks and bound on generations, and
whichever value `WriteBack` has. `InvariantHolds`, then `NoDoubleAllocationTheorem`,
`NoLostBlockTheorem`, `OutOfMemoryTheorem`. The heart of `IInv` is `Snapshots`: a thread that holds an
old value of `a_next` with generation `g > 0` and block `b` either sees the current one, or
`b`'s generation has moved on or `b` is on its way out of the list, so that its exchange
must fail; this is why the generation defeats ABA, and why it must grow *before* a block can come back. `StackIds`,
`FreshIds`, `HeldIds` and `Linked` say what headers hold for blocks in the list, never used, or with a
caller. `ImplementsPool` is the refinement of `BlockPool`: the mapping reads a block's holder off the threads' hands, which is a
function because no two have the block; the two exchanges that succeed are then an allocation and a return, every other step a stutter.

*The same module, over BlockCache*: `CacheInvariantHolds`, `BlocksKeptTheorem`, `GenZeroTheorem`, `OutOfMemoryTakenTheorem` (over both ways of
seeing the empty word: lemma `SeeingNone` says that a thread sees what `a_next` then is, and with `a_next` at the end the invariant leaves no block outside the threads), for any
length of the private stacks and any part of them that is kept. The private stack of a thread is a chain in the same headers, and
`ReturnCas` publishes its upper part as it is; `CacheIInv` therefore says of each thread that its chain is whole but
at the cut, that its blocks carry their current identifiers and are nowhere else, and keeps `Snapshots` from the shared allocator. A block in a private stack
keeps its generation, so a stale snapshot of it would match again once it is returned; `Snapshots` holds all the same because
a thread whose exchange may still succeed saw the block at the head of the *shared* stack with that very generation, and taking it from there
has increased it. The hypothesis `WideStore` (the whole identifier is stored in a link, as GCC and clang do) is needed: without it a link
keeps an old generation and all three properties can fail (section 7).

**TaskSystemProofs**, for every finite set of slaves, queue size, bound on batches and frames: `InvariantHolds`, `RanOnceTheorem`,
`MemoryHeldTheorem`, `CallsSoundTheorem`. `IInv` counts (`Accounted`): what a batch still waits for is what the master has yet to push,
what is queued, and the workers that are in a task; the semaphore is the queue less the workers that have reserved an entry. It places (`Placed`):
each issued task is queued, with one worker, or begun by one. With zero tasks left the queue and the workers' hands are empty, hence all tasks
have begun, and no worker is between taking one and accounting for it. `Barrier` is why `SetCollisionDebug` reaches every
worker: those who have begun spin until all have, so that none can begin two. `Flags` is why frame memory is safe although its owner clears
it late: a worker with a clean flag holds output of this frame only. Each step moves one worker or the master from one place to the next, and the lemma
`AtMove` says what that does to the count of workers at each place.

**IslandDatabaseProofs**, for every finite set of bodies, every set of natural numbers as islands and every
threshold. `InvariantHolds` (`IInv`), `MembersTheorem` (every body is on the list of its island
and no other), `ResetsReachTheorem`, `NoneJoinsDrowsyTheorem`. The first follows a pending reset through each step that moves a body to
another island: a lemma each for the merges that keep it (`PendingKeptMerge`), for splits (`PendingKeptSplit`), for the rest of the frame and
between frames (`PendingKeptAround`) and for the solve that carries it out (`PendingSolved`). `IInv` needs `MembersMatch` for
the sleep properties (merging moves *members*, and the low-velocity time of all must be full), and
that islands handed to solver tasks stay in use until they are solved.
`NetInvariantHolds` adds what ties the three copies of the contact graph together, phase by phase of a frame: `BitsMatch` (which of last
frame's bits, this frame's bits and new contacts make up the net), `ListsMatch` (the list of an island has exactly the settled
contacts of its bodies, plus, while it waits to be split, those just lost) and `AwakeMatch` (what moved is in an island that is awake; the
members of an island that tries to sleep are awake). `UsageKeptTheorem`, `TouchingTogetherTheorem`, `SleepAgreesTheorem` and
`LostSupportTheorem` follow. That the islands are *no larger* than components is `ConnectedInv`: every island that is not waiting to be split is
connected by settled contacts. A merge joins two connected sets by a contact, a split makes components, and a lost contact tags
the island. Removing a dynamic body breaks it (finding 1), so `IslandsAreComponentsTheorem` and `AssertionsTheorem` have the hypothesis
`TRUE \notin Removable`: no dynamic body is tagged for removal, static ones may be. `AssertionsTheorem` shows that finding 1 is the
only way to the assertions of the frame: with it excluded, none of those modelled fails.

**ContactDatabaseProofs**, for every set of bodies, finite set of pairs that may touch and initial size: `InvariantHolds`,
`NetSoundTheorem`, `UsageExactTheorem`, `ImplementsSetTheorem` (refinement of `ContactSet`). Two lemmas carry it, `Prepend` and
`Cut`: what linking a contact at the head of a body's list, or taking it out between its neighbours, does to one doubly linked list
when each neighbour is entered by the side *its own* key gives. `IInv` adds that each index below `count_max` is free, once, or live (`Pool`; room for a new
contact follows since live indices have different keys), and which indices can be in each bit vector in which phase (`Bits`): persistent ones
are below its length although the pool grows during the frame, and indices that are used again in the frame are not among those dropped.

**LevelEditorProofs**, for any names and slots and number of starts: `InvariantHolds`, `CountsExactTheorem`, `HandlesLiveTheorem`,
`ProxiesOwnedTheorem`, `BodiesFollowEngineTheorem`. The three properties support each other: a removal is refused because the count is
not zero, so a handle outlives it only if counts are exact, and they stay exact only if the entry counted is the entry named. What `HandlesLive`
says of counted handles is part of `IInv` (`CountedLive`); what it says of the nodes of bodies is proved of each step (`CommandEntity`, `FrameEntity`). The lemmas
say how the number of users of an entry changes when one user changes, and what reference, dereference and bulk removal do to a database.

**LogProofs**, for every finite set of threads, every ring size, every larger wrap that it divides and any number of calls and failures:
`InvariantHolds`, `SlotsStayExclusive`, `TicketAssertionsHold`, `LogImplementsLogFile`, `NothingLostTheorem`. The semaphore is the difficulty: a unit
may be taken and its ticket not yet fetched, a ticket returned and its unit not yet posted. `IInv` accounts for every unit
(free, taken, outstanding, to be posted: together `N`), so that the tickets outstanding are the window from the first
message still in the ring to `next`, never longer than `N`, hence in different slots; and it says per slot of the window whether its message is being
formatted, published or taken by the writer. `NothingLost` needs more (`ShutdownInv`), because the drain loop of `log_shutdown` compares two counters
that it loads one after the other while others move on: whichever is loaded first, equality modulo `Wrap` means that what
was owed at the close has left the ring, since the values compared are less than `Wrap` (at least `2 N`) apart.

**UiNodesProofs**, for any identifiers and fields, any number of slots and any budgets of nodes per frame, hence trees of any shape: `InvariantHolds`,
`NothingStaleTheorem`, `FocusFollowsTheorem`, `BuildsTreeTheorem` (refinement of `FrameTree`). The properties lean on each other in a circle that
only `IInv` closes: which node has the focus depends on which nodes the end of a frame prunes; that these are exactly those not built
depends on what lifting nodes one by one leaves of the old tree; and that the map leads to the nodes depends on what is pruned.

- *The trees.* In every state the old nodes are a forest below the stub of orphans and the new ones a forest below the stub of roots (`TreesOK`,
  HierarchyIndex's `Forest`). `WellLinked` says that next and prev, first and parent, last and parent agree. That alone would allow a ring of
  siblings that hangs from nothing and is never freed. `Rooted` excludes it without numbering or recursion: going back over the links, to the
  previous sibling or else to the parent, leads out of every set of nodes. With it a set that holds the first child of the stub and all that its members' first
  and next lead to is the whole forest, which is what `Below` computes in as many rounds as there are slots; so the prune frees all old nodes
  and no new one (`PrunedNodes`), and two links never lead to one node (`FoundOnce`). `Rewired` describes the four cases of a lift at once by the six
  links that may change; after it the old nodes without the one lifted are a forest again, although its children now stand where it stood.
- *The order.* `Listed` says that a sequence is the list of children of a node, `OrderOK` that `Children`, which follows the links, is one. A node is
  built behind the children of its parent and changes no other list, so the abstract `Build` is the same append.
- *The focus.* `EnablesOK`, `FocusOK` and `EditOK` relate the nodes, the queue and the edit: a node has the focus because it is edited or because
  a queued command will edit it; at most one such command is queued, never for the field that is edited; and if the field that is
  edited lost its node, its focus or its input, a command that starts a new edit or ends this one is queued *before* any text, so that a text
  never meets the old input. While a frame is built the invariant says which of this holds already for nodes built and still for
  nodes that are not.

Assumptions: the named `ASSUME`s of the modules: sizes positive, `N` divides `Wrap` (1024 and 2^32 in the code), a private stack
keeps at least one block and less than its limit, pairs of bodies ordered as in keys, threads, bodies and pairs
finite in number, room for the nodes of two frames (the array of nodes grows in the code; here it has a bound), markers such as `NoItem`, `"free"` and `Static` different from
the data. TLC evaluates each of them in the runs. Besides these, only the hypotheses `WideStore` and `TRUE \notin Removable` named above.

**Only model-checked**: all liveness, `QueueMoves`, `CallsReturn` (BlockAllocator and Log), `CallsEnd` and `FrameEnds`: fairness and ENABLED are out of
reach of these provers. The two findings are TLC's counterexamples.

## 6. Findings

1. **An island without contacts but with several bodies** (`math/dynamics/physics_pipeline.c:805`, run
   `islands_orphans`, property `AssertionsHold`). Removing the body that held an island together also
   takes the last contact; the island is then not split, and assertions of the next merge or validation fail.
2. **A full disk stops every thread that logs** (`sys/linux/linux_filesystem.c:397`, run `log_disk_full`, property
   `SlotsComeUp`). A failed write of the log file is logged from inside the disk writer. It became the writer because
   no ticket was free and has not returned those it took, so its own call waits for a slot that only itself could give back.

`PROJECT.json` quotes both sides of each.

## 7. Observations no run makes

Met while reading for the models; recorded because the models step around them or because later modules
will cover them.

Tasks and queues
- With one logical core there are no slaves; a batch of more tasks than the queue has entries would leave
  `fifo_spmc_push` (fifo_spmc.c:114) spinning for ever.
- `a_startup_complete` and `g_a_thread_counter` are never reset: a second task context in one process would not wait.
- `fifo_mpsc_consume` stores 1 in `a_pushed` and does not advance `a_first` ; `ticket_factory_get_ticket`, which nothing calls, takes CLOSED
  for success, with an uninitialised ticket. Semaphore waits on Linux return EINTR as success. The `atomic_fetch_add_rel_*`
  macros are relaxed on Linux (linux_public.h:156, 161).
- thread_push_contacts does not look whether its worker's frame arena is exhausted (physics_pipeline.c:388).
- **The Windows compare-and-swap never reports what it saw** (`sys/windows/win_public.h:160`, 200). allocator.c:311 relies on a failed
  exchange having updated the expected value; with this macro a thread that loses a race loops for ever. With `WriteBack = FALSE`
  in BlockAllocator.cfg TLC finds `CallsReturn` violated.
- With MSVC's `atomic_store_rel_32` (allocator.c:405) only half of the 64-bit `header->next` is stored: the generation stays what it was, and once
  the chain is shared the list can show generation 0 while it is not empty. The constant `WideStore` of BlockCache is FALSE for that build.

Physics
- **Low-velocity time is not uninterrupted** (island.c:692-702): it adds up slow frames that are not consecutive and is reset only by the island's flag,
  where `dynamics.h:549` calls it "Current uninterrupted time body has been in a low velocity state". A body may be put to sleep in
  a frame in which it is fast. The model does as the code does.
- **A reset of the sleep timers can be lost in a merge** (island.c:333-341). If both islands are awake and neither is tagged, the one that stays
  (expand) keeps its flags, also when only the other one was to be reset: a body woken by one merge and taken on by the next of the
  same frame keeps the time from before it slept and may be put to sleep again too early. `ResetsReachBodies` names the case
  (`ResetMergedAway`); without that disjunct TLC finds it in islands_sleep.
- **Losing a static support does not interrupt an attempt to sleep** (physics_pipeline.c:862): an island left without contacts gets ISLAND_AWAKE and
  ISLAND_SLEEP_RESET but keeps ISLAND_TRY_SLEEP, so if it was tagged in the last frame island.c:633 puts it to sleep in this one, in mid-air, where
  dynamics.h:215 says "if the island is uninterrupted for a frame". `ResetSleptAway` in the same property; two bodies are enough.
- Removing a static body that touches a static body indexes the islands with `ISLAND_STATIC`
  (contact_database.c:366); the model stops there with `pc = "undefined"`.
- Removing a *dynamic* support leaves what slept on it asleep.
- `physics_pipeline_flush` does not give back what bodies count on their shapes, where
  `physics_pipeline_rigid_body_dealloc` (:799) does: after a run of the engine `led_collision_shape_remove` of a shape it used never
  removes anything.
- `is_db_split_island` keeps a pointer over the growth of an array list (island.c:515). Island events may name
  islands removed later in the same batch.

Level editor
- **A body may outlive its node** (led_core.c:562-600). A node removed while the engine is initialised leaves a body whose entity names a free slot, which is read
  and written all the same (1479, 1521 on, 1716): the body moves the proxy of whichever node takes the slot. `HandlesLive` shows that this is the only way.
- Two removals of a node in one frame damage two lists (led_core.c:603); the console submits one command per frame.
- `prefab_statics_setup` (led_ui.c:841) uses the shape read before a menu changed it. led_ui.c:700 submits
  `rigid_body_prefab_add`, registered as `rb_prefab_add`.
- Stop and run in one frame do not restart; pause before run leaves the engine paused and not initialised.
- `string_database_reference` counts the stub on a miss (string_database.h:96 says otherwise); `string_database_add`
  returns the stub on success because its `slot` is shadowed (string_database.c:109-134).

User interface
- A pointer to a node's input is put in the command that enables an edit (ui_core.c:1817) and asserted to be the node's input when it is executed (:356). If
  the array of nodes grows in between, past 1024 nodes, the assertion fails; without assertions the input written to is freed memory.
- A field that is not built in the frame that gives another one the focus is pruned without `focused` being reset in its input; `ui_field_f32` reads that
  flag, not the focus of its node (ui_build.c:31), and a recycled slot still has it.
- `ui_identify_hovered_node` clears the hover of the ancestors a node has *now* (ui_core.c:908-922): an ancestor that only stayed keeps it when the hovered node is not built.
- A popup is built twice per frame (led_ui.c:118, 157). Marking a window and what is below it for destruction also marks its later siblings (sys_graphics.c:81).

Containers and commands
- A command submitted to the queue being executed by its last command is lost (cmd.c).
- `hierarchy_index_remove` decrements `child_count` only for the first and last child; `hierarchy_index_flush` does not
  reserve its stub of orphans again. `pool_external_add` grows with the wrong element size; `pool_flush` resets generations.
  `min_queue_fixed_push` drops silently; `ll_append` prepends and the reverse.
- The generation of a block returns to 0 after 2^32 allocations, where it means "no header yet".

## 8. Abstractions and assumptions

- **Memory order.** Steps are sequentially consistent and one shared access each. The acquire and release orders of
  the code are taken to order the accesses they surround. FifoSpmc keeps the producer's flag and data as
  two steps; the flag is set before the data, as in the code.
- **Sizes.** Counters that wrap are modulo a `Wrap` that stands for 2^32. Generations are bounded instead.
- **Semaphores** do not fail and are not interrupted.
- **Geometry** is an input: any set of pairs may touch, except that two bodies neither of which moved keep
  their state; any body may be slow after a solve.
- **Order of lists** is free where only the contents matter (new contacts, marked bodies, islands to split).
- **The interface**: the array of nodes does not grow; layout and the cursor are an input (which field is hovered); of texts
  only where they go is kept; neither `ui_field_f32` (section 7) nor selection and dragging are modelled, nor popups (ui_build.c:718-721), nor `ui_node_alloc_cached`
  (ui_core.c:1355-1637), which is called only from ui_build.c:322, in a function that nothing calls; a free slot is the least one.
- **Slots** that the code reuses last-in first-out are chosen freely in StringDatabase, LevelEditor and IslandDatabase,
  except that new islands get the lowest free index; ContactDatabase keeps the free list, since growth and usage bits depend on it.
- **Assertions** of the code are modelled by a state in which the program has stopped; builds without assertions go on, which
  the model does not follow. One is left out: allocator.c:348 asserts that the block allocator is never out of memory; BlockAllocator models the
  path on which it is, as a build without assertions runs it, where the next line returns NULL. The 256-byte allocator asserts no such thing.
- **Code outside `src/`** (threads, semaphores) is modelled by how it is used.

## 9. What is not modelled

The contact solver, narrow phase, mathematics and random numbers: floating point without control worth checking.
Layout and drawing of the interface, renderer, assets, windows, files, clocks: input and output. Solid geometry, `fifo_mpsc`, `fifo_spsc`: no caller.
The bounding volume tree, the other containers, registration and tokens of commands, serialisation
and strings can be modelled and are in the plan. Within modelled components: arenas, ring and pools of allocator.c; the
cache of separating axes in contact_database.c; island events and debug colours; positions, cameras and proxies' appearance.

## 10. Plan

Done: the queue, the allocators, tasks, islands, contacts, the editor, the log with its tickets, the interface's nodes with the hierarchy index. Next:

1. *Bounding volume tree*: insertion, removal and rotation with small costs, refining a set of leaves.
2. *Island lists*: the first and last pointers of bodies and contacts per island, refining the sets of IslandDatabase, and an
   abstract specification of islands as a partition that IslandDatabase implements.
3. *Commands* around LevelEditor: submission in this frame or the next, handlers that submit again; windows and popups, a second interface with its own queue.
4. *Containers*: pool and external pool, array list growth, hash chains, bit tree, min queue.
5. *Separating-axis cache, range splitting*; *bit streams* as operators against a reference definition.

Proofs: the invariants of what the list above adds.

## 11. Running

With TLC: `tlc -config FifoSpmc.cfg MCFifoSpmc`, and so on with the pairs in `PROJECT.json`. The longest
runs take about three minutes with two workers. With TLAPS 1.4.5: `tlapm FifoSpmcProofs.tla`, and so on with the other `...Proofs`.
