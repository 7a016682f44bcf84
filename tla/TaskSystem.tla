------------------------------ MODULE TaskSystem ------------------------------
(***************************************************************************)
(* The task system of src/sys/task.c: a master thread that dispatches      *)
(* tasks in bundles and streams, waits for them and reads what they left   *)
(* in the frame memory of the workers, and worker threads that take tasks  *)
(* from the queue.  The master is a worker too while it waits.             *)
(*                                                                         *)
(* The queue is the one FifoSpmc implements: a sequence and a semaphore.   *)
(* The master follows the frame of main.c: clear the frame memory, then    *)
(* any number of batches, as physics_pipeline.c runs them, and at the end  *)
(* task_context_destroy.                                                   *)
(***************************************************************************)
EXTENDS Integers, Sequences, FiniteSets

CONSTANTS
    Slaves,         \* the workers with a thread of their own
    Master,         \* worker 0
    QueueSize,      \* TASK_MAX_COUNT
    MaxSplit,       \* bound: tasks of a batch
    MaxBatches,     \* bound: batches of a behaviour
    MaxFrames       \* bound: frames of a behaviour

ASSUME MasterAssumption == Master \notin Slaves /\ IsFiniteSet(Slaves)
ASSUME SizeAssumption == QueueSize \in Nat \ {0}
ASSUME SplitAssumption == MaxSplit \in Nat

Workers == Slaves \cup {Master}

VARIABLES
    startup,        \* a_startup_complete
    thr,            \* the workers whose w->thr is set
    queue,          \* tasks pushed and not yet popped
    able,           \* the semaphore of the queue
    flag,           \* w->a_mem_frame_clear
    memory,         \* w->mem_frame: the tasks whose output lies in it
    pc,             \* where each worker is
    task,           \* the task_info of each worker
    mpc,            \* where the master's program is
    todo,           \* tasks (or stores of FrameClear) the master has yet to issue
    batch,          \* bundle->tasks, or the tasks of the stream
    tasks_left,     \* bundle.a_tasks_left
    bundle_done,    \* the semaphore bundle.bundle_completed
    completed,      \* stream->a_completed
    task_count,     \* stream->task_count
    counter,        \* g_a_thread_counter of physics_pipeline.c
    executor,       \* history: who ran each task of the batch, in order
    frame, issued   \* history: frames begun, batches issued

masterVars == <<mpc, todo, batch, task_count, frame, issued>>
runVars == <<flag, memory, pc, task, executor>>
countVars == <<tasks_left, bundle_done, completed, counter>>
vars == <<startup, thr, queue, able, flag, memory, pc, task, mpc, todo, batch,
          tasks_left, bundle_done, completed, counter, task_count, executor, frame, issued>>

NoTask == [kind |-> "none", n |-> 0, batch |-> 0, frame |-> 0]

\* The n tasks of the batch b.
Tasks(kind, n, b) == {[kind |-> kind, n |-> i, batch |-> b, frame |-> frame] : i \in 1..n}

\* The master issues the tasks of a batch in order.
First(s) == CHOOSE t \in s : \A u \in s : t.n <= u.n

\* The workers come from arena_push, which does not clear them: worker_init sets
\* mem_frame only, and the flag may be anything.
Init ==
    /\ startup = 0
    /\ thr = {}
    /\ queue = <<>>
    /\ able = 0
    /\ flag \in [Workers -> {0, 1}]
    /\ memory = [w \in Workers |-> {}]
    /\ pc = [w \in Workers |-> IF w = Master THEN "idle" ELSE "boot"]
    /\ task = [w \in Workers |-> NoTask]
    /\ mpc = "init"
    /\ todo = {}
    /\ batch = {}
    /\ tasks_left = 0
    /\ bundle_done = 0
    /\ completed = 0
    /\ counter = 0
    /\ task_count = 0
    /\ executor = <<>>
    /\ frame = 0
    /\ issued = 0

-------------------------------------------------------------------------------
(* task_main and task_run: the workers, the master among them.             *)

\* A new thread waits until task_context_init opens the gate.
Boot(w) ==
    /\ pc[w] = "boot"
    /\ startup # 0
    /\ thr' = thr \cup {w}
    /\ pc' = [pc EXCEPT ![w] = "booted"]
    /\ UNCHANGED <<startup, queue, able, flag, memory, task, executor, masterVars, countVars>>

Report(w) ==
    /\ pc[w] = "booted"
    /\ startup' = startup + 1
    /\ pc' = [pc EXCEPT ![w] = "idle"]
    /\ UNCHANGED <<thr, queue, able, flag, memory, task, executor, masterVars, countVars>>

\* The master takes tasks only in task_main_master_run_available_jobs.
MayTake(w) == w = Master => mpc \in {"bundle_run", "stream_run"}

Reserve(w) ==
    /\ pc[w] = "idle"
    /\ MayTake(w)
    /\ able > 0
    /\ able' = able - 1
    /\ pc' = [pc EXCEPT ![w] = "pop"]
    /\ UNCHANGED <<startup, thr, queue, flag, memory, task, executor, masterVars, countVars>>

Pop(w) ==
    /\ pc[w] = "pop"
    /\ task' = [task EXCEPT ![w] = Head(queue)]
    /\ queue' = Tail(queue)
    /\ pc' = [pc EXCEPT ![w] = "enter"]
    /\ UNCHANGED <<startup, thr, able, flag, memory, executor, masterVars, countVars>>

\* Mutant of Enter: the flag is not looked at.
EnterFlushes(w) ==
    /\ pc[w] = "enter"
    /\ memory' = [memory EXCEPT ![w] = {}]
    /\ pc' = [pc EXCEPT ![w] = "flushed"]
    /\ UNCHANGED <<startup, thr, queue, able, flag, task, executor, masterVars, countVars>>

\* task_run flushes the frame memory when it finds the flag set, and only then
\* resets the flag.
Enter(w) ==
    /\ pc[w] = "enter"
    /\ IF flag[w] = 1
       THEN memory' = [memory EXCEPT ![w] = {}] /\ pc' = [pc EXCEPT ![w] = "flushed"]
       ELSE memory' = memory /\ pc' = [pc EXCEPT ![w] = "run"]
    /\ UNCHANGED <<startup, thr, queue, able, flag, task, executor, masterVars, countVars>>

\* Mutant of ResetFlag: the flag stays set.
ResetFlagNever(w) ==
    /\ pc[w] = "flushed"
    /\ flag' = flag
    /\ pc' = [pc EXCEPT ![w] = "run"]
    /\ UNCHANGED <<startup, thr, queue, able, memory, task, executor, masterVars, countVars>>

ResetFlag(w) ==
    /\ pc[w] = "flushed"
    /\ flag' = [flag EXCEPT ![w] = 0]
    /\ pc' = [pc EXCEPT ![w] = "run"]
    /\ UNCHANGED <<startup, thr, queue, able, memory, task, executor, masterVars, countVars>>

\* The task leaves its output in the frame memory of its executor.
Run(w) ==
    /\ pc[w] = "run"
    /\ task[w].kind \in {"bundle", "stream"}
    /\ executor' = Append(executor, <<task[w], w>>)
    /\ memory' = [memory EXCEPT ![w] = @ \cup {task[w]}]
    /\ pc' = [pc EXCEPT ![w] = "account"]
    /\ UNCHANGED <<startup, thr, queue, able, flag, task, masterVars, countVars>>

\* thread_set_collision_debug sets a thread-local pointer, counts itself, and
\* spins until as many tasks as there are workers have done so.
RunDebug(w) ==
    /\ pc[w] = "run"
    /\ task[w].kind = "debug"
    /\ executor' = Append(executor, <<task[w], w>>)
    /\ counter' = counter + 1
    /\ pc' = [pc EXCEPT ![w] = "spin"]
    /\ UNCHANGED <<startup, thr, queue, able, flag, memory, task, masterVars, tasks_left,
                   bundle_done, completed>>

LeaveSpin(w) ==
    /\ pc[w] = "spin"
    /\ counter = Cardinality(Workers)
    /\ pc' = [pc EXCEPT ![w] = "account"]
    /\ UNCHANGED <<startup, thr, queue, able, flag, memory, task, executor, masterVars, countVars>>

\* worker_exit ends the thread and never returns to task_run.
Exit(w) ==
    /\ pc[w] = "run"
    /\ task[w].kind = "exit"
    /\ pc' = [pc EXCEPT ![w] = "exited"]
    /\ UNCHANGED <<startup, thr, queue, able, flag, memory, task, executor, masterVars, countVars>>

\* Mutant of AccountBundle: the bundle is posted when one task is left.
AccountBundleEarly(w) ==
    /\ pc[w] = "account"
    /\ task[w].kind = "bundle"
    /\ tasks_left' = tasks_left - 1
    /\ pc' = [pc EXCEPT ![w] = IF tasks_left <= 2 THEN "post" ELSE "idle"]
    /\ UNCHANGED <<startup, thr, queue, able, flag, memory, task, executor, masterVars,
                   bundle_done, completed, counter>>

AccountBundle(w) ==
    /\ pc[w] = "account"
    /\ task[w].kind = "bundle"
    /\ tasks_left' = tasks_left - 1
    /\ pc' = [pc EXCEPT ![w] = IF tasks_left = 1 THEN "post" ELSE "idle"]
    /\ UNCHANGED <<startup, thr, queue, able, flag, memory, task, executor, masterVars,
                   bundle_done, completed, counter>>

\* Mutant of PostBundle: the semaphore is not posted.
PostBundleNever(w) ==
    /\ pc[w] = "post"
    /\ bundle_done' = bundle_done
    /\ pc' = [pc EXCEPT ![w] = "idle"]
    /\ UNCHANGED <<startup, thr, queue, able, flag, memory, task, executor, masterVars,
                   tasks_left, completed, counter>>

PostBundle(w) ==
    /\ pc[w] = "post"
    /\ bundle_done' = bundle_done + 1
    /\ pc' = [pc EXCEPT ![w] = "idle"]
    /\ UNCHANGED <<startup, thr, queue, able, flag, memory, task, executor, masterVars,
                   tasks_left, completed, counter>>

AccountStream(w) ==
    /\ pc[w] = "account"
    /\ task[w].kind \in {"stream", "debug"}
    /\ completed' = completed + 1
    /\ pc' = [pc EXCEPT ![w] = "idle"]
    /\ UNCHANGED <<startup, thr, queue, able, flag, memory, task, executor, masterVars,
                   tasks_left, bundle_done, counter>>

Work(w) ==
    \/ Boot(w) \/ Report(w) \/ Reserve(w) \/ Pop(w) \/ Enter(w) \/ ResetFlag(w)
    \/ Run(w) \/ RunDebug(w) \/ LeaveSpin(w) \/ Exit(w) \/ AccountBundle(w) \/ PostBundle(w) \/ AccountStream(w)

-------------------------------------------------------------------------------
(* The master's program.                                                   *)

\* task_context_init has cloned the threads; it opens the gate, then waits for
\* all of them to report.
OpenGate ==
    /\ mpc = "init"
    /\ startup' = 1
    /\ mpc' = "await"
    /\ UNCHANGED <<thr, queue, able, runVars, todo, batch, task_count, frame, issued, countVars>>

AwaitWorkers ==
    /\ mpc = "await"
    /\ startup >= Cardinality(Workers)
    /\ mpc' = "main"
    /\ UNCHANGED <<startup, thr, queue, able, runVars, todo, batch, task_count, frame,
                   issued, countVars>>

\* task_context_frame_clear: one store per worker.
BeginFrame ==
    /\ mpc = "main"
    /\ frame < MaxFrames
    /\ frame' = frame + 1
    /\ todo' = Workers
    /\ mpc' = "clear"
    /\ UNCHANGED <<startup, thr, queue, able, runVars, batch, task_count, issued, countVars>>

SetFlag(w) ==
    /\ mpc = "clear"
    /\ w \in todo
    /\ flag' = [flag EXCEPT ![w] = 1]
    /\ todo' = todo \ {w}
    /\ mpc' = IF todo' = {} THEN "main" ELSE "clear"
    /\ UNCHANGED <<startup, thr, queue, able, memory, pc, task, executor, batch,
                   task_count, frame, issued, countVars>>

\* task_bundle_split_range sets a_tasks_left before it pushes the first task.
SplitRange(n) ==
    /\ mpc = "main"
    /\ frame > 0
    /\ issued < MaxBatches
    /\ issued' = issued + 1
    /\ batch' = Tasks("bundle", n, issued')
    /\ todo' = batch'
    /\ tasks_left' = n
    /\ executor' = <<>>
    /\ mpc' = "bundle"
    /\ UNCHANGED <<startup, thr, queue, able, flag, memory, pc, task, task_count, frame,
                   bundle_done, completed, counter>>

\* fifo_spmc_push: spins while the queue is full, then stores the task and posts.
Push(t) ==
    /\ Len(queue) < QueueSize
    /\ queue' = Append(queue, t)
    /\ able' = able + 1

PushBundle ==
    /\ mpc = "bundle"
    /\ Push(First(todo))
    /\ todo' = todo \ {First(todo)}
    /\ mpc' = IF todo' = {} THEN "bundle_run" ELSE "bundle"
    /\ UNCHANGED <<startup, thr, runVars, batch, task_count, frame, issued, countVars>>

\* task_main_master_run_available_jobs ends when the semaphore is down.
RunAvailableEnds ==
    /\ mpc \in {"bundle_run", "stream_run"}
    /\ pc[Master] = "idle"
    /\ able = 0
    /\ mpc' = IF mpc = "bundle_run" THEN "bundle_wait" ELSE "stream_wait"
    /\ UNCHANGED <<startup, thr, queue, able, runVars, todo, batch, task_count, frame,
                   issued, countVars>>

BundleWait ==
    /\ mpc = "bundle_wait"
    /\ bundle_done > 0
    /\ bundle_done' = bundle_done - 1
    /\ mpc' = "bundle_read"
    /\ UNCHANGED <<startup, thr, queue, able, runVars, todo, batch, task_count, frame,
                   issued, tasks_left, completed, counter>>

\* The master has read the outputs of the bundle.
BundleRelease ==
    /\ mpc = "bundle_read"
    /\ tasks_left' = 0
    /\ mpc' = "main"
    /\ UNCHANGED <<startup, thr, queue, able, runVars, todo, batch, task_count, frame,
                   issued, bundle_done, completed, counter>>

\* Mutant of StreamInit: the counter of the last stream is kept.
StreamInitNoReset(ts) ==
    /\ mpc = "main"
    /\ completed' = completed
    /\ task_count' = 0
    /\ batch' = {}
    /\ executor' = <<>>
    /\ todo' = ts
    /\ mpc' = IF ts = {} THEN "stream_run" ELSE "stream"
    /\ UNCHANGED <<startup, thr, queue, able, flag, memory, pc, task, frame, tasks_left,
                   bundle_done, counter>>

\* task_stream_init, before the dispatch of the tasks in ts.
StreamInit(ts) ==
    /\ mpc = "main"
    /\ completed' = 0
    /\ task_count' = 0
    /\ batch' = {}
    /\ executor' = <<>>
    /\ todo' = ts
    /\ mpc' = IF ts = {} THEN "stream_run" ELSE "stream"
    /\ UNCHANGED <<startup, thr, queue, able, flag, memory, pc, task, frame, tasks_left,
                   bundle_done, counter>>

SolveIslands(n) ==
    /\ frame > 0
    /\ issued < MaxBatches
    /\ issued' = issued + 1
    /\ StreamInit(Tasks("stream", n, issued'))

\* physics_pipeline_alloc, called once and before the first frame, has every
\* thread set its debug pointer when the build has KAS_PHYSICS_DEBUG.
SetCollisionDebug ==
    /\ frame = 0
    /\ counter = 0
    /\ StreamInit(Tasks("debug", Cardinality(Workers), 0))
    /\ UNCHANGED issued

StreamDispatch ==
    /\ mpc = "stream"
    /\ Push(First(todo))
    /\ batch' = batch \cup {First(todo)}
    /\ todo' = todo \ {First(todo)}
    /\ task_count' = task_count + 1
    /\ mpc' = IF todo' = {} THEN "stream_run" ELSE "stream"
    /\ UNCHANGED <<startup, thr, runVars, frame, issued, countVars>>

StreamSpinWait ==
    /\ mpc = "stream_wait"
    /\ completed >= task_count
    /\ mpc' = "stream_cleanup"
    /\ UNCHANGED <<startup, thr, queue, able, runVars, todo, batch, task_count, frame,
                   issued, countVars>>

StreamCleanup ==
    /\ mpc = "stream_cleanup"
    /\ mpc' = "main"
    /\ UNCHANGED <<startup, thr, queue, able, runVars, todo, batch, task_count, frame,
                   issued, countVars>>

\* task_context_destroy: one exit task per thread, then a join of each.
Destroy ==
    /\ mpc = "main"
    /\ todo' = Tasks("exit", Cardinality(Slaves), 0)
    /\ mpc' = "destroy"
    /\ UNCHANGED <<startup, thr, queue, able, runVars, batch, task_count, frame, issued, countVars>>

PushExit ==
    /\ mpc = "destroy"
    /\ todo # {}
    /\ Push(First(todo))
    /\ todo' = todo \ {First(todo)}
    /\ UNCHANGED <<startup, thr, mpc, runVars, batch, task_count, frame, issued, countVars>>

Join ==
    /\ mpc = "destroy"
    /\ todo = {}
    /\ \A w \in Slaves : pc[w] = "exited"
    /\ mpc' = "ended"
    /\ UNCHANGED <<startup, thr, queue, able, runVars, todo, batch, task_count, frame,
                   issued, countVars>>

\* The steps of the master that the code takes once it has begun a call.
Drive ==
    \/ OpenGate \/ AwaitWorkers \/ \E w \in Workers : SetFlag(w)
    \/ PushBundle \/ RunAvailableEnds \/ BundleWait \/ BundleRelease
    \/ StreamDispatch \/ StreamSpinWait \/ StreamCleanup \/ PushExit \/ Join

Next ==
    \/ \E w \in Workers : Work(w)
    \/ Drive
    \/ BeginFrame \/ Destroy
    \/ SetCollisionDebug
    \/ \E n \in 1..MaxSplit : SplitRange(n)
    \/ \E n \in 0..MaxSplit : SolveIslands(n)

Spec == Init /\ [][Next]_vars

\* Each worker is a thread the system schedules again and again, and the master
\* goes on with a call it has begun.
LiveSpec == Spec /\ WF_vars(Drive) /\ \A w \in Workers : WF_vars(Work(w))

-------------------------------------------------------------------------------
(* Properties.                                                             *)

InTask(w) == pc[w] \in {"enter", "flushed", "run", "spin", "account"}

RunsOf(t) == {i \in DOMAIN executor : executor[i][1] = t}

\* When task_bundle_wait or task_stream_spin_wait returns, every task of the batch
\* has been run by exactly one worker, and once; of the tasks of SetCollisionDebug,
\* each by another, so that every thread has its own tl_debug set.
RanOnce ==
    /\ mpc \in {"bundle_read", "stream_cleanup"} =>
        /\ Len(executor) = Cardinality(batch)
        /\ \A t \in batch : Cardinality(RunsOf(t)) = 1
    /\ \A i, j \in DOMAIN executor :
        (i # j /\ executor[i][1].kind = "debug") => executor[i][2] # executor[j][2]

\* A worker inside a task holds one of the batch the master waits for: the batch's
\* memory (task, input, range) is not released or reused under it.
BatchHeld ==
    \A w \in Workers :
        (InTask(w) /\ task[w].kind # "exit") =>
            /\ task[w] \in batch
            /\ mpc \in {"bundle", "bundle_run", "bundle_wait", "stream", "stream_run", "stream_wait"}

\* A task that has run shares the frame memory with tasks of its own frame only:
\* what task_context_frame_clear asks for has happened by then, on every worker.
FreshFrame ==
    \A w \in Workers :
        (pc[w] = "account" /\ task[w].kind # "debug") =>
            \A t \in memory[w] : t.frame = frame

\* No memory is reused while another thread needs it: that of the batch while workers
\* are inside its tasks, and, while the master reads the outputs of the batch, the frame
\* memory of the worker that ran each task, which a later task_run would flush; and
\* none is kept from an earlier frame.
MemoryHeld ==
    /\ BatchHeld
    /\ mpc \in {"bundle_read", "stream_cleanup"} =>
        \A i \in DOMAIN executor :
            executor[i][1].kind # "debug" => executor[i][1] \in memory[executor[i][2]]
    /\ FreshFrame

\* The one bundle of the context is posted once for each bundle, so that no later
\* task_bundle_wait takes a left-over post.
OnePost ==
    /\ bundle_done <= 1
    /\ mpc \notin {"bundle_run", "bundle_wait"} =>
        bundle_done = 0 /\ \A w \in Workers : pc[w] # "post"

\* What the calls of the master rely on and partly assert: a stream is cleaned up when
\* all that was dispatched to it is complete; after task_context_init the handles of all
\* threads are there to join; and when task_context_destroy frees the queue and the exit
\* tasks, no thread runs and no task is in the queue.
CallsSound ==
    /\ OnePost
    /\ mpc = "stream_cleanup" => completed = task_count
    /\ mpc \notin {"init", "await"} => thr = Slaves
    /\ mpc = "ended" => queue = <<>> /\ able = 0 /\ pc[Master] = "idle"

\* Every bundle and stream the master issues ends and the master goes on, and
\* task_context_destroy returns: every thread takes an exit task.
CallsEnd ==
    /\ mpc \in {"bundle", "stream"} ~> mpc = "main"
    /\ mpc = "destroy" ~> mpc = "ended"

-------------------------------------------------------------------------------
(* The inductive invariant behind the safety properties.                   *)

\* The workers at one of the given places.
At(places) == {w \in Workers : pc[w] \in places}

Before == {"enter", "flushed", "run"}       \* of its task
Inside == Before \cup {"spin", "account"}   \* as InTask

Bundling == {"bundle", "bundle_run", "bundle_wait"}
Streaming == {"stream", "stream_run", "stream_wait"}
Reading == {"bundle_read", "stream_cleanup"}

TaskInfo == [kind : {"none", "bundle", "stream", "debug", "exit"}, n : Nat, batch : Nat, frame : Nat]

TypeOK ==
    /\ startup \in Nat /\ thr \subseteq Slaves
    /\ queue \in Seq(TaskInfo) /\ able \in Nat
    /\ flag \in [Workers -> {0, 1}] /\ memory \in [Workers -> SUBSET TaskInfo]
    /\ pc \in [Workers -> Inside \cup {"boot", "booted", "idle", "pop", "post", "exited"}]
    /\ task \in [Workers -> TaskInfo]
    /\ mpc \in Bundling \cup Streaming \cup Reading \cup {"init", "await", "main", "clear", "destroy", "ended"}
    /\ IsFiniteSet(todo) /\ todo \subseteq IF mpc = "clear" THEN Workers ELSE TaskInfo
    /\ batch \subseteq TaskInfo
    /\ tasks_left \in Nat /\ bundle_done \in {0, 1} /\ completed \in Nat /\ counter \in Nat /\ task_count \in Nat
    /\ executor \in Seq(TaskInfo \X Workers)
    /\ frame \in Nat /\ issued \in Nat

\* The gate: startup counts the master and the threads that have reported; the master
\* takes tasks only while it runs available jobs.
Started ==
    /\ mpc = "init" => startup = 0 /\ \A w \in Slaves : pc[w] = "boot"
    /\ mpc = "await" => startup = 1 + Cardinality(Slaves \ At({"boot", "booted"}))
    /\ mpc \notin {"init", "await"} => At({"boot", "booted"}) = {}
    /\ thr = Slaves \ At({"boot"})
    /\ pc[Master] \notin {"boot", "booted", "exited"}
    /\ pc[Master] # "idle" => mpc \in {"bundle_run", "stream_run"}

\* The tasks a call still waits for are those it has yet to issue, those in the queue and
\* those some worker is in; the semaphore counts the queued ones no worker has reserved.
Accounted ==
    /\ Len(queue) = able + Cardinality(At({"pop"}))
    /\ mpc \notin Bundling \cup Streaming \cup {"destroy"} => queue = <<>> /\ At(Inside) = {}
    /\ mpc \in Bundling => tasks_left = Cardinality(todo) + Len(queue) + Cardinality(At(Inside))
    /\ mpc \in Streaming => task_count = completed + Len(queue) + Cardinality(At(Inside))
    /\ mpc = "stream_cleanup" => completed = task_count
    /\ mpc = "destroy" =>
        Cardinality(Slaves) = Cardinality(todo) + Len(queue) + Cardinality(At(Inside \cup {"exited"}))
    /\ mpc \notin {"destroy", "ended"} => At({"exited"}) = {}
    /\ mpc \in {"bundle", "stream"} => todo # {}
    /\ mpc \notin {"bundle", "stream", "destroy", "clear"} => todo = {}

\* The last worker out of a bundle posts it, once.
Posted ==
    /\ \A w \in At({"post"}) : mpc \in Bundling /\ tasks_left = 0 /\ bundle_done = 0
    /\ \A v, w \in At({"post"}) : v = w
    /\ bundle_done = 1 => mpc \in Bundling /\ tasks_left = 0

Queued == {queue[i] : i \in 1..Len(queue)}
Held == {task[w] : w \in At(Before)}
Begun == {executor[i][1] : i \in 1..Len(executor)}

\* Each task of a batch that was issued is in one place: in the queue, with a worker that
\* has not begun it, or begun by one worker.
Placed ==
    mpc \in Bundling \cup Streaming \cup Reading =>
        /\ batch \ todo = Queued \cup Held \cup Begun
        /\ Queued \cap Held = {} /\ Queued \cap Begun = {} /\ Held \cap Begun = {}
        /\ \A i, j \in 1..Len(queue) : queue[i] = queue[j] => i = j
        /\ \A v, w \in At(Before) : task[v] = task[w] => v = w
        /\ \A i, j \in 1..Len(executor) : executor[i][1] = executor[j][1] => i = j
        /\ \A w \in At({"spin", "account"}) : task[w] \in Begun
        /\ mpc \in Bundling => todo \subseteq batch
        /\ mpc \in Streaming => todo \cap batch = {}

\* The tasks of a batch are of one kind and of the frame.
Kinds ==
    /\ mpc \in Bundling => \A t \in batch : t.kind = "bundle" /\ t.frame = frame
    /\ mpc \in Streaming =>
        \/ \A t \in batch \cup todo : t.kind = "stream" /\ t.frame = frame
        \/ \A t \in batch \cup todo : t.kind = "debug"
    /\ mpc = "destroy" =>
        /\ \A t \in todo \cup Queued \cup Held : t.kind = "exit"
        /\ At({"spin", "account"}) = {}
    /\ \A w \in At({"spin"}) : task[w].kind = "debug"

\* As long as some task of SetCollisionDebug has not begun, those who began one spin.
Barrier ==
    /\ \A i, j \in 1..Len(executor) :
        (i # j /\ executor[i][1].kind = "debug") => executor[i][2] # executor[j][2]
    /\ (mpc \in Streaming /\ \E t \in batch \cup todo : t.kind = "debug") =>
        /\ counter = Len(executor)
        /\ IsFiniteSet(batch \cup todo) /\ Cardinality(batch \cup todo) = Cardinality(Workers)
        /\ counter < Cardinality(Workers) => \A i \in 1..Len(executor) : pc[executor[i][2]] = "spin"

\* What the flag of a worker says of its frame memory.
Flags ==
    /\ \A w \in At({"flushed"}) : flag[w] = 1 /\ memory[w] = {}
    /\ \A w \in At({"run", "spin", "account"}) : flag[w] = 0
    /\ \A w \in Workers :
        flag[w] = 1 \/ (mpc = "clear" /\ w \in todo) \/ \A t \in memory[w] : t.frame = frame
    /\ mpc \in Bundling \cup Streaming \cup Reading =>
        \A i \in 1..Len(executor) : executor[i][1].kind # "debug" =>
            flag[executor[i][2]] = 0 /\ executor[i][1] \in memory[executor[i][2]]

IInv == TypeOK /\ Started /\ Accounted /\ Posted /\ Placed /\ Kinds /\ Barrier /\ Flags

===============================================================================
