---------------------------------- MODULE Log ----------------------------------
(***************************************************************************)
(* The log of src/misc/log.c over the tickets of                           *)
(* containers/parallel/ticket_factory.c, one shared access per step.       *)
(*                                                                         *)
(* A thread takes a unit of the semaphore, a ticket, formats its message   *)
(* into the slot the ticket names and publishes it.  A thread that finds   *)
(* no unit becomes the disk writer, if there is none: it writes messages   *)
(* until one is not ready, and only then returns their tickets.  A write   *)
(* that fails logs the failure from inside the writer.  log_shutdown is    *)
(* called by the main thread after the workers are joined, or by any       *)
(* thread on a fatal error, while the others run on until exit.            *)
(*                                                                         *)
(* A message is the number of its ticket.  next and serve count tickets    *)
(* without wrapping; the code sees them through a_next and a_serve.        *)
(***************************************************************************)
EXTENDS Integers, Sequences, FiniteSets

CONSTANTS
    Threads,        \* threads of the program
    NoThread,       \* no thread
    Main,           \* the thread that joins the others before it shuts down
    N,              \* LOG_MAX_MESSAGES, and max_tickets
    Wrap,           \* a_next and a_serve count modulo Wrap (2^32 in the code)
    Empty,          \* messages that format to nothing
    MaxCalls,       \* bound: log calls of a thread, the one of log_shutdown aside
    MaxFailures     \* bound: writes to the open file that fail

\* ticket_factory_init asserts a power of two, so N divides 2^32.
ASSUME NAssumption == N \in Nat \ {0}
ASSUME WrapAssumption == Wrap \in Nat \ {0} /\ Wrap % N = 0 /\ Wrap > N
ASSUME ThreadsAssumption == IsFiniteSet(Threads) /\ NoThread \notin Threads /\ Main \in Threads
ASSUME EmptyAssumption == Empty \subseteq Nat
ASSUME BoundsAssumption == MaxCalls \in Nat /\ MaxFailures \in Nat

VARIABLES
    has_file,       \* did log_init create the file
    file_open,      \* is g_log.file still a valid handle
    file,           \* history: messages in the file, in order
    lost,           \* history: messages whose write failed
    a_open,         \* do tickets remain open
    available,      \* value of the semaphore
    next,           \* tickets ever taken
    serve,          \* tickets ever returned
    writer,         \* a_writing_to_disk, and who holds it
    flag,           \* msg[i].a_in_use_and_completed
    buf,            \* msg[i].buf: the message last formatted there
    pc,             \* where each thread is
    nested,         \* is its log call made from inside the disk writer
    ticket,         \* the local ticket of log_write_message
    serving,        \* the locals of log_try_write_to_disk
    count,
    posts,          \* tickets still to post in ticket_factory_return_tickets
    calls,          \* calls made, for MaxCalls
    shutter,        \* the thread in log_shutdown
    joined,         \* has the main thread joined the others
    seen,           \* the counter internal_write_to_disk has loaded first
    owed,           \* history: messages whose call had returned before closing
    running         \* has the process not exited

fileVars   == <<has_file, file_open, file, lost>>
ticketVars == <<a_open, available, next, serve>>
slotVars   == <<flag, buf>>
localVars  == <<nested, ticket, serving, count, posts>>
stopVars   == <<shutter, joined, seen, owed, running>>
vars == <<has_file, file_open, file, lost, a_open, available, next, serve, writer,
          flag, buf, pc, nested, ticket, serving, count, posts, calls,
          shutter, joined, seen, owed, running>>

Index == 0..(N - 1)

a_next  == next % Wrap
a_serve == serve % Wrap

\* ticket % LOG_MAX_MESSAGES, of a ticket that was fetched from a_next.
Slot(k) == (k % Wrap) % N

Init ==
    /\ has_file \in BOOLEAN
    /\ file_open = has_file
    /\ file = <<>>
    /\ lost = {}
    /\ a_open = 1
    /\ available = N
    /\ next = 0
    /\ serve = 0
    /\ writer = NoThread
    /\ flag = [i \in Index |-> 0]
    /\ buf = [i \in Index |-> 0]
    /\ pc = [t \in Threads |-> "idle"]
    /\ nested = [t \in Threads |-> FALSE]
    /\ ticket = [t \in Threads |-> 0]
    /\ serving = [t \in Threads |-> 0]
    /\ count = [t \in Threads |-> 0]
    /\ posts = [t \in Threads |-> 0]
    /\ calls = [t \in Threads |-> 0]
    /\ shutter = NoThread
    /\ joined = FALSE
    /\ seen = [counter |-> "serve", value |-> 0]
    /\ owed = {}
    /\ running = TRUE

Goto(t, where) == pc' = [pc EXCEPT ![t] = where]

-------------------------------------------------------------------------------
(* log_write_message and ticket_factory_try_get_ticket.                    *)

\* A thread that has been joined calls nothing.
Call(t) ==
    /\ pc[t] = "idle"
    /\ ~joined
    /\ calls[t] < MaxCalls
    /\ calls' = [calls EXCEPT ![t] = @ + 1]
    /\ Goto(t, "open")
    /\ UNCHANGED <<fileVars, ticketVars, writer, slotVars, localVars, stopVars>>

\* A call made by the disk writer goes back to its loop, the one log_shutdown
\* makes continues there.
AfterCall(t) ==
    /\ Goto(t, IF nested[t] THEN "loop" ELSE IF shutter = t THEN "close" ELSE "idle")
    /\ nested' = [nested EXCEPT ![t] = FALSE]

\* TICKET_FACTORY_CLOSED: the message is dropped.
CheckOpen(t) ==
    /\ pc[t] = "open"
    /\ IF a_open = 1 THEN Goto(t, "wait") /\ UNCHANGED nested ELSE AfterCall(t)
    /\ UNCHANGED <<fileVars, ticketVars, writer, slotVars, ticket, serving, count, posts,
                   calls, stopVars>>

\* Mutant of TryWait: the result of semaphore_trywait is not looked at.
TryWaitUnchecked(t) ==
    /\ pc[t] = "wait"
    /\ available' = IF available > 0 THEN available - 1 ELSE 0
    /\ Goto(t, "fetch")
    /\ UNCHANGED <<fileVars, a_open, next, serve, writer, slotVars, localVars, calls, stopVars>>

TryWait(t) ==
    /\ pc[t] = "wait"
    /\ IF available > 0
       THEN available' = available - 1 /\ Goto(t, "fetch")
       ELSE Goto(t, "try") /\ UNCHANGED available
    /\ UNCHANGED <<fileVars, a_open, next, serve, writer, slotVars, localVars, calls, stopVars>>

FetchTicket(t) ==
    /\ pc[t] = "fetch"
    /\ ticket' = [ticket EXCEPT ![t] = next]
    /\ next' = next + 1
    /\ Goto(t, "format")
    /\ UNCHANGED <<fileVars, a_open, available, serve, writer, slotVars, nested, serving,
                   count, posts, calls, stopVars>>

Format(t) ==
    /\ pc[t] = "format"
    /\ buf' = [buf EXCEPT ![Slot(ticket[t])] = ticket[t]]
    /\ Goto(t, "publish")
    /\ UNCHANGED <<fileVars, ticketVars, writer, flag, localVars, calls, stopVars>>

\* Both of the stores of a_in_use_and_completed: an empty message is published too.
Publish(t) ==
    /\ pc[t] = "publish"
    /\ flag' = [flag EXCEPT ![Slot(ticket[t])] = 1]
    /\ AfterCall(t)
    /\ UNCHANGED <<fileVars, ticketVars, writer, buf, ticket, serving, count, posts,
                   calls, stopVars>>

-------------------------------------------------------------------------------
(* log_try_write_to_disk and ticket_factory_return_tickets.                *)

\* Where a thread returns to when it leaves log_try_write_to_disk: the loop of
\* internal_write_to_disk, which runs with the tickets closed, or its own call.
Caller(t) == IF shutter = t /\ a_open = 0 /\ ~nested[t] THEN "drain" ELSE "open"

\* The compare-exchange of a_writing_to_disk.
TryWrite(t) ==
    /\ pc[t] = "try"
    /\ IF writer = NoThread
       THEN /\ writer' = t
            /\ serving' = [serving EXCEPT ![t] = a_serve % N]
            /\ count' = [count EXCEPT ![t] = 0]
            /\ Goto(t, "loop")
       ELSE /\ Goto(t, Caller(t))
            /\ UNCHANGED <<writer, serving, count>>
    /\ UNCHANGED <<fileVars, ticketVars, slotVars, nested, ticket, posts, calls, stopVars>>

\* The compare-exchange of a_in_use_and_completed in the loop's condition.
TakeMessage(t) ==
    /\ pc[t] = "loop"
    /\ IF flag[serving[t]] = 1
       THEN flag' = [flag EXCEPT ![serving[t]] = 0] /\ Goto(t, "write")
       ELSE Goto(t, "return") /\ UNCHANGED flag
    /\ UNCHANGED <<fileVars, ticketVars, writer, buf, localVars, calls, stopVars>>

\* The loop's last two statements.  They change locals only, so that the model
\* runs them before the log call of a write that failed.
Advance(t) ==
    /\ serving' = [serving EXCEPT ![t] = (@ + 1) % N]
    /\ count' = [count EXCEPT ![t] = @ + 1]

ToWrite(t) == has_file /\ buf[serving[t]] \notin Empty

\* Mutant of SkipWrite: the loop goes on without counting an empty message.
SkipWriteUncounted(t) ==
    /\ pc[t] = "write"
    /\ ~ToWrite(t)
    /\ serving' = [serving EXCEPT ![t] = (@ + 1) % N]
    /\ Goto(t, "loop")
    /\ UNCHANGED <<fileVars, ticketVars, writer, slotVars, nested, ticket, count, posts, calls,
                   stopVars>>

SkipWrite(t) ==
    /\ pc[t] = "write"
    /\ ~ToWrite(t)
    /\ Advance(t)
    /\ Goto(t, "loop")
    /\ UNCHANGED <<fileVars, ticketVars, writer, slotVars, nested, ticket, posts, calls,
                   stopVars>>

WriteMessage(t) ==
    /\ pc[t] = "write"
    /\ ToWrite(t) /\ file_open
    /\ file' = Append(file, buf[serving[t]])
    /\ Advance(t)
    /\ Goto(t, "loop")
    /\ UNCHANGED <<has_file, file_open, lost, ticketVars, writer, slotVars, nested, ticket,
                   posts, calls, stopVars>>

\* file_write_append fails, as it does on a full disk and on a closed file, and
\* logs the error; then the loop continues.
FailWrite(t) ==
    /\ pc[t] = "write"
    /\ ToWrite(t)
    /\ file_open => Cardinality(lost) < MaxFailures
    /\ lost' = lost \cup {buf[serving[t]]}
    /\ Advance(t)
    /\ nested' = [nested EXCEPT ![t] = TRUE]
    /\ Goto(t, "open")
    /\ UNCHANGED <<has_file, file_open, file, ticketVars, writer, slotVars, ticket, posts,
                   calls, stopVars>>

\* Mutant of ReturnTickets: the loop over the semaphore runs once too often.
ReturnTicketsOneMore(t) ==
    /\ pc[t] = "return"
    /\ serve' = serve + count[t]
    /\ posts' = [posts EXCEPT ![t] = count[t] + 1]
    /\ count' = [count EXCEPT ![t] = 0]
    /\ Goto(t, "post")
    /\ UNCHANGED <<fileVars, a_open, available, next, writer, slotVars, nested, ticket, serving,
                   calls, stopVars>>

ReturnTickets(t) ==
    /\ pc[t] = "return"
    /\ serve' = serve + count[t]
    /\ posts' = [posts EXCEPT ![t] = count[t]]
    /\ count' = [count EXCEPT ![t] = 0]
    /\ Goto(t, "post")
    /\ UNCHANGED <<fileVars, a_open, available, next, writer, slotVars, nested, ticket, serving,
                   calls, stopVars>>

Post(t) ==
    /\ pc[t] = "post"
    /\ posts[t] > 0
    /\ available' = available + 1
    /\ posts' = [posts EXCEPT ![t] = @ - 1]
    /\ UNCHANGED <<fileVars, a_open, next, serve, writer, slotVars, pc, nested, ticket, serving,
                   count, calls, stopVars>>

\* Mutant of Release: the writer forgets to clear a_writing_to_disk.
ReleaseNothing(t) ==
    /\ pc[t] = "post"
    /\ posts[t] = 0
    /\ Goto(t, Caller(t))
    /\ UNCHANGED <<fileVars, ticketVars, writer, slotVars, localVars, calls, stopVars>>

Release(t) ==
    /\ pc[t] = "post"
    /\ posts[t] = 0
    /\ writer' = NoThread
    /\ Goto(t, Caller(t))
    /\ UNCHANGED <<fileVars, ticketVars, slotVars, localVars, calls, stopVars>>

-------------------------------------------------------------------------------
(* log_shutdown.                                                           *)

\* system_resources_cleanup, in the main thread, after task_context_destroy has
\* joined the workers; or fatal_cleanup_and_exit in any thread, of whose callers
\* one wins.  Either way the shutdown first logs a message of its own.
Shutdown(t) ==
    /\ pc[t] = "idle"
    /\ shutter = NoThread
    /\ joined' \in BOOLEAN
    /\ joined' => t = Main /\ \A u \in Threads : pc[u] = "idle"
    /\ shutter' = t
    /\ Goto(t, "open")
    /\ UNCHANGED <<fileVars, ticketVars, writer, slotVars, localVars, calls, seen, owed,
                   running>>

Holding(t) == pc[t] \in {"format", "publish"}

\* Mutant of Close: the messages in the ring are not waited for.
CloseUndrained(t) ==
    /\ pc[t] = "close"
    /\ a_open' = 0
    /\ owed' = {k \in 0..(next - 1) : \A u \in Threads : Holding(u) => ticket[u] # k}
    /\ Goto(t, "finish")
    /\ UNCHANGED <<fileVars, available, next, serve, writer, slotVars, localVars, calls,
                   shutter, joined, seen, running>>

Close(t) ==
    /\ pc[t] = "close"
    /\ a_open' = 0
    /\ owed' = {k \in 0..(next - 1) : \A u \in Threads : Holding(u) => ticket[u] # k}
    /\ Goto(t, IF has_file THEN "drain" ELSE "finish")
    /\ UNCHANGED <<fileVars, available, next, serve, writer, slotVars, localVars, calls,
                   shutter, joined, seen, running>>

Counter(name) == IF name = "serve" THEN a_serve ELSE a_next

Other(name) == IF name = "serve" THEN "next" ELSE "serve"

\* The two loads of a_serve # a_next, in the order the compiler likes.
LoadFirst(t) ==
    /\ pc[t] = "drain"
    /\ \E name \in {"serve", "next"} : seen' = [counter |-> name, value |-> Counter(name)]
    /\ Goto(t, "compare")
    /\ UNCHANGED <<fileVars, ticketVars, writer, slotVars, localVars, calls, shutter, joined,
                   owed, running>>

Compare(t) ==
    /\ pc[t] = "compare"
    /\ Goto(t, IF Counter(Other(seen.counter)) = seen.value THEN "finish" ELSE "try")
    /\ UNCHANGED <<fileVars, ticketVars, writer, slotVars, localVars, calls, stopVars>>

\* file_close, which forgets the handle, and ticket_factory_destroy: sem_destroy
\* of a semaphore no thread is blocked on changes nothing.
FinishShutdown(t) ==
    /\ pc[t] = "finish"
    /\ file_open' = FALSE
    /\ Goto(t, "done")
    /\ UNCHANGED <<has_file, file, lost, ticketVars, writer, slotVars, localVars, calls, stopVars>>

\* exit(1), or the end of main.
Exit ==
    /\ shutter # NoThread /\ pc[shutter] = "done"
    /\ running' = FALSE
    /\ UNCHANGED <<fileVars, ticketVars, writer, slotVars, pc, localVars, calls, shutter, joined,
                   seen, owed>>

-------------------------------------------------------------------------------

\* What a thread does once it has called the log.
Work(t) ==
    /\ running
    /\ \/ CheckOpen(t) \/ TryWait(t) \/ FetchTicket(t) \/ Format(t) \/ Publish(t)
       \/ TryWrite(t) \/ TakeMessage(t) \/ SkipWrite(t) \/ WriteMessage(t) \/ FailWrite(t)
       \/ ReturnTickets(t) \/ Post(t) \/ Release(t)
       \/ Close(t) \/ LoadFirst(t) \/ Compare(t) \/ FinishShutdown(t)

Next ==
    \/ \E t \in Threads : Work(t) \/ (running /\ Call(t)) \/ (running /\ Shutdown(t))
    \/ running /\ Exit

Spec == Init /\ [][Next]_vars

\* The scheduler runs every thread again; nothing makes a thread log or shut
\* the log down.
Fairness == \A t \in Threads : WF_vars(Work(t))

LiveSpec == Spec /\ Fairness

-------------------------------------------------------------------------------
(* Properties.                                                             *)

TypeOK ==
    /\ has_file \in BOOLEAN /\ file_open \in BOOLEAN
    /\ file \in Seq(Nat) /\ lost \subseteq Nat
    /\ a_open \in {0, 1} /\ available \in Nat
    /\ next \in Nat /\ serve \in Nat
    /\ writer \in Threads \cup {NoThread}
    /\ flag \in [Index -> {0, 1}] /\ buf \in [Index -> Nat]
    /\ pc \in [Threads -> {"idle", "open", "wait", "fetch", "format", "publish",
                            "try", "loop", "write", "return", "post",
                            "close", "drain", "compare", "finish", "done"}]
    /\ nested \in [Threads -> BOOLEAN]
    /\ ticket \in [Threads -> Nat] /\ serving \in [Threads -> Index]
    /\ count \in [Threads -> Nat] /\ posts \in [Threads -> Nat]

\* The messages that have left the ring, the tickets of some of which are still
\* with the disk writer.
Front == IF writer = NoThread THEN serve ELSE serve + count[writer]

\* A thread that formats its message owns the slot: nobody else formats into it,
\* and the disk writer is not writing it, however long the formatting takes and
\* however often the ring goes round.
SlotsExclusive ==
    \A t \in Threads : Holding(t) =>
        /\ flag[Slot(ticket[t])] = 0
        /\ \A u \in Threads \ {t} :
               /\ Holding(u) => Slot(ticket[u]) # Slot(ticket[t])
               /\ pc[u] = "write" => serving[u] # Slot(ticket[t])

\* The three assertions of ticket_factory_return_tickets, on 32-bit counters.
\* They hold all the time the writer stands at the call, and so for every order
\* of their relaxed loads.
AssertionsHold ==
    \A t \in Threads : pc[t] = "return" =>
        LET waiting == (a_next - a_serve) % Wrap
        IN  /\ count[t] <= N
            /\ count[t] <= waiting
            /\ waiting <= N

\* What log_shutdown leaves: every message whose call had returned when the
\* tickets were closed is in the file, also when other threads still run, unless
\* it was empty or its write failed.
NothingLost ==
    (shutter # NoThread /\ pc[shutter] = "done" /\ has_file) =>
        \A k \in owed : k \in Empty \cup lost \cup {file[i] : i \in DOMAIN file}

\* Messages are written once each, in the order of their tickets, and only when
\* they are finished: the abstract log, whose ring is the part of the tickets
\* the disk writer has not passed.
Held == {ticket[t] : t \in {u \in Threads : Holding(u)}}

Ring == INSTANCE LogFile WITH
    Slots <- N,
    first <- Front,
    finished <- Front..(next - 1) \ Held

Refines == Ring!Spec

\* A thread that waits for a ticket gets one, and a shutdown comes to its end,
\* unless a write to the file fails.
Finished(t) == pc[t] \in {"idle", "done"} \/ ~running
CallsReturn == \A t \in Threads : []<>(Finished(t) \/ lost # {})

\* "spin until a new msg slot is up for grabs" (src/misc/log.c:172): the thread
\* that waits for a slot gets one in the end.
SlotsComeUp == \A t \in Threads : []<>Finished(t)

-------------------------------------------------------------------------------
(* The inductive invariant.                                                *)

InDisk(t) == pc[t] \in {"loop", "write", "return", "post"} \/ nested[t]

Fetching == {t \in Threads : pc[t] = "fetch"}

\* The disk writer has taken the first message of the ring and is writing it.
Writing == writer # NoThread /\ pc[writer] = "write"

Pending == IF writer = NoThread THEN 0 ELSE posts[writer]

\* Every unit of the semaphore is free, with a thread that is about to fetch its
\* ticket, with a ticket of the ring, or about to be posted.
Accounts ==
    /\ serve <= Front /\ Front <= next
    /\ available + Cardinality(Fetching) + (next - serve) + Pending = N

\* One thread is in log_try_write_to_disk, and its locals follow the ring.
Disk ==
    \A t \in Threads :
        /\ InDisk(t) <=> writer = t
        /\ nested[t] => pc[t] \in {"open", "wait", "fetch", "format", "publish", "try"}
        /\ ~InDisk(t) \/ pc[t] = "post" => count[t] = 0
        /\ pc[t] # "post" => posts[t] = 0
        /\ InDisk(t) /\ pc[t] # "post" => serving[t] = Slot(Front)

Tickets ==
    \A t \in Threads : Holding(t) =>
        /\ ticket[t] \in Front..(next - 1)
        /\ \A u \in Threads : Holding(u) /\ ticket[u] = ticket[t] => u = t

\* What the slots hold for the N tickets from Front on.
Slots ==
    /\ \A k \in Front..(Front + N - 1) :
          flag[Slot(k)] = 1 <=> k < next /\ k \notin Held /\ ~(Writing /\ k = Front)
    /\ \A k \in Front..(next - 1) :
          buf[Slot(k)] = k \/ \E t \in Threads : pc[t] = "format" /\ ticket[t] = k
    /\ Writing => Front < next /\ Front \notin Held

IInv == TypeOK /\ Accounts /\ Disk /\ Tickets /\ Slots

\* What the invariant says of log_shutdown.  What has left the ring is accounted for.
Passed ==
    has_file => \A k \in 0..(Front - 1) : k \in Empty \cup lost \cup {file[i] : i \in DOMAIN file}

\* The messages owed were finished when the tickets were closed, and stay so.
OwedFinished == \A k \in owed : k \in 0..(next - 1) /\ k \notin Held

\* The counter loaded first has moved on by the second load; equal counters mean that
\* all that is owed has left the ring nevertheless, whichever was loaded first.
Comparing ==
    \A t \in Threads : pc[t] = "compare" =>
        IF seen.counter = "serve"
        THEN \E s \in 0..serve : seen.value = s % Wrap /\ \A k \in owed : k < s + N
        ELSE \E n \in 0..next :
                seen.value = n % Wrap /\ n <= serve + N /\ \A k \in owed : k < n

Drained ==
    \A t \in Threads : pc[t] \in {"finish", "done"} /\ has_file => \A k \in owed : k < Front

\* One thread shuts the log down.
OneShutter ==
    /\ shutter \in Threads \cup {NoThread}
    /\ seen.counter \in {"serve", "next"}
    /\ \A t \in Threads : pc[t] \in {"close", "drain", "compare", "finish", "done"} => t = shutter

ShutdownInv == OneShutter /\ Passed /\ OwedFinished /\ Comparing /\ Drained
===============================================================================
