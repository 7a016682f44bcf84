------------------------------ MODULE LogProofs ------------------------------
(***************************************************************************)
(* The invariants of the log's ring of messages, and that it implements    *)
(* LogFile, for any number of threads, any ring size, any wrap of the two  *)
(* ticket counters, any number of calls and any number of failing writes.  *)
(***************************************************************************)
EXTENDS Log, FiniteSetTheorems, TLAPS

-------------------------------------------------------------------------------
(* Remainders: the slot of a ticket and the two wrapping counters.         *)

\* Division with remainder, as the provers can use it.
LEMMA DivMod ==
    ASSUME NEW n \in Nat \ {0}, NEW a \in Nat
    PROVE  /\ a = n * (a \div n) + (a % n)
           /\ a % n \in 0..(n - 1)
           /\ a \div n \in Nat
    BY Z3

\* A remainder is determined by any decomposition.
LEMMA ModUnique ==
    ASSUME NEW n \in Nat \ {0}, NEW q \in Nat, NEW r \in 0..(n - 1)
    PROVE  (n * q + r) % n = r
    BY Z3

\* Indices that agree modulo n still agree after the same number of steps.
LEMMA ModStep ==
    ASSUME NEW n \in Nat \ {0}, NEW a \in Nat, NEW b \in Nat, NEW k \in Nat,
           a % n = b % n
    PROVE  (a + k) % n = (b + k) % n
<1> DEFINE r == a % n
           s == (r + k) % n
           p == (r + k) \div n
<1>1. /\ a = n * (a \div n) + r /\ r \in 0..(n - 1) /\ a \div n \in Nat
      /\ b = n * (b \div n) + r /\ b \div n \in Nat
  BY DivMod
<1>2. r + k = n * p + s /\ s \in 0..(n - 1) /\ p \in Nat
  <2>1. r + k \in Nat
    BY <1>1
  <2> QED BY <2>1, DivMod
<1> HIDE DEF r, s, p
<1>3. a + k = n * (a \div n + p) + s /\ b + k = n * (b \div n + p) + s
  BY <1>1, <1>2, Z3
<1>4. a \div n + p \in Nat /\ b \div n + p \in Nat
  BY <1>1, <1>2
<1> QED BY <1>2, <1>3, <1>4, ModUnique

\* Fewer than n steps never come back to the entry they started from.
LEMMA ModApart ==
    ASSUME NEW n \in Nat \ {0}, NEW a \in Nat, NEW k \in 1..(n - 1)
    PROVE  (a + k) % n # a % n
<1> DEFINE r == a % n
           q == a \div n
           p == (a + k) \div n
<1>1. a = n * q + r /\ r \in 0..(n - 1) /\ q \in Nat
  BY DivMod
<1>2. a + k \in Nat
  OBVIOUS
<1>3. a + k = n * p + ((a + k) % n) /\ p \in Nat
  BY <1>2, DivMod
<1>4. SUFFICES ASSUME (a + k) % n = r PROVE FALSE
  OBVIOUS
<1> HIDE DEF r, q, p
<1>5. k = n * (p - q)
  BY <1>1, <1>3, <1>4, Z3
<1>6. CASE p - q <= 0
  <2>1. n * (p - q) <= 0
    BY <1>1, <1>3, <1>6, Z3
  <2> QED BY <1>5, <2>1
<1>7. CASE p - q >= 1
  <2>1. n * (p - q) >= n
    BY <1>1, <1>3, <1>7, Z3
  <2> QED BY <1>5, <2>1
<1> QED BY <1>1, <1>3, <1>6, <1>7

\* Reducing modulo a multiple of n first changes no remainder modulo n.
LEMMA ModWrap ==
    ASSUME NEW n \in Nat \ {0}, NEW w \in Nat \ {0}, w % n = 0, NEW a \in Nat
    PROVE  (a % w) % n = a % n
<1> DEFINE m == w \div n
           q == a \div w
           r == a % w
           p == r \div n
           s == r % n
<1>1. w = n * m /\ m \in Nat
  <2>1. w = n * (w \div n) + (w % n) /\ w \div n \in Nat
    BY DivMod
  <2>2. n * (w \div n) \in Nat
    BY <2>1
  <2> QED BY <2>1, <2>2
<1>2. a = w * q + r /\ r \in Nat /\ q \in Nat
  BY DivMod
<1>3. r = n * p + s /\ s \in 0..(n - 1) /\ p \in Nat
  BY <1>2, DivMod
<1> HIDE DEF m, q, r, p, s
<1>4. a = n * (m * q + p) + s
  BY <1>1, <1>2, <1>3, Z3
<1>5. m * q + p \in Nat
  BY <1>1, <1>2, <1>3
<1>6. a % n = s
  BY <1>3, <1>4, <1>5, ModUnique
<1>7. r % n = s
  BY <1>3, ModUnique
<1> QED BY <1>6, <1>7 DEF r

\* The difference of two wrapped counters, wrapped, is the true difference as
\* long as that is smaller than the wrap.
LEMMA ModDifference ==
    ASSUME NEW w \in Nat \ {0}, NEW b \in Nat, NEW d \in 0..(w - 1)
    PROVE  (((b + d) % w) - (b % w)) % w = d
<1> DEFINE a == b + d
           p == a \div w
           q == b \div w
           r == a % w
           s == b % w
<1>1. /\ a = w * p + r /\ r \in 0..(w - 1) /\ p \in Nat
      /\ b = w * q + s /\ s \in 0..(w - 1) /\ q \in Nat
  <2>1. a \in Nat
    OBVIOUS
  <2> QED BY <2>1, DivMod
<1>2. a = b + d
  OBVIOUS
<1> HIDE DEF a, p, q, r, s
<1>3. d = w * (p - q) + (r - s)
  BY <1>1, <1>2, Z3
<1>4. CASE r >= s
  <2>1. r - s \in 0..(w - 1)
    BY <1>1, <1>4
  <2>2. p - q = 0
    BY <1>1, <1>3, <2>1, Z3
  <2>3. (w * 0 + (r - s)) % w = r - s
    BY <2>1, ModUnique
  <2>4. d = r - s /\ w * 0 + (r - s) = r - s
    BY <1>1, <1>3, <2>2, Z3
  <2> QED BY <2>3, <2>4 DEF a, r, s
<1>5. CASE r < s
  <2>1. r - s + w \in 0..(w - 1)
    BY <1>1, <1>5
  <2>2. p - q = 1
    BY <1>1, <1>3, <2>1, Z3
  <2>3. d = r - s + w
    BY <1>1, <1>3, <2>2, Z3
  <2>4. (r - s) % w = d
    BY <1>1, <1>5, <2>3, Z3
  <2> QED BY <2>4 DEF a, r, s
<1> QED BY <1>1, <1>4, <1>5

-------------------------------------------------------------------------------
(* Slots of the ring.                                                      *)

LEMMA SlotMod ==
    ASSUME NEW k \in Nat
    PROVE  Slot(k) = k % N /\ Slot(k) \in Index
<1>1. (k % Wrap) % N = k % N
  BY NAssumption, WrapAssumption, ModWrap
<1>2. k % N \in 0..(N - 1)
  BY NAssumption, DivMod
<1> QED BY <1>1, <1>2 DEF Slot, Index

LEMMA SlotNext ==
    ASSUME NEW k \in Nat
    PROVE  (Slot(k) + 1) % N = Slot(k + 1)
<1>1. Slot(k) = k % N /\ Slot(k + 1) = (k + 1) % N /\ Slot(k) \in 0..(N - 1)
  BY SlotMod DEF Index
<1>2. Slot(k) = N * 0 + Slot(k)
  BY <1>1, NAssumption
<1>3. Slot(k) % N = k % N
  BY <1>1, <1>2, NAssumption, ModUnique
<1>4. (Slot(k) + 1) % N = (k + 1) % N
  <2>1. Slot(k) \in Nat /\ 1 \in Nat
    BY <1>1, NAssumption
  <2> QED BY <1>3, <2>1, NAssumption, ModStep
<1> QED BY <1>1, <1>4

\* Tickets of one turn of the ring have slots of their own.
LEMMA SlotApart ==
    ASSUME NEW f \in Nat, NEW j \in f..(f + N - 1), NEW k \in f..(f + N - 1),
           Slot(j) = Slot(k)
    PROVE  j = k
<1>1. \A a, b \in Nat : a < b /\ b - a < N => Slot(a) # Slot(b)
  <2> SUFFICES ASSUME NEW a \in Nat, NEW b \in Nat, a < b, b - a < N
               PROVE  Slot(a) # Slot(b)
    OBVIOUS
  <2>1. b - a \in 1..(N - 1) /\ a + (b - a) = b
    BY NAssumption
  <2>2. b % N # a % N
    BY <2>1, NAssumption, ModApart
  <2> QED BY <2>2, SlotMod
<1>2. j \in Nat /\ k \in Nat /\ j - k < N /\ k - j < N
  BY NAssumption
<1> QED BY <1>1, <1>2, NAssumption

LEMMA SlotTurn ==
    ASSUME NEW k \in Nat
    PROVE  Slot(k + N) = Slot(k)
<1>1. k = N * (k \div N) + (k % N) /\ k % N \in 0..(N - 1) /\ k \div N \in Nat
  BY NAssumption, DivMod
<1> DEFINE q == k \div N
           r == k % N
<1> HIDE DEF q, r
<1>2. k + N = N * (q + 1) + r /\ q + 1 \in Nat /\ r \in 0..(N - 1)
  BY <1>1, NAssumption, Z3 DEF q, r
<1>3. (k + N) % N = r
  BY <1>2, NAssumption, ModUnique
<1>4. k + N \in Nat
  BY NAssumption
<1> QED BY <1>3, <1>4, SlotMod DEF r

-------------------------------------------------------------------------------
(* The inductive invariant.                                                *)

LEMMA Bounds ==
    ASSUME IInv
    PROVE  /\ Front \in Nat /\ serve <= Front /\ Front <= next
           /\ next \in Nat /\ serve \in Nat
           /\ next <= serve + N /\ next <= Front + N
           /\ Fetching # {} => next < Front + N /\ next < serve + N
           /\ IsFiniteSet(Fetching) /\ Cardinality(Fetching) \in Nat
           /\ Pending \in Nat
           /\ Held \subseteq Front..(next - 1)
<1> USE DEF IInv
<1>1. IsFiniteSet(Fetching)
  BY ThreadsAssumption, FS_Subset DEF Fetching
<1>2. Cardinality(Fetching) \in Nat
  BY <1>1, FS_CardinalityType
<1>3. Fetching # {} => Cardinality(Fetching) # 0
  BY <1>1, FS_EmptySet
<1>4. Pending \in Nat /\ Front \in Nat
  BY DEF TypeOK, Pending, Front
<1>5. Held \subseteq Front..(next - 1)
  BY DEF Held, Tickets
<1>6. serve <= Front /\ Front <= next
  BY DEF Accounts
<1>7. available \in Nat /\ next \in Nat /\ serve \in Nat
      /\ available + Cardinality(Fetching) + (next - serve) + Pending = N
  BY DEF TypeOK, Accounts
<1>8. next <= serve + N /\ (Cardinality(Fetching) # 0 => next < serve + N)
  BY <1>2, <1>4, <1>7, NAssumption
<1>9. next <= Front + N /\ (Cardinality(Fetching) # 0 => next < Front + N)
  BY <1>4, <1>6, <1>7, <1>8, NAssumption
<1> QED BY <1>1, <1>2, <1>3, <1>4, <1>5, <1>6, <1>7, <1>8, <1>9

LEMMA InitIInv == Init => IInv
<1> SUFFICES ASSUME Init PROVE IInv
  OBVIOUS
<1> USE DEF Init
<1>1. TypeOK
  BY NAssumption, ThreadsAssumption DEF TypeOK, Index
<1>2. Fetching = {} /\ Held = {} /\ ~Writing /\ Pending = 0 /\ Front = 0
  BY DEF Fetching, Held, Holding, Writing, Pending, Front
<1>3. Accounts
  BY <1>2, FS_EmptySet, NAssumption DEF Accounts
<1>4. Disk
  BY ThreadsAssumption DEF Disk, InDisk
<1>5. Tickets
  BY DEF Tickets, Holding
<1>6. Slots
  <2>1. \A k \in 0..(N - 1) : flag[Slot(k)] = 0
    BY SlotMod, NAssumption
  <2> QED BY <1>2, <2>1, NAssumption DEF Slots
<1> QED BY <1>1, <1>3, <1>4, <1>5, <1>6 DEF IInv

\* Steps of one thread that touch neither the ring nor its locals, and neither
\* enter nor leave a place the invariant speaks of.
LEMMA QuietStep ==
    ASSUME IInv, TypeOK', NEW t \in Threads,
           \A u \in Threads \ {t} : pc'[u] = pc[u] /\ nested'[u] = nested[u],
           UNCHANGED <<available, next, serve, writer, flag, buf, ticket, serving,
                       count, posts>>,
           pc[t] \notin {"fetch", "format", "publish", "write", "post"},
           pc'[t] \notin {"fetch", "format", "publish", "write", "post"},
           InDisk(t)' = InDisk(t),
           nested'[t] => pc'[t] \in {"open", "wait", "try"}
    PROVE  IInv'
<1> USE DEF IInv
<1>1. Front' = Front /\ Pending' = Pending
  BY DEF Front, Pending
<1>2. Fetching' = Fetching /\ \A u \in Threads : Holding(u)' = Holding(u)
  BY DEF Fetching, Holding
<1>3. Held' = Held
  BY <1>2 DEF Held
<1>4. Writing' = Writing
  BY DEF Writing, TypeOK
<1>5. Accounts'
  BY <1>1, <1>2 DEF Accounts
<1>6. Disk'
  BY <1>1 DEF Disk, InDisk, Slot
<1>7. Tickets'
  BY <1>1, <1>2 DEF Tickets
<1>8. Slots'
  <2>1. \A u \in Threads : (pc[u] = "format") = (pc'[u] = "format")
    OBVIOUS
  <2> QED BY <1>1, <1>3, <1>4, <2>1 DEF Slots, Slot
<1> QED BY <1>5, <1>6, <1>7, <1>8

\* Calls, the tests of a_open, the shutdown, and the ends of the loops.
LEMMA QuietActions ==
    ASSUME IInv, NEW t \in Threads,
           \/ Call(t) \/ CheckOpen(t) \/ Shutdown(t) \/ Close(t)
           \/ LoadFirst(t) \/ Compare(t) \/ FinishShutdown(t)
           \/ TryWait(t) /\ available = 0
           \/ TryWrite(t) /\ writer # NoThread
           \/ TakeMessage(t) /\ flag[serving[t]] # 1
    PROVE  IInv'
<1> USE DEF IInv
<1>1. /\ UNCHANGED <<available, next, serve, writer, flag, buf, ticket, serving, count, posts>>
      /\ UNCHANGED <<has_file, file, lost>>
      /\ file_open' \in BOOLEAN /\ a_open' \in {0, 1}
  <2> USE DEF TypeOK, fileVars, ticketVars, slotVars, localVars
  <2>1. CASE Call(t) \/ Shutdown(t) \/ Close(t)
    BY <2>1 DEF Call, Shutdown, Close
  <2>2. CASE CheckOpen(t)
    BY <2>2 DEF CheckOpen
  <2>3. CASE LoadFirst(t) \/ Compare(t) \/ FinishShutdown(t)
    BY <2>3 DEF LoadFirst, Compare, FinishShutdown
  <2>4. CASE TryWait(t) /\ available = 0
    BY <2>4 DEF TryWait
  <2>5. CASE TryWrite(t) /\ writer # NoThread
    BY <2>5 DEF TryWrite
  <2>6. CASE TakeMessage(t) /\ flag[serving[t]] # 1
    BY <2>6 DEF TakeMessage
  <2> QED BY <2>1, <2>2, <2>3, <2>4, <2>5, <2>6
<1>2. \E to \in {"idle", "open", "wait", "try", "loop", "return", "close", "drain",
                "compare", "finish", "done"}, b \in BOOLEAN :
        /\ pc' = [pc EXCEPT ![t] = to]
        /\ nested' = [nested EXCEPT ![t] = b]
        /\ (to \in {"loop", "return"} \/ b) <=> InDisk(t)
        /\ b => to \in {"open", "wait", "try"}
  <2> USE DEF TypeOK, Goto, InDisk, Disk, localVars
  <2>1. CASE Call(t) \/ Shutdown(t)
    <3>1. pc' = [pc EXCEPT ![t] = "open"] /\ nested' = nested /\ ~nested[t] /\ pc[t] = "idle"
      BY <2>1 DEF Call, Shutdown
    <3> QED BY <3>1
  <2>2. CASE CheckOpen(t)
    <3>1. CASE a_open = 1
      BY <2>2, <3>1 DEF CheckOpen
    <3>2. CASE a_open # 1 /\ nested[t]
      BY <2>2, <3>2 DEF CheckOpen, AfterCall
    <3>3. CASE a_open # 1 /\ ~nested[t]
      BY <2>2, <3>3 DEF CheckOpen, AfterCall
    <3> QED BY <3>1, <3>2, <3>3
  <2>3. CASE Close(t) \/ LoadFirst(t) \/ FinishShutdown(t)
    <3>1. CASE Close(t)
      BY <3>1 DEF Close
    <3>2. CASE LoadFirst(t)
      BY <3>2 DEF LoadFirst
    <3>3. CASE FinishShutdown(t)
      BY <3>3 DEF FinishShutdown
    <3> QED BY <2>3, <3>1, <3>2, <3>3
  <2>4. CASE Compare(t)
    BY <2>4 DEF Compare
  <2>5. CASE TryWait(t) /\ available = 0
    BY <2>5 DEF TryWait
  <2>6. CASE TryWrite(t) /\ writer # NoThread
    <3>1. CASE nested[t]
      <4>1. pc[t] = "try" /\ pc' = [pc EXCEPT ![t] = "open"] /\ nested' = nested
        BY <2>6, <3>1 DEF TryWrite, Caller
      <4>2. nested' = [nested EXCEPT ![t] = TRUE]
        <5>1. \A u \in Threads : nested[u] = [nested EXCEPT ![t] = TRUE][u]
          BY <3>1
        <5> QED BY <4>1, <5>1
      <4>3. InDisk(t)
        BY <3>1
      <4> QED BY <4>1, <4>2, <4>3
    <3>2. CASE ~nested[t]
      BY <2>6, <3>2 DEF TryWrite, Caller
    <3> QED BY <3>1, <3>2
  <2>7. CASE TakeMessage(t) /\ flag[serving[t]] # 1
    BY <2>7 DEF TakeMessage
  <2> QED BY <2>1, <2>2, <2>3, <2>4, <2>5, <2>6, <2>7
<1>3. pc[t] \notin {"fetch", "format", "publish", "write", "post"}
  BY DEF Call, CheckOpen, Shutdown, Close, LoadFirst, Compare, FinishShutdown, TryWait,
         TryWrite, TakeMessage
<1>4. TypeOK'
  BY <1>1, <1>2 DEF TypeOK
<1>5. /\ \A u \in Threads \ {t} : pc'[u] = pc[u] /\ nested'[u] = nested[u]
      /\ pc'[t] \notin {"fetch", "format", "publish", "write", "post"}
      /\ InDisk(t)' = InDisk(t)
      /\ nested'[t] => pc'[t] \in {"open", "wait", "try"}
  BY <1>2 DEF TypeOK, InDisk
<1> QED BY <1>1, <1>3, <1>4, <1>5, QuietStep

LEMMA TryWaitStep ==
    ASSUME IInv, NEW t \in Threads, TryWait(t), available > 0
    PROVE  IInv'
<1> USE DEF IInv
<1>1. /\ available' = available - 1
      /\ pc[t] = "wait" /\ pc' = [pc EXCEPT ![t] = "fetch"]
      /\ UNCHANGED <<has_file, file_open, file, lost, a_open, next, serve, writer, flag, buf,
                     nested, ticket, serving, count, posts>>
  BY DEF TryWait, Goto, fileVars, slotVars, localVars
<1>2. TypeOK'
  BY <1>1 DEF TypeOK
<1>3. Front' = Front /\ Pending' = Pending
  BY <1>1 DEF Front, Pending
<1>4. Fetching' = Fetching \cup {t} /\ t \notin Fetching
  BY <1>1 DEF Fetching, TypeOK
<1>5. \A u \in Threads : Holding(u)' = Holding(u)
  BY <1>1 DEF Holding, TypeOK
<1>6. Held' = Held /\ Writing' = Writing
  BY <1>1, <1>5 DEF Held, Writing, TypeOK
<1>7. Accounts'
  <2>1. Cardinality(Fetching') = Cardinality(Fetching) + 1
    BY <1>4, Bounds, FS_AddElement
  <2>2. /\ Cardinality(Fetching) \in Nat /\ Pending \in Nat /\ Front \in Nat
        /\ next \in Nat /\ serve \in Nat
    BY Bounds
  <2> QED BY <1>1, <1>3, <2>1, <2>2 DEF Accounts, TypeOK
<1>8. Disk'
  BY <1>1, <1>3 DEF Disk, InDisk, Slot, TypeOK
<1>9. Tickets'
  BY <1>1, <1>3, <1>5 DEF Tickets
<1>10. Slots'
  BY <1>1, <1>3, <1>6 DEF Slots, Slot, TypeOK
<1> QED BY <1>2, <1>7, <1>8, <1>9, <1>10

LEMMA FetchTicketStep ==
    ASSUME IInv, NEW t \in Threads, FetchTicket(t)
    PROVE  /\ IInv'
           /\ Front' = Front /\ next < Front + N /\ Held' = Held \cup {next}
<1> USE DEF IInv
<1>1. /\ ticket' = [ticket EXCEPT ![t] = next] /\ next' = next + 1
      /\ pc[t] = "fetch" /\ pc' = [pc EXCEPT ![t] = "format"]
      /\ UNCHANGED <<has_file, file_open, file, lost, a_open, available, serve, writer, flag,
                     buf, nested, serving, count, posts>>
  BY DEF FetchTicket, Goto, fileVars, slotVars
<1>2. TypeOK'
  BY <1>1 DEF TypeOK
<1>3. Front' = Front /\ Pending' = Pending
  BY <1>1 DEF Front, Pending
<1>4. Fetching' = Fetching \ {t} /\ t \in Fetching
  BY <1>1 DEF Fetching, TypeOK
<1>5. Front \in Nat /\ next \in Nat /\ Front <= next /\ next < Front + N
  BY <1>4, Bounds
<1>6. /\ Holding(t)' /\ ~Holding(t) /\ ticket'[t] = next
      /\ \A u \in Threads \ {t} : Holding(u)' = Holding(u) /\ ticket'[u] = ticket[u]
  BY <1>1 DEF Holding, TypeOK
<1>7. Held' = Held \cup {next}
  BY <1>6 DEF Held
<1>8. Writing' = Writing
  BY <1>1 DEF Writing, TypeOK
<1>9. Accounts'
  <2>1. Cardinality(Fetching') = Cardinality(Fetching) - 1
    BY <1>4, Bounds, FS_RemoveElement
  <2> QED BY SMTT(30), <1>1, <1>3, <1>5, <2>1, Bounds DEF Accounts, TypeOK
<1>10. Disk'
  BY <1>1, <1>3 DEF Disk, InDisk, Slot, TypeOK
<1>11. Tickets'
  <2>1. \A u \in Threads : Holding(u) => ticket[u] # next /\ ticket[u] \in Front..next
    BY <1>5 DEF Tickets, TypeOK
  <2>2. \A u \in Threads : Holding(u)' => ticket'[u] \in Front'..(next' - 1)
    BY <1>1, <1>3, <1>5, <1>6, <2>1
  <2> QED BY <1>6, <2>1, <2>2 DEF Tickets
<1>12. Slots'
  <2>1. \A k \in Front..(Front + N - 1) :
          (k < next /\ k \notin Held) <=> (k < next' /\ k \notin Held')
    BY <1>1, <1>5, <1>7
  <2>2. \A k \in Front'..(next' - 1) :
          buf'[Slot(k)] = k \/ \E u \in Threads : pc'[u] = "format" /\ ticket'[u] = k
    <3> SUFFICES ASSUME NEW k \in Front..next, k # next
                 PROVE  buf[Slot(k)] = k \/ \E u \in Threads : pc'[u] = "format" /\ ticket'[u] = k
      BY <1>1, <1>3, <1>5, <1>6 DEF TypeOK
    <3>1. k \in Front..(next - 1)
      BY <1>5
    <3> QED BY <1>1, <1>6, <3>1 DEF Slots, TypeOK
  <2>3. Writing' => Front' < next' /\ Front' \notin Held'
    BY <1>1, <1>3, <1>5, <1>7, <1>8 DEF Slots
  <2> QED BY <1>1, <1>3, <1>8, <2>1, <2>2, <2>3 DEF Slots, Slot
<1> QED BY <1>2, <1>3, <1>5, <1>7, <1>9, <1>10, <1>11, <1>12

LEMMA FormatStep ==
    ASSUME IInv, NEW t \in Threads, Format(t)
    PROVE  IInv'
<1> USE DEF IInv
<1> DEFINE m == ticket[t]
<1>1. /\ buf' = [buf EXCEPT ![Slot(m)] = m]
      /\ pc[t] = "format" /\ pc' = [pc EXCEPT ![t] = "publish"]
      /\ UNCHANGED <<has_file, file_open, file, lost, a_open, available, next, serve, writer,
                     flag, nested, ticket, serving, count, posts>>
  BY DEF Format, Goto, fileVars, ticketVars, localVars
<1>2. m \in Nat /\ Slot(m) \in Index
  BY SlotMod DEF TypeOK
<1>3. TypeOK'
  BY <1>1, <1>2 DEF TypeOK
<1>4. Front' = Front /\ Pending' = Pending /\ Fetching' = Fetching
  BY <1>1 DEF Front, Pending, Fetching, TypeOK
<1>5. \A u \in Threads : Holding(u)' = Holding(u)
  BY <1>1 DEF Holding, TypeOK
<1>6. Held' = Held /\ Writing' = Writing
  BY <1>1, <1>5 DEF Held, Writing, TypeOK
<1>7. Accounts'
  BY <1>1, <1>4 DEF Accounts
<1>8. Disk'
  BY <1>1, <1>4 DEF Disk, InDisk, Slot, TypeOK
<1>9. Tickets'
  BY <1>1, <1>4, <1>5 DEF Tickets
<1>10. Slots'
  <2>1. \A k \in Front..(next - 1) :
          buf'[Slot(k)] = k \/ \E u \in Threads : pc'[u] = "format" /\ ticket[u] = k
    <3> SUFFICES ASSUME NEW k \in Front..(next - 1)
                 PROVE  buf'[Slot(k)] = k \/ \E u \in Threads : pc'[u] = "format" /\ ticket[u] = k
      OBVIOUS
    <3>1. CASE k = m
      BY <1>1, <1>2, <3>1 DEF TypeOK
    <3>2. CASE k # m
      <4>1. /\ m \in Front..(Front + N - 1) /\ k \in Front..(Front + N - 1)
            /\ Front \in Nat /\ k \in Nat
        <5>1. m \in Front..(next - 1)
          BY <1>1 DEF Tickets, Holding
        <5> QED BY <5>1, Bounds, NAssumption
      <4>2. Slot(k) # Slot(m) /\ Slot(k) \in Index
        BY <3>2, <4>1, SlotApart, SlotMod
      <4>3. buf'[Slot(k)] = buf[Slot(k)]
        BY <1>1, <1>2, <4>2 DEF TypeOK
      <4> QED BY <1>1, <3>2, <4>3 DEF Slots, TypeOK
    <3> QED BY <3>1, <3>2
  <2> QED BY <1>1, <1>4, <1>6, <2>1 DEF Slots, Slot
<1> QED BY <1>3, <1>7, <1>8, <1>9, <1>10

LEMMA PublishStep ==
    ASSUME IInv, NEW t \in Threads, Publish(t)
    PROVE  /\ IInv'
           /\ Front' = Front /\ Held' = Held \ {ticket[t]} /\ ticket[t] \in Held
<1> USE DEF IInv
<1> DEFINE m == ticket[t]
<1>1. /\ flag' = [flag EXCEPT ![Slot(m)] = 1] /\ pc[t] = "publish"
      /\ pc' = [pc EXCEPT ![t] = pc'[t]] /\ pc'[t] \in {"loop", "close", "idle"}
      /\ pc'[t] = "loop" <=> nested[t]
      /\ nested' = [nested EXCEPT ![t] = FALSE]
      /\ UNCHANGED <<has_file, file_open, file, lost, a_open, available, next, serve, writer,
                     buf, ticket, serving, count, posts>>
  BY DEF Publish, AfterCall, Goto, fileVars, ticketVars, TypeOK
<1>2. m \in Nat /\ Slot(m) \in Index
  BY SlotMod DEF TypeOK
<1>3. TypeOK'
  BY <1>1, <1>2 DEF TypeOK
<1>4. Front' = Front /\ Pending' = Pending /\ Fetching' = Fetching
  BY <1>1 DEF Front, Pending, Fetching, TypeOK
<1>5. /\ Holding(t) /\ ~Holding(t)'
      /\ \A u \in Threads \ {t} : Holding(u)' = Holding(u)
  BY <1>1 DEF Holding, TypeOK
<1>6. m \in Held /\ Held' = Held \ {m}
  BY <1>1, <1>5 DEF Held, Tickets
<1>7. Writing' = Writing
  BY <1>1 DEF Writing, TypeOK
<1>8. Accounts'
  BY <1>1, <1>4 DEF Accounts
<1>9. Disk'
  BY <1>1, <1>4 DEF Disk, InDisk, Slot, TypeOK
<1>10. Tickets'
  BY <1>1, <1>4, <1>5 DEF Tickets
<1>11. m \in Front..(next - 1) /\ Front \in Nat /\ m \in Front..(Front + N - 1) /\ m < next
  <2>1. m \in Front..(next - 1)
    BY <1>6, Bounds
  <2> QED BY <2>1, Bounds, NAssumption
<1>12. Slots'
  <2>1. ASSUME NEW k \in Front..(Front + N - 1)
        PROVE  flag'[Slot(k)] = 1 <=> k < next /\ k \notin Held' /\ ~(Writing /\ k = Front)
    <3>1. Slot(k) \in Index
      BY <1>11, SlotMod, NAssumption
    <3>2. CASE k = m
      <4>1. ~(Writing /\ m = Front)
        BY <1>6 DEF Slots
      <4>2. flag'[Slot(m)] = 1
        BY <1>1, <1>2 DEF TypeOK
      <4> QED BY <1>6, <1>11, <3>2, <4>1, <4>2
    <3>3. CASE k # m
      <4>1. Slot(k) # Slot(m)
        BY <1>11, <3>3, SlotApart
      <4>2. flag'[Slot(k)] = flag[Slot(k)]
        BY <1>1, <1>2, <3>1, <4>1 DEF TypeOK
      <4> QED BY <1>6, <3>3, <4>2 DEF Slots
    <3> QED BY <3>2, <3>3
  <2>2. \A k \in Front..(next - 1) :
          buf[Slot(k)] = k \/ \E u \in Threads : pc'[u] = "format" /\ ticket[u] = k
    BY <1>1 DEF Slots, TypeOK
  <2> QED BY <1>1, <1>4, <1>6, <1>7, <2>1, <2>2 DEF Slots, Slot
<1> QED BY <1>3, <1>4, <1>6, <1>8, <1>9, <1>10, <1>12

LEMMA TryWriteStep ==
    ASSUME IInv, NEW t \in Threads, TryWrite(t), writer = NoThread
    PROVE  IInv' /\ Front' = Front
<1> USE DEF IInv
<1>1. /\ writer' = t /\ pc[t] = "try" /\ pc' = [pc EXCEPT ![t] = "loop"]
      /\ serving' = [serving EXCEPT ![t] = Slot(serve)]
      /\ count' = [count EXCEPT ![t] = 0]
      /\ UNCHANGED <<has_file, file_open, file, lost, a_open, available, next, serve, flag, buf,
                     nested, ticket, posts>>
  BY DEF TryWrite, Goto, Slot, a_serve, fileVars, ticketVars, slotVars
<1>2. /\ ~InDisk(t) /\ ~nested[t] /\ posts[t] = 0
      /\ \A u \in Threads : ~InDisk(u)
  BY <1>1, ThreadsAssumption DEF Disk, InDisk
<1>3. Front = serve /\ Front' = serve /\ Pending' = Pending /\ t # NoThread
  BY <1>1, <1>2, ThreadsAssumption DEF Front, Pending, TypeOK
<1>4. Slot(serve) \in Index
  BY SlotMod DEF TypeOK
<1>5. TypeOK'
  BY <1>1, <1>4 DEF TypeOK
<1>6. Fetching' = Fetching /\ \A u \in Threads : Holding(u)' = Holding(u)
  BY <1>1 DEF Fetching, Holding, TypeOK
<1>7. Held' = Held /\ ~Writing /\ ~Writing'
  BY <1>1, <1>6 DEF Held, Writing, TypeOK
<1>8. Accounts'
  BY <1>1, <1>3, <1>6 DEF Accounts
<1>9. Disk'
  BY <1>1, <1>2, <1>3 DEF Disk, InDisk, Slot, TypeOK
<1>10. Tickets'
  BY <1>1, <1>3, <1>6 DEF Tickets
<1>11. Slots'
  <2>1. \A u \in Threads : pc'[u] = "format" <=> pc[u] = "format"
    BY <1>1 DEF TypeOK
  <2> QED BY <1>1, <1>3, <1>7, <2>1 DEF Slots, Slot
<1> QED BY <1>3, <1>5, <1>8, <1>9, <1>10, <1>11

LEMMA TakeMessageStep ==
    ASSUME IInv, NEW t \in Threads, TakeMessage(t), flag[serving[t]] = 1
    PROVE  IInv'
<1> USE DEF IInv
<1>1. /\ flag' = [flag EXCEPT ![serving[t]] = 0]
      /\ pc[t] = "loop" /\ pc' = [pc EXCEPT ![t] = "write"]
      /\ UNCHANGED <<has_file, file_open, file, lost, a_open, available, next, serve, writer, buf,
                     nested, ticket, serving, count, posts>>
  BY DEF TakeMessage, Goto, fileVars, ticketVars, localVars
<1>2. writer = t /\ t # NoThread /\ serving[t] = Slot(Front) /\ ~nested[t]
  BY <1>1, ThreadsAssumption DEF Disk, InDisk
<1>3. Front \in Nat /\ Slot(Front) \in Index /\ Front \in Front..(Front + N - 1)
  BY Bounds, SlotMod, NAssumption
<1>4. ~Writing /\ Front < next /\ Front \notin Held
  BY <1>1, <1>2, <1>3 DEF Writing, Slots
<1>5. TypeOK'
  BY <1>1 DEF TypeOK
<1>6. Front' = Front /\ Pending' = Pending /\ Fetching' = Fetching
  BY <1>1 DEF Front, Pending, Fetching, TypeOK
<1>7. \A u \in Threads : Holding(u)' = Holding(u)
  BY <1>1 DEF Holding, TypeOK
<1>8. Held' = Held
  BY <1>1, <1>7 DEF Held
<1>9. Writing'
  BY <1>1, <1>2 DEF Writing, TypeOK
<1>10. Accounts'
  BY <1>1, <1>6 DEF Accounts
<1>11. Disk'
  BY <1>1, <1>2, <1>6 DEF Disk, InDisk, Slot, TypeOK
<1>12. Tickets'
  BY <1>1, <1>6, <1>7 DEF Tickets
<1>13. Slots'
  <2>1. ASSUME NEW k \in Front..(Front + N - 1)
        PROVE  flag'[Slot(k)] = 1 <=> k < next /\ k \notin Held /\ k # Front
    <3>1. Slot(k) \in Index
      BY <1>3, SlotMod, NAssumption
    <3>2. CASE k = Front
      BY <1>1, <1>2, <1>3, <3>2 DEF TypeOK
    <3>3. CASE k # Front
      <4>1. Slot(k) # Slot(Front)
        BY <1>3, <3>3, SlotApart
      <4>2. flag'[Slot(k)] = flag[Slot(k)]
        BY <1>1, <1>2, <1>3, <3>1, <4>1 DEF TypeOK
      <4> QED BY <1>4, <3>3, <4>2 DEF Slots
    <3> QED BY <3>2, <3>3
  <2>2. \A u \in Threads : pc'[u] = "format" <=> pc[u] = "format"
    BY <1>1 DEF TypeOK
  <2> QED BY <1>1, <1>4, <1>6, <1>8, <1>9, <2>1, <2>2 DEF Slots, Slot
<1> QED BY <1>5, <1>10, <1>11, <1>12, <1>13

\* The writer is done with a message: written, failed or nothing to write.
LEMMA AdvanceStep ==
    ASSUME IInv, NEW t \in Threads, SkipWrite(t) \/ WriteMessage(t) \/ FailWrite(t)
    PROVE  /\ IInv'
           /\ Front \in Front..(next - 1) \ Held /\ Front' = Front + 1 /\ Held' = Held
           /\ buf[serving[t]] = Front
<1> USE DEF IInv
<1>1. /\ pc[t] = "write" /\ Advance(t)
      /\ \/ pc' = [pc EXCEPT ![t] = "loop"] /\ nested' = nested
         \/ pc' = [pc EXCEPT ![t] = "open"] /\ nested' = [nested EXCEPT ![t] = TRUE]
      /\ UNCHANGED <<has_file, file_open, a_open, available, next, serve, writer, flag, buf,
                     ticket, posts>>
  BY DEF SkipWrite, WriteMessage, FailWrite, Goto, fileVars, ticketVars, slotVars
<1>2. /\ serving' = [serving EXCEPT ![t] = (serving[t] + 1) % N]
      /\ count' = [count EXCEPT ![t] = count[t] + 1]
  BY <1>1 DEF Advance
<1>3. /\ writer = t /\ t # NoThread /\ serving[t] = Slot(Front) /\ ~nested[t] /\ Writing
      /\ posts[t] = 0
  BY <1>1, ThreadsAssumption DEF Disk, InDisk, Writing
<1>4. Front \in Nat /\ next \in Nat /\ Front < next /\ Front \notin Held /\ Slot(Front) \in Index
  BY <1>3, Bounds, SlotMod DEF Slots
<1>5. buf[serving[t]] = Front
  <2>1. Front \in Front..(next - 1)
    BY <1>4
  <2>2. \A u \in Threads : pc[u] = "format" => ticket[u] # Front
    BY <1>4 DEF Held, Holding
  <2> QED BY <1>3, <2>1, <2>2 DEF Slots
<1>6. serving'[t] = Slot(Front + 1) /\ serving'[t] \in Index
  BY <1>2, <1>3, <1>4, SlotNext, SlotMod DEF TypeOK
<1>7. Front' = Front + 1 /\ Pending' = Pending
  BY <1>1, <1>2, <1>3 DEF Front, Pending, TypeOK
<1>8. file' \in Seq(Nat) /\ lost' \subseteq Nat
  <2>1. CASE SkipWrite(t)
    BY <2>1 DEF SkipWrite, fileVars, TypeOK
  <2>2. CASE WriteMessage(t)
    BY <1>4, <1>5, <2>2 DEF WriteMessage, TypeOK
  <2>3. CASE FailWrite(t)
    BY <1>4, <1>5, <2>3 DEF FailWrite, TypeOK
  <2> QED BY <2>1, <2>2, <2>3
<1>9. TypeOK'
  <2>1. pc' \in [Threads -> {"idle", "open", "wait", "fetch", "format", "publish",
                             "try", "loop", "write", "return", "post",
                             "close", "drain", "compare", "finish", "done"}]
        /\ nested' \in [Threads -> BOOLEAN]
    BY <1>1 DEF TypeOK
  <2>2. serving' \in [Threads -> Index] /\ count' \in [Threads -> Nat]
    <3>1. (serving[t] + 1) % N \in Index /\ count[t] + 1 \in Nat
      BY <1>2, <1>6 DEF TypeOK
    <3> QED BY <1>2, <3>1 DEF TypeOK
  <2> QED BY <1>1, <1>8, <2>1, <2>2 DEF TypeOK
<1>10. Fetching' = Fetching /\ \A u \in Threads : Holding(u)' = Holding(u)
  BY <1>1 DEF Fetching, Holding, TypeOK
<1>11. Held' = Held /\ ~Writing'
  BY <1>1, <1>3, <1>10 DEF Held, Writing, TypeOK
<1>12. Accounts'
  BY <1>1, <1>4, <1>7, <1>10, Bounds DEF Accounts
<1>13. Disk'
  <2>1. ASSUME NEW u \in Threads \ {t} PROVE Disk!(u)'
    <3>1. writer # u /\ ~InDisk(u) /\ ~InDisk(u)'
      BY <1>1, <1>3 DEF Disk, InDisk, TypeOK
    <3> QED BY <1>1, <1>2, <3>1 DEF Disk, TypeOK
  <2>2. Disk!(t)'
    BY <1>1, <1>2, <1>3, <1>6, <1>7 DEF Disk, InDisk, Slot, TypeOK
  <2> QED BY <2>1, <2>2 DEF Disk
<1>14. Tickets'
  <2>1. \A u \in Threads : Holding(u) => ticket[u] \in (Front + 1)..(next - 1)
    BY <1>4 DEF Tickets, Held, TypeOK
  <2> QED BY <1>1, <1>7, <1>10, <2>1 DEF Tickets
<1>15. Slots'
  <2>1. ASSUME NEW k \in (Front + 1)..(Front + N)
        PROVE  flag[Slot(k)] = 1 <=> k < next /\ k \notin Held
    <3>1. CASE k = Front + N
      <4>1. Slot(k) = Slot(Front)
        BY <1>4, <3>1, SlotTurn
      <4>2. Front \in Front..(Front + N - 1)
        BY <1>4, NAssumption
      <4>3. flag[Slot(k)] # 1
        BY <1>3, <4>1, <4>2 DEF Slots
      <4>4. ~(k < next)
        BY <3>1, <1>4, Bounds, NAssumption
      <4> QED BY <4>3, <4>4
    <3>2. CASE k # Front + N
      <4>1. k \in Front..(Front + N - 1) /\ k # Front
        BY <1>4, <3>2, NAssumption
      <4> QED BY <4>1 DEF Slots
    <3> QED BY <3>1, <3>2
  <2>2. \A u \in Threads : pc'[u] = "format" <=> pc[u] = "format"
    BY <1>1 DEF TypeOK
  <2>3. \A k \in (Front + 1)..(next - 1) :
          buf[Slot(k)] = k \/ \E u \in Threads : pc'[u] = "format" /\ ticket[u] = k
    <3>1. \A k \in (Front + 1)..(next - 1) : k \in Front..(next - 1)
      BY <1>4
    <3> QED BY <2>2, <3>1 DEF Slots
  <2>4. Front' + N - 1 = Front + N
    BY <1>4, <1>7, NAssumption
  <2> QED BY <1>1, <1>7, <1>11, <2>1, <2>3, <2>4 DEF Slots, Slot
<1> QED BY <1>4, <1>5, <1>7, <1>9, <1>11, <1>12, <1>13, <1>14, <1>15

LEMMA ReturnTicketsStep ==
    ASSUME IInv, NEW t \in Threads, ReturnTickets(t)
    PROVE  IInv' /\ Front' = Front
<1> USE DEF IInv
<1>1. /\ serve' = serve + count[t]
      /\ posts' = [posts EXCEPT ![t] = count[t]] /\ count' = [count EXCEPT ![t] = 0]
      /\ pc[t] = "return" /\ pc' = [pc EXCEPT ![t] = "post"]
      /\ UNCHANGED <<has_file, file_open, file, lost, a_open, available, next, writer, flag, buf,
                     nested, ticket, serving>>
  BY DEF ReturnTickets, Goto, fileVars, slotVars
<1>2. writer = t /\ t # NoThread /\ posts[t] = 0 /\ ~nested[t]
  BY <1>1, ThreadsAssumption DEF Disk, InDisk
<1>3. TypeOK'
  BY <1>1 DEF TypeOK
<1>4. /\ Front' = Front /\ Front = serve + count[t]
      /\ Pending = 0 /\ Pending' = count[t]
  BY <1>1, <1>2 DEF Front, Pending, TypeOK
<1>5. Fetching' = Fetching /\ \A u \in Threads : Holding(u)' = Holding(u)
  BY <1>1 DEF Fetching, Holding, TypeOK
<1>6. Held' = Held /\ ~Writing /\ ~Writing'
  BY <1>1, <1>2, <1>5 DEF Held, Writing, TypeOK
<1>7. Accounts'
  <2>1. /\ Cardinality(Fetching) \in Nat /\ next \in Nat /\ serve \in Nat
        /\ count[t] \in Nat /\ available \in Nat
    BY Bounds DEF TypeOK
  <2> QED BY <1>1, <1>4, <1>5, <2>1 DEF Accounts
<1>8. Disk'
  BY <1>1, <1>2, <1>4 DEF Disk, InDisk, Slot, TypeOK
<1>9. Tickets'
  BY <1>1, <1>4, <1>5 DEF Tickets
<1>10. Slots'
  <2>1. \A u \in Threads : pc'[u] = "format" <=> pc[u] = "format"
    BY <1>1 DEF TypeOK
  <2> QED BY <1>1, <1>4, <1>6, <2>1 DEF Slots, Slot
<1> QED BY <1>3, <1>4, <1>7, <1>8, <1>9, <1>10

LEMMA PostStep ==
    ASSUME IInv, NEW t \in Threads, Post(t)
    PROVE  IInv'
<1> USE DEF IInv
<1>1. /\ posts[t] > 0 /\ available' = available + 1
      /\ posts' = [posts EXCEPT ![t] = posts[t] - 1] /\ pc[t] = "post"
      /\ UNCHANGED <<has_file, file_open, file, lost, a_open, next, serve, writer, flag, buf,
                     pc, nested, ticket, serving, count>>
  BY DEF Post, fileVars, slotVars
<1>2. writer = t /\ t # NoThread
  BY <1>1, ThreadsAssumption DEF Disk, InDisk
<1>3. TypeOK'
  BY <1>1 DEF TypeOK
<1>4. Front' = Front /\ Pending = posts[t] /\ Pending' = posts[t] - 1
  BY <1>1, <1>2 DEF Front, Pending, TypeOK
<1>5. /\ Fetching' = Fetching /\ Held' = Held /\ Writing' = Writing
      /\ \A u \in Threads : Holding(u)' = Holding(u)
  BY <1>1 DEF Fetching, Held, Writing, Holding
<1>6. Accounts'
  <2>1. /\ Cardinality(Fetching) \in Nat /\ next \in Nat /\ serve \in Nat
        /\ posts[t] \in Nat /\ available \in Nat
    BY Bounds DEF TypeOK
  <2> QED BY <1>1, <1>4, <1>5, <2>1 DEF Accounts
<1>7. Disk'
  BY <1>1, <1>4 DEF Disk, InDisk, Slot, TypeOK
<1>8. Tickets'
  BY <1>1, <1>4, <1>5 DEF Tickets
<1>9. Slots'
  BY <1>1, <1>4, <1>5 DEF Slots, Slot
<1> QED BY <1>3, <1>6, <1>7, <1>8, <1>9

LEMMA ReleaseStep ==
    ASSUME IInv, NEW t \in Threads, Release(t)
    PROVE  IInv' /\ Front' = Front
<1> USE DEF IInv
<1>1. /\ posts[t] = 0 /\ writer' = NoThread /\ pc[t] = "post"
      /\ \/ pc' = [pc EXCEPT ![t] = "drain"]
         \/ pc' = [pc EXCEPT ![t] = "open"]
      /\ UNCHANGED <<has_file, file_open, file, lost, a_open, available, next, serve, flag, buf,
                     nested, ticket, serving, count, posts>>
  BY DEF Release, Caller, Goto, fileVars, ticketVars, slotVars, localVars
<1>2. writer = t /\ t # NoThread /\ ~nested[t] /\ count[t] = 0
  BY <1>1, ThreadsAssumption DEF Disk, InDisk
<1>3. TypeOK'
  BY <1>1 DEF TypeOK
<1>4. Front' = Front /\ Pending = 0 /\ Pending' = 0
  BY <1>1, <1>2 DEF Front, Pending, TypeOK
<1>5. Fetching' = Fetching /\ \A u \in Threads : Holding(u)' = Holding(u)
  BY <1>1 DEF Fetching, Holding, TypeOK
<1>6. Held' = Held /\ ~Writing /\ ~Writing'
  BY <1>1, <1>2, <1>5 DEF Held, Writing
<1>7. Accounts'
  BY <1>1, <1>4, <1>5 DEF Accounts
<1>8. Disk'
  BY <1>1, <1>2, <1>4, ThreadsAssumption DEF Disk, InDisk, TypeOK
<1>9. Tickets'
  BY <1>1, <1>4, <1>5 DEF Tickets
<1>10. Slots'
  <2>1. \A u \in Threads : pc'[u] = "format" <=> pc[u] = "format"
    BY <1>1 DEF TypeOK
  <2> QED BY <1>1, <1>4, <1>6, <2>1 DEF Slots, Slot
<1> QED BY <1>3, <1>4, <1>7, <1>8, <1>9, <1>10

\* A step that leaves every variable the invariant reads.
LEMMA StutterStep ==
    ASSUME IInv,
           UNCHANGED <<has_file, file_open, file, lost, a_open, available, next, serve, writer,
                       flag, buf, pc, nested, ticket, serving, count, posts>>
    PROVE  IInv'
<1> USE DEF IInv
<1>1. /\ Front' = Front /\ Pending' = Pending /\ Fetching' = Fetching
      /\ Held' = Held /\ Writing' = Writing
      /\ \A u \in Threads : Holding(u)' = Holding(u)
  BY DEF Front, Pending, Fetching, Held, Writing, Holding
<1>2. TypeOK'
  BY DEF TypeOK
<1>3. Accounts' /\ Tickets' /\ Slots'
  BY <1>1 DEF Accounts, Tickets, Slots, Slot
<1>4. Disk'
  BY <1>1 DEF Disk, InDisk, Slot
<1> QED BY <1>2, <1>3, <1>4

LEMMA NextIInv ==
    ASSUME IInv, [Next]_vars
    PROVE  IInv'
<1>1. CASE UNCHANGED vars
  BY <1>1, StutterStep DEF vars
<1>2. CASE Exit
  BY <1>2, StutterStep DEF Exit, fileVars, ticketVars, slotVars, localVars
<1>3. ASSUME NEW t \in Threads, Work(t) \/ Call(t) \/ Shutdown(t) PROVE IInv'
  <2>1. CASE TryWait(t)
    <3>1. available = 0 \/ available > 0
      BY DEF IInv, TypeOK
    <3> QED BY <2>1, <3>1, QuietActions, TryWaitStep
  <2>2. CASE TryWrite(t)
    BY <2>2, QuietActions, TryWriteStep
  <2>3. CASE TakeMessage(t)
    BY <2>3, QuietActions, TakeMessageStep
  <2> QED BY <1>3, <2>1, <2>2, <2>3, QuietActions, FetchTicketStep, FormatStep, PublishStep,
             AdvanceStep, ReturnTicketsStep, PostStep, ReleaseStep DEF Work
<1> QED BY <1>1, <1>2, <1>3 DEF Next

\* The ring is accounted for in every reachable state: at most one disk writer,
\* a unit of the semaphore for every free slot, and every slot marked and filled
\* for exactly one ticket.
THEOREM InvariantHolds == Spec => []IInv
<1> QED BY InitIInv, NextIInv, PTL DEF Spec

-------------------------------------------------------------------------------
(* What follows from the invariant.                                        *)

LEMMA ExclusiveFromIInv == IInv => SlotsExclusive
<1> SUFFICES ASSUME IInv, NEW t \in Threads, Holding(t) PROVE SlotsExclusive!(t)
  BY DEF SlotsExclusive
<1> USE DEF IInv
<1>1. \A u \in Threads : Holding(u) =>
        ticket[u] \in Held /\ ticket[u] \in Front..(Front + N - 1) /\ ticket[u] < next
  <2>1. \A u \in Threads : Holding(u) => ticket[u] \in Held
    BY DEF Held
  <2>2. Held \subseteq Front..(next - 1) /\ next <= Front + N /\ Front \in Nat /\ next \in Nat
    BY Bounds
  <2>3. \A k \in Held : k \in Front..(Front + N - 1) /\ k < next
    BY <2>2, NAssumption
  <2> QED BY <2>1, <2>3
<1>2. flag[Slot(ticket[t])] = 0
  <2>1. flag[Slot(ticket[t])] # 1
    BY <1>1 DEF Slots
  <2>2. Slot(ticket[t]) \in Index
    BY SlotMod DEF TypeOK
  <2> QED BY <2>1, <2>2 DEF TypeOK
<1>3. ASSUME NEW u \in Threads \ {t} PROVE Holding(u) => Slot(ticket[u]) # Slot(ticket[t])
  BY <1>1, Bounds, SlotApart DEF Tickets
<1>4. ASSUME NEW u \in Threads \ {t}, pc[u] = "write" PROVE serving[u] # Slot(ticket[t])
  <2>1. writer = u /\ u # NoThread /\ serving[u] = Slot(Front)
    BY <1>4, ThreadsAssumption DEF Disk, InDisk
  <2>2. Front \notin Held
    BY <1>4, <2>1 DEF Slots, Writing
  <2>3. Front \in Nat /\ Front \in Front..(Front + N - 1) /\ ticket[t] # Front
    BY <1>1, <2>2, Bounds, NAssumption
  <2> QED BY <1>1, <2>1, <2>3, SlotApart
<1> QED BY <1>2, <1>3, <1>4

LEMMA AssertionsFromIInv == IInv => AssertionsHold
<1> SUFFICES ASSUME IInv, NEW t \in Threads, pc[t] = "return" PROVE AssertionsHold!(t)
  BY DEF AssertionsHold
<1> USE DEF IInv
<1>1. writer = t /\ t # NoThread /\ count[t] \in Nat
  BY ThreadsAssumption DEF Disk, InDisk, TypeOK
<1>2. Front = serve + count[t]
  BY <1>1 DEF Front
<1>3. /\ serve \in Nat /\ next \in Nat /\ next - serve \in 0..N
      /\ count[t] <= next - serve
  <2>1. serve \in Nat /\ next \in Nat /\ next <= serve + N /\ Front <= next /\ serve <= Front
    BY Bounds
  <2> QED BY <1>1, <1>2, <2>1, NAssumption
<1>4. (a_next - a_serve) % Wrap = next - serve
  <2>1. next - serve \in 0..(Wrap - 1) /\ serve + (next - serve) = next
    BY <1>3, NAssumption, WrapAssumption
  <2>2. (((serve + (next - serve)) % Wrap) - (serve % Wrap)) % Wrap = next - serve
    BY <1>3, <2>1, WrapAssumption, ModDifference
  <2> QED BY <2>1, <2>2 DEF a_next, a_serve
<1> QED BY <1>1, <1>3, <1>4, NAssumption

\* No two threads ever format into one slot, and the disk writer never writes a
\* slot somebody formats, whatever the speed of the threads.
THEOREM SlotsStayExclusive == Spec => []SlotsExclusive
<1> QED BY InvariantHolds, ExclusiveFromIInv, PTL

\* The assertions of ticket_factory_return_tickets hold, wrapped counters or not.
THEOREM TicketAssertionsHold == Spec => []AssertionsHold
<1> QED BY InvariantHolds, AssertionsFromIInv, PTL

-------------------------------------------------------------------------------
(* The log implements LogFile.                                             *)

LEMMA InitRefines == Init => Ring!Init
<1> SUFFICES ASSUME Init PROVE Ring!Init
  OBVIOUS
<1>1. Front = 0 /\ Front..(next - 1) = {}
  BY DEF Init, Front
<1> QED BY <1>1 DEF Init, Ring!Init

LEMMA NextRefines ==
    ASSUME IInv, [Next]_vars
    PROVE  [Ring!Next]_(Ring!vars)
<1> DEFINE done == Front..(next - 1) \ Held
<1>1. IInv' /\ Front \in Nat /\ next \in Nat /\ Front <= next
  BY NextIInv, Bounds
<1>2. CASE UNCHANGED <<has_file, file, lost, next, Front, Held>>
  BY <1>2 DEF Ring!vars
<1>3. ASSUME NEW t \in Threads, FetchTicket(t) PROVE Ring!Take
  <2>1. Front' = Front /\ next < Front + N /\ Held' = Held \cup {next} /\ next' = next + 1
    BY <1>3, FetchTicketStep DEF FetchTicket
  <2>2. Held \subseteq Front..(next - 1)
    BY Bounds
  <2>3. done' = done
    <3>1. Front..(next' - 1) = Front..(next - 1) \cup {next}
      BY <1>1, <2>1
    <3> QED BY <2>1, <2>2, <3>1
  <2> QED BY <1>3, <2>1, <2>3 DEF FetchTicket, fileVars, Ring!Take
<1>4. ASSUME NEW t \in Threads, Publish(t) PROVE Ring!Next
  <2>1. Front' = Front /\ Held' = Held \ {ticket[t]} /\ ticket[t] \in Held
    BY <1>4, PublishStep
  <2>2. Held \subseteq Front..(next - 1)
    BY Bounds
  <2>3. UNCHANGED <<has_file, next, file, lost>>
    BY <1>4 DEF Publish, fileVars, ticketVars
  <2>4. done' = done \cup {ticket[t]} /\ ticket[t] \in Front..(next - 1) \ done
    BY <2>1, <2>2, <2>3
  <2>5. Ring!Finish(ticket[t])
    BY <2>1, <2>3, <2>4 DEF Ring!Finish
  <2> QED BY <2>4, <2>5 DEF Ring!Next
<1>5. ASSUME NEW t \in Threads, SkipWrite(t) \/ WriteMessage(t) \/ FailWrite(t)
      PROVE  Ring!Next
  <2>1. /\ Front \in done /\ Front' = Front + 1 /\ Held' = Held
        /\ buf[serving[t]] = Front
    BY <1>5, AdvanceStep
  <2>2. UNCHANGED <<has_file, next>>
    BY <1>5 DEF SkipWrite, WriteMessage, FailWrite, fileVars, ticketVars
  <2>3. done' = done \ {Front}
    BY <1>1, <2>1, <2>2
  <2>4. Ring!Leave
    BY <2>1, <2>2, <2>3 DEF Ring!Leave
  <2>5. CASE SkipWrite(t)
    BY <2>1, <2>4, <2>5 DEF SkipWrite, ToWrite, fileVars, Ring!Next, Ring!Skip
  <2>6. CASE WriteMessage(t)
    BY <2>1, <2>4, <2>6 DEF WriteMessage, ToWrite, Ring!Next, Ring!Save
  <2>7. CASE FailWrite(t)
    BY <2>1, <2>4, <2>7 DEF FailWrite, ToWrite, Ring!Next, Ring!Lose
  <2> QED BY <1>5, <2>5, <2>6, <2>7
<1>6. ASSUME NEW t \in Threads,
             \/ Call(t) \/ CheckOpen(t) \/ Shutdown(t) \/ Close(t) \/ LoadFirst(t)
             \/ Compare(t) \/ FinishShutdown(t) \/ TryWait(t) \/ Format(t) \/ TryWrite(t)
             \/ TakeMessage(t) \/ ReturnTickets(t) \/ Post(t) \/ Release(t)
      PROVE  UNCHANGED <<has_file, file, lost, next, Front, Held>>
  <2>1. UNCHANGED <<has_file, file, lost, next, ticket>>
    BY <1>6 DEF Call, CheckOpen, Shutdown, Close, LoadFirst, Compare, FinishShutdown, TryWait,
                Format, TryWrite, TakeMessage, ReturnTickets, Post, Release, fileVars,
                ticketVars, localVars
  <2>2. Front' = Front
    <3>1. CASE TryWrite(t) /\ writer = NoThread
      BY <3>1, TryWriteStep
    <3>2. CASE ReturnTickets(t) \/ Release(t)
      BY <3>2, ReturnTicketsStep, ReleaseStep
    <3>3. CASE ~ReturnTickets(t) /\ ~Release(t) /\ ~(TryWrite(t) /\ writer = NoThread)
      <4>1. UNCHANGED <<writer, serve, count>>
        BY <1>6, <3>3 DEF Call, CheckOpen, Shutdown, Close, LoadFirst, Compare, FinishShutdown,
                TryWait, Format, TryWrite, TakeMessage, Post, ticketVars, localVars
      <4> QED BY <4>1 DEF Front
    <3> QED BY <3>1, <3>2, <3>3
  <2>3. \A u \in Threads : Holding(u)' = Holding(u)
    BY <1>6 DEF IInv, TypeOK, Holding, Call, CheckOpen, AfterCall, Shutdown, Close, LoadFirst,
                Compare, FinishShutdown, TryWait, Format, TryWrite, Caller, TakeMessage,
                ReturnTickets, Post, Release, Goto
  <2> QED BY <2>1, <2>2, <2>3 DEF Held
<1>7. CASE UNCHANGED vars \/ Exit
  <2>1. UNCHANGED <<has_file, file, lost, next, serve, writer, count, ticket, pc>>
    BY <1>7 DEF vars, Exit, fileVars, ticketVars, localVars
  <2> QED BY <1>2, <2>1 DEF Front, Held, Holding
<1>8. ASSUME NEW t \in Threads, Work(t) \/ Call(t) \/ Shutdown(t)
      PROVE  [Ring!Next]_(Ring!vars)
  BY <1>2, <1>3, <1>4, <1>5, <1>6, <1>8 DEF Work, Ring!Next
<1> QED BY <1>7, <1>8 DEF Next

\* The log keeps its promise: every message leaves the ring once, in ticket
\* order, finished, for any threads, ring size, wrap, calls and failing writes.
THEOREM LogImplementsLogFile == Spec => Refines
<1>1. Spec => [][Ring!Next]_(Ring!vars)
  BY InvariantHolds, NextRefines, PTL DEF Spec
<1> QED BY <1>1, InitRefines, PTL DEF Spec, Refines, Ring!Spec

-------------------------------------------------------------------------------
(* log_shutdown loses nothing.                                             *)

LEMMA WrapTwice == Wrap >= N + N
<1> DEFINE q == Wrap \div N
<1>1. Wrap = N * q + 0 /\ q \in Nat
  BY NAssumption, WrapAssumption, DivMod
<1> HIDE DEF q
<1>2. N \in Nat /\ N > 0 /\ Wrap > N
  BY NAssumption, WrapAssumption
<1>3. CASE q = 0 \/ q = 1
  BY <1>1, <1>2, <1>3
<1>4. CASE q # 0 /\ q # 1
  <2>1. PICK r \in Nat : q = r + 2
    <3>1. q - 2 \in Nat /\ q = (q - 2) + 2
      BY <1>1, <1>4
    <3> QED BY <3>1
  <2>2. N * (r + 2) = N * r + N + N /\ N * r \in Nat
    BY <1>2, Z3
  <2> QED BY <1>1, <1>2, <2>1, <2>2
<1> QED BY <1>1, <1>3, <1>4

\* Equal counters: the larger is at least a wrap ahead, or the same.
LEMMA WrapApart ==
    ASSUME NEW a \in Nat, NEW b \in Nat, a % Wrap = b % Wrap, a <= b
    PROVE  a = b \/ b >= a + Wrap
<1> SUFFICES ASSUME a # b, b < a + Wrap PROVE FALSE
  BY WrapAssumption
<1>1. b - a \in 1..(Wrap - 1) /\ a + (b - a) = b
  BY WrapAssumption
<1>2. (a + (b - a)) % Wrap # a % Wrap
  BY <1>1, WrapAssumption, ModApart
<1> QED BY <1>1, <1>2

LEMMA RingBounds ==
    IInv => /\ Front \in Nat /\ next \in Nat /\ serve \in Nat /\ serve <= Front /\ Front <= next
            /\ next <= serve + N /\ Held \subseteq Front..(next - 1) /\ file \in Seq(Nat)
<1>1. IInv => file \in Seq(Nat)
  BY DEF IInv, TypeOK
<1> QED BY <1>1, Bounds

\* A number that fits an interval and a bound fits when both have grown.
LEMMA Widened ==
    ASSUME NEW a \in Nat, NEW b \in Nat, b >= a, NEW c \in Nat, NEW d \in Nat, d >= c,
           NEW m \in Nat, NEW n \in 0..a, n <= c + m
    PROVE  n \in 0..b /\ n <= d + m
OBVIOUS

\* What a step does to the ring, as the abstract log has it.
LEMMA RingMoves ==
    ASSUME IInv, Passed, [Next]_vars
    PROVE  /\ has_file' = has_file /\ Front' >= Front /\ next' >= next /\ Front' \in Nat /\ next' \in Nat
           /\ \A k \in 0..(next - 1) : k \notin Held => k \notin Held'
           /\ Passed'
<1> DEFINE done == Front..(next - 1) \ Held
<1>1. IInv' /\ [Ring!Next]_(Ring!vars)
  BY NextIInv, NextRefines
<1>2. /\ Front \in Nat /\ next \in Nat /\ Held \subseteq Front..(next - 1) /\ file \in Seq(Nat)
      /\ Front <= next
  BY RingBounds
<1>3. (/\ Front \in Nat /\ next \in Nat /\ Held \subseteq Front..(next - 1))'
  BY <1>1, RingBounds, PTL
<1>4. /\ has_file' = has_file
      /\ \/ Front' = Front /\ next' \in {next, next + 1} /\ done \subseteq done' /\ file' = file /\ lost' = lost
         \/ /\ Front' = Front + 1 /\ next' = next /\ done' = done \ {Front}
            /\ has_file /\ Front \notin Empty =>
                 \/ file' = Append(file, Front) /\ lost' = lost
                 \/ file' = file /\ lost' = lost \cup {Front}
            /\ ~(has_file /\ Front \notin Empty) => file' = file /\ lost' = lost
  <2>1. CASE UNCHANGED Ring!vars
    BY <2>1 DEF Ring!vars
  <2>2. CASE Ring!Take
    BY <2>2 DEF Ring!Take
  <2>3. CASE \E k \in Front..(next - 1) : Ring!Finish(k)
    BY <2>3 DEF Ring!Finish
  <2>4. CASE Ring!Save
    BY <2>4 DEF Ring!Save, Ring!Leave
  <2>5. CASE Ring!Lose
    BY <2>5 DEF Ring!Lose, Ring!Leave
  <2>6. CASE Ring!Skip
    BY <2>6 DEF Ring!Skip, Ring!Leave
  <2> QED BY <1>1, <2>1, <2>2, <2>3, <2>4, <2>5, <2>6 DEF Ring!Next
<1>5. ASSUME NEW k \in 0..(next - 1), k \notin Held PROVE k \notin Held'
  <2>0. k \in Nat /\ k < next /\ Front' >= Front /\ Front' \in Nat /\ Held' \subseteq Front'..(next' - 1)
    <3>1. Front' \in {Front, Front + 1}
      BY <1>4
    <3>2. Front' >= Front
      BY <1>2, <3>1
    <3>3. k \in Nat /\ k < next
      BY <1>2
    <3> QED BY <1>3, <3>2, <3>3
  <2>1. CASE k < Front'
    <3>1. k \notin Front'..(next' - 1)
      BY <2>0, <2>1
    <3> QED BY <2>0, <3>1
  <2>2. CASE ~(k < Front')
    <3>1. k \in Nat /\ k \in Front..(next - 1)
      BY <1>2, <2>0, <2>2
    <3>2. k \in done /\ (k # Front \/ Front' = Front)
      BY <1>2, <1>4, <1>5, <2>2, <3>1
    <3>3. k \in done'
      BY <1>4, <1>5, <3>1, <3>2
    <3> QED BY <3>3
  <2> QED BY <2>1, <2>2
<1> HIDE DEF done
<1>6. Passed'
  <2> SUFFICES ASSUME has_file, NEW k \in 0..(Front' - 1)
               PROVE  k \in Empty \cup lost' \cup {file'[i] : i \in DOMAIN file'}
    BY <1>4 DEF Passed
  <2>1. CASE Front' = Front
    BY <1>4, <2>1, <1>2 DEF Passed
  <2>2. CASE Front' # Front
    <3>1. Front' = Front + 1 /\ (k = Front \/ k \in 0..(Front - 1))
      BY <1>2, <1>4, <2>2
    <3>2. CASE file' = Append(file, Front) /\ lost' = lost /\ Front \notin Empty
      <4>1. /\ DOMAIN file' = 1..(Len(file) + 1) /\ DOMAIN file = 1..Len(file) /\ Len(file) \in Nat
            /\ file'[Len(file) + 1] = Front /\ \A i \in 1..Len(file) : file'[i] = file[i]
        BY <1>2, <3>2
      <4>2. \A i \in DOMAIN file : i \in DOMAIN file' /\ file'[i] = file[i]
        BY <4>1
      <4>3. Len(file) + 1 \in DOMAIN file'
        BY <4>1
      <4> QED BY <3>1, <3>2, <4>1, <4>2, <4>3 DEF Passed
    <3>3. CASE file' = file /\ lost' = lost \cup {Front} /\ Front \notin Empty
      BY <3>1, <3>3 DEF Passed
    <3>4. CASE file' = file /\ lost' = lost /\ Front \in Empty
      BY <3>1, <3>4 DEF Passed
    <3> QED BY <1>4, <2>2, <3>2, <3>3, <3>4
  <2> QED BY <2>1, <2>2
<1> QED BY <1>2, <1>3, <1>4, <1>5, <1>6

LEMMA ServeMoves ==
    ASSUME IInv, [Next]_vars
    PROVE  serve' >= serve /\ serve' \in Nat /\ serve \in Nat
<1>1. serve \in Nat /\ count \in [Threads -> Nat]
  BY DEF IInv, TypeOK
<1>2. serve' = serve \/ \E t \in Threads : ReturnTickets(t)
  BY DEF Next, Work, Call, Shutdown, CheckOpen, TryWait, FetchTicket, Format, Publish, TryWrite, TakeMessage,
         SkipWrite, WriteMessage, FailWrite, Post, Release, Close, LoadFirst, Compare, FinishShutdown, Exit,
         vars, ticketVars
<1> QED BY <1>1, <1>2 DEF ReturnTickets

\* A step that does not take part in the shutdown's own steps.
LEMMA BystanderStep ==
    ASSUME IInv, ShutdownInv, [Next]_vars, NEW t \in Threads, NEW to,
           pc' = [pc EXCEPT ![t] = to], UNCHANGED <<shutter, seen, owed>>,
           to \in {"close", "drain"} => shutter = t, to \notin {"compare", "finish"}, to = "done" => pc[t] = "finish"
    PROVE  ShutdownInv'
<1> USE DEF ShutdownInv
<1>1. /\ has_file' = has_file /\ Front' >= Front /\ next' >= next /\ Front' \in Nat /\ next' \in Nat
      /\ \A k \in 0..(next - 1) : k \notin Held => k \notin Held'
      /\ Passed' /\ serve' >= serve /\ serve' \in Nat /\ serve \in Nat
  BY RingMoves, ServeMoves
<1>2. Front \in Nat /\ next \in Nat
  BY RingBounds
<1>3. \A u \in Threads : pc'[u] = pc[u] \/ (u = t /\ pc'[u] = to)
  BY DEF IInv, TypeOK
<1>4. OneShutter'
  BY <1>3 DEF OneShutter
<1>5. OwedFinished'
  BY <1>1, <1>2 DEF OwedFinished
<1>6. Drained'
  <2> SUFFICES ASSUME NEW u \in Threads, pc'[u] \in {"finish", "done"}, has_file, NEW k \in owed PROVE k < Front'
    BY <1>1 DEF Drained
  <2>1. pc[u] \in {"finish", "done"}
    BY <1>3
  <2>2. k < Front /\ k \in Nat
    BY <2>1 DEF Drained, OwedFinished
  <2> QED BY <1>1, <1>2, <2>2
<1>7. Comparing'
  <2> SUFFICES ASSUME NEW u \in Threads, pc'[u] = "compare"
               PROVE  IF seen.counter = "serve"
                      THEN \E s \in 0..serve' : seen.value = s % Wrap /\ \A k \in owed : k < s + N
                      ELSE \E n \in 0..next' :
                              seen.value = n % Wrap /\ n <= serve' + N /\ \A k \in owed : k < n
    BY DEF Comparing
  <2>1. pc[u] = "compare"
    BY <1>3
  <2>2. CASE seen.counter = "serve"
    <3>1. PICK s \in 0..serve : seen.value = s % Wrap /\ \A k \in owed : k < s + N
      BY <2>1, <2>2 DEF Comparing
    <3>2. s \in 0..serve'
      BY <1>1
    <3> QED BY <2>2, <3>1, <3>2
  <2>3. CASE seen.counter # "serve"
    <3>1. PICK n \in 0..next : seen.value = n % Wrap /\ n <= serve + N /\ \A k \in owed : k < n
      BY <2>1, <2>3 DEF Comparing
    <3>2. n \in 0..next' /\ n <= serve' + N
      <4>1. n <= serve + N /\ N \in Nat
        BY <3>1, NAssumption
      <4>2. next' >= next /\ next' \in Nat /\ serve' >= serve /\ serve \in Nat /\ serve' \in Nat
        BY <1>1
      <4> QED BY <4>1, <4>2, <1>2, Widened
    <3> QED BY <2>3, <3>1, <3>2
  <2> QED BY <2>2, <2>3
<1> QED BY <1>1, <1>4, <1>5, <1>6, <1>7

LEMMA ShutdownStep ==
    ASSUME IInv, ShutdownInv, NEW t \in Threads, Shutdown(t), [Next]_vars
    PROVE  ShutdownInv'
<1> USE DEF ShutdownInv
<1>1. /\ pc[t] = "idle" /\ shutter = NoThread /\ shutter' = t /\ pc' = [pc EXCEPT ![t] = "open"]
      /\ UNCHANGED <<seen, owed, ticket>>
  BY DEF Shutdown, Goto, localVars
<1>2. \A u \in Threads : pc'[u] \notin {"close", "drain", "compare", "finish", "done"}
  BY <1>1, ThreadsAssumption DEF OneShutter, IInv, TypeOK
<1>3. /\ has_file' = has_file /\ next' >= next /\ next' \in Nat
      /\ \A k \in 0..(next - 1) : k \notin Held => k \notin Held'
      /\ Passed'
  BY RingMoves
<1>4. OwedFinished'
  BY <1>1, <1>3, RingBounds DEF OwedFinished
<1> QED BY <1>1, <1>2, <1>3, <1>4 DEF OneShutter, Comparing, Drained

LEMMA CloseStep ==
    ASSUME IInv, ShutdownInv, NEW t \in Threads, Close(t), [Next]_vars
    PROVE  ShutdownInv'
<1> USE DEF ShutdownInv
<1>1. /\ pc[t] = "close"
      /\ owed' = {k \in 0..(next - 1) : \A u \in Threads : Holding(u) => ticket[u] # k}
      /\ pc' = [pc EXCEPT ![t] = IF has_file THEN "drain" ELSE "finish"]
      /\ UNCHANGED <<shutter, seen, next, has_file, ticket>>
  BY DEF Close, Goto, fileVars, localVars
<1>2. shutter = t /\ t # NoThread
  BY <1>1, ThreadsAssumption DEF OneShutter
<1>3. Passed'
  BY RingMoves
<1>4. \A u \in Threads : pc'[u] = pc[u] \/ (u = t /\ pc'[u] = IF has_file THEN "drain" ELSE "finish")
  BY <1>1 DEF IInv, TypeOK
<1>5. pc'[t] = IF has_file THEN "drain" ELSE "finish"
  BY <1>1 DEF IInv, TypeOK
<1>6. OneShutter'
  BY <1>1, <1>2, <1>4 DEF OneShutter
<1>7. OwedFinished'
  <2>1. \A u \in Threads : Holding(u)' = Holding(u)
    BY <1>1, <1>4, <1>5 DEF Holding
  <2> QED BY <1>1, <2>1 DEF OwedFinished, Held
<1>8. Comparing' /\ Drained'
  <2>1. \A u \in Threads : pc'[u] \in {"compare", "finish", "done"} => ~has_file /\ pc'[u] = "finish"
    BY <1>1, <1>2, <1>4, <1>5 DEF OneShutter
  <2> QED BY <1>1, <2>1 DEF Comparing, Drained
<1> QED BY <1>3, <1>6, <1>7, <1>8

LEMMA LoadFirstStep ==
    ASSUME IInv, ShutdownInv, NEW t \in Threads, LoadFirst(t), [Next]_vars
    PROVE  ShutdownInv'
<1> USE DEF ShutdownInv
<1>1. PICK name \in {"serve", "next"} : seen' = [counter |-> name, value |-> Counter(name)]
  BY DEF LoadFirst
<1>2. /\ pc[t] = "drain" /\ pc' = [pc EXCEPT ![t] = "compare"]
      /\ UNCHANGED <<shutter, owed, next, serve, has_file, ticket>>
  BY DEF LoadFirst, Goto, fileVars, ticketVars, localVars
<1>3. shutter = t /\ t # NoThread
  BY <1>2, ThreadsAssumption DEF OneShutter
<1>4. \A u \in Threads : IF u = t THEN pc'[u] = "compare" ELSE pc'[u] = pc[u]
  BY <1>2 DEF IInv, TypeOK
<1>5. OneShutter'
  BY <1>1, <1>2, <1>3, <1>4 DEF OneShutter
<1>6. Passed' /\ \A k \in 0..(next - 1) : k \notin Held => k \notin Held'
  BY RingMoves
<1>7. OwedFinished'
  BY <1>2, <1>6 DEF OwedFinished
<1>8. Drained'
  BY <1>2, <1>3, <1>4 DEF OneShutter, Drained
<1>9. next \in Nat /\ serve \in Nat /\ next <= serve + N /\ \A k \in owed : k \in 0..(next - 1)
  BY RingBounds DEF OwedFinished
<1>10. Comparing'
  <2>1. CASE name = "serve"
    <3>1. seen'.counter = "serve" /\ seen'.value = serve % Wrap
      BY <1>1, <2>1 DEF Counter, a_serve
    <3>2. serve \in 0..serve /\ \A k \in owed : k < serve + N
      BY <1>9, NAssumption
    <3> QED BY <1>2, <3>1, <3>2 DEF Comparing
  <2>2. CASE name = "next"
    <3>1. seen'.counter = "next" /\ seen'.value = next % Wrap
      BY <1>1, <2>2 DEF Counter, a_next
    <3>2. next \in 0..next /\ \A k \in owed : k < next
      BY <1>9
    <3> QED BY <1>2, <1>9, <3>1, <3>2 DEF Comparing
  <2> QED BY <2>1, <2>2
<1> QED BY <1>5, <1>6, <1>7, <1>8, <1>10

\* Equal counters at two moments, the first one loaded before the second.
LEMMA CompareStep ==
    ASSUME IInv, ShutdownInv, NEW t \in Threads, Compare(t), [Next]_vars
    PROVE  ShutdownInv'
<1> USE DEF ShutdownInv
<1>1. /\ pc[t] = "compare" /\ UNCHANGED <<shutter, seen, owed, next, serve, has_file, writer, count>>
      /\ \/ pc' = [pc EXCEPT ![t] = "try"]
         \/ pc' = [pc EXCEPT ![t] = "finish"] /\ Counter(Other(seen.counter)) = seen.value
  BY DEF Compare, Goto, fileVars, ticketVars, localVars, stopVars
<1>2. CASE pc' = [pc EXCEPT ![t] = "try"]
  <2>1. "try" \notin {"close", "drain"} /\ "try" \notin {"compare", "finish"} /\ "try" # "done"
    OBVIOUS
  <2> QED BY <1>1, <1>2, <2>1, BystanderStep
<1>3. CASE pc' = [pc EXCEPT ![t] = "finish"] /\ Counter(Other(seen.counter)) = seen.value
  <2>1. /\ next \in Nat /\ serve \in Nat /\ Front \in Nat /\ serve <= Front /\ Front <= next /\ next <= serve + N
        /\ \A k \in owed : k \in 0..(next - 1)
    BY RingBounds DEF OwedFinished
  <2>2. \A k \in owed : k < serve
    <3>1. CASE seen.counter = "serve"
      <4>1. PICK s \in 0..serve : seen.value = s % Wrap /\ \A k \in owed : k < s + N
        BY <1>1, <3>1 DEF Comparing
      <4>2. next % Wrap = s % Wrap
        BY <1>3, <3>1, <4>1 DEF Counter, Other, a_next
      <4>3. s \in Nat /\ s <= next
        BY <2>1, <4>1
      <4>4. next = s \/ next >= s + Wrap
        BY <2>1, <4>2, <4>3, WrapApart
      <4>5. CASE next = s
        BY <2>1, <4>1, <4>5
      <4>6. CASE next >= s + Wrap
        <5>1. serve >= s + N
          BY <2>1, <4>3, <4>6, WrapTwice, NAssumption, WrapAssumption
        <5> QED BY <2>1, <4>1, <4>3, <5>1, NAssumption
      <4> QED BY <4>4, <4>5, <4>6
    <3>2. CASE seen.counter = "next"
      <4>1. PICK n \in 0..next : seen.value = n % Wrap /\ n <= serve + N /\ \A k \in owed : k < n
        BY <1>1, <3>2 DEF Comparing
      <4>2. serve % Wrap = n % Wrap
        BY <1>3, <3>2, <4>1 DEF Counter, Other, a_serve
      <4>3. n \in Nat
        BY <2>1, <4>1
      <4>4. n <= serve
        <5> SUFFICES ASSUME serve < n PROVE FALSE
          BY <2>1, <4>3
        <5>1. serve = n \/ n >= serve + Wrap
          BY <2>1, <4>2, <4>3, WrapApart
        <5> QED BY <2>1, <4>1, <4>3, <5>1, NAssumption, WrapAssumption
      <4> QED BY <2>1, <4>1, <4>3, <4>4
    <3> QED BY <3>1, <3>2 DEF OneShutter
  <2>3. shutter = t /\ t # NoThread
    BY <1>1, ThreadsAssumption DEF OneShutter
  <2>4. \A u \in Threads : IF u = t THEN pc'[u] = "finish" ELSE pc'[u] = pc[u]
    BY <1>3 DEF IInv, TypeOK
  <2>5. OneShutter'
    BY <1>1, <2>3, <2>4 DEF OneShutter
  <2>6. Passed' /\ \A k \in 0..(next - 1) : k \notin Held => k \notin Held'
    BY RingMoves
  <2>7. OwedFinished'
    BY <1>1, <2>6 DEF OwedFinished
  <2>8. Drained'
    <3>1. Front' = Front
      BY <1>1 DEF Front
    <3>2. \A k \in owed : k < Front
      BY <2>1, <2>2
    <3> QED BY <1>1, <3>1, <3>2 DEF Drained
  <2>9. Comparing'
    BY <2>3, <2>4 DEF OneShutter, Comparing
  <2> QED BY <2>5, <2>6, <2>7, <2>8, <2>9
<1> QED BY <1>1, <1>2, <1>3

LEMMA NextShutdownInv ==
    ASSUME IInv, ShutdownInv, [Next]_vars
    PROVE  ShutdownInv'
<1>1. CASE UNCHANGED vars \/ Exit
  <2>1. UNCHANGED <<shutter, seen, owed, pc>> /\ Main \in Threads /\ pc' = [pc EXCEPT ![Main] = pc[Main]]
    BY <1>1, ThreadsAssumption DEF vars, Exit, IInv, TypeOK
  <2>2. /\ pc[Main] \in {"close", "drain"} => shutter = Main
    BY ThreadsAssumption DEF ShutdownInv, OneShutter
  <2>3. UNCHANGED <<shutter, seen, owed, pc, has_file, next, serve, writer, count>>
    BY <1>1 DEF vars, Exit, fileVars, ticketVars, localVars
  <2>4. Passed' /\ \A k \in 0..(next - 1) : k \notin Held => k \notin Held'
    BY RingMoves DEF ShutdownInv
  <2>5. Front' = Front
    BY <2>3 DEF Front
  <2> QED BY <2>3, <2>4, <2>5 DEF ShutdownInv, OneShutter, OwedFinished, Comparing, Drained
<1>2. ASSUME NEW t \in Threads,
             \/ Call(t) \/ CheckOpen(t) \/ TryWait(t) \/ FetchTicket(t) \/ Format(t) \/ Publish(t)
             \/ TryWrite(t) \/ TakeMessage(t) \/ SkipWrite(t) \/ WriteMessage(t) \/ FailWrite(t)
             \/ ReturnTickets(t) \/ Post(t) \/ Release(t) \/ FinishShutdown(t)
      PROVE  ShutdownInv'
  <2>1. UNCHANGED <<shutter, seen, owed>>
    BY <1>2 DEF stopVars, Call, CheckOpen, TryWait, FetchTicket, Format, Publish, TryWrite, TakeMessage, SkipWrite,
                WriteMessage, FailWrite, ReturnTickets, Post, Release, FinishShutdown
  <2>2. \E to \in {"open", "idle", "loop", "close", "wait", "fetch", "try", "format", "publish", "drain", "write",
                  "return", "post", "done"} :
          /\ pc' = [pc EXCEPT ![t] = to]
          /\ to \in {"close", "drain"} => shutter = t
          /\ to = "done" => pc[t] = "finish"
    <3>1. CASE Post(t)
      <4>1. pc' = pc /\ pc[t] = "post"
        BY <3>1 DEF Post
      <4> QED BY <4>1 DEF IInv, TypeOK
    <3>2. CASE CheckOpen(t) \/ Publish(t)
      BY <3>2 DEF CheckOpen, Publish, AfterCall, Goto
    <3>3. CASE TryWrite(t) \/ Release(t)
      BY <3>3 DEF TryWrite, Release, Caller, Goto
    <3>4. CASE FinishShutdown(t) \/ FetchTicket(t) \/ Format(t)
      BY <3>4 DEF FinishShutdown, FetchTicket, Format, Goto
    <3>5. CASE Call(t) \/ TryWait(t) \/ TakeMessage(t)
      BY <3>5 DEF Call, TryWait, TakeMessage, Goto
    <3>6. CASE SkipWrite(t) \/ WriteMessage(t) \/ FailWrite(t) \/ ReturnTickets(t)
      BY <3>6 DEF SkipWrite, WriteMessage, FailWrite, ReturnTickets, Goto
    <3> QED BY <1>2, <3>1, <3>2, <3>3, <3>4, <3>5, <3>6
  <2>3. PICK to \in {"open", "idle", "loop", "close", "wait", "fetch", "try", "format", "publish", "drain", "write",
                  "return", "post", "done"} :
          /\ pc' = [pc EXCEPT ![t] = to]
          /\ to \in {"close", "drain"} => shutter = t
          /\ to = "done" => pc[t] = "finish"
    BY <2>2
  <2>4. to \notin {"compare", "finish"}
    OBVIOUS
  <2> QED BY <2>1, <2>3, <2>4, BystanderStep
<1> QED BY <1>1, <1>2, ShutdownStep, CloseStep, LoadFirstStep, CompareStep DEF Next, Work

LEMMA InitShutdownInv == Init => ShutdownInv
<1> SUFFICES ASSUME Init PROVE ShutdownInv
  OBVIOUS
<1>1. Front = 0 /\ 0..(Front - 1) = {}
  BY DEF Init, Front
<1> QED BY <1>1 DEF Init, ShutdownInv, OneShutter, Passed, OwedFinished, Comparing, Drained

\* log_shutdown leaves every message whose call had returned in the file, except those that
\* are empty or whose write failed: for any number of threads, however the counters wrap and
\* in whichever order they are loaded.
THEOREM NothingLostTheorem == Spec => []NothingLost
<1>1. Spec => []ShutdownInv
  BY InvariantHolds, InitShutdownInv, NextShutdownInv, PTL DEF Spec
<1>2. IInv /\ ShutdownInv => NothingLost
  <2> SUFFICES ASSUME IInv, ShutdownInv, shutter # NoThread, pc[shutter] = "done", has_file, NEW k \in owed
               PROVE  k \in Empty \cup lost \cup {file[i] : i \in DOMAIN file}
    BY DEF NothingLost
  <2>1. shutter \in Threads /\ k \in Nat /\ k < Front /\ Front \in Nat
    BY RingBounds DEF ShutdownInv, OneShutter, Drained, OwedFinished
  <2>2. k \in 0..(Front - 1)
    BY <2>1
  <2> QED BY <2>2 DEF ShutdownInv, Passed
<1> QED BY <1>1, <1>2, InvariantHolds, PTL
===============================================================================
