--------------------------- MODULE TaskSystemProofs ---------------------------
(* Proofs about TaskSystem, for any number of threads, tasks and frames.   *)
EXTENDS TaskSystem, FiniteSetTheorems, WellFoundedInduction, TLAPS

(***************************************************************************)
(* Workers, sequences of tasks, and the tasks of a batch.                  *)
(***************************************************************************)

LEMMA WorkersFinite ==
    /\ IsFiniteSet(Workers) /\ IsFiniteSet(Slaves)
    /\ Cardinality(Slaves) \in Nat /\ Cardinality(Workers) = Cardinality(Slaves) + 1
    /\ Master \in Workers /\ Slaves = Workers \ {Master}
  BY MasterAssumption, FS_AddElement, FS_CardinalityType DEF Workers

LEMMA SubsetFinite ==
    ASSUME NEW S, IsFiniteSet(S), NEW T \in SUBSET S
    PROVE  IsFiniteSet(T) /\ Cardinality(T) \in Nat /\ (Cardinality(T) = 0 <=> T = {})
  BY FS_Subset, FS_CardinalityType, FS_EmptySet

LEMMA AtFinite ==
    ASSUME NEW S
    PROVE  /\ At(S) \subseteq Workers /\ IsFiniteSet(At(S)) /\ Cardinality(At(S)) \in Nat
           /\ Cardinality(At(S)) = 0 <=> At(S) = {}
  <1>1. At(S) \in SUBSET Workers
    BY DEF At
  <1> QED
    BY <1>1, WorkersFinite, SubsetFinite

\* A worker that moves joins or leaves the workers at the places.
Moves(w, x) ==
    \A S : /\ At(S)' = IF x \in S THEN At(S) \cup {w} ELSE At(S) \ {w}
           /\ (x \in S <=> pc[w] \in S) => At(S)' = At(S)
           /\ Cardinality(At(S)') = Cardinality(At(S)) + (IF x \in S THEN 1 ELSE 0)
                                                       - (IF pc[w] \in S THEN 1 ELSE 0)

LEMMA AtMove ==
    ASSUME TypeOK, NEW w \in Workers, NEW x, pc' = [pc EXCEPT ![w] = x]
    PROVE  Moves(w, x)
  <1> SUFFICES ASSUME NEW S
               PROVE  /\ At(S)' = IF x \in S THEN At(S) \cup {w} ELSE At(S) \ {w}
                      /\ (x \in S <=> pc[w] \in S) => At(S)' = At(S)
                      /\ Cardinality(At(S)') = Cardinality(At(S)) + (IF x \in S THEN 1 ELSE 0)
                                                                  - (IF pc[w] \in S THEN 1 ELSE 0)
    BY DEF Moves
  <1>1. At(S)' = IF x \in S THEN At(S) \cup {w} ELSE At(S) \ {w}
    BY DEF At, TypeOK
  <1>2. w \in At(S) <=> pc[w] \in S
    BY DEF At
  <1>3. IsFiniteSet(At(S)) /\ Cardinality(At(S)) \in Nat
    BY AtFinite
  <1>4. Cardinality(At(S) \cup {w}) = IF w \in At(S) THEN Cardinality(At(S)) ELSE Cardinality(At(S)) + 1
    BY <1>3, FS_AddElement
  <1>5. Cardinality(At(S) \ {w}) = IF w \in At(S) THEN Cardinality(At(S)) - 1 ELSE Cardinality(At(S))
    BY <1>3, FS_RemoveElement
  <1> QED
    BY <1>1, <1>2, <1>3, <1>4, <1>5

Elements(s) == {s[i] : i \in 1..Len(s)}
Distinct(s) == \A i, j \in 1..Len(s) : s[i] = s[j] => i = j

LEMMA AppendElements ==
    ASSUME NEW T, NEW s \in Seq(T), NEW e \in T
    PROVE  /\ Append(s, e) \in Seq(T) /\ Len(Append(s, e)) = Len(s) + 1
           /\ Elements(Append(s, e)) = Elements(s) \cup {e}
           /\ Distinct(s) /\ e \notin Elements(s) => Distinct(Append(s, e))
  <1> DEFINE a == Append(s, e)
  <1>1. /\ a \in Seq(T) /\ Len(s) \in Nat /\ Len(a) = Len(s) + 1
        /\ a[Len(s) + 1] = e /\ \A i \in 1..Len(s) : a[i] = s[i]
    OBVIOUS
  <1> HIDE DEF a
  <1>2. \A i \in 1..Len(a) : i \in 1..Len(s) \/ i = Len(s) + 1
    BY <1>1
  <1>3. 1..Len(s) \subseteq 1..Len(a) /\ Len(s) + 1 \in 1..Len(a)
    BY <1>1
  <1>4. Elements(a) = Elements(s) \cup {e}
    <2>1. Elements(a) \subseteq Elements(s) \cup {e}
      BY <1>1, <1>2 DEF Elements
    <2>2. Elements(s) \subseteq Elements(a)
      BY <1>1, <1>3 DEF Elements
    <2>3. e \in Elements(a)
      BY <1>1, <1>3 DEF Elements
    <2> QED
      BY <2>1, <2>2, <2>3
  <1>5. ASSUME Distinct(s), e \notin Elements(s) PROVE Distinct(a)
    <2>1. \A i \in 1..Len(s) : s[i] # e
      BY <1>5 DEF Elements
    <2> SUFFICES ASSUME NEW i \in 1..Len(a), NEW j \in 1..Len(a), a[i] = a[j] PROVE i = j
      BY DEF Distinct
    <2> QED
      BY <2>1, <1>1, <1>2, <1>5 DEF Distinct
  <1> QED
    BY <1>1, <1>4, <1>5 DEF a

LEMMA TailElements ==
    ASSUME NEW T, NEW s \in Seq(T), s # <<>>
    PROVE  /\ Head(s) \in T /\ Head(s) \in Elements(s)
           /\ Tail(s) \in Seq(T) /\ Len(Tail(s)) = Len(s) - 1 /\ Elements(Tail(s)) \subseteq Elements(s)
           /\ Distinct(s) => Distinct(Tail(s)) /\ Elements(Tail(s)) = Elements(s) \ {Head(s)}
  <1> DEFINE t == Tail(s)
  <1>1. /\ Len(s) \in Nat /\ Len(s) >= 1 /\ Head(s) = s[1] /\ t \in Seq(T) /\ Len(t) = Len(s) - 1
        /\ \A i \in 1..Len(t) : t[i] = s[i + 1]
        /\ Head(s) \in T
    OBVIOUS
  <1> HIDE DEF t
  <1>2. 1 \in 1..Len(s) /\ \A i \in 1..Len(t) : i + 1 \in 1..Len(s) /\ i + 1 # 1
    BY <1>1
  <1>3. \A i \in 1..Len(s) : i = 1 \/ (i - 1 \in 1..Len(t) /\ (i - 1) + 1 = i)
    BY <1>1
  <1>4. Head(s) \in Elements(s) /\ Elements(t) \subseteq Elements(s)
    BY <1>1, <1>2 DEF Elements
  <1>5. ASSUME Distinct(s) PROVE Distinct(t) /\ Elements(t) = Elements(s) \ {Head(s)}
    <2>1. Distinct(t)
      <3> SUFFICES ASSUME NEW i \in 1..Len(t), NEW j \in 1..Len(t), t[i] = t[j] PROVE i = j
        BY DEF Distinct
      <3>1. i + 1 = j + 1
        BY <1>1, <1>2, <1>5 DEF Distinct
      <3> QED
        BY <3>1
    <2>2. Head(s) \notin Elements(t)
      BY <1>1, <1>2, <1>5 DEF Elements, Distinct
    <2>3. \A i \in 1..Len(s) : s[i] = Head(s) \/ s[i] \in Elements(t)
      <3> SUFFICES ASSUME NEW i \in 1..Len(s), i # 1 PROVE s[i] \in Elements(t)
        BY <1>1
      <3>1. t[i - 1] = s[i] /\ i - 1 \in 1..Len(t)
        BY <1>1, <1>3
      <3> QED
        BY <3>1 DEF Elements
    <2> QED
      BY <2>1, <2>2, <2>3, <1>4 DEF Elements
  <1> QED
    BY <1>1, <1>4, <1>5 DEF t

LEMMA SmallestNumber ==
    ASSUME NEW S \in SUBSET Nat, S # {}
    PROVE  \E i \in S : \A j \in S : i <= j
  <1>1. PICK i \in S : \A j \in S : <<j, i>> \notin OpToRel(<, Nat)
    BY NatLessThanWellFounded, WFMin
  <1>2. \A j \in S : ~ (j < i)
    BY <1>1 DEF OpToRel
  <1> QED
    BY <1>2

\* The task issued next is one of those to issue.
LEMMA FirstIsOne ==
    ASSUME NEW S \in SUBSET TaskInfo, S # {}
    PROVE  First(S) \in S
  <1> DEFINE ns == {t.n : t \in S}
  <1>1. ns \in SUBSET Nat /\ ns # {}
    BY DEF TaskInfo
  <1>2. PICK i \in ns : \A j \in ns : i <= j
    <2> HIDE DEF ns
    <2> QED
      BY <1>1, SmallestNumber
  <1>3. \E t \in S : \A u \in S : t.n <= u.n
    BY <1>2
  <1> QED
    BY <1>3 DEF First

LEMMA TasksOfBatch ==
    ASSUME NEW kind \in {"bundle", "stream", "debug", "exit"}, NEW n \in Nat, NEW b \in Nat, frame \in Nat
    PROVE  /\ Tasks(kind, n, b) \subseteq TaskInfo /\ IsFiniteSet(Tasks(kind, n, b))
           /\ Cardinality(Tasks(kind, n, b)) = n
           /\ \A t \in Tasks(kind, n, b) : t.kind = kind /\ t.frame = frame
  <1> DEFINE ts == Tasks(kind, n, b)
             f == [i \in 1..n |-> [kind |-> kind, n |-> i, batch |-> b, frame |-> frame]]
  <1>1. ts \subseteq TaskInfo /\ \A t \in ts : t.kind = kind /\ t.frame = frame
    BY DEF Tasks, TaskInfo
  <1>2. f \in Bijection(1..n, ts)
    <2>1. f \in [1..n -> ts] /\ \A t \in ts : \E i \in 1..n : f[i] = t
      BY DEF Tasks
    <2>2. \A i, j \in 1..n : f[i] = f[j] => i = j
      OBVIOUS
    <2> HIDE DEF ts, f
    <2> QED
      BY <2>1, <2>2 DEF Bijection, Injection, IsInjective, Surjection
  <1>3. IsFiniteSet(1..n) /\ Cardinality(1..n) = n
    BY FS_Interval
  <1> HIDE DEF ts, f
  <1>4. ExistsBijection(1..n, ts)
    BY <1>2 DEF ExistsBijection
  <1>5. IsFiniteSet(ts) /\ Cardinality(ts) = n
    BY <1>3, <1>4, FS_Bijection
  <1> QED
    BY <1>1, <1>5 DEF ts

\* The places and the sequences in the words of the lemmas.
LEMMA SequencesOf == Queued = Elements(queue) /\ (Distinct(queue) <=> \A i, j \in 1..Len(queue) : queue[i] = queue[j] => i = j)
  BY DEF Queued, Elements, Distinct

(***************************************************************************)
(* The inductive invariant: the initial state.                             *)
(***************************************************************************)

LEMMA InitInv == Init => IInv
  <1> SUFFICES ASSUME Init PROVE IInv
    OBVIOUS
  <1> USE DEF Init
  <1>w. Master \in Workers /\ Master \notin Slaves /\ Slaves \subseteq Workers
    BY MasterAssumption DEF Workers
  <1>1. TypeOK
    BY FS_EmptySet DEF TypeOK, NoTask, TaskInfo
  <1>2. /\ At({"boot", "booted"}) = Slaves /\ At({"boot"}) = Slaves /\ At({"pop"}) = {} /\ At(Inside) = {}
        /\ At({"exited"}) = {} /\ At({"post"}) = {} /\ At({"spin"}) = {} /\ At({"spin", "account"}) = {}
        /\ At({"flushed"}) = {} /\ At({"run", "spin", "account"}) = {}
    BY <1>w DEF At, Inside, Before, Workers
  <1>3. Started
    BY <1>2, <1>w DEF Started
  <1>4. Accounted
    BY <1>2, FS_EmptySet DEF Accounted, Bundling, Streaming
  <1>5. Posted /\ Placed /\ Kinds /\ Barrier
    BY <1>2 DEF Posted, Placed, Kinds, Barrier, Bundling, Streaming, Reading
  <1>6. Flags
    BY <1>2 DEF Flags, Bundling, Streaming, Reading
  <1> QED
    BY <1>1, <1>3, <1>4, <1>5, <1>6 DEF IInv

(***************************************************************************)
(* The steps of the workers.                                               *)
(***************************************************************************)

\* A worker outside of its task moves to another place outside.
Outside == {"boot", "booted", "idle", "pop"}

LEMMA OutsideStep ==
    ASSUME IInv, NEW w \in Workers, NEW x \in Outside, pc[w] \in Outside, pc' = [pc EXCEPT ![w] = x],
           UNCHANGED <<queue, flag, memory, task, executor, masterVars, countVars>>
    PROVE  Posted' /\ Placed' /\ Kinds' /\ Barrier' /\ Flags' /\ At(Inside)' = At(Inside)
           /\ At(Inside \cup {"exited"})' = At(Inside \cup {"exited"}) /\ At({"exited"})' = At({"exited"})
  <1>t. TypeOK /\ Posted /\ Placed /\ Kinds /\ Barrier /\ Flags
    BY DEF IInv
  <1>u. /\ UNCHANGED <<queue, flag, memory, task, executor, mpc, todo, batch, task_count, frame, issued>>
        /\ UNCHANGED <<tasks_left, bundle_done, completed, counter>>
    BY DEF masterVars, countVars
  <1>1. \A S \in SUBSET (Inside \cup {"exited", "post"}) : At(S)' = At(S)
    <2> SUFFICES ASSUME NEW S \in SUBSET (Inside \cup {"exited", "post"}) PROVE At(S)' = At(S)
      OBVIOUS
    <2>1. x \notin S /\ pc[w] \notin S
      BY DEF Outside, Inside, Before
    <2>2. Moves(w, x)
      BY <1>t, AtMove
    <2> QED
      BY <2>1, <2>2 DEF Moves
  <1>2. /\ At({"post"})' = At({"post"}) /\ At(Before)' = At(Before) /\ At({"spin"})' = At({"spin"})
        /\ At({"spin", "account"})' = At({"spin", "account"}) /\ At({"flushed"})' = At({"flushed"})
        /\ At({"run", "spin", "account"})' = At({"run", "spin", "account"}) /\ At(Inside)' = At(Inside)
        /\ At(Inside \cup {"exited"})' = At(Inside \cup {"exited"}) /\ At({"exited"})' = At({"exited"})
    BY <1>1 DEF Inside, Before
  <1>3. Queued' = Queued /\ Held' = Held /\ Begun' = Begun
    BY <1>2, <1>u DEF Queued, Held, Begun
  <1>4. Posted'
    BY <1>2, <1>t, <1>u DEF Posted
  <1>5. Placed'
    BY <1>2, <1>3, <1>t, <1>u DEF Placed
  <1>6. Kinds'
    BY <1>2, <1>3, <1>t, <1>u DEF Kinds
  <1>7. Barrier'
    <2>1. \A v \in Workers : pc[v] = "spin" => pc'[v] = "spin"
      BY <1>t DEF Outside, TypeOK
    <2>2. \A i \in 1..Len(executor) : executor[i][2] \in Workers
      BY <1>t DEF TypeOK
    <2> QED
      BY <2>1, <2>2, <1>t, <1>u DEF Barrier
  <1>8. Flags'
    BY <1>2, <1>t, <1>u DEF Flags
  <1> QED
    BY <1>2, <1>4, <1>5, <1>6, <1>7, <1>8

LEMMA BootInv ==
    ASSUME IInv, NEW w \in Workers, Boot(w)
    PROVE  IInv'
  <1>1. /\ pc[w] = "boot" /\ startup # 0 /\ thr' = thr \cup {w} /\ pc' = [pc EXCEPT ![w] = "booted"]
        /\ UNCHANGED <<startup, queue, able, flag, memory, task, executor, masterVars, countVars>>
    BY DEF Boot
  <1>u. UNCHANGED <<mpc, todo, batch, task_count, frame, issued, tasks_left, bundle_done, completed, counter>>
    BY <1>1 DEF masterVars, countVars
  <1>t. TypeOK /\ Started /\ Accounted
    BY DEF IInv
  <1>m. Moves(w, "booted")
    BY <1>1, <1>t, AtMove
  <1>2. /\ Posted' /\ Placed' /\ Kinds' /\ Barrier' /\ Flags' /\ At(Inside)' = At(Inside)
        /\ At(Inside \cup {"exited"})' = At(Inside \cup {"exited"}) /\ At({"exited"})' = At({"exited"})
    BY <1>1, OutsideStep DEF Outside
  <1>3. w \in Slaves
    BY <1>1, <1>t DEF Started, Workers
  <1>4. TypeOK'
    BY <1>1, <1>u, <1>3, <1>t DEF TypeOK
  <1>5. /\ At({"boot", "booted"})' = At({"boot", "booted"}) /\ At({"boot"})' = At({"boot"}) \ {w}
        /\ At({"pop"})' = At({"pop"})
    BY <1>1, <1>m DEF Moves
  <1>6. Started'
    <2>1. mpc # "init"
      BY <1>1, <1>t DEF Started
    <2>2. pc'[Master] = pc[Master]
      BY <1>1, <1>3, <1>t, MasterAssumption DEF TypeOK
    <2>3. w \in At({"boot"}) /\ w \in At({"boot", "booted"})
      BY <1>1 DEF At
    <2> QED
      BY <1>1, <1>u, <1>3, <1>5, <2>1, <2>2, <2>3, <1>t DEF Started
  <1>7. Accounted'
    BY <1>1, <1>u, <1>2, <1>5, <1>t DEF Accounted
  <1> QED
    BY <1>2, <1>4, <1>6, <1>7 DEF IInv

LEMMA ReportInv ==
    ASSUME IInv, NEW w \in Workers, Report(w)
    PROVE  IInv'
  <1>1. /\ pc[w] = "booted" /\ startup' = startup + 1 /\ pc' = [pc EXCEPT ![w] = "idle"]
        /\ UNCHANGED <<thr, queue, able, flag, memory, task, executor, masterVars, countVars>>
    BY DEF Report
  <1>u. UNCHANGED <<mpc, todo, batch, task_count, frame, issued, tasks_left, bundle_done, completed, counter>>
    BY <1>1 DEF masterVars, countVars
  <1>t. TypeOK /\ Started /\ Accounted
    BY DEF IInv
  <1>m. Moves(w, "idle")
    BY <1>1, <1>t, AtMove
  <1>2. /\ Posted' /\ Placed' /\ Kinds' /\ Barrier' /\ Flags' /\ At(Inside)' = At(Inside)
        /\ At(Inside \cup {"exited"})' = At(Inside \cup {"exited"}) /\ At({"exited"})' = At({"exited"})
    BY <1>1, OutsideStep DEF Outside
  <1>3. w \in Slaves
    BY <1>1, <1>t DEF Started, Workers
  <1>4. TypeOK'
    BY <1>1, <1>u, <1>t DEF TypeOK
  <1>5. /\ At({"boot", "booted"})' = At({"boot", "booted"}) \ {w} /\ At({"boot"})' = At({"boot"})
        /\ At({"pop"})' = At({"pop"})
    BY <1>1, <1>m DEF Moves
  <1>6. w \in At({"boot", "booted"})
    BY <1>1 DEF At
  <1>7. mpc = "await"
    BY <1>1, <1>3, <1>6, <1>t DEF Started
  <1>8. Cardinality(Slaves \ At({"boot", "booted"})') = Cardinality(Slaves \ At({"boot", "booted"})) + 1
    <2> DEFINE there == Slaves \ At({"boot", "booted"})
    <2>1. Slaves \ At({"boot", "booted"})' = there \cup {w} /\ w \notin there
      BY <1>3, <1>5, <1>6
    <2>2. IsFiniteSet(there)
      BY WorkersFinite, FS_Subset
    <2> HIDE DEF there
    <2>3. Cardinality(there \cup {w}) = Cardinality(there) + 1
      BY <2>1, <2>2, FS_AddElement
    <2> QED
      BY <2>1, <2>3 DEF there
  <1>9. Started'
    <2>1. pc'[Master] = pc[Master]
      BY <1>1, <1>3, <1>t, MasterAssumption DEF TypeOK
    <2>2. Cardinality(Slaves \ At({"boot", "booted"})) \in Nat
      BY WorkersFinite, SubsetFinite
    <2> QED
      BY <1>1, <1>u, <1>5, <1>7, <1>8, <2>1, <2>2, <1>t DEF Started
  <1>10. Accounted'
    BY <1>1, <1>u, <1>2, <1>5, <1>t DEF Accounted
  <1> QED
    BY <1>2, <1>4, <1>9, <1>10 DEF IInv

LEMMA ReserveInv ==
    ASSUME IInv, NEW w \in Workers, Reserve(w)
    PROVE  IInv'
  <1>1. /\ pc[w] = "idle" /\ able > 0 /\ able' = able - 1 /\ pc' = [pc EXCEPT ![w] = "pop"] /\ MayTake(w)
        /\ UNCHANGED <<startup, thr, queue, flag, memory, task, executor, masterVars, countVars>>
    BY DEF Reserve
  <1>u. UNCHANGED <<mpc, todo, batch, task_count, frame, issued, tasks_left, bundle_done, completed, counter>>
    BY <1>1 DEF masterVars, countVars
  <1>t. TypeOK /\ Started /\ Accounted
    BY DEF IInv
  <1>m. Moves(w, "pop")
    BY <1>1, <1>t, AtMove
  <1>2. /\ Posted' /\ Placed' /\ Kinds' /\ Barrier' /\ Flags' /\ At(Inside)' = At(Inside)
        /\ At(Inside \cup {"exited"})' = At(Inside \cup {"exited"}) /\ At({"exited"})' = At({"exited"})
    BY <1>1, OutsideStep DEF Outside
  <1>3. TypeOK'
    BY <1>1, <1>u, <1>t DEF TypeOK
  <1>4. At({"boot", "booted"})' = At({"boot", "booted"}) /\ At({"boot"})' = At({"boot"})
    BY <1>1, <1>m DEF Moves
  <1>5. Cardinality(At({"pop"})') = Cardinality(At({"pop"})) + 1
    <2>1. Cardinality(At({"pop"})) \in Nat
      BY AtFinite
    <2> QED
      BY <2>1, <1>1, <1>m DEF Moves
  <1>6. Started'
    <2>1. pc'[Master] = IF w = Master THEN "pop" ELSE pc[Master]
      BY <1>1, <1>t, WorkersFinite DEF TypeOK
    <2>2. mpc = "init" => pc[w] = "boot" \/ w = Master
      BY <1>t DEF Started, Workers
    <2>3. mpc = "init" => \A v \in Slaves : pc'[v] = "boot"
      BY <1>1, <2>2, <1>t DEF Started, Workers, TypeOK, MayTake
    <2> QED
      BY <1>1, <1>u, <1>4, <2>1, <2>3, <1>t DEF Started, MayTake
  <1>7. Accounted'
    <2>1. Len(queue) = able' + Cardinality(At({"pop"})')
      <3>1. Cardinality(At({"pop"})) \in Nat /\ able \in Nat /\ Len(queue) = able + Cardinality(At({"pop"}))
        BY AtFinite, <1>t DEF TypeOK, Accounted
      <3> QED
        BY <3>1, <1>1, <1>5
    <2> QED
      BY <1>1, <1>u, <1>2, <2>1, <1>t DEF Accounted
  <1> QED
    BY <1>2, <1>3, <1>6, <1>7 DEF IInv

\* A worker inside a task: in a batch the task is of the batch, in the shutdown an exit.
LEMMA InsideTask ==
    ASSUME IInv, NEW w \in Workers, pc[w] \in Inside
    PROVE  /\ mpc \in Bundling \cup Streaming \cup {"destroy"}
           /\ mpc \in Bundling \cup Streaming => task[w] \in batch \ todo
           /\ mpc \in Bundling => task[w].kind = "bundle" /\ task[w].frame = frame
           /\ mpc \in Streaming =>
                \/ task[w].kind = "stream" /\ task[w].frame = frame
                \/ task[w].kind = "debug"
           /\ mpc = "destroy" => pc[w] \in Before /\ task[w].kind = "exit"
           /\ pc[w] \in Before => task[w] \in Held
  <1>1. mpc \in Bundling \cup Streaming \cup {"destroy"}
    <2>1. w \in At(Inside)
      BY DEF At
    <2> QED
      BY <2>1 DEF IInv, Accounted
  <1>2. pc[w] \in Before \/ w \in At({"spin", "account"})
    BY DEF At, Inside
  <1>3. pc[w] \in Before => task[w] \in Held
    BY DEF At, Held
  <1>4. mpc \in Bundling \cup Streaming => task[w] \in batch \ todo
    BY <1>2, <1>3 DEF IInv, Placed
  <1>5. mpc \in Bundling => task[w].kind = "bundle" /\ task[w].frame = frame
    BY <1>4 DEF IInv, Kinds
  <1>6. mpc \in Streaming =>
            \/ task[w].kind = "stream" /\ task[w].frame = frame
            \/ task[w].kind = "debug"
    BY <1>4 DEF IInv, Kinds
  <1>7. mpc = "destroy" => pc[w] \in Before /\ task[w].kind = "exit"
    BY <1>2, <1>3 DEF IInv, Kinds
  <1> QED
    BY <1>1, <1>3, <1>4, <1>5, <1>6, <1>7

\* A reserved task is in the queue.
LEMMA ReservedTask ==
    ASSUME IInv, NEW w \in Workers, pc[w] = "pop"
    PROVE  /\ queue # <<>> /\ Len(queue) \in Nat /\ Head(queue) \in Queued /\ Head(queue) \in TaskInfo
           /\ mpc \in Bundling \cup Streaming \cup {"destroy"}
  <1>1. queue \in Seq(TaskInfo) /\ able \in Nat /\ Len(queue) = able + Cardinality(At({"pop"}))
    BY DEF IInv, TypeOK, Accounted
  <1>2. w \in At({"pop"})
    BY DEF At
  <1>3. Cardinality(At({"pop"})) \in Nat /\ Cardinality(At({"pop"})) # 0
    BY <1>2, AtFinite
  <1>4. queue # <<>>
    BY <1>1, <1>3
  <1>5. Head(queue) \in Queued /\ Head(queue) \in TaskInfo
    BY <1>1, <1>4, TailElements, SequencesOf
  <1> QED
    BY <1>1, <1>4, <1>5 DEF IInv, Accounted

LEMMA PopInv ==
    ASSUME IInv, NEW w \in Workers, Pop(w)
    PROVE  IInv'
  <1> DEFINE t == Head(queue)
  <1>1. /\ pc[w] = "pop" /\ task' = [task EXCEPT ![w] = t] /\ queue' = Tail(queue)
        /\ pc' = [pc EXCEPT ![w] = "enter"]
        /\ UNCHANGED <<startup, thr, able, flag, memory, executor, masterVars, countVars>>
    BY DEF Pop
  <1>u. UNCHANGED <<mpc, todo, batch, task_count, frame, issued, tasks_left, bundle_done, completed, counter>>
    BY <1>1 DEF masterVars, countVars
  <1>t. TypeOK /\ Started /\ Accounted /\ Posted /\ Placed /\ Kinds /\ Barrier /\ Flags
    BY DEF IInv
  <1>m. Moves(w, "enter")
    BY <1>1, <1>t, AtMove
  <1>2. /\ At({"post"})' = At({"post"}) /\ At({"spin"})' = At({"spin"}) /\ At({"exited"})' = At({"exited"})
        /\ At({"spin", "account"})' = At({"spin", "account"}) /\ At({"flushed"})' = At({"flushed"})
        /\ At({"run", "spin", "account"})' = At({"run", "spin", "account"})
        /\ At({"boot", "booted"})' = At({"boot", "booted"}) /\ At({"boot"})' = At({"boot"})
        /\ At(Before)' = At(Before) \cup {w}
    BY <1>1, <1>m DEF Moves, Before
  <1>3. /\ Cardinality(At({"pop"})') = Cardinality(At({"pop"})) - 1
        /\ Cardinality(At(Inside)') = Cardinality(At(Inside)) + 1
        /\ Cardinality(At(Inside \cup {"exited"})') = Cardinality(At(Inside \cup {"exited"})) + 1
    <2>1. /\ Cardinality(At({"pop"})) \in Nat /\ Cardinality(At(Inside)) \in Nat
          /\ Cardinality(At(Inside \cup {"exited"})) \in Nat
      BY AtFinite
    <2> QED
      BY <2>1, <1>1, <1>m DEF Moves, Inside, Before
  <1>4. /\ queue # <<>> /\ Len(queue) \in Nat /\ t \in Queued /\ t \in TaskInfo
        /\ mpc \in Bundling \cup Streaming \cup {"destroy"}
    BY <1>1, ReservedTask
  <1>5. /\ queue' \in Seq(TaskInfo) /\ Len(queue') = Len(queue) - 1 /\ Queued' \subseteq Queued
        /\ Distinct(queue) => Distinct(queue') /\ Queued' = Queued \ {t}
    <2>1. Queued = Elements(queue) /\ Queued' = Elements(queue')
      BY DEF Queued, Elements
    <2>2. queue \in Seq(TaskInfo)
      BY <1>t DEF TypeOK
    <2>3. /\ Tail(queue) \in Seq(TaskInfo) /\ Len(Tail(queue)) = Len(queue) - 1
          /\ Elements(Tail(queue)) \subseteq Elements(queue)
          /\ Distinct(queue) => Distinct(Tail(queue)) /\ Elements(Tail(queue)) = Elements(queue) \ {Head(queue)}
      BY <2>2, <1>4, TailElements
    <2> QED
      BY <2>1, <2>3, <1>1
  <1> HIDE DEF t
  <1>6. w \notin At(Before) /\ w \notin At({"spin", "account"}) /\ w \notin At({"spin"})
    BY <1>1 DEF At, Before
  <1>7. /\ \A v \in Workers : v # w => task'[v] = task[v]
        /\ task'[w] = t
    BY <1>1, <1>t DEF TypeOK
  <1>8. Held' = Held \cup {t} /\ Begun' = Begun
    <2>1. \A v \in At(Before) : v \in Workers /\ v # w
      BY <1>6 DEF At
    <2> QED
      BY <1>1, <1>2, <1>7, <2>1 DEF Held, Begun
  <1>9. TypeOK'
    BY <1>1, <1>u, <1>4, <1>5, <1>t DEF TypeOK, Inside, Before
  <1>10. Started'
    <2>1. pc'[Master] = IF w = Master THEN "enter" ELSE pc[Master]
      BY <1>1, <1>t, WorkersFinite DEF TypeOK
    <2>2. mpc # "init" /\ mpc # "await"
      BY <1>4 DEF Bundling, Streaming
    <2>3. pc'[Master] # "idle" => mpc \in {"bundle_run", "stream_run"}
      BY <2>1, <1>1, <1>t DEF Started
    <2>4. pc'[Master] \notin {"boot", "booted", "exited"}
      BY <2>1, <1>t DEF Started
    <2> QED
      BY <1>1, <1>u, <1>2, <2>2, <2>3, <2>4, <1>t DEF Started
  <1>11. Accounted'
    <2>1. /\ Cardinality(At({"pop"})) \in Nat /\ Cardinality(At(Inside)) \in Nat
          /\ Cardinality(At(Inside \cup {"exited"})) \in Nat
      BY AtFinite
    <2>2. /\ Cardinality(todo) \in Nat /\ completed \in Nat /\ able \in Nat
      BY <1>t, FS_CardinalityType DEF TypeOK
    <2>3. Len(queue') = able + Cardinality(At({"pop"})')
      BY SMTT(30), <1>3, <1>5, <1>4, <2>1, <2>2, <1>t DEF Accounted
    <2>4. mpc \in Bundling => tasks_left = Cardinality(todo) + Len(queue') + Cardinality(At(Inside)')
      BY SMTT(30), <1>3, <1>5, <1>4, <2>1, <2>2, <1>t DEF Accounted
    <2>5. mpc \in Streaming => task_count = completed + Len(queue') + Cardinality(At(Inside)')
      BY SMTT(30), <1>3, <1>5, <1>4, <2>1, <2>2, <1>t DEF Accounted
    <2>6. mpc = "destroy" =>
            Cardinality(Slaves) = Cardinality(todo) + Len(queue') + Cardinality(At(Inside \cup {"exited"})')
      BY SMTT(30), <1>3, <1>5, <1>4, <2>1, <2>2, <1>t DEF Accounted
    <2> QED
      BY <1>1, <1>u, <1>2, <1>4, <2>3, <2>4, <2>5, <2>6, <1>t DEF Accounted
  <1>12. Posted'
    BY <1>2, <1>u, <1>t DEF Posted
  <1>13. Placed'
    <2> SUFFICES ASSUME mpc \in Bundling \cup Streaming \cup Reading PROVE Placed'
      BY <1>u DEF Placed
    <2>1. Distinct(queue)
      BY <1>t, SequencesOf DEF Placed
    <2>2. Queued' = Queued \ {t} /\ \A i, j \in 1..Len(queue') : queue'[i] = queue'[j] => i = j
      BY <1>5, <2>1 DEF Distinct
    <2>3. \A v \in At(Before) : task'[v] = task[v] /\ task[v] # t
      <3>1. \A v \in At(Before) : v \in Workers /\ v # w
        BY <1>6 DEF At
      <3>2. \A v \in At(Before) : task[v] \in Held
        BY DEF Held
      <3> QED
        BY <3>1, <3>2, <1>4, <1>7, <1>t DEF Placed
    <2>4. \A v \in At({"spin", "account"}) : task'[v] = task[v]
      BY <1>6, <1>7 DEF At
    <2>5. \A x, y \in At(Before)' : task'[x] = task'[y] => x = y
      BY <1>2, <1>7, <2>3, <1>t DEF Placed
    <2> QED
      BY <1>1, <1>u, <1>2, <1>4, <1>8, <2>2, <2>4, <2>5, <1>t DEF Placed
  <1>14. Kinds'
    <2>1. \A v \in At({"spin"}) : task'[v] = task[v]
      BY <1>6, <1>7 DEF At
    <2> QED
      BY <1>u, <1>2, <1>4, <1>5, <1>8, <2>1, <1>t DEF Kinds
  <1>15. Barrier'
    <2>1. \A v \in Workers : pc[v] = "spin" => pc'[v] = "spin"
      BY <1>1, <1>t DEF TypeOK
    <2>2. \A i \in 1..Len(executor) : executor[i][2] \in Workers
      BY <1>t DEF TypeOK
    <2> QED
      BY <2>1, <2>2, <1>t, <1>1, <1>u DEF Barrier
  <1>16. Flags'
    BY <1>1, <1>u, <1>2, <1>t DEF Flags
  <1> QED
    BY <1>9, <1>10, <1>11, <1>12, <1>13, <1>14, <1>15, <1>16 DEF IInv

\* A worker in a task, or about to post, is past the gate.
LEMMA BusyWorker ==
    ASSUME IInv, NEW w \in Workers, pc[w] \in Inside \cup {"post"}
    PROVE  /\ mpc \in Bundling \cup Streaming \cup {"destroy"}
           /\ w = Master => mpc \in {"bundle_run", "stream_run"}
  <1>1. ASSUME pc[w] = "post" PROVE mpc \in Bundling
    <2>1. w \in At({"post"})
      BY <1>1 DEF At
    <2> QED
      BY <2>1 DEF IInv, Posted
  <1>2. pc[w] # "idle"
    BY DEF Inside, Before
  <1>3. pc[w] \in Inside => mpc \in Bundling \cup Streaming \cup {"destroy"}
    BY InsideTask
  <1> QED
    BY <1>1, <1>2, <1>3 DEF IInv, Started

LEMMA StartedKept ==
    ASSUME IInv, NEW w \in Workers, pc[w] \in Inside \cup {"post"}, NEW x \in Inside \cup {"post", "idle", "exited"},
           x = "exited" => w # Master,
           pc' = [pc EXCEPT ![w] = x], UNCHANGED <<startup, thr, mpc>>
    PROVE  Started'
  <1>t. TypeOK /\ Started
    BY DEF IInv
  <1>m. Moves(w, x)
    BY <1>t, AtMove
  <1>1. At({"boot", "booted"})' = At({"boot", "booted"}) /\ At({"boot"})' = At({"boot"})
    <2>1. /\ x \in {"boot", "booted"} <=> pc[w] \in {"boot", "booted"}
          /\ x \in {"boot"} <=> pc[w] \in {"boot"}
      BY DEF Inside, Before
    <2> QED
      BY <2>1, <1>m DEF Moves
  <1>2. /\ mpc \in Bundling \cup Streaming \cup {"destroy"}
        /\ w = Master => mpc \in {"bundle_run", "stream_run"}
    BY BusyWorker
  <1>3. mpc # "init" /\ mpc # "await"
    BY <1>2 DEF Bundling, Streaming
  <1>4. pc'[Master] = IF w = Master THEN x ELSE pc[Master]
    BY <1>t, WorkersFinite DEF TypeOK
  <1>5. pc'[Master] # "idle" => mpc \in {"bundle_run", "stream_run"}
    BY <1>2, <1>4, <1>t DEF Started
  <1>6. pc'[Master] \notin {"boot", "booted", "exited"}
    BY <1>4, <1>t DEF Started, Inside, Before
  <1> QED
    BY <1>1, <1>3, <1>5, <1>6, <1>t DEF Started

\* A step of a worker in a task that neither begins nor takes one.
LEMMA InsideStep ==
    ASSUME IInv, NEW w \in Workers, pc[w] \in Inside \cup {"post"}, NEW x \in Inside \cup {"post", "idle"},
           pc' = [pc EXCEPT ![w] = x],
           x \in Before <=> pc[w] \in Before, x \in {"spin", "account"} => pc[w] \in {"spin", "account"}, x # "spin",
           pc[w] = "spin" => counter = Cardinality(Workers),
           UNCHANGED <<startup, thr, queue, task, executor, counter, masterVars>>
    PROVE  Started' /\ Placed' /\ Kinds' /\ Barrier'
  <1>t. TypeOK /\ Placed /\ Kinds /\ Barrier
    BY DEF IInv
  <1>u. UNCHANGED <<mpc, todo, batch, task_count, frame, issued>>
    BY DEF masterVars
  <1>m. Moves(w, x)
    BY <1>t, AtMove
  <1>1. /\ At(Before)' = At(Before) /\ At({"spin"})' \subseteq At({"spin"})
        /\ At({"spin", "account"})' \subseteq At({"spin", "account"})
    <2>1. At(Before)' = At(Before)
      BY <1>m DEF Moves
    <2>2. At({"spin"})' = At({"spin"}) \ {w}
      BY <1>m DEF Moves
    <2>3. w \in At({"spin", "account"}) <=> pc[w] \in {"spin", "account"}
      BY DEF At
    <2>4. At({"spin", "account"})' \subseteq At({"spin", "account"})
      BY <2>3, <1>m DEF Moves
    <2> QED
      BY <2>1, <2>2, <2>4
  <1>2. Queued' = Queued /\ Held' = Held /\ Begun' = Begun
    BY <1>1 DEF Queued, Held, Begun
  <1>3. Started'
    <2>1. x \in Inside \cup {"post", "idle", "exited"} /\ x # "exited"
      BY DEF Inside, Before
    <2> QED
      BY <2>1, <1>u, StartedKept
  <1>4. Placed'
    BY <1>1, <1>2, <1>t, <1>u DEF Placed
  <1>5. Kinds'
    <2>1. mpc = "destroy" => At({"spin", "account"})' = {}
      BY <1>1, <1>t DEF Kinds
    <2>2. \A v \in At({"spin"})' : task[v].kind = "debug"
      BY <1>1, <1>t DEF Kinds
    <2> QED
      BY <1>2, <2>1, <2>2, <1>t, <1>u DEF Kinds
  <1>6. Barrier'
    <2>1. counter < Cardinality(Workers) => \A v \in Workers : pc[v] = "spin" => pc'[v] = "spin"
      <3>1. counter < Cardinality(Workers) => pc[w] # "spin"
        BY <1>t, WorkersFinite DEF TypeOK
      <3> QED
        BY <3>1, <1>t DEF TypeOK
    <2>2. \A i \in 1..Len(executor) : executor[i][2] \in Workers
      BY <1>t DEF TypeOK
    <2> QED
      BY <2>1, <2>2, <1>t, <1>u DEF Barrier
  <1> QED
    BY <1>3, <1>4, <1>5, <1>6

LEMMA EnterInv ==
    ASSUME IInv, NEW w \in Workers, Enter(w)
    PROVE  IInv'
  <1> DEFINE x == IF flag[w] = 1 THEN "flushed" ELSE "run"
  <1>1. /\ pc[w] = "enter" /\ pc' = [pc EXCEPT ![w] = x]
        /\ memory' = IF flag[w] = 1 THEN [memory EXCEPT ![w] = {}] ELSE memory
        /\ UNCHANGED <<startup, thr, queue, able, flag, task, executor, masterVars, countVars>>
    BY DEF Enter
  <1>u. UNCHANGED <<mpc, todo, batch, task_count, frame, issued, tasks_left, bundle_done, completed, counter>>
    BY <1>1 DEF masterVars, countVars
  <1>x. x \in {"flushed", "run"}
    OBVIOUS
  <1>f. flag[w] = 1 => x = "flushed"
    OBVIOUS
  <1>g. flag[w] # 1 => x = "run"
    OBVIOUS
  <1> HIDE DEF x
  <1>t. TypeOK /\ Accounted /\ Posted /\ Flags
    BY DEF IInv
  <1>m. Moves(w, x)
    BY <1>1, <1>t, AtMove
  <1>2. Started' /\ Placed' /\ Kinds' /\ Barrier'
    <2>1. x \in Inside \cup {"post", "idle"} /\ x \in Before /\ x \notin {"spin", "account"}
      BY <1>x DEF Inside, Before
    <2>2. pc[w] \in Inside \cup {"post"} /\ pc[w] \in Before /\ pc[w] # "spin"
      BY <1>1 DEF Inside, Before
    <2> QED
      BY <1>1, <1>u, <2>1, <2>2, InsideStep
  <1>3. /\ At({"pop"})' = At({"pop"}) /\ At(Inside)' = At(Inside) /\ At({"exited"})' = At({"exited"})
        /\ At(Inside \cup {"exited"})' = At(Inside \cup {"exited"}) /\ At({"post"})' = At({"post"})
    BY <1>1, <1>x, <1>m DEF Moves, Inside, Before
  <1>4. TypeOK'
    BY <1>1, <1>u, <1>x, <1>t DEF TypeOK, Inside, Before
  <1>5. Accounted' /\ Posted'
    BY <1>1, <1>u, <1>3, <1>t DEF Accounted, Posted
  <1>6. Flags'
    <2>1. \A v \in Workers : v # w => pc'[v] = pc[v] /\ memory'[v] = memory[v]
      BY <1>1, <1>t DEF TypeOK
    <2>2. pc'[w] = x /\ memory'[w] = IF flag[w] = 1 THEN {} ELSE memory[w]
      BY <1>1, <1>t DEF TypeOK
    <2>3. \A v \in Workers : flag[v] \in {0, 1}
      BY <1>t DEF TypeOK
    <2>4. \A v \in At({"flushed"})' : flag[v] = 1 /\ memory'[v] = {}
      BY <2>1, <2>2, <1>x, <1>f, <1>g, <1>1, <1>t DEF Flags, At
    <2>5. \A v \in At({"run", "spin", "account"})' : flag[v] = 0
      BY <2>1, <2>2, <2>3, <1>x, <1>f, <1>g, <1>1, <1>t DEF Flags, At
    <2>6. \A i \in 1..Len(executor) : executor[i][2] \in Workers
      BY <1>t DEF TypeOK
    <2>7. \A v \in Workers : flag[v] = 0 => memory'[v] = memory[v]
      BY <2>1, <2>2
    <2>8. \A v \in Workers : flag[v] = 1 \/ memory'[v] = memory[v]
      BY <2>1, <2>2
    <2> QED
      BY <2>4, <2>5, <2>6, <2>7, <2>8, <1>1, <1>u, <1>t DEF Flags
  <1> QED
    BY <1>2, <1>4, <1>5, <1>6 DEF IInv

LEMMA ResetFlagInv ==
    ASSUME IInv, NEW w \in Workers, ResetFlag(w)
    PROVE  IInv'
  <1>1. /\ pc[w] = "flushed" /\ pc' = [pc EXCEPT ![w] = "run"] /\ flag' = [flag EXCEPT ![w] = 0]
        /\ UNCHANGED <<startup, thr, queue, able, memory, task, executor, masterVars, countVars>>
    BY DEF ResetFlag
  <1>u. UNCHANGED <<mpc, todo, batch, task_count, frame, issued, tasks_left, bundle_done, completed, counter>>
    BY <1>1 DEF masterVars, countVars
  <1>t. TypeOK /\ Accounted /\ Posted /\ Flags
    BY DEF IInv
  <1>m. Moves(w, "run")
    BY <1>1, <1>t, AtMove
  <1>2. Started' /\ Placed' /\ Kinds' /\ Barrier'
    <2>1. pc[w] \in Inside \cup {"post"} /\ pc[w] \in Before /\ pc[w] # "spin" /\ "run" \in Before /\ "run" \in Inside
      BY <1>1 DEF Inside, Before
    <2> QED
      BY <1>1, <1>u, <2>1, InsideStep
  <1>3. /\ At({"pop"})' = At({"pop"}) /\ At(Inside)' = At(Inside) /\ At({"exited"})' = At({"exited"})
        /\ At(Inside \cup {"exited"})' = At(Inside \cup {"exited"}) /\ At({"post"})' = At({"post"})
    BY <1>1, <1>m DEF Moves, Inside, Before
  <1>4. TypeOK'
    BY <1>1, <1>u, <1>t DEF TypeOK, Inside, Before
  <1>5. Accounted' /\ Posted'
    BY <1>1, <1>u, <1>3, <1>t DEF Accounted, Posted
  <1>6. Flags'
    <2>1. \A v \in Workers : v # w => pc'[v] = pc[v] /\ flag'[v] = flag[v]
      BY <1>1, <1>t DEF TypeOK
    <2>2. pc'[w] = "run" /\ flag'[w] = 0 /\ flag[w] = 1 /\ memory[w] = {}
      BY <1>1, <1>t DEF TypeOK, Flags, At
    <2>3. \A v \in At({"flushed"})' : flag'[v] = 1 /\ memory[v] = {}
      BY <2>1, <2>2, <1>t DEF Flags, At
    <2>4. \A v \in At({"run", "spin", "account"})' : flag'[v] = 0
      BY <2>1, <2>2, <1>t DEF Flags, At
    <2>5. \A i \in 1..Len(executor) : executor[i][2] \in Workers
      BY <1>t DEF TypeOK
    <2>6. \A v \in Workers : flag'[v] = 1 \/ (mpc = "clear" /\ v \in todo) \/ \A t \in memory[v] : t.frame = frame
      BY <2>1, <2>2, <1>t DEF Flags
    <2>7. \A v \in Workers : flag[v] = 0 => flag'[v] = 0
      BY <2>1, <2>2
    <2> QED
      BY <2>3, <2>4, <2>5, <2>6, <2>7, <1>1, <1>u, <1>t DEF Flags
  <1> QED
    BY <1>2, <1>4, <1>5, <1>6 DEF IInv

LEMMA LeaveSpinInv ==
    ASSUME IInv, NEW w \in Workers, LeaveSpin(w)
    PROVE  IInv'
  <1>1. /\ pc[w] = "spin" /\ pc' = [pc EXCEPT ![w] = "account"] /\ counter = Cardinality(Workers)
        /\ UNCHANGED <<startup, thr, queue, able, flag, memory, task, executor, masterVars, countVars>>
    BY DEF LeaveSpin
  <1>u. UNCHANGED <<mpc, todo, batch, task_count, frame, issued, tasks_left, bundle_done, completed, counter>>
    BY <1>1 DEF masterVars, countVars
  <1>t. TypeOK /\ Accounted /\ Posted /\ Flags
    BY DEF IInv
  <1>m. Moves(w, "account")
    BY <1>1, <1>t, AtMove
  <1>2. Started' /\ Placed' /\ Kinds' /\ Barrier'
    <2>1. pc[w] \in Inside \cup {"post"} /\ pc[w] \notin Before /\ "account" \notin Before /\ "account" \in Inside
      BY <1>1 DEF Inside, Before
    <2> QED
      BY <1>1, <1>u, <2>1, InsideStep
  <1>3. /\ At({"pop"})' = At({"pop"}) /\ At(Inside)' = At(Inside) /\ At({"exited"})' = At({"exited"})
        /\ At(Inside \cup {"exited"})' = At(Inside \cup {"exited"}) /\ At({"post"})' = At({"post"})
        /\ At({"flushed"})' = At({"flushed"}) /\ At({"run", "spin", "account"})' = At({"run", "spin", "account"})
    BY <1>1, <1>m DEF Moves, Inside, Before
  <1>4. TypeOK'
    BY <1>1, <1>u, <1>t DEF TypeOK, Inside, Before
  <1>5. Accounted' /\ Posted' /\ Flags'
    BY <1>1, <1>u, <1>3, <1>t DEF Accounted, Posted, Flags
  <1> QED
    BY <1>2, <1>4, <1>5 DEF IInv

LEMMA ExitInv ==
    ASSUME IInv, NEW w \in Workers, Exit(w)
    PROVE  IInv'
  <1>1. /\ pc[w] = "run" /\ task[w].kind = "exit" /\ pc' = [pc EXCEPT ![w] = "exited"]
        /\ UNCHANGED <<startup, thr, queue, able, flag, memory, task, executor, masterVars, countVars>>
    BY DEF Exit
  <1>u. UNCHANGED <<mpc, todo, batch, task_count, frame, issued, tasks_left, bundle_done, completed, counter>>
    BY <1>1 DEF masterVars, countVars
  <1>t. TypeOK /\ Accounted /\ Posted /\ Placed /\ Kinds /\ Barrier /\ Flags
    BY DEF IInv
  <1>m. Moves(w, "exited")
    BY <1>1, <1>t, AtMove
  <1>2. pc[w] \in Inside /\ mpc = "destroy"
    <2>1. pc[w] \in Inside
      BY <1>1 DEF Inside, Before
    <2>2. /\ mpc \in Bundling \cup Streaming \cup {"destroy"}
          /\ mpc \in Bundling => task[w].kind = "bundle"
          /\ mpc \in Streaming => task[w].kind = "stream" \/ task[w].kind = "debug"
      BY <2>1, InsideTask
    <2> QED
      BY <2>1, <2>2, <1>1
  <1>3. Started'
    <2>1. w # Master
      <3>1. w = Master => mpc \in {"bundle_run", "stream_run"}
        BY <1>2, BusyWorker
      <3> QED
        BY <3>1, <1>2
    <2> QED
      BY <2>1, <1>1, <1>u, <1>2, StartedKept
  <1>4. /\ At({"pop"})' = At({"pop"}) /\ At(Inside \cup {"exited"})' = At(Inside \cup {"exited"})
        /\ At({"post"})' = At({"post"}) /\ At({"flushed"})' = At({"flushed"}) /\ At({"spin"})' = At({"spin"})
        /\ At({"spin", "account"})' = At({"spin", "account"})
        /\ At({"run", "spin", "account"})' = At({"run", "spin", "account"}) \ {w}
        /\ At(Before)' = At(Before) \ {w}
    BY <1>1, <1>m DEF Moves, Inside, Before
  <1>5. TypeOK'
    BY <1>1, <1>u, <1>t DEF TypeOK
  <1>6. Accounted' /\ Posted'
    BY <1>1, <1>u, <1>2, <1>4, <1>t DEF Accounted, Posted, Bundling, Streaming
  <1>7. Placed' /\ Flags'
    BY <1>1, <1>u, <1>2, <1>4, <1>t DEF Placed, Flags, Bundling, Streaming, Reading
  <1>8. Kinds'
    <2>1. Held' \subseteq Held /\ Queued' = Queued
      BY <1>1, <1>4 DEF Held, Queued
    <2> QED
      BY <2>1, <1>1, <1>u, <1>2, <1>4, <1>t DEF Kinds, Bundling, Streaming
  <1>9. Barrier'
    BY <1>1, <1>u, <1>2, <1>t DEF Barrier, Bundling, Streaming
  <1> QED
    BY <1>3, <1>5, <1>6, <1>7, <1>8, <1>9 DEF IInv

LEMMA AccountBundleInv ==
    ASSUME IInv, NEW w \in Workers, AccountBundle(w)
    PROVE  IInv'
  <1> DEFINE x == IF tasks_left = 1 THEN "post" ELSE "idle"
  <1>1. /\ pc[w] = "account" /\ task[w].kind = "bundle" /\ pc' = [pc EXCEPT ![w] = x]
        /\ tasks_left' = tasks_left - 1
        /\ UNCHANGED <<startup, thr, queue, able, flag, memory, task, executor, masterVars>>
        /\ UNCHANGED <<bundle_done, completed, counter>>
    BY DEF AccountBundle
  <1>u. UNCHANGED <<mpc, todo, batch, task_count, frame, issued>>
    BY <1>1 DEF masterVars
  <1>x. x \in {"post", "idle"} /\ (x = "post" <=> tasks_left = 1)
    OBVIOUS
  <1> HIDE DEF x
  <1>t. TypeOK /\ Accounted /\ Posted /\ Flags
    BY DEF IInv
  <1>m. Moves(w, x)
    BY <1>1, <1>t, AtMove
  <1>2. mpc \in Bundling
    <2>1. pc[w] \in Inside /\ pc[w] \notin Before
      BY <1>1 DEF Inside, Before
    <2>2. /\ mpc \in Bundling \cup Streaming \cup {"destroy"}
          /\ mpc \in Streaming => task[w].kind = "stream" \/ task[w].kind = "debug"
          /\ mpc = "destroy" => pc[w] \in Before
      BY <2>1, InsideTask
    <2> QED
      BY <2>1, <2>2, <1>1
  <1>3. /\ mpc \notin Streaming /\ mpc \notin {"init", "await", "clear", "destroy", "ended", "main"} /\ mpc \notin Reading
    BY <1>2 DEF Bundling, Streaming, Reading
  <1>4. Started' /\ Placed' /\ Kinds' /\ Barrier'
    <2>1. x \in Inside \cup {"post", "idle"} /\ x \notin Before /\ x \notin {"spin", "account"}
      BY <1>x DEF Inside, Before
    <2>2. pc[w] \in Inside \cup {"post"} /\ pc[w] \notin Before /\ pc[w] # "spin"
      BY <1>1 DEF Inside, Before
    <2> QED
      BY <1>1, <2>1, <2>2, InsideStep
  <1>5. /\ At({"pop"})' = At({"pop"}) /\ At({"exited"})' = At({"exited"})
        /\ At({"flushed"})' = At({"flushed"}) /\ At({"run", "spin", "account"})' \subseteq At({"run", "spin", "account"})
        /\ At({"post"})' = IF x = "post" THEN At({"post"}) \cup {w} ELSE At({"post"}) \ {w}
    BY <1>1, <1>x, <1>m DEF Moves
  <1>6. /\ Cardinality(At(Inside)') = Cardinality(At(Inside)) - 1
        /\ Cardinality(At(Inside)) \in Nat /\ Cardinality(At(Inside)) # 0
    <2>1. Cardinality(At(Inside)) \in Nat /\ w \in At(Inside)
      BY <1>1, AtFinite DEF At, Inside
    <2>2. Cardinality(At(Inside)) # 0
      BY <2>1, AtFinite
    <2>3. x \notin Inside /\ pc[w] \in Inside
      BY <1>1, <1>x DEF Inside, Before
    <2> QED
      BY <2>1, <2>2, <2>3, <1>m DEF Moves
  <1>7. /\ tasks_left \in Nat /\ tasks_left # 0
        /\ tasks_left - 1 = Cardinality(todo) + Len(queue) + Cardinality(At(Inside)')
    <2>1. Cardinality(todo) \in Nat /\ Len(queue) \in Nat /\ tasks_left \in Nat
      BY <1>t, FS_CardinalityType DEF TypeOK
    <2>2. tasks_left = Cardinality(todo) + Len(queue) + Cardinality(At(Inside))
      BY <1>2, <1>t DEF Accounted
    <2> QED
      BY <2>1, <2>2, <1>6
  <1>8. TypeOK'
    <2>1. tasks_left' \in Nat
      BY <1>1, <1>7
    <2> QED
      BY <2>1, <1>1, <1>u, <1>x, <1>t DEF TypeOK, Inside, Before
  <1>9. Accounted'
    BY <1>1, <1>u, <1>2, <1>3, <1>5, <1>7, <1>t DEF Accounted, Reading
  <1>10. Posted'
    <2>1. At({"post"}) = {} /\ bundle_done = 0
      BY <1>7, <1>t DEF Posted, TypeOK
    <2>2. x = "post" => tasks_left' = 0
      BY <1>1, <1>x
    <2> QED
      BY <2>1, <2>2, <1>1, <1>u, <1>2, <1>5 DEF Posted
  <1>11. Flags'
    BY <1>1, <1>u, <1>5, <1>t DEF Flags
  <1> QED
    BY <1>4, <1>8, <1>9, <1>10, <1>11 DEF IInv

LEMMA PostBundleInv ==
    ASSUME IInv, NEW w \in Workers, PostBundle(w)
    PROVE  IInv'
  <1>1. /\ pc[w] = "post" /\ pc' = [pc EXCEPT ![w] = "idle"] /\ bundle_done' = bundle_done + 1
        /\ UNCHANGED <<startup, thr, queue, able, flag, memory, task, executor, masterVars>>
        /\ UNCHANGED <<tasks_left, completed, counter>>
    BY DEF PostBundle
  <1>u. UNCHANGED <<mpc, todo, batch, task_count, frame, issued>>
    BY <1>1 DEF masterVars
  <1>t. TypeOK /\ Accounted /\ Posted /\ Flags
    BY DEF IInv
  <1>m. Moves(w, "idle")
    BY <1>1, <1>t, AtMove
  <1>2. Started' /\ Placed' /\ Kinds' /\ Barrier'
    <2>1. pc[w] \in Inside \cup {"post"} /\ pc[w] \notin Before /\ pc[w] # "spin" /\ "idle" \notin Before
      BY <1>1 DEF Before
    <2> QED
      BY <1>1, <2>1, InsideStep
  <1>3. /\ At({"pop"})' = At({"pop"}) /\ At(Inside)' = At(Inside) /\ At({"exited"})' = At({"exited"})
        /\ At(Inside \cup {"exited"})' = At(Inside \cup {"exited"}) /\ At({"post"})' = At({"post"}) \ {w}
        /\ At({"flushed"})' = At({"flushed"}) /\ At({"run", "spin", "account"})' = At({"run", "spin", "account"})
    BY <1>1, <1>m DEF Moves, Inside, Before
  <1>4. w \in At({"post"})
    BY <1>1 DEF At
  <1>5. bundle_done' = 1 /\ mpc \in Bundling /\ tasks_left = 0 /\ At({"post"})' = {}
    BY <1>1, <1>3, <1>4, <1>t DEF Posted
  <1>6. TypeOK'
    BY <1>1, <1>u, <1>5, <1>t DEF TypeOK
  <1>7. Accounted' /\ Posted' /\ Flags'
    BY <1>1, <1>u, <1>3, <1>5, <1>t DEF Accounted, Posted, Flags
  <1> QED
    BY <1>2, <1>6, <1>7 DEF IInv

LEMMA AccountStreamInv ==
    ASSUME IInv, NEW w \in Workers, AccountStream(w)
    PROVE  IInv'
  <1>1. /\ pc[w] = "account" /\ task[w].kind \in {"stream", "debug"} /\ pc' = [pc EXCEPT ![w] = "idle"]
        /\ completed' = completed + 1
        /\ UNCHANGED <<startup, thr, queue, able, flag, memory, task, executor, masterVars>>
        /\ UNCHANGED <<tasks_left, bundle_done, counter>>
    BY DEF AccountStream
  <1>u. UNCHANGED <<mpc, todo, batch, task_count, frame, issued>>
    BY <1>1 DEF masterVars
  <1>t. TypeOK /\ Accounted /\ Posted /\ Flags
    BY DEF IInv
  <1>m. Moves(w, "idle")
    BY <1>1, <1>t, AtMove
  <1>2. mpc \in Streaming
    <2>1. pc[w] \in Inside /\ pc[w] \notin Before
      BY <1>1 DEF Inside, Before
    <2>2. /\ mpc \in Bundling \cup Streaming \cup {"destroy"}
          /\ mpc \in Bundling => task[w].kind = "bundle"
          /\ mpc = "destroy" => pc[w] \in Before
      BY <2>1, InsideTask
    <2> QED
      BY <2>1, <2>2, <1>1
  <1>3. mpc \notin Bundling /\ mpc \notin {"init", "await", "clear", "destroy", "ended", "main"} /\ mpc \notin Reading
    BY <1>2 DEF Bundling, Streaming, Reading
  <1>4. Started' /\ Placed' /\ Kinds' /\ Barrier'
    <2>1. pc[w] \in Inside \cup {"post"} /\ pc[w] \notin Before /\ pc[w] # "spin" /\ "idle" \notin Before
      BY <1>1 DEF Inside, Before
    <2> QED
      BY <1>1, <2>1, InsideStep
  <1>5. /\ At({"pop"})' = At({"pop"}) /\ At({"exited"})' = At({"exited"}) /\ At({"post"})' = At({"post"})
        /\ At({"flushed"})' = At({"flushed"}) /\ At({"run", "spin", "account"})' \subseteq At({"run", "spin", "account"})
    BY <1>1, <1>m DEF Moves
  <1>6. Cardinality(At(Inside)') = Cardinality(At(Inside)) - 1 /\ Cardinality(At(Inside)) \in Nat
    <2>1. Cardinality(At(Inside)) \in Nat
      BY AtFinite
    <2>2. "idle" \notin Inside /\ pc[w] \in Inside
      BY <1>1 DEF Inside, Before
    <2> QED
      BY <2>1, <2>2, <1>m DEF Moves
  <1>7. task_count = completed' + Len(queue) + Cardinality(At(Inside)')
    <2>1. Len(queue) \in Nat /\ completed \in Nat
      BY <1>t DEF TypeOK
    <2>2. task_count = completed + Len(queue) + Cardinality(At(Inside))
      BY <1>2, <1>t DEF Accounted
    <2> QED
      BY <2>1, <2>2, <1>1, <1>6
  <1>8. TypeOK'
    BY <1>1, <1>u, <1>t DEF TypeOK
  <1>9. Accounted'
    BY <1>1, <1>u, <1>2, <1>3, <1>5, <1>7, <1>t DEF Accounted, Reading
  <1>10. Posted' /\ Flags'
    BY <1>1, <1>u, <1>5, <1>t DEF Posted, Flags
  <1> QED
    BY <1>4, <1>8, <1>9, <1>10 DEF IInv

\* As many tasks have begun as the history names.
LEMMA BegunCount ==
    ASSUME TypeOK, \A i, j \in 1..Len(executor) : executor[i][1] = executor[j][1] => i = j
    PROVE  IsFiniteSet(Begun) /\ Cardinality(Begun) = Len(executor)
  <1> DEFINE n == Len(executor)
             f == [i \in 1..n |-> executor[i][1]]
  <1>1. n \in Nat
    BY DEF TypeOK
  <1>2. f \in Bijection(1..n, Begun)
    <2>1. f \in [1..n -> Begun] /\ \A t \in Begun : \E i \in 1..n : f[i] = t
      BY DEF Begun
    <2>2. \A i, j \in 1..n : f[i] = f[j] => i = j
      OBVIOUS
    <2> HIDE DEF f
    <2> QED
      BY <2>1, <2>2 DEF Bijection, Injection, IsInjective, Surjection
  <1> HIDE DEF n, f
  <1>3. IsFiniteSet(1..n) /\ Cardinality(1..n) = n
    BY <1>1, FS_Interval
  <1>4. ExistsBijection(1..n, Begun)
    BY <1>2 DEF ExistsBijection
  <1>5. IsFiniteSet(Begun) /\ Cardinality(Begun) = n
    BY <1>3, <1>4, FS_Bijection
  <1> QED
    BY <1>5 DEF n

\* What Run and RunDebug have in common: the task of w has begun.
LEMMA BeginStep ==
    ASSUME IInv, NEW w \in Workers, pc[w] = "run", NEW x \in {"spin", "account"}, pc' = [pc EXCEPT ![w] = x],
           executor' = Append(executor, <<task[w], w>>), mpc \in Bundling \cup Streaming,
           x = "spin" => task[w].kind = "debug",
           UNCHANGED <<startup, thr, queue, able, flag, task, masterVars, tasks_left, bundle_done, completed>>
    PROVE  /\ executor' \in Seq(TaskInfo \X Workers) /\ Len(executor) \in Nat /\ Len(executor') = Len(executor) + 1
           /\ executor'[Len(executor) + 1][1] = task[w] /\ executor'[Len(executor) + 1][2] = w
           /\ \A i \in 1..Len(executor) : executor'[i] = executor[i]
           /\ \A i \in 1..Len(executor') : i \in 1..Len(executor) \/ i = Len(executor) + 1
           /\ task[w] \in batch /\ task[w] \notin Begun /\ Begun \subseteq batch
           /\ Started' /\ Accounted' /\ Posted' /\ Placed' /\ Kinds'
  <1>t. TypeOK /\ Accounted /\ Posted /\ Placed /\ Kinds
    BY DEF IInv
  <1>u. UNCHANGED <<mpc, todo, batch, task_count, frame, issued>>
    BY DEF masterVars
  <1>m. Moves(w, x)
    BY <1>t, AtMove
  <1>1. /\ executor' \in Seq(TaskInfo \X Workers) /\ Len(executor) \in Nat /\ Len(executor') = Len(executor) + 1
        /\ executor'[Len(executor) + 1] = <<task[w], w>>
        /\ \A i \in 1..Len(executor) : executor'[i] = executor[i]
    <2>1. executor \in Seq(TaskInfo \X Workers) /\ <<task[w], w>> \in TaskInfo \X Workers
      BY <1>t DEF TypeOK
    <2> QED
      BY <2>1
  <1>2. \A i \in 1..Len(executor') : i \in 1..Len(executor) \/ i = Len(executor) + 1
    BY <1>1
  <1>3. 1..Len(executor) \subseteq 1..Len(executor') /\ Len(executor) + 1 \in 1..Len(executor')
    BY <1>1
  <1>4. executor'[Len(executor) + 1][1] = task[w] /\ executor'[Len(executor) + 1][2] = w
    BY <1>1
  <1>5. task[w] \in batch \ todo /\ task[w] \in Held
    <2>1. pc[w] \in Inside /\ pc[w] \in Before
      BY DEF Inside, Before
    <2> QED
      BY <2>1, InsideTask
  <1>6. task[w] \notin Begun /\ Begun \subseteq batch
    BY <1>5, <1>t DEF Placed
  <1>7. Begun' = Begun \cup {task[w]}
    <2>1. Begun' \subseteq Begun \cup {task[w]}
      BY <1>1, <1>2, <1>4 DEF Begun
    <2>2. Begun \subseteq Begun'
      BY <1>1, <1>3 DEF Begun
    <2>3. task[w] \in Begun'
      BY <1>3, <1>4 DEF Begun
    <2> QED
      BY <2>1, <2>2, <2>3
  <1>8. /\ At({"pop"})' = At({"pop"}) /\ At(Inside)' = At(Inside) /\ At({"exited"})' = At({"exited"})
        /\ At(Inside \cup {"exited"})' = At(Inside \cup {"exited"}) /\ At({"post"})' = At({"post"})
        /\ At(Before)' = At(Before) \ {w} /\ At({"spin", "account"})' = At({"spin", "account"}) \cup {w}
        /\ At({"spin"})' = IF x = "spin" THEN At({"spin"}) \cup {w} ELSE At({"spin"}) \ {w}
    BY <1>m DEF Moves, Inside, Before
  <1>9. Held' = Held \ {task[w]} /\ Queued' = Queued
    <2>1. \A v \in At(Before) : task[v] = task[w] => v = w
      <3>1. w \in At(Before)
        BY DEF At, Before
      <3> QED
        BY <3>1, <1>t DEF Placed
    <2> QED
      BY <2>1, <1>8 DEF Held, Queued
  <1>10. Started'
    <2>1. pc[w] \in Inside \cup {"post"} /\ x \in Inside \cup {"post", "idle", "exited"} /\ x # "exited"
      BY DEF Inside, Before
    <2> QED
      BY <2>1, <1>u, StartedKept
  <1>11. Accounted' /\ Posted'
    BY <1>8, <1>u, <1>t DEF Accounted, Posted
  <1>12. Placed'
    <2>1. \A i, j \in 1..Len(executor') : executor'[i][1] = executor'[j][1] => i = j
      <3>1. \A i \in 1..Len(executor) : executor'[i][1] \in Begun
        BY <1>1 DEF Begun
      <3>2. \A i, j \in 1..Len(executor) : executor'[i][1] = executor'[j][1] => i = j
        BY <1>1, <1>t DEF Placed
      <3> QED
        BY <3>1, <3>2, <1>2, <1>4, <1>6
    <2>2. \A v \in At({"spin", "account"})' : task[v] \in Begun'
      BY <1>7, <1>8, <1>t DEF Placed
    <2>3. /\ batch \ todo = Queued' \cup Held' \cup Begun'
          /\ Queued' \cap Held' = {} /\ Queued' \cap Begun' = {} /\ Held' \cap Begun' = {}
      BY <1>5, <1>7, <1>9, <1>t DEF Placed
    <2> QED
      BY <2>1, <2>2, <2>3, <1>8, <1>u, <1>t DEF Placed
  <1>13. Kinds'
    <2>1. \A v \in At({"spin"})' : task[v].kind = "debug"
      BY <1>8, <1>t DEF Kinds
    <2>2. mpc # "destroy"
      BY DEF Bundling, Streaming
    <2> QED
      BY <2>1, <2>2, <1>u, <1>t DEF Kinds
  <1> QED
    BY <1>1, <1>2, <1>4, <1>5, <1>6, <1>10, <1>11, <1>12, <1>13

LEMMA RunInv ==
    ASSUME IInv, NEW w \in Workers, Run(w)
    PROVE  IInv'
  <1> DEFINE n == Len(executor)
  <1>1. /\ pc[w] = "run" /\ task[w].kind \in {"bundle", "stream"} /\ pc' = [pc EXCEPT ![w] = "account"]
        /\ executor' = Append(executor, <<task[w], w>>) /\ memory' = [memory EXCEPT ![w] = @ \cup {task[w]}]
        /\ UNCHANGED <<startup, thr, queue, able, flag, task, masterVars, countVars>>
    BY DEF Run
  <1>u. UNCHANGED <<mpc, todo, batch, task_count, frame, issued, tasks_left, bundle_done, completed, counter>>
    BY <1>1 DEF masterVars, countVars
  <1>t. TypeOK /\ Placed /\ Kinds /\ Barrier /\ Flags
    BY DEF IInv
  <1>m. Moves(w, "account")
    BY <1>1, <1>t, AtMove
  <1>2. /\ mpc \in Bundling \cup Streaming /\ task[w].frame = frame
        /\ mpc \in Streaming => task[w].kind = "stream"
    <2>1. pc[w] \in Inside
      BY <1>1 DEF Inside, Before
    <2> QED
      BY <2>1, <1>1, InsideTask
  <1>3. /\ executor' \in Seq(TaskInfo \X Workers) /\ n \in Nat /\ Len(executor') = n + 1
        /\ executor'[n + 1][1] = task[w] /\ executor'[n + 1][2] = w
        /\ \A i \in 1..n : executor'[i] = executor[i]
        /\ \A i \in 1..Len(executor') : i \in 1..n \/ i = n + 1
        /\ task[w] \in batch /\ task[w] \notin Begun /\ Begun \subseteq batch
        /\ Started' /\ Accounted' /\ Posted' /\ Placed' /\ Kinds'
    BY <1>1, <1>u, <1>2, BeginStep
  <1>4. \A i \in 1..n : executor[i][2] \in Workers /\ executor[i][1] \in Begun
    BY <1>t DEF TypeOK, Begun
  <1> HIDE DEF n
  <1>5. TypeOK'
    BY <1>1, <1>u, <1>3, <1>t DEF TypeOK, Inside, Before
  <1>6. \A t \in batch : t.kind # "debug"
    BY <1>1, <1>2, <1>3, <1>t DEF Kinds
  <1>7. Barrier'
    <2>1. \A i \in 1..Len(executor') : executor'[i][1] \in batch
      BY <1>3, <1>4
    <2>2. \A i, j \in 1..Len(executor') : i # j /\ executor'[i][1].kind = "debug" => executor'[i][2] # executor'[j][2]
      BY <2>1, <1>6
    <2>3. mpc \in Streaming => \A t \in batch \cup todo : t.kind # "debug"
      BY <1>1, <1>2, <1>3, <1>t DEF Kinds
    <2> QED
      BY <2>2, <2>3, <1>u DEF Barrier
  <1>8. Flags'
    <2>1. \A v \in Workers : v # w => pc'[v] = pc[v] /\ memory'[v] = memory[v]
      BY <1>1, <1>t DEF TypeOK
    <2>2. pc'[w] = "account" /\ memory'[w] = memory[w] \cup {task[w]} /\ flag[w] = 0
      BY <1>1, <1>t DEF TypeOK, Flags, At
    <2>3. \A v \in At({"flushed"})' : flag[v] = 1 /\ memory'[v] = {}
      BY <2>1, <2>2, <1>t DEF Flags, At
    <2>4. \A v \in At({"run", "spin", "account"})' : flag[v] = 0
      BY <2>1, <2>2, <1>t DEF Flags, At
    <2>5. mpc # "clear"
      BY <1>2 DEF Bundling, Streaming
    <2>6. \A v \in Workers : flag[v] = 1 \/ \A t \in memory'[v] : t.frame = frame
      BY <2>1, <2>2, <2>5, <1>2, <1>t DEF Flags
    <2>7. \A v \in Workers : memory[v] \subseteq memory'[v]
      BY <2>1, <2>2
    <2>8. \A i \in 1..n : executor[i][1].kind # "debug" =>
              flag[executor[i][2]] = 0 /\ executor[i][1] \in memory'[executor[i][2]]
      BY <2>7, <1>2, <1>4, <1>t DEF Flags, n
    <2>9. flag[w] = 0 /\ task[w] \in memory'[w]
      BY <2>2
    <2>10. \A i \in 1..Len(executor') : executor'[i][1].kind # "debug" =>
              flag[executor'[i][2]] = 0 /\ executor'[i][1] \in memory'[executor'[i][2]]
      BY <2>8, <2>9, <1>3
    <2> QED
      BY <2>3, <2>4, <2>6, <2>10, <1>1, <1>u DEF Flags
  <1> QED
    BY <1>3, <1>5, <1>7, <1>8 DEF IInv

LEMMA RunDebugInv ==
    ASSUME IInv, NEW w \in Workers, RunDebug(w)
    PROVE  IInv'
  <1> DEFINE n == Len(executor)
  <1>1. /\ pc[w] = "run" /\ task[w].kind = "debug" /\ pc' = [pc EXCEPT ![w] = "spin"]
        /\ executor' = Append(executor, <<task[w], w>>) /\ counter' = counter + 1
        /\ UNCHANGED <<startup, thr, queue, able, flag, memory, task, masterVars, tasks_left, bundle_done, completed>>
    BY DEF RunDebug
  <1>u. UNCHANGED <<mpc, todo, batch, task_count, frame, issued>>
    BY <1>1 DEF masterVars
  <1>t. TypeOK /\ Placed /\ Kinds /\ Barrier /\ Flags
    BY DEF IInv
  <1>m. Moves(w, "spin")
    BY <1>1, <1>t, AtMove
  <1>2. mpc \in Streaming
    <2>1. pc[w] \in Inside
      BY <1>1 DEF Inside, Before
    <2>2. /\ mpc \in Bundling \cup Streaming \cup {"destroy"}
          /\ mpc \in Bundling => task[w].kind = "bundle"
          /\ mpc = "destroy" => task[w].kind = "exit"
      BY <2>1, InsideTask
    <2> QED
      BY <2>2, <1>1
  <1>3. /\ executor' \in Seq(TaskInfo \X Workers) /\ n \in Nat /\ Len(executor') = n + 1
        /\ executor'[n + 1][1] = task[w] /\ executor'[n + 1][2] = w
        /\ \A i \in 1..n : executor'[i] = executor[i]
        /\ \A i \in 1..Len(executor') : i \in 1..n \/ i = n + 1
        /\ task[w] \in batch /\ task[w] \notin Begun /\ Begun \subseteq batch
        /\ Started' /\ Accounted' /\ Posted' /\ Placed' /\ Kinds'
    BY <1>1, <1>u, <1>2, BeginStep
  <1>4. \A i \in 1..n : executor[i][2] \in Workers /\ executor[i][1] \in Begun
    BY <1>t DEF TypeOK, Begun
  <1>5. /\ counter = n /\ IsFiniteSet(batch \cup todo) /\ Cardinality(batch \cup todo) = Cardinality(Workers)
        /\ counter < Cardinality(Workers) => \A i \in 1..n : pc[executor[i][2]] = "spin"
    BY <1>1, <1>2, <1>3, <1>t DEF Barrier
  <1>6. n < Cardinality(Workers)
    <2> DEFINE all == batch \cup todo
    <2>1. Cardinality(Begun) = n
      BY <1>2, <1>t, BegunCount DEF Placed
    <2>2. IsFiniteSet(all \ {task[w]}) /\ Cardinality(all \ {task[w]}) = Cardinality(all) - 1
      <3>1. task[w] \in all
        BY <1>3
      <3> HIDE DEF all
      <3> QED
        BY <3>1, <1>5, FS_RemoveElement DEF all
    <2>3. Begun \in SUBSET (all \ {task[w]})
      BY <1>3
    <2>4. Cardinality(Begun) <= Cardinality(all \ {task[w]})
      BY <2>2, <2>3, FS_Subset
    <2>5. Cardinality(Workers) \in Nat
      BY WorkersFinite
    <2> QED
      BY <2>1, <2>2, <2>4, <2>5, <1>3, <1>5
  <1>7. \A i \in 1..n : pc[executor[i][2]] = "spin" /\ executor[i][2] # w
    BY <1>1, <1>5, <1>6
  <1> HIDE DEF n
  <1>8. TypeOK'
    BY <1>1, <1>u, <1>3, <1>t DEF TypeOK, Inside, Before
  <1>9. Barrier'
    <2>1. \A i, j \in 1..Len(executor') : i # j /\ executor'[i][1].kind = "debug" => executor'[i][2] # executor'[j][2]
      <3>1. \A i, j \in 1..n : i # j /\ executor'[i][1].kind = "debug" => executor'[i][2] # executor'[j][2]
        BY <1>3, <1>t DEF Barrier, n
      <3> QED
        BY <3>1, <1>3, <1>7
    <2>2. counter' = Len(executor')
      BY <1>1, <1>3, <1>5
    <2>3. \A i \in 1..Len(executor') : pc'[executor'[i][2]] = "spin"
      BY <1>1, <1>3, <1>4, <1>7, <1>t DEF TypeOK
    <2> QED
      BY <2>1, <2>2, <2>3, <1>5, <1>u DEF Barrier
  <1>10. Flags'
    <2>1. At({"flushed"})' = At({"flushed"}) /\ At({"run", "spin", "account"})' = At({"run", "spin", "account"})
      BY <1>1, <1>m DEF Moves
    <2>2. \A i \in 1..Len(executor') : executor'[i][1].kind # "debug" =>
              flag[executor'[i][2]] = 0 /\ executor'[i][1] \in memory[executor'[i][2]]
      BY <1>1, <1>2, <1>3, <1>t DEF Flags, n
    <2> QED
      BY <2>1, <2>2, <1>1, <1>u, <1>t DEF Flags
  <1> QED
    BY <1>3, <1>8, <1>9, <1>10 DEF IInv

LEMMA WorkInv ==
    ASSUME IInv, NEW w \in Workers, Work(w)
    PROVE  IInv'
  BY BootInv, ReportInv, ReserveInv, PopInv, EnterInv, ResetFlagInv, RunInv, RunDebugInv, LeaveSpinInv, ExitInv,
     AccountBundleInv, PostBundleInv, AccountStreamInv DEF Work

(***************************************************************************)
(* The steps of the master.  They move no worker.                          *)
(***************************************************************************)

LEMMA AtSame ==
    ASSUME pc' = pc
    PROVE  /\ At({"boot", "booted"})' = At({"boot", "booted"}) /\ At({"boot"})' = At({"boot"}) /\ At({"pop"})' = At({"pop"})
           /\ At(Inside)' = At(Inside) /\ At(Inside \cup {"exited"})' = At(Inside \cup {"exited"})
           /\ At({"exited"})' = At({"exited"}) /\ At({"post"})' = At({"post"}) /\ At(Before)' = At(Before)
           /\ At({"spin"})' = At({"spin"}) /\ At({"spin", "account"})' = At({"spin", "account"})
           /\ At({"flushed"})' = At({"flushed"}) /\ At({"run", "spin", "account"})' = At({"run", "spin", "account"})
  BY DEF At

\* Where the master waits for no task and issues none.
Idle == {"init", "await", "main", "clear"}

LEMMA QuietFacts ==
    ASSUME IInv, mpc \in Idle \cup Reading
    PROVE  /\ queue = <<>> /\ able = 0 /\ bundle_done = 0 /\ Len(queue) = 0
           /\ At(Inside) = {} /\ At(Before) = {} /\ At({"spin"}) = {} /\ At({"spin", "account"}) = {}
           /\ At({"flushed"}) = {} /\ At({"run", "spin", "account"}) = {} /\ At({"post"}) = {} /\ At({"exited"}) = {}
           /\ At(Inside \cup {"exited"}) = {} /\ At({"pop"}) = {}
           /\ Queued = {} /\ Held = {} /\ pc[Master] = "idle"
  <1>t. TypeOK /\ Started /\ Accounted /\ Posted
    BY DEF IInv
  <1>1. mpc \notin Bundling \cup Streaming \cup {"destroy"} /\ mpc \notin {"ended", "bundle_run", "stream_run"}
    BY DEF Idle, Reading, Bundling, Streaming
  <1>2. queue = <<>> /\ At(Inside) = {} /\ At({"exited"}) = {} /\ pc[Master] = "idle"
    BY <1>1, <1>t DEF Accounted, Started
  <1>3. /\ At(Before) = {} /\ At({"spin"}) = {} /\ At({"spin", "account"}) = {}
        /\ At({"flushed"}) = {} /\ At({"run", "spin", "account"}) = {} /\ At(Inside \cup {"exited"}) = {}
    BY <1>2 DEF At, Inside, Before
  <1>4. At({"post"}) = {} /\ bundle_done = 0
    BY <1>1, <1>t DEF Posted, TypeOK
  <1>5. Len(queue) = 0
    BY <1>2
  <1>6. able = 0 /\ Cardinality(At({"pop"})) = 0
    <2>1. Cardinality(At({"pop"})) \in Nat /\ able \in Nat /\ 0 = able + Cardinality(At({"pop"}))
      BY <1>5, AtFinite, <1>t DEF TypeOK, Accounted
    <2> QED
      BY <2>1
  <1>7. At({"pop"}) = {}
    BY <1>6, AtFinite
  <1>8. Queued = {} /\ Held = {}
    BY <1>3, <1>5 DEF Queued, Held
  <1> QED
    BY <1>2, <1>3, <1>4, <1>5, <1>6, <1>7, <1>8

\* A step to a place where the master waits for no task.
LEMMA IdleStep ==
    ASSUME IInv, mpc \in Idle \cup Reading, mpc' \in Idle,
           UNCHANGED <<queue, able, pc, task, executor, bundle_done>>, mpc' # "clear" => todo' = {}
    PROVE  Accounted' /\ Posted' /\ Placed' /\ Kinds' /\ Barrier'
  <1>1. /\ queue = <<>> /\ able = 0 /\ bundle_done = 0 /\ Len(queue) = 0 /\ At(Inside) = {}
        /\ At({"spin"}) = {} /\ At({"exited"}) = {} /\ At({"pop"}) = {} /\ At({"post"}) = {}
    BY QuietFacts
  <1>2. mpc' \notin Bundling \cup Streaming \cup Reading \cup {"bundle", "stream", "destroy", "ended", "stream_cleanup"}
    BY DEF Idle, Reading, Bundling, Streaming
  <1>3. Accounted'
    <2>1. Cardinality(At({"pop"})) = 0
      BY <1>1, FS_EmptySet
    <2> QED
      BY <2>1, <1>1, <1>2, AtSame DEF Accounted
  <1>4. Posted' /\ Placed'
    BY <1>1, <1>2, AtSame DEF Posted, Placed
  <1>5. Kinds' /\ Barrier'
    BY <1>1, <1>2, AtSame DEF Kinds, Barrier, IInv
  <1> QED
    BY <1>3, <1>4, <1>5

LEMMA OpenGateInv ==
    ASSUME IInv, OpenGate
    PROVE  IInv'
  <1>1. /\ mpc = "init" /\ startup' = 1 /\ mpc' = "await"
        /\ UNCHANGED <<thr, queue, able, runVars, todo, batch, task_count, frame, issued, countVars>>
    BY DEF OpenGate
  <1>u. UNCHANGED <<flag, memory, pc, task, executor, tasks_left, bundle_done, completed, counter>>
    BY <1>1 DEF runVars, countVars
  <1>t. TypeOK /\ Started /\ Accounted /\ Flags
    BY DEF IInv
  <1>2. Accounted' /\ Posted' /\ Placed' /\ Kinds' /\ Barrier'
    <2>1. todo = {}
      BY <1>1, <1>t DEF Accounted
    <2> QED
      BY <2>1, <1>1, <1>u, IdleStep DEF Idle
  <1>3. TypeOK'
    BY <1>1, <1>u, <1>t DEF TypeOK
  <1>4. Started'
    <2>1. Slaves \ At({"boot", "booted"}) = {}
      BY <1>1, <1>t DEF Started, At, Workers
    <2>2. Cardinality(Slaves \ At({"boot", "booted"})) = 0
      BY <2>1, FS_EmptySet
    <2> QED
      BY <2>2, <1>1, <1>u, <1>t, AtSame DEF Started
  <1>5. Flags'
    BY <1>1, <1>u, <1>t, AtSame DEF Flags, Bundling, Streaming, Reading
  <1> QED
    BY <1>2, <1>3, <1>4, <1>5 DEF IInv

LEMMA AwaitWorkersInv ==
    ASSUME IInv, AwaitWorkers
    PROVE  IInv'
  <1>1. /\ mpc = "await" /\ startup >= Cardinality(Workers) /\ mpc' = "main"
        /\ UNCHANGED <<startup, thr, queue, able, runVars, todo, batch, task_count, frame, issued, countVars>>
    BY DEF AwaitWorkers
  <1>u. UNCHANGED <<flag, memory, pc, task, executor, tasks_left, bundle_done, completed, counter>>
    BY <1>1 DEF runVars, countVars
  <1>t. TypeOK /\ Started /\ Accounted /\ Flags
    BY DEF IInv
  <1>2. Accounted' /\ Posted' /\ Placed' /\ Kinds' /\ Barrier'
    <2>1. todo = {}
      BY <1>1, <1>t DEF Accounted
    <2> QED
      BY <2>1, <1>1, <1>u, IdleStep DEF Idle
  <1>3. TypeOK'
    BY <1>1, <1>u, <1>t DEF TypeOK
  <1>4. At({"boot", "booted"}) = {}
    <2> DEFINE there == Slaves \ At({"boot", "booted"})
    <2>1. startup = 1 + Cardinality(there) /\ Cardinality(there) \in Nat
      BY <1>1, <1>t, WorkersFinite, SubsetFinite DEF Started
    <2>2. Cardinality(there) >= Cardinality(Slaves)
      BY <2>1, <1>1, WorkersFinite
    <2>3. there = Slaves
      <3>1. there \in SUBSET Slaves
        OBVIOUS
      <3> HIDE DEF there
      <3>2. Cardinality(there) <= Cardinality(Slaves) /\ (Cardinality(Slaves) = Cardinality(there) => Slaves = there)
        BY <3>1, WorkersFinite, FS_Subset
      <3>3. Cardinality(there) = Cardinality(Slaves)
        BY <3>2, <2>1, <2>2, WorkersFinite
      <3> QED
        BY <3>2, <3>3
    <2>4. Master \notin At({"boot", "booted"}) /\ At({"boot", "booted"}) \subseteq Slaves \cup {Master}
      BY <1>t DEF Started, At, Workers
    <2> QED
      BY <2>3, <2>4
  <1>5. Started'
    BY <1>1, <1>u, <1>4, <1>t, AtSame DEF Started
  <1>6. Flags'
    BY <1>1, <1>u, <1>t, AtSame DEF Flags, Bundling, Streaming, Reading
  <1> QED
    BY <1>2, <1>3, <1>5, <1>6 DEF IInv

LEMMA BeginFrameInv ==
    ASSUME IInv, BeginFrame
    PROVE  IInv'
  <1>1. /\ mpc = "main" /\ frame' = frame + 1 /\ todo' = Workers /\ mpc' = "clear"
        /\ UNCHANGED <<startup, thr, queue, able, runVars, batch, task_count, issued, countVars>>
    BY DEF BeginFrame
  <1>u. UNCHANGED <<flag, memory, pc, task, executor, tasks_left, bundle_done, completed, counter>>
    BY <1>1 DEF runVars, countVars
  <1>t. TypeOK /\ Started /\ Flags
    BY DEF IInv
  <1>2. Accounted' /\ Posted' /\ Placed' /\ Kinds' /\ Barrier'
    BY <1>1, <1>u, IdleStep DEF Idle
  <1>3. TypeOK'
    BY <1>1, <1>u, <1>t, WorkersFinite DEF TypeOK
  <1>4. Started'
    BY <1>1, <1>u, <1>t, AtSame DEF Started
  <1>5. Flags'
    BY <1>1, <1>u, <1>t, AtSame DEF Flags, Bundling, Streaming, Reading
  <1> QED
    BY <1>2, <1>3, <1>4, <1>5 DEF IInv

LEMMA SetFlagInv ==
    ASSUME IInv, NEW w \in Workers, SetFlag(w)
    PROVE  IInv'
  <1>1. /\ mpc = "clear" /\ w \in todo /\ flag' = [flag EXCEPT ![w] = 1] /\ todo' = todo \ {w}
        /\ mpc' = IF todo' = {} THEN "main" ELSE "clear"
        /\ UNCHANGED <<startup, thr, queue, able, memory, pc, task, executor, batch, task_count, frame, issued, countVars>>
    BY DEF SetFlag
  <1>u. UNCHANGED <<tasks_left, bundle_done, completed, counter>>
    BY <1>1 DEF countVars
  <1>t. TypeOK /\ Started /\ Flags
    BY DEF IInv
  <1>2. Accounted' /\ Posted' /\ Placed' /\ Kinds' /\ Barrier'
    BY <1>1, <1>u, IdleStep DEF Idle
  <1>3. TypeOK'
    <2>1. IsFiniteSet(todo') /\ todo' \subseteq Workers
      BY <1>1, <1>t, FS_Subset DEF TypeOK
    <2>2. mpc' = "clear" \/ todo' = {}
      BY <1>1
    <2>3. flag' \in [Workers -> {0, 1}]
      BY <1>1, <1>t DEF TypeOK
    <2> QED
      BY <2>1, <2>2, <2>3, <1>1, <1>u, <1>t DEF TypeOK
  <1>4. Started'
    BY <1>1, <1>u, <1>t, AtSame DEF Started
  <1>5. Flags'
    <2>1. At({"flushed"}) = {} /\ At({"run", "spin", "account"}) = {}
      BY <1>1, QuietFacts DEF Idle
    <2>2. \A v \in Workers : v # w => flag'[v] = flag[v]
      BY <1>1, <1>t DEF TypeOK
    <2>3. flag'[w] = 1
      BY <1>1, <1>t DEF TypeOK
    <2>4. \A v \in Workers : v # w /\ v \in todo => mpc' = "clear" /\ v \in todo'
      BY <1>1
    <2>5. \A v \in Workers : flag'[v] = 1 \/ (mpc' = "clear" /\ v \in todo') \/ \A t \in memory[v] : t.frame = frame
      BY <2>2, <2>3, <2>4, <1>t DEF Flags
    <2>6. mpc' \notin Bundling \cup Streaming \cup Reading
      BY <1>1 DEF Bundling, Streaming, Reading
    <2> QED
      BY <2>1, <2>5, <2>6, <1>1, AtSame DEF Flags
  <1> QED
    BY <1>2, <1>3, <1>4, <1>5 DEF IInv

LEMMA ReleaseInv ==
    ASSUME IInv, BundleRelease \/ StreamCleanup
    PROVE  IInv'
  <1>1. /\ mpc \in Reading /\ mpc' = "main" /\ tasks_left' \in {0, tasks_left}
        /\ UNCHANGED <<startup, thr, queue, able, runVars, todo, batch, task_count, frame, issued>>
        /\ UNCHANGED <<bundle_done, completed, counter>>
    BY DEF BundleRelease, StreamCleanup, Reading, countVars
  <1>u. UNCHANGED <<flag, memory, pc, task, executor>>
    BY <1>1 DEF runVars
  <1>t. TypeOK /\ Started /\ Accounted /\ Flags
    BY DEF IInv
  <1>2. Accounted' /\ Posted' /\ Placed' /\ Kinds' /\ Barrier'
    <2>1. todo = {}
      BY <1>1, <1>t DEF Accounted, Reading
    <2> QED
      BY <2>1, <1>1, <1>u, IdleStep DEF Idle
  <1>3. TypeOK'
    <2>1. mpc # "clear" /\ tasks_left' \in Nat
      BY <1>1, <1>t DEF Reading, TypeOK
    <2> QED
      BY <2>1, <1>1, <1>u, <1>t DEF TypeOK
  <1>4. Started'
    BY <1>1, <1>u, <1>t, AtSame DEF Started, Reading
  <1>5. Flags'
    BY <1>1, <1>u, <1>t, AtSame DEF Flags, Bundling, Streaming, Reading
  <1> QED
    BY <1>2, <1>3, <1>4, <1>5 DEF IInv

\* A push moves the next task to issue into the queue.
LEMMA PushStep ==
    ASSUME IInv, todo # {}, todo \subseteq TaskInfo, Push(First(todo)), todo' = todo \ {First(todo)}
    PROVE  /\ First(todo) \in todo /\ First(todo) \in TaskInfo
           /\ queue' \in Seq(TaskInfo) /\ Len(queue) \in Nat /\ Len(queue') = Len(queue) + 1 /\ able' = able + 1
           /\ able \in Nat /\ Cardinality(todo) \in Nat /\ Cardinality(todo') = Cardinality(todo) - 1
           /\ IsFiniteSet(todo') /\ todo' \subseteq TaskInfo
           /\ Queued' = Queued \cup {First(todo)}
           /\ (\A i, j \in 1..Len(queue) : queue[i] = queue[j] => i = j) /\ First(todo) \notin Queued =>
                \A i, j \in 1..Len(queue') : queue'[i] = queue'[j] => i = j
  <1> DEFINE t == First(todo)
  <1>1. queue' = Append(queue, t) /\ able' = able + 1
    BY DEF Push
  <1>2. t \in todo /\ t \in TaskInfo
    <2>1. First(todo) \in todo
      BY FirstIsOne
    <2> QED
      BY <2>1
  <1> HIDE DEF t
  <1>3. queue \in Seq(TaskInfo) /\ able \in Nat /\ IsFiniteSet(todo)
    BY DEF IInv, TypeOK
  <1>4. /\ Append(queue, t) \in Seq(TaskInfo) /\ Len(Append(queue, t)) = Len(queue) + 1
        /\ Elements(Append(queue, t)) = Elements(queue) \cup {t}
        /\ Distinct(queue) /\ t \notin Elements(queue) => Distinct(Append(queue, t))
    BY <1>2, <1>3, AppendElements
  <1>5. Queued = Elements(queue) /\ Queued' = Elements(queue')
    BY DEF Queued, Elements
  <1>6. /\ Queued' = Queued \cup {t} /\ queue' \in Seq(TaskInfo) /\ Len(queue) \in Nat /\ Len(queue') = Len(queue) + 1
        /\ Distinct(queue) /\ t \notin Queued => Distinct(queue')
    BY <1>1, <1>3, <1>4, <1>5
  <1>7. /\ IsFiniteSet(todo \ {t}) /\ Cardinality(todo \ {t}) = Cardinality(todo) - 1 /\ Cardinality(todo) \in Nat
    BY <1>2, <1>3, FS_RemoveElement, FS_CardinalityType
  <1>8. todo' = todo \ {t}
    BY DEF t
  <1> QED
    BY <1>1, <1>2, <1>3, <1>6, <1>7, <1>8 DEF t, Distinct

LEMMA PushBundleInv ==
    ASSUME IInv, PushBundle
    PROVE  IInv'
  <1> DEFINE t == First(todo)
  <1>1. /\ mpc = "bundle" /\ Push(t) /\ todo' = todo \ {t}
        /\ mpc' = IF todo' = {} THEN "bundle_run" ELSE "bundle"
        /\ UNCHANGED <<startup, thr, runVars, batch, task_count, frame, issued, countVars>>
    BY DEF PushBundle
  <1>u. UNCHANGED <<flag, memory, pc, task, executor, tasks_left, bundle_done, completed, counter>>
    BY <1>1 DEF runVars, countVars
  <1>t. TypeOK /\ Started /\ Accounted /\ Posted /\ Placed /\ Kinds /\ Barrier /\ Flags
    BY DEF IInv
  <1>2. todo # {} /\ todo \subseteq TaskInfo
    BY <1>1, <1>t DEF Accounted, TypeOK
  <1>3. /\ t \in todo /\ t \in TaskInfo
        /\ queue' \in Seq(TaskInfo) /\ Len(queue) \in Nat /\ Len(queue') = Len(queue) + 1 /\ able' = able + 1
        /\ able \in Nat /\ Cardinality(todo) \in Nat /\ Cardinality(todo') = Cardinality(todo) - 1
        /\ IsFiniteSet(todo') /\ todo' \subseteq TaskInfo
        /\ Queued' = Queued \cup {t}
        /\ (\A i, j \in 1..Len(queue) : queue[i] = queue[j] => i = j) /\ t \notin Queued =>
             \A i, j \in 1..Len(queue') : queue'[i] = queue'[j] => i = j
    BY <1>1, <1>2, PushStep
  <1> HIDE DEF t
  <1>4. /\ mpc \in Bundling /\ mpc' \in Bundling /\ mpc' \in {"bundle", "bundle_run"}
        /\ mpc' \notin Streaming /\ mpc' \notin Reading
        /\ mpc' = "bundle" => todo' # {}
        /\ mpc' = "bundle_run" => todo' = {}
    BY <1>1 DEF Bundling, Streaming, Reading
  <1>5. Held' = Held /\ Begun' = Begun
    BY <1>u, AtSame DEF Held, Begun
  <1>6. TypeOK'
    BY <1>1, <1>u, <1>3, <1>4, <1>t DEF TypeOK
  <1>7. Started'
    BY <1>1, <1>u, <1>4, <1>t, AtSame DEF Started
  <1>8. Accounted'
    <2>1. Len(queue') = able' + Cardinality(At({"pop"}))
      <3>1. Cardinality(At({"pop"})) \in Nat /\ Len(queue) = able + Cardinality(At({"pop"}))
        BY AtFinite, <1>t DEF Accounted
      <3> QED
        BY <3>1, <1>3
    <2>2. tasks_left = Cardinality(todo') + Len(queue') + Cardinality(At(Inside))
      <3>1. Cardinality(At(Inside)) \in Nat /\ tasks_left = Cardinality(todo) + Len(queue) + Cardinality(At(Inside))
        BY AtFinite, <1>4, <1>t DEF Accounted
      <3> QED
        BY <3>1, <1>3
    <2>3. At({"exited"}) = {}
      BY <1>1, <1>t DEF Accounted
    <2> QED
      BY <2>1, <2>2, <2>3, <1>u, <1>4, AtSame DEF Accounted
  <1>9. Posted'
    BY <1>u, <1>4, <1>t, AtSame DEF Posted
  <1>10. Placed'
    <2>1. t \in batch /\ t \notin Queued /\ t \notin Held /\ t \notin Begun /\ todo' \subseteq batch
      BY <1>1, <1>3, <1>4, <1>t DEF Placed
    <2>2. batch \ todo' = (batch \ todo) \cup {t}
      BY <2>1, <1>1
    <2>3. \A i, j \in 1..Len(queue') : queue'[i] = queue'[j] => i = j
      BY <2>1, <1>3, <1>4, <1>t DEF Placed
    <2>4. batch \ todo' = Queued' \cup Held \cup Begun
      BY <2>2, <1>3, <1>4, <1>t DEF Placed
    <2>5. Queued' \cap Held = {} /\ Queued' \cap Begun = {} /\ Held \cap Begun = {}
      BY <2>1, <1>3, <1>4, <1>t DEF Placed
    <2> QED
      BY <2>1, <2>3, <2>4, <2>5, <1>u, <1>1, <1>4, <1>5, <1>t, AtSame DEF Placed
  <1>11. Kinds'
    BY <1>1, <1>u, <1>4, <1>t, AtSame DEF Kinds
  <1>12. Barrier'
    BY <1>u, <1>4, <1>t DEF Barrier
  <1>13. Flags'
    BY <1>1, <1>u, <1>4, <1>t, AtSame DEF Flags
  <1> QED
    BY <1>6, <1>7, <1>8, <1>9, <1>10, <1>11, <1>12, <1>13 DEF IInv

LEMMA StreamDispatchInv ==
    ASSUME IInv, StreamDispatch
    PROVE  IInv'
  <1> DEFINE t == First(todo)
  <1>1. /\ mpc = "stream" /\ Push(t) /\ todo' = todo \ {t} /\ batch' = batch \cup {t} /\ task_count' = task_count + 1
        /\ mpc' = IF todo' = {} THEN "stream_run" ELSE "stream"
        /\ UNCHANGED <<startup, thr, runVars, frame, issued, countVars>>
    BY DEF StreamDispatch
  <1>u. UNCHANGED <<flag, memory, pc, task, executor, tasks_left, bundle_done, completed, counter>>
    BY <1>1 DEF runVars, countVars
  <1>t. TypeOK /\ Started /\ Accounted /\ Posted /\ Placed /\ Kinds /\ Barrier /\ Flags
    BY DEF IInv
  <1>2. todo # {} /\ todo \subseteq TaskInfo
    BY <1>1, <1>t DEF Accounted, TypeOK
  <1>3. /\ t \in todo /\ t \in TaskInfo
        /\ queue' \in Seq(TaskInfo) /\ Len(queue) \in Nat /\ Len(queue') = Len(queue) + 1 /\ able' = able + 1
        /\ able \in Nat /\ Cardinality(todo) \in Nat /\ Cardinality(todo') = Cardinality(todo) - 1
        /\ IsFiniteSet(todo') /\ todo' \subseteq TaskInfo
        /\ Queued' = Queued \cup {t}
        /\ (\A i, j \in 1..Len(queue) : queue[i] = queue[j] => i = j) /\ t \notin Queued =>
             \A i, j \in 1..Len(queue') : queue'[i] = queue'[j] => i = j
    BY <1>1, <1>2, PushStep
  <1> HIDE DEF t
  <1>4. /\ mpc \in Streaming /\ mpc' \in Streaming /\ mpc' \in {"stream", "stream_run"}
        /\ mpc' \notin Bundling /\ mpc' \notin Reading
        /\ mpc' = "stream" => todo' # {}
        /\ mpc' = "stream_run" => todo' = {}
        /\ mpc \notin Bundling
    BY <1>1 DEF Bundling, Streaming, Reading
  <1>5. Held' = Held /\ Begun' = Begun /\ batch' \cup todo' = batch \cup todo
    BY <1>u, <1>1, <1>3, AtSame DEF Held, Begun
  <1>6. TypeOK'
    <2>1. batch' \subseteq TaskInfo /\ task_count' \in Nat
      BY <1>1, <1>3, <1>t DEF TypeOK
    <2> QED
      BY <2>1, <1>1, <1>u, <1>3, <1>4, <1>t DEF TypeOK
  <1>7. Started'
    BY <1>1, <1>u, <1>4, <1>t, AtSame DEF Started
  <1>8. Accounted'
    <2>1. Len(queue') = able' + Cardinality(At({"pop"}))
      <3>1. Cardinality(At({"pop"})) \in Nat /\ Len(queue) = able + Cardinality(At({"pop"}))
        BY AtFinite, <1>t DEF Accounted
      <3> QED
        BY <3>1, <1>3
    <2>2. task_count' = completed + Len(queue') + Cardinality(At(Inside))
      <3>1. /\ Cardinality(At(Inside)) \in Nat /\ completed \in Nat
            /\ task_count = completed + Len(queue) + Cardinality(At(Inside))
        BY AtFinite, <1>4, <1>t DEF Accounted, TypeOK
      <3> QED
        BY <3>1, <1>1, <1>3
    <2>3. At({"exited"}) = {}
      BY <1>1, <1>t DEF Accounted
    <2> QED
      BY <2>1, <2>2, <2>3, <1>u, <1>4, AtSame DEF Accounted
  <1>9. Posted'
    BY <1>u, <1>4, <1>t, AtSame DEF Posted
  <1>10. Placed'
    <2>1. t \notin batch /\ t \notin Queued /\ t \notin Held /\ t \notin Begun /\ todo \cap batch = {}
      BY <1>3, <1>4, <1>t DEF Placed
    <2>2. batch' \ todo' = (batch \ todo) \cup {t} /\ todo' \cap batch' = {}
      BY <2>1, <1>1, <1>3
    <2>3. \A i, j \in 1..Len(queue') : queue'[i] = queue'[j] => i = j
      BY <2>1, <1>3, <1>4, <1>t DEF Placed
    <2>4. batch' \ todo' = Queued' \cup Held \cup Begun
      BY <2>2, <1>3, <1>4, <1>t DEF Placed
    <2>5. Queued' \cap Held = {} /\ Queued' \cap Begun = {} /\ Held \cap Begun = {}
      BY <2>1, <1>3, <1>4, <1>t DEF Placed
    <2> QED
      BY <2>2, <2>3, <2>4, <2>5, <1>u, <1>4, <1>5, <1>t, AtSame DEF Placed
  <1>11. Kinds'
    BY <1>1, <1>u, <1>4, <1>5, <1>t, AtSame DEF Kinds
  <1>12. Barrier'
    BY <1>u, <1>4, <1>5, <1>t DEF Barrier
  <1>13. Flags'
    BY <1>1, <1>u, <1>4, <1>t, AtSame DEF Flags
  <1> QED
    BY <1>6, <1>7, <1>8, <1>9, <1>10, <1>11, <1>12, <1>13 DEF IInv

LEMMA PushExitInv ==
    ASSUME IInv, PushExit
    PROVE  IInv'
  <1> DEFINE t == First(todo)
  <1>1. /\ mpc = "destroy" /\ todo # {} /\ Push(t) /\ todo' = todo \ {t}
        /\ UNCHANGED <<startup, thr, mpc, runVars, batch, task_count, frame, issued, countVars>>
    BY DEF PushExit
  <1>u. UNCHANGED <<flag, memory, pc, task, executor, tasks_left, bundle_done, completed, counter>>
    BY <1>1 DEF runVars, countVars
  <1>t. TypeOK /\ Started /\ Accounted /\ Posted /\ Kinds /\ Barrier /\ Flags
    BY DEF IInv
  <1>2. todo \subseteq TaskInfo
    BY <1>1, <1>t DEF TypeOK
  <1>3. /\ t \in todo /\ t \in TaskInfo
        /\ queue' \in Seq(TaskInfo) /\ Len(queue) \in Nat /\ Len(queue') = Len(queue) + 1 /\ able' = able + 1
        /\ able \in Nat /\ Cardinality(todo) \in Nat /\ Cardinality(todo') = Cardinality(todo) - 1
        /\ IsFiniteSet(todo') /\ todo' \subseteq TaskInfo
        /\ Queued' = Queued \cup {t}
    BY <1>1, <1>2, PushStep
  <1> HIDE DEF t
  <1>4. mpc' \notin Bundling \cup Streaming \cup Reading
    BY <1>1 DEF Bundling, Streaming, Reading
  <1>5. Held' = Held
    BY <1>u, AtSame DEF Held
  <1>6. TypeOK'
    BY <1>1, <1>u, <1>3, <1>t DEF TypeOK
  <1>7. Started'
    BY <1>1, <1>u, <1>t, AtSame DEF Started
  <1>8. Accounted'
    <2>1. Len(queue') = able' + Cardinality(At({"pop"}))
      <3>1. Cardinality(At({"pop"})) \in Nat /\ Len(queue) = able + Cardinality(At({"pop"}))
        BY AtFinite, <1>t DEF Accounted
      <3> QED
        BY <3>1, <1>3
    <2>2. Cardinality(Slaves) = Cardinality(todo') + Len(queue') + Cardinality(At(Inside \cup {"exited"}))
      <3>1. /\ Cardinality(At(Inside \cup {"exited"})) \in Nat
            /\ Cardinality(Slaves) = Cardinality(todo) + Len(queue) + Cardinality(At(Inside \cup {"exited"}))
        BY AtFinite, <1>1, <1>t DEF Accounted
      <3> QED
        BY <3>1, <1>3
    <2> QED
      BY <2>1, <2>2, <1>1, <1>u, <1>4, AtSame DEF Accounted
  <1>9. Posted' /\ Placed'
    BY <1>1, <1>u, <1>4, <1>t, AtSame DEF Posted, Placed
  <1>10. Kinds'
    BY <1>1, <1>u, <1>3, <1>4, <1>5, <1>t, AtSame DEF Kinds
  <1>11. Barrier'
    BY <1>u, <1>4, <1>t DEF Barrier
  <1>12. Flags'
    BY <1>1, <1>u, <1>4, <1>t, AtSame DEF Flags
  <1> QED
    BY <1>6, <1>7, <1>8, <1>9, <1>10, <1>11, <1>12 DEF IInv

LEMMA RunAvailableEndsInv ==
    ASSUME IInv, RunAvailableEnds
    PROVE  IInv'
  <1>1. /\ mpc \in {"bundle_run", "stream_run"} /\ pc[Master] = "idle"
        /\ mpc' = IF mpc = "bundle_run" THEN "bundle_wait" ELSE "stream_wait"
        /\ UNCHANGED <<startup, thr, queue, able, runVars, todo, batch, task_count, frame, issued, countVars>>
    BY DEF RunAvailableEnds
  <1>u. UNCHANGED <<flag, memory, pc, task, executor, tasks_left, bundle_done, completed, counter>>
    BY <1>1 DEF runVars, countVars
  <1>t. TypeOK /\ Started /\ Accounted /\ Posted /\ Placed /\ Kinds /\ Barrier /\ Flags
    BY DEF IInv
  <1>2. /\ mpc \in Bundling <=> mpc' \in Bundling
        /\ mpc \in Streaming <=> mpc' \in Streaming
        /\ mpc \notin Reading /\ mpc' \notin Reading /\ mpc' \in {"bundle_wait", "stream_wait"}
        /\ mpc \in Bundling \cup Streaming
    BY <1>1 DEF Bundling, Streaming, Reading
  <1>3. Queued' = Queued /\ Held' = Held /\ Begun' = Begun
    BY <1>1, <1>u, AtSame DEF Queued, Held, Begun
  <1>4. TypeOK'
    BY <1>1, <1>u, <1>2, <1>t DEF TypeOK
  <1>5. Started'
    BY <1>1, <1>u, <1>t, AtSame DEF Started
  <1>6. Accounted'
    BY <1>1, <1>u, <1>2, <1>t, AtSame DEF Accounted
  <1>7. Posted' /\ Barrier'
    BY <1>1, <1>u, <1>2, <1>t, AtSame DEF Posted, Barrier
  <1>8. Placed'
    BY <1>1, <1>u, <1>2, <1>3, <1>t, AtSame DEF Placed
  <1>9. Kinds'
    BY <1>1, <1>u, <1>2, <1>3, <1>t, AtSame DEF Kinds
  <1>10. Flags'
    BY <1>1, <1>u, <1>2, <1>t, AtSame DEF Flags
  <1> QED
    BY <1>4, <1>5, <1>6, <1>7, <1>8, <1>9, <1>10 DEF IInv

\* The master goes on to read what the tasks left: no task is queued and no worker in one.
LEMMA ReadingStep ==
    ASSUME IInv, mpc \in {"bundle_wait", "stream_wait"}, mpc' \in Reading, queue = <<>>, At(Inside) = {}, At({"post"}) = {},
           bundle_done' = 0, mpc' = "stream_cleanup" => completed = task_count,
           UNCHANGED <<startup, thr, queue, able, runVars, todo, batch, task_count, frame, issued>>,
           UNCHANGED <<tasks_left, completed, counter>>
    PROVE  IInv'
  <1>u. UNCHANGED <<flag, memory, pc, task, executor>>
    BY DEF runVars
  <1>t. TypeOK /\ Started /\ Accounted /\ Posted /\ Placed /\ Kinds /\ Barrier /\ Flags
    BY DEF IInv
  <1>1. /\ mpc' \notin Bundling \cup Streaming /\ mpc' \in {"bundle_read", "stream_cleanup"}
        /\ mpc \in Bundling \cup Streaming /\ todo = {}
    BY <1>t DEF Accounted, Bundling, Streaming, Reading
  <1>2. At({"spin"}) = {} /\ At({"spin", "account"}) = {}
    BY DEF At, Inside
  <1>3. Queued' = Queued /\ Held' = Held /\ Begun' = Begun
    BY <1>u, AtSame DEF Queued, Held, Begun
  <1>4. TypeOK'
    BY <1>u, <1>1, <1>t DEF TypeOK
  <1>5. Started'
    <2>1. pc[Master] = "idle" /\ mpc \notin {"init", "await"}
      BY <1>t DEF Started
    <2> QED
      BY <2>1, <1>u, <1>1, <1>t, AtSame DEF Started
  <1>6. Accounted'
    <2>1. At({"exited"}) = {}
      BY <1>t DEF Accounted
    <2> QED
      BY <2>1, <1>u, <1>1, <1>t, AtSame DEF Accounted
  <1>7. Posted' /\ Barrier'
    BY <1>u, <1>1, <1>t, AtSame DEF Posted, Barrier
  <1>8. Placed'
    BY <1>u, <1>1, <1>3, <1>t, AtSame DEF Placed
  <1>9. Kinds'
    BY <1>u, <1>1, <1>2, AtSame DEF Kinds
  <1>10. Flags'
    BY <1>u, <1>1, <1>t, AtSame DEF Flags
  <1> QED
    BY <1>4, <1>5, <1>6, <1>7, <1>8, <1>9, <1>10 DEF IInv

LEMMA BundleWaitInv ==
    ASSUME IInv, BundleWait
    PROVE  IInv'
  <1>1. /\ mpc = "bundle_wait" /\ bundle_done > 0 /\ bundle_done' = bundle_done - 1 /\ mpc' = "bundle_read"
        /\ UNCHANGED <<startup, thr, queue, able, runVars, todo, batch, task_count, frame, issued>>
        /\ UNCHANGED <<tasks_left, completed, counter>>
    BY DEF BundleWait
  <1>2. bundle_done = 1 /\ tasks_left = 0
    BY <1>1 DEF IInv, TypeOK, Posted
  <1>3. At({"post"}) = {}
    BY <1>2 DEF IInv, Posted
  <1>4. 0 = Cardinality(todo) + Len(queue) + Cardinality(At(Inside))
    BY <1>1, <1>2 DEF IInv, Accounted, Bundling
  <1>5. Cardinality(todo) \in Nat /\ Len(queue) \in Nat /\ Cardinality(At(Inside)) \in Nat
    BY FS_CardinalityType, AtFinite DEF IInv, TypeOK
  <1>6. Len(queue) = 0 /\ Cardinality(At(Inside)) = 0
    BY <1>4, <1>5
  <1>7. queue = <<>> /\ At(Inside) = {}
    BY <1>6, AtFinite DEF IInv, TypeOK
  <1>8. mpc' \in Reading /\ mpc' # "stream_cleanup" /\ bundle_done' = 0
    BY <1>1, <1>2 DEF Reading
  <1> QED
    BY <1>1, <1>3, <1>7, <1>8, ReadingStep

LEMMA StreamSpinWaitInv ==
    ASSUME IInv, StreamSpinWait
    PROVE  IInv'
  <1>1. /\ mpc = "stream_wait" /\ completed >= task_count /\ mpc' = "stream_cleanup"
        /\ UNCHANGED <<startup, thr, queue, able, runVars, todo, batch, task_count, frame, issued, countVars>>
    BY DEF StreamSpinWait
  <1>2. At({"post"}) = {} /\ bundle_done = 0
    BY <1>1 DEF IInv, TypeOK, Posted, Bundling
  <1>3. task_count = completed + Len(queue) + Cardinality(At(Inside))
    BY <1>1 DEF IInv, Accounted, Streaming
  <1>4. task_count \in Nat /\ completed \in Nat /\ Len(queue) \in Nat /\ Cardinality(At(Inside)) \in Nat
    BY AtFinite DEF IInv, TypeOK
  <1>5. Len(queue) = 0 /\ Cardinality(At(Inside)) = 0 /\ completed = task_count
    BY <1>1, <1>3, <1>4
  <1>6. queue = <<>> /\ At(Inside) = {}
    BY <1>5, AtFinite DEF IInv, TypeOK
  <1>7. mpc' \in Reading
    BY <1>1 DEF Reading
  <1>8. UNCHANGED <<tasks_left, bundle_done, completed, counter>>
    BY <1>1 DEF countVars
  <1> QED
    BY <1>1, <1>2, <1>5, <1>6, <1>7, <1>8, ReadingStep

\* The master begins to issue the tasks of a batch.
LEMMA SplitRangeInv ==
    ASSUME IInv, NEW n \in 1..MaxSplit, SplitRange(n)
    PROVE  IInv'
  <1>1. /\ mpc = "main" /\ issued' = issued + 1 /\ batch' = Tasks("bundle", n, issued') /\ todo' = batch'
        /\ tasks_left' = n /\ executor' = <<>> /\ mpc' = "bundle"
        /\ UNCHANGED <<startup, thr, queue, able, flag, memory, pc, task, task_count, frame>>
        /\ UNCHANGED <<bundle_done, completed, counter>>
    BY DEF SplitRange
  <1>t. TypeOK /\ Started /\ Flags
    BY DEF IInv
  <1>2. n \in Nat /\ n # 0
    BY SplitAssumption
  <1>3. /\ batch' \subseteq TaskInfo /\ IsFiniteSet(batch') /\ Cardinality(batch') = n
        /\ \A t \in batch' : t.kind = "bundle" /\ t.frame = frame
    <2>1. issued' \in Nat /\ frame \in Nat
      BY <1>1, <1>t DEF TypeOK
    <2> QED
      BY <2>1, <1>1, <1>2, TasksOfBatch
  <1>4. /\ queue = <<>> /\ able = 0 /\ bundle_done = 0 /\ Len(queue) = 0
        /\ At(Inside) = {} /\ At(Before) = {} /\ At({"spin"}) = {} /\ At({"spin", "account"}) = {}
        /\ At({"flushed"}) = {} /\ At({"run", "spin", "account"}) = {} /\ At({"post"}) = {} /\ At({"exited"}) = {}
        /\ At({"pop"}) = {} /\ Queued = {} /\ Held = {} /\ pc[Master] = "idle"
    BY <1>1, QuietFacts DEF Idle
  <1>5. mpc' \in Bundling /\ mpc' \notin Streaming /\ mpc' \notin Reading
    BY <1>1 DEF Bundling, Streaming, Reading
  <1>6. Len(executor') = 0 /\ Begun' = {} /\ Queued' = {} /\ Held' = {}
    BY <1>1, <1>4, AtSame DEF Begun, Queued, Held
  <1>7. Cardinality(At({"pop"})) = 0 /\ Cardinality(At(Inside)) = 0 /\ todo' # {}
    BY <1>1, <1>2, <1>3, <1>4, FS_EmptySet
  <1>8. TypeOK'
    <2>1. issued' \in Nat /\ executor' \in Seq(TaskInfo \X Workers) /\ tasks_left' \in Nat
      BY <1>1, <1>2, <1>t DEF TypeOK
    <2>2. IsFiniteSet(todo') /\ todo' \subseteq TaskInfo /\ batch' \subseteq TaskInfo
      BY <1>1, <1>3
    <2>3. mpc' \in Bundling /\ mpc' # "clear"
      BY <1>1 DEF Bundling
    <2>4. /\ UNCHANGED <<startup, thr, queue, able, flag, memory, pc, task, task_count, frame>>
          /\ UNCHANGED <<bundle_done, completed, counter>>
      BY <1>1
    <2> QED
      BY <2>1, <2>2, <2>3, <2>4, <1>t DEF TypeOK
  <1>9. Started'
    BY <1>1, <1>t, AtSame DEF Started
  <1>10. Accounted'
    <2>1. /\ At({"pop"})' = At({"pop"}) /\ At(Inside)' = At(Inside) /\ At({"exited"})' = {}
          /\ Len(queue') = 0 /\ able' = 0
      BY <1>1, <1>4, AtSame
    <2>2. tasks_left' = n /\ Cardinality(todo') = n
      BY <1>1, <1>3
    <2>3. mpc' = "bundle" /\ todo' # {}
      BY <1>1, <1>7
    <2> QED
      BY <2>1, <2>2, <2>3, <1>2, <1>5, <1>7 DEF Accounted
  <1>11. Posted' /\ Placed'
    <2>1. Posted'
      BY <1>1, <1>4, AtSame DEF Posted
    <2> QED
      BY <2>1, <1>1, <1>4, <1>5, <1>6, AtSame DEF Placed
  <1>12. Kinds' /\ Barrier'
    BY <1>1, <1>3, <1>4, <1>5, <1>6, AtSame DEF Kinds, Barrier
  <1>13. Flags'
    BY <1>1, <1>4, <1>6, <1>t, AtSame DEF Flags
  <1> QED
    BY <1>8, <1>9, <1>10, <1>11, <1>12, <1>13 DEF IInv

LEMMA StreamInitInv ==
    ASSUME IInv, NEW ts, StreamInit(ts), ts \subseteq TaskInfo, IsFiniteSet(ts), issued' \in Nat,
           \/ \A t \in ts : t.kind = "stream" /\ t.frame = frame
           \/ (\A t \in ts : t.kind = "debug") /\ counter = 0 /\ Cardinality(ts) = Cardinality(Workers)
    PROVE  IInv'
  <1>1. /\ mpc = "main" /\ completed' = 0 /\ task_count' = 0 /\ batch' = {} /\ executor' = <<>> /\ todo' = ts
        /\ mpc' = IF ts = {} THEN "stream_run" ELSE "stream"
        /\ UNCHANGED <<startup, thr, queue, able, flag, memory, pc, task, frame, tasks_left, bundle_done, counter>>
    BY DEF StreamInit
  <1>t. TypeOK /\ Started /\ Flags
    BY DEF IInv
  <1>2. /\ queue = <<>> /\ able = 0 /\ bundle_done = 0 /\ Len(queue) = 0
        /\ At(Inside) = {} /\ At(Before) = {} /\ At({"spin"}) = {} /\ At({"spin", "account"}) = {}
        /\ At({"flushed"}) = {} /\ At({"run", "spin", "account"}) = {} /\ At({"post"}) = {} /\ At({"exited"}) = {}
        /\ At({"pop"}) = {} /\ Queued = {} /\ Held = {} /\ pc[Master] = "idle"
    BY <1>1, QuietFacts DEF Idle
  <1>3. /\ mpc' \in Streaming /\ mpc' \notin Bundling /\ mpc' \notin Reading /\ mpc' \in {"stream", "stream_run"}
        /\ mpc' = "stream" => ts # {}
        /\ mpc' = "stream_run" => ts = {}
    BY <1>1 DEF Bundling, Streaming, Reading
  <1>4. Len(executor') = 0 /\ Begun' = {} /\ Queued' = {} /\ Held' = {} /\ batch' \cup todo' = ts
    BY <1>1, <1>2, AtSame DEF Begun, Queued, Held
  <1>5. Cardinality(At({"pop"})) = 0 /\ Cardinality(At(Inside)) = 0
    BY <1>2, FS_EmptySet
  <1>6. TypeOK'
    BY <1>1, <1>3, <1>t DEF TypeOK
  <1>7. Started'
    BY <1>1, <1>3, <1>t, AtSame DEF Started
  <1>8. Accounted'
    <2>1. /\ At({"pop"})' = At({"pop"}) /\ At(Inside)' = At(Inside) /\ At({"exited"})' = {}
          /\ Len(queue') = 0 /\ able' = 0
      BY <1>1, <1>2, AtSame
    <2>2. task_count' = 0 /\ completed' = 0 /\ todo' = ts
      BY <1>1
    <2> QED
      BY <2>1, <2>2, <1>3, <1>5 DEF Accounted
  <1>9. Posted'
    BY <1>1, <1>2, AtSame DEF Posted
  <1>10. Placed'
    BY <1>1, <1>2, <1>3, <1>4, AtSame DEF Placed
  <1>11. Kinds'
    BY <1>1, <1>2, <1>3, <1>4, AtSame DEF Kinds
  <1>12. Barrier'
    <2>1. (\E t \in ts : t.kind = "debug") => counter = 0 /\ Cardinality(ts) = Cardinality(Workers)
      OBVIOUS
    <2> QED
      BY <2>1, <1>1, <1>3, <1>4 DEF Barrier
  <1>13. Flags'
    BY <1>1, <1>2, <1>4, <1>t, AtSame DEF Flags
  <1> QED
    BY <1>6, <1>7, <1>8, <1>9, <1>10, <1>11, <1>12, <1>13 DEF IInv

LEMMA SolveIslandsInv ==
    ASSUME IInv, NEW n \in 0..MaxSplit, SolveIslands(n)
    PROVE  IInv'
  <1> DEFINE ts == Tasks("stream", n, issued')
  <1>1. issued' = issued + 1 /\ StreamInit(ts)
    BY DEF SolveIslands
  <1>2. issued' \in Nat /\ frame \in Nat /\ n \in Nat
    BY <1>1, SplitAssumption DEF IInv, TypeOK
  <1>3. /\ ts \subseteq TaskInfo /\ IsFiniteSet(ts)
        /\ \A t \in ts : t.kind = "stream" /\ t.frame = frame
    BY <1>2, TasksOfBatch
  <1> HIDE DEF ts
  <1> QED
    BY <1>1, <1>2, <1>3, StreamInitInv

LEMMA SetCollisionDebugInv ==
    ASSUME IInv, SetCollisionDebug
    PROVE  IInv'
  <1> DEFINE ts == Tasks("debug", Cardinality(Workers), 0)
  <1>1. counter = 0 /\ issued' = issued /\ StreamInit(ts)
    BY DEF SetCollisionDebug
  <1>2. issued' \in Nat /\ frame \in Nat /\ Cardinality(Workers) \in Nat
    BY <1>1, WorkersFinite DEF IInv, TypeOK
  <1>3. /\ ts \subseteq TaskInfo /\ IsFiniteSet(ts) /\ Cardinality(ts) = Cardinality(Workers)
        /\ \A t \in ts : t.kind = "debug"
    BY <1>2, TasksOfBatch
  <1> HIDE DEF ts
  <1> QED
    BY <1>1, <1>2, <1>3, StreamInitInv

LEMMA DestroyInv ==
    ASSUME IInv, Destroy
    PROVE  IInv'
  <1>1. /\ mpc = "main" /\ todo' = Tasks("exit", Cardinality(Slaves), 0) /\ mpc' = "destroy"
        /\ UNCHANGED <<startup, thr, queue, able, runVars, batch, task_count, frame, issued, countVars>>
    BY DEF Destroy
  <1>u. UNCHANGED <<flag, memory, pc, task, executor, tasks_left, bundle_done, completed, counter>>
    BY <1>1 DEF runVars, countVars
  <1>t. TypeOK /\ Started /\ Barrier /\ Flags
    BY DEF IInv
  <1>2. /\ queue = <<>> /\ able = 0 /\ bundle_done = 0 /\ Len(queue) = 0
        /\ At(Inside) = {} /\ At({"spin"}) = {} /\ At({"spin", "account"}) = {} /\ At({"post"}) = {}
        /\ At(Inside \cup {"exited"}) = {} /\ At({"pop"}) = {} /\ Queued = {} /\ Held = {}
    BY <1>1, QuietFacts DEF Idle
  <1>3. /\ todo' \subseteq TaskInfo /\ IsFiniteSet(todo') /\ Cardinality(todo') = Cardinality(Slaves)
        /\ \A t \in todo' : t.kind = "exit"
    <2>1. Cardinality(Slaves) \in Nat /\ frame \in Nat
      BY WorkersFinite, <1>t DEF TypeOK
    <2> QED
      BY <2>1, <1>1, TasksOfBatch
  <1>4. mpc' \notin Bundling \cup Streaming \cup Reading
    BY <1>1 DEF Bundling, Streaming, Reading
  <1>5. Queued' = {} /\ Held' = {}
    BY <1>1, <1>u, <1>2, AtSame DEF Queued, Held
  <1>6. /\ Cardinality(At({"pop"})) = 0 /\ Cardinality(At(Inside \cup {"exited"})) = 0 /\ Cardinality(Slaves) \in Nat
    BY <1>2, FS_EmptySet, WorkersFinite
  <1>7. TypeOK'
    BY <1>1, <1>u, <1>3, <1>t DEF TypeOK
  <1>8. Started'
    BY <1>1, <1>u, <1>t, AtSame DEF Started
  <1>9. Accounted'
    BY <1>1, <1>u, <1>2, <1>3, <1>4, <1>6, AtSame DEF Accounted
  <1>10. Posted' /\ Placed' /\ Kinds' /\ Barrier'
    BY <1>1, <1>u, <1>2, <1>3, <1>4, <1>5, <1>t, AtSame DEF Posted, Placed, Kinds, Barrier
  <1>11. Flags'
    BY <1>1, <1>u, <1>4, <1>t, AtSame DEF Flags
  <1> QED
    BY <1>7, <1>8, <1>9, <1>10, <1>11 DEF IInv

LEMMA JoinInv ==
    ASSUME IInv, Join
    PROVE  IInv'
  <1>1. /\ mpc = "destroy" /\ todo = {} /\ mpc' = "ended" /\ \A w \in Slaves : pc[w] = "exited"
        /\ UNCHANGED <<startup, thr, queue, able, runVars, todo, batch, task_count, frame, issued, countVars>>
    BY DEF Join
  <1>u. UNCHANGED <<flag, memory, pc, task, executor, tasks_left, bundle_done, completed, counter>>
    BY <1>1 DEF runVars, countVars
  <1>t. TypeOK /\ Started /\ Accounted /\ Posted /\ Kinds /\ Barrier /\ Flags
    BY DEF IInv
  <1>2. At(Inside) = {}
    <2>1. \A w \in Workers : pc[w] = "exited" \/ pc[w] = "idle"
      BY <1>1, <1>t DEF Started, Workers
    <2> QED
      BY <2>1 DEF At, Inside, Before
  <1>3. queue = <<>>
    <2> DEFINE out == At(Inside \cup {"exited"})
    <2>1. Slaves \in SUBSET out /\ IsFiniteSet(out) /\ Cardinality(out) \in Nat
      <3>1. Slaves \subseteq out
        BY <1>1 DEF At, Workers
      <3> QED
        BY <3>1, AtFinite
    <2>2. Cardinality(Slaves) = Cardinality(todo) + Len(queue) + Cardinality(out)
      BY <1>1, <1>t DEF Accounted
    <2> HIDE DEF out
    <2>3. Cardinality(Slaves) <= Cardinality(out)
      BY <2>1, FS_Subset
    <2>4. Cardinality(todo) = 0 /\ Len(queue) \in Nat /\ Cardinality(Slaves) \in Nat
      BY <1>1, <1>t, FS_EmptySet, WorkersFinite DEF TypeOK
    <2>5. Len(queue) = 0
      BY <2>1, <2>2, <2>3, <2>4
    <2> QED
      BY <2>5, <1>t DEF TypeOK
  <1>4. mpc' \notin Bundling \cup Streaming \cup Reading /\ mpc \notin Bundling
    BY <1>1 DEF Bundling, Streaming, Reading
  <1>5. TypeOK'
    BY <1>1, <1>u, <1>t DEF TypeOK
  <1>6. Started'
    BY <1>1, <1>u, <1>t, AtSame DEF Started
  <1>7. Accounted'
    BY <1>1, <1>u, <1>2, <1>3, <1>4, <1>t, AtSame DEF Accounted
  <1>8. Posted' /\ Placed' /\ Kinds' /\ Barrier'
    BY <1>1, <1>u, <1>4, <1>t, AtSame DEF Posted, Placed, Kinds, Barrier
  <1>9. Flags'
    BY <1>1, <1>u, <1>4, <1>t, AtSame DEF Flags
  <1> QED
    BY <1>5, <1>6, <1>7, <1>8, <1>9 DEF IInv

LEMMA DriveInv ==
    ASSUME IInv, Drive
    PROVE  IInv'
  BY OpenGateInv, AwaitWorkersInv, SetFlagInv, PushBundleInv, RunAvailableEndsInv, BundleWaitInv, ReleaseInv,
     StreamDispatchInv, StreamSpinWaitInv, PushExitInv, JoinInv DEF Drive

LEMMA StutterInv ==
    ASSUME IInv, UNCHANGED vars
    PROVE  IInv'
  <1>1. /\ UNCHANGED <<startup, thr, queue, able, flag, memory, pc, task, mpc, todo, batch>>
        /\ UNCHANGED <<tasks_left, bundle_done, completed, counter, task_count, executor, frame, issued>>
    BY DEF vars
  <1>t. TypeOK /\ Started /\ Accounted /\ Posted /\ Placed /\ Kinds /\ Barrier /\ Flags
    BY DEF IInv
  <1>2. Queued' = Queued /\ Held' = Held /\ Begun' = Begun
    BY <1>1, AtSame DEF Queued, Held, Begun
  <1>3. TypeOK'
    BY <1>1, <1>t DEF TypeOK
  <1>4. Started' /\ Accounted' /\ Posted'
    <2>1. Started'
      BY <1>1, <1>t, AtSame DEF Started
    <2>2. Accounted'
      BY <1>1, <1>t, AtSame DEF Accounted
    <2>3. Posted'
      BY <1>1, <1>t, AtSame DEF Posted
    <2> QED BY <2>1, <2>2, <2>3
  <1>5. Placed'
    BY <1>1, <1>2, <1>t, AtSame DEF Placed
  <1>6. Kinds' /\ Barrier' /\ Flags'
    BY <1>1, <1>2, <1>t, AtSame DEF Kinds, Barrier, Flags
  <1> QED
    BY <1>3, <1>4, <1>5, <1>6 DEF IInv

LEMMA StepInv == IInv /\ [Next]_vars => IInv'
  BY WorkInv, DriveInv, BeginFrameInv, DestroyInv, SetCollisionDebugInv, SplitRangeInv, SolveIslandsInv, StutterInv
     DEF Next

(***************************************************************************)
(* The theorems.                                                           *)
(***************************************************************************)

\* Workers and master of task.c keep the invariant, however many threads there are and
\* however their steps interleave.
THEOREM InvariantHolds == Spec => []IInv
  BY InitInv, StepInv, PTL DEF Spec

\* At the end of task_bundle_wait and task_stream_spin_wait each task of the batch has been
\* run, once; and each of those of thread_set_collision_debug by another thread.
THEOREM RanOnceTheorem == Spec => []RanOnce
  <1>1. IInv => RanOnce
    <2> SUFFICES ASSUME IInv PROVE RanOnce
      OBVIOUS
    <2>t. TypeOK /\ Placed /\ Barrier
      BY DEF IInv
    <2>1. DOMAIN executor = 1..Len(executor) /\ Len(executor) \in Nat
      BY <2>t DEF TypeOK
    <2>2. ASSUME mpc \in {"bundle_read", "stream_cleanup"}
          PROVE  /\ Len(executor) = Cardinality(batch)
                 /\ \A t \in batch : Cardinality(RunsOf(t)) = 1
      <3>1. Queued = {} /\ Held = {} /\ todo = {}
        <4>1. Queued = {} /\ Held = {}
          BY <2>2, QuietFacts DEF Reading
        <4> QED
          BY <4>1, <2>2 DEF IInv, Accounted
      <3>2. batch = Begun /\ \A i, j \in 1..Len(executor) : executor[i][1] = executor[j][1] => i = j
        BY <3>1, <2>2, <2>t DEF Placed, Reading
      <3>3. Len(executor) = Cardinality(batch)
        BY <3>2, <2>t, BegunCount
      <3>4. ASSUME NEW t \in batch PROVE Cardinality(RunsOf(t)) = 1
        <4>1. PICK i \in 1..Len(executor) : executor[i][1] = t
          BY <3>2 DEF Begun
        <4>2. RunsOf(t) = {i}
          BY <4>1, <3>2, <2>1 DEF RunsOf
        <4> QED
          BY <4>2, FS_Singleton
      <3> QED
        BY <3>3, <3>4
    <2>3. \A i, j \in DOMAIN executor : i # j /\ executor[i][1].kind = "debug" => executor[i][2] # executor[j][2]
      BY <2>1, <2>t DEF Barrier
    <2> QED
      BY <2>2, <2>3 DEF RanOnce
  <1> QED
    BY <1>1, InvariantHolds, PTL

\* No worker is in a task whose batch has been released, the frame memory of a worker that
\* ran a task keeps its output until the master has read it, and holds none of an earlier frame.
THEOREM MemoryHeldTheorem == Spec => []MemoryHeld
  <1>1. IInv => MemoryHeld
    <2> SUFFICES ASSUME IInv PROVE MemoryHeld
      OBVIOUS
    <2>t. TypeOK /\ Flags
      BY DEF IInv
    <2>1. BatchHeld
      <3> SUFFICES ASSUME NEW w \in Workers, InTask(w), task[w].kind # "exit"
                   PROVE  /\ task[w] \in batch
                          /\ mpc \in {"bundle", "bundle_run", "bundle_wait", "stream", "stream_run", "stream_wait"}
        BY DEF BatchHeld
      <3>1. pc[w] \in Inside
        BY DEF InTask, Inside, Before
      <3>2. /\ mpc \in Bundling \cup Streaming \cup {"destroy"}
            /\ mpc \in Bundling \cup Streaming => task[w] \in batch \ todo
            /\ mpc = "destroy" => task[w].kind = "exit"
        BY <3>1, InsideTask
      <3> QED
        BY <3>2 DEF Bundling, Streaming
    <2>2. mpc \in {"bundle_read", "stream_cleanup"} =>
            \A i \in DOMAIN executor :
                executor[i][1].kind # "debug" => executor[i][1] \in memory[executor[i][2]]
      <3>1. DOMAIN executor = 1..Len(executor)
        BY <2>t DEF TypeOK
      <3> QED
        BY <3>1, <2>t DEF Flags, Reading
    <2>3. FreshFrame
      <3> SUFFICES ASSUME NEW w \in Workers, pc[w] = "account" PROVE \A t \in memory[w] : t.frame = frame
        BY DEF FreshFrame
      <3>1. flag[w] = 0
        BY <2>t DEF Flags, At
      <3>2. mpc # "clear"
        <4>1. mpc \in Bundling \cup Streaming \cup {"destroy"}
          BY BusyWorker DEF Inside
        <4> QED
          BY <4>1 DEF Bundling, Streaming
      <3> QED
        BY <3>1, <3>2, <2>t DEF Flags
    <2> QED
      BY <2>1, <2>2, <2>3 DEF MemoryHeld
  <1> QED
    BY <1>1, InvariantHolds, PTL

\* One post for each bundle, a stream is cleaned up complete, every thread is there to join,
\* and no task and no thread is left when task_context_destroy frees the queue.
THEOREM CallsSoundTheorem == Spec => []CallsSound
  <1>1. IInv => CallsSound
    <2> SUFFICES ASSUME IInv PROVE CallsSound
      OBVIOUS
    <2>t. TypeOK /\ Started /\ Accounted /\ Posted
      BY DEF IInv
    <2>1. mpc = "bundle" => tasks_left # 0
      <3>1. Cardinality(todo) \in Nat /\ (Cardinality(todo) = 0 => todo = {})
        BY <2>t, FS_CardinalityType, FS_EmptySet DEF TypeOK
      <3>2. Len(queue) \in Nat /\ Cardinality(At(Inside)) \in Nat
        BY <2>t, AtFinite DEF TypeOK
      <3> QED
        BY <3>1, <3>2, <2>t DEF Accounted, Bundling
    <2>2. OnePost
      <3>1. mpc \notin {"bundle_run", "bundle_wait"} => bundle_done = 0 /\ At({"post"}) = {}
        BY <2>1, <2>t DEF Posted, TypeOK, Bundling
      <3>2. \A w \in Workers : w \notin At({"post"}) => pc[w] # "post"
        BY DEF At
      <3> QED
        BY <3>1, <3>2, <2>t DEF OnePost, TypeOK
    <2>3. mpc \notin {"init", "await"} => thr = Slaves
      <3>1. At({"boot"}) \subseteq At({"boot", "booted"})
        BY DEF At
      <3> QED
        BY <3>1, <2>t DEF Started
    <2>4. mpc = "ended" => queue = <<>> /\ able = 0 /\ pc[Master] = "idle"
      <3> SUFFICES ASSUME mpc = "ended" PROVE queue = <<>> /\ able = 0 /\ pc[Master] = "idle"
        OBVIOUS
      <3>1. queue = <<>> /\ pc[Master] = "idle"
        BY <2>t DEF Accounted, Started, Bundling, Streaming
      <3>2. Len(queue) = 0 /\ able \in Nat /\ Cardinality(At({"pop"})) \in Nat
        BY <3>1, <2>t, AtFinite DEF TypeOK
      <3>3. Len(queue) = able + Cardinality(At({"pop"}))
        BY <2>t DEF Accounted
      <3> QED
        BY <3>1, <3>2, <3>3
    <2> QED
      BY <2>2, <2>3, <2>4, <2>t DEF CallsSound, Accounted
  <1> QED
    BY <1>1, InvariantHolds, PTL

===============================================================================
