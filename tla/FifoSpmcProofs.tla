---------------------------- MODULE FifoSpmcProofs ----------------------------
(***************************************************************************)
(* The invariants of the ring of FifoSpmc, and that it implements          *)
(* FifoQueue, for any set of consumers, any ring size and any wrap of the  *)
(* ticket counter that the size divides.                                   *)
(***************************************************************************)
EXTENDS FifoSpmc, FiniteSetTheorems, TLAPS

-------------------------------------------------------------------------------
(* Remainders: the slot of a running number and the wrapping ticket.       *)

\* Division with remainder, as the provers can use it.
LEMMA DivMod ==
    ASSUME NEW n \in Nat \ {0}, NEW a \in Nat
    PROVE  /\ a = n * (a \div n) + (a % n)
           /\ a % n \in 0..(n - 1)
           /\ a \div n \in Nat
    BY Z3

\* A remainder is determined by any decomposition.
LEMMA ModUnique ==
    ASSUME NEW n \in Nat \ {0}, NEW q \in Nat, NEW r \in 0..(n - 1)
    PROVE  (n * q + r) % n = r
    BY Z3

\* Indices that agree modulo n still agree after the same number of steps.
LEMMA ModStep ==
    ASSUME NEW n \in Nat \ {0}, NEW a \in Nat, NEW b \in Nat, NEW k \in Nat,
           a % n = b % n
    PROVE  (a + k) % n = (b + k) % n
<1> DEFINE r == a % n
           s == (r + k) % n
           p == (r + k) \div n
<1>1. /\ a = n * (a \div n) + r /\ r \in 0..(n - 1) /\ a \div n \in Nat
      /\ b = n * (b \div n) + r /\ b \div n \in Nat
  BY DivMod
<1>2. r + k = n * p + s /\ s \in 0..(n - 1) /\ p \in Nat
  <2>1. r + k \in Nat
    BY <1>1
  <2> QED BY <2>1, DivMod
<1> HIDE DEF r, s, p
<1>3. a + k = n * (a \div n + p) + s /\ b + k = n * (b \div n + p) + s
  BY <1>1, <1>2, Z3
<1>4. a \div n + p \in Nat /\ b \div n + p \in Nat
  BY <1>1, <1>2
<1> QED BY <1>2, <1>3, <1>4, ModUnique

\* Fewer than n steps never come back to the entry they started from.
LEMMA ModApart ==
    ASSUME NEW n \in Nat \ {0}, NEW a \in Nat, NEW k \in 1..(n - 1)
    PROVE  (a + k) % n # a % n
<1> DEFINE r == a % n
           q == a \div n
           p == (a + k) \div n
<1>1. a = n * q + r /\ r \in 0..(n - 1) /\ q \in Nat
  BY DivMod
<1>2. a + k \in Nat
  OBVIOUS
<1>3. a + k = n * p + ((a + k) % n) /\ p \in Nat
  BY <1>2, DivMod
<1>4. SUFFICES ASSUME (a + k) % n = r PROVE FALSE
  OBVIOUS
<1> HIDE DEF r, q, p
<1>5. k = n * (p - q)
  BY <1>1, <1>3, <1>4, Z3
<1>6. CASE p - q <= 0
  <2>1. n * (p - q) <= 0
    BY <1>1, <1>3, <1>6, Z3
  <2> QED BY <1>5, <2>1
<1>7. CASE p - q >= 1
  <2>1. n * (p - q) >= n
    BY <1>1, <1>3, <1>7, Z3
  <2> QED BY <1>5, <2>1
<1> QED BY <1>1, <1>3, <1>6, <1>7

\* Reducing modulo a multiple of n first changes no remainder modulo n.
LEMMA ModWrap ==
    ASSUME NEW n \in Nat \ {0}, NEW w \in Nat \ {0}, w % n = 0, NEW a \in Nat
    PROVE  (a % w) % n = a % n
<1> DEFINE m == w \div n
           q == a \div w
           r == a % w
           p == r \div n
           s == r % n
<1>1. w = n * m /\ m \in Nat
  <2>1. w = n * (w \div n) + (w % n) /\ w \div n \in Nat
    BY DivMod
  <2>2. n * (w \div n) \in Nat
    BY <2>1
  <2> QED BY <2>1, <2>2
<1>2. a = w * q + r /\ r \in Nat /\ q \in Nat
  BY DivMod
<1>3. r = n * p + s /\ s \in 0..(n - 1) /\ p \in Nat
  BY <1>2, DivMod
<1> HIDE DEF m, q, r, p, s
<1>4. a = n * (m * q + p) + s
  BY <1>1, <1>2, <1>3, Z3
<1>5. m * q + p \in Nat
  BY <1>1, <1>2, <1>3
<1>6. a % n = s
  BY <1>3, <1>4, <1>5, ModUnique
<1>7. r % n = s
  BY <1>3, ModUnique
<1> QED BY <1>6, <1>7 DEF r

-------------------------------------------------------------------------------
(* The inductive invariant.                                                *)

LEMMA SlotIndex ==
    ASSUME NEW k \in Nat
    PROVE  Slot(k) \in Index
    BY NAssumption, DivMod DEF Slot, Index

\* The slot of the next item is the one the producer looks at.
LEMMA NextEntrySlot ==
    ASSUME TypeOK, Indices
    PROVE  /\ NextEntry = Slot(pushed)
           /\ NextEntry \in Index
    BY SlotIndex DEF TypeOK, Indices, NextEntry, Slot

LEMMA OutstandingNat ==
    ASSUME TypeOK
    PROVE  Outstanding \subseteq Nat
    BY DEF TypeOK, Outstanding, Holders

\* While some consumer is between the semaphore and its ticket, an item waits.
LEMMA FetchingWaits ==
    ASSUME TypeOK, Counted
    PROVE  /\ IsFiniteSet(Fetching)
           /\ Cardinality(Fetching) \in Nat
           /\ taken <= posted
           /\ Fetching # {} => taken < posted
<1>1. IsFiniteSet(Fetching)
  BY ConsumersAssumption, FS_Subset DEF Fetching
<1>2. Cardinality(Fetching) \in Nat
  BY <1>1, FS_CardinalityType
<1>3. Fetching # {} => Cardinality(Fetching) # 0
  BY <1>1, FS_EmptySet
<1> QED BY <1>1, <1>2, <1>3 DEF TypeOK, Counted

LEMMA InitIInv == Init => IInv
<1> SUFFICES ASSUME Init PROVE IInv
  OBVIOUS
<1> USE DEF Init
<1>1. TypeOK
  BY NAssumption, WrapAssumption DEF TypeOK, Index
<1>2. Fetching = {} /\ Holders = {} /\ Outstanding = {}
  BY DEF Fetching, Holders, Outstanding
<1>3. Counted
  BY <1>2, FS_EmptySet DEF Counted
<1>4. Indices
  BY DEF Indices, Slot
<1>5. Tickets /\ Entries /\ RightItem
  BY <1>2 DEF Tickets, Entries, RightItem
<1> QED BY <1>1, <1>3, <1>4, <1>5 DEF IInv

\* Steps of the producer that touch neither the entries nor the history.
LEMMA ProducerQuietStep ==
    ASSUME IInv, StartPush \/ TryPush \/ CountStart \/ CountStep
    PROVE  IInv'
<1> USE DEF IInv
<1>1. TypeOK'
  <2>1. CASE CountStep
    BY <2>1, NAssumption DEF TypeOK, CountStep, entryVars, consVars
  <2>2. CASE StartPush \/ TryPush \/ CountStart
    BY <2>2, NAssumption DEF TypeOK, StartPush, TryPush, CountStart, entryVars, consVars
  <2> QED BY <2>1, <2>2
<1>2. /\ UNCHANGED <<in_use, data, able, a_first, next_alloc, pc, idx, item, ticket,
                     pushed, posted, taken>>
      /\ ppc \notin {"store", "post", "claim"} /\ ppc' \notin {"store", "post"}
      /\ ppc' = "claim" => in_use[NextEntry] = 0
  BY DEF StartPush, TryPush, CountStart, CountStep, entryVars, consVars
<1>3. Fetching' = Fetching /\ Holders' = Holders /\ Outstanding' = Outstanding
  BY <1>2 DEF Fetching, Holders, Outstanding
<1>4. Counted'
  BY <1>2, <1>3 DEF Counted
<1>5. Indices'
  BY <1>2 DEF Indices, Slot
<1>6. Tickets'
  BY <1>2, <1>3 DEF Tickets, Slot
<1>7. Entries'
  BY <1>2, <1>3 DEF Entries, Slot, NextEntry
<1>8. RightItem'
  BY <1>2 DEF RightItem
<1> QED BY <1>1, <1>4, <1>5, <1>6, <1>7, <1>8

LEMMA ClaimStep ==
    ASSUME IInv, Claim
    PROVE  IInv'
<1> USE DEF IInv
<1> DEFINE e == NextEntry
<1>1. /\ e = Slot(pushed) /\ e \in Index
      /\ in_use[e] = 0 /\ in_use' = [in_use EXCEPT ![e] = 1]
      /\ next_alloc' = e + 1 /\ pushed' = pushed + 1
      /\ ppc = "claim" /\ ppc' = "store"
      /\ UNCHANGED <<data, able, a_first, pc, idx, item, ticket, posted, taken>>
  BY NextEntrySlot DEF Claim, Entries, consVars
<1> HIDE DEF e
<1>2. TypeOK'
  <2>1. ready' \in 0..N
    BY NAssumption DEF TypeOK, Claim
  <2> QED BY <1>1, <2>1, NAssumption DEF TypeOK, Index
<1>3. Fetching' = Fetching /\ Holders' = Holders
  BY <1>1 DEF Fetching, Holders
<1>4. pushed = posted /\ taken <= pushed
  BY <1>1, FetchingWaits DEF Counted, TypeOK
<1>5. Outstanding' = Outstanding \cup {pushed}
  <2>1. taken..(pushed' - 1) = taken..(pushed - 1) \cup {pushed}
    BY <1>1, <1>4 DEF TypeOK
  <2> QED BY <1>1, <1>3, <2>1 DEF Outstanding
<1>6. \A k \in Outstanding : k \in Nat /\ k < pushed /\ Slot(k) # e
  <2>1. \A k \in Outstanding : Slot(k) # e
    BY <1>1 DEF Entries
  <2>2. \A k \in Outstanding : k < pushed
    BY <1>4 DEF Outstanding, Tickets, TypeOK, Holders
  <2> QED BY <2>1, <2>2, OutstandingNat
<1>7. Counted'
  BY <1>1, <1>3, <1>4 DEF Counted, TypeOK
<1>8. Indices'
  <2>1. (e + 1) % N = Slot(pushed + 1)
    <3>1. e \in Nat /\ e \in 0..(N - 1) /\ pushed \in Nat /\ N \in Nat \ {0} /\ 1 \in Nat
      BY <1>1, NAssumption DEF Index, TypeOK
    <3>2. e % N = pushed % N
      <4>1. e = N * 0 + e
        BY <3>1
      <4>2. e % N = e
        BY <3>1, <4>1, ModUnique
      <4> QED BY <1>1, <4>2 DEF Slot
    <3>3. (e + 1) % N = (pushed + 1) % N
      BY <3>1, <3>2, ModStep
    <3> QED BY <3>3 DEF Slot
  <2> QED BY <1>1, <2>1, NAssumption DEF Indices, Slot, Index, TypeOK
<1>9. Tickets'
  BY <1>1, <1>3 DEF Tickets, Slot
<1>10. Entries'
  <2>1. \A k \in Outstanding' : in_use'[Slot(k)] = 1
    BY <1>1, <1>5, <1>6, SlotIndex DEF Entries, TypeOK
  <2>2. \A j, k \in Outstanding' : Slot(j) = Slot(k) => j = k
    BY <1>1, <1>5, <1>6 DEF Entries
  <2>3. \A k \in Outstanding' : k = pushed' - 1 \/ data'[Slot(k)] = k
    BY <1>1, <1>4, <1>5, <1>6 DEF Entries, TypeOK
  <2> QED BY <1>1, <2>1, <2>2, <2>3 DEF Entries, Slot
<1>11. RightItem'
  BY <1>1 DEF RightItem
<1> QED BY <1>2, <1>7, <1>8, <1>9, <1>10, <1>11

LEMMA StoreDataStep ==
    ASSUME IInv, StoreData
    PROVE  IInv'
<1> USE DEF IInv
<1> DEFINE k0 == pushed - 1
<1>1. /\ pushed = posted + 1 /\ taken <= k0 /\ k0 \in Nat
      /\ next_alloc - 1 = Slot(k0) /\ Slot(k0) \in Index
      /\ k0 \in Outstanding
  <2>1. pushed = posted + 1 /\ taken <= k0 /\ k0 \in Nat
    BY FetchingWaits DEF StoreData, Counted, TypeOK
  <2>2. k0 \in Outstanding
    BY <2>1 DEF Outstanding, TypeOK
  <2> QED BY <2>1, <2>2, SlotIndex DEF StoreData, Indices
<1>2. /\ data' = [data EXCEPT ![Slot(k0)] = k0]
      /\ ppc = "store" /\ ppc' = "post"
      /\ UNCHANGED <<in_use, able, a_first, next_alloc, ready, pc, idx, item, ticket,
                     pushed, posted, taken>>
  BY <1>1 DEF StoreData, consVars
<1>3. Fetching' = Fetching /\ Holders' = Holders /\ Outstanding' = Outstanding
  BY <1>2 DEF Fetching, Holders, Outstanding
<1> HIDE DEF k0
<1>4. TypeOK'
  BY <1>1, <1>2 DEF TypeOK
<1>5. Counted'
  BY <1>2, <1>3 DEF Counted
<1>6. Indices'
  BY <1>2 DEF Indices, Slot
<1>7. Tickets'
  BY <1>2, <1>3 DEF Tickets, Slot
<1>8. Entries'
  <2>1. \A k \in Outstanding : data'[Slot(k)] = k
    <3> SUFFICES ASSUME NEW k \in Outstanding PROVE data'[Slot(k)] = k
      OBVIOUS
    <3>1. Slot(k) \in Index /\ k \in Nat
      BY OutstandingNat, SlotIndex
    <3>2. CASE k = k0
      BY <1>1, <1>2, <3>1, <3>2 DEF TypeOK
    <3>3. CASE k # k0
      <4>1. Slot(k) # Slot(k0) /\ data[Slot(k)] = k
        BY <1>1, <3>3 DEF Entries, k0
      <4> QED BY <1>2, <3>1, <4>1 DEF TypeOK
    <3> QED BY <3>2, <3>3
  <2> QED BY <1>2, <1>3, <2>1 DEF Entries, Slot
<1>9. RightItem'
  BY <1>2 DEF RightItem
<1> QED BY <1>4, <1>5, <1>6, <1>7, <1>8, <1>9

LEMMA PostStep ==
    ASSUME IInv, Post
    PROVE  IInv'
<1> USE DEF IInv
<1>1. /\ able' = able + 1 /\ posted' = posted + 1
      /\ ppc = "post" /\ ppc' = "idle"
      /\ UNCHANGED <<in_use, data, a_first, next_alloc, ready, pc, idx, item, ticket,
                     pushed, taken>>
  BY DEF Post, entryVars, consVars
<1>2. Fetching' = Fetching /\ Holders' = Holders /\ Outstanding' = Outstanding
  BY <1>1 DEF Fetching, Holders, Outstanding
<1>3. TypeOK'
  BY <1>1 DEF TypeOK
<1>4. Counted'
  BY <1>1, <1>2, FetchingWaits DEF Counted, TypeOK
<1>5. Indices'
  BY <1>1 DEF Indices, Slot
<1>6. Tickets'
  BY <1>1, <1>2 DEF Tickets, Slot
<1>7. Entries'
  BY <1>1, <1>2 DEF Entries, Slot
<1>8. RightItem'
  BY <1>1 DEF RightItem
<1> QED BY <1>3, <1>4, <1>5, <1>6, <1>7, <1>8

LEMMA ReserveStep ==
    ASSUME IInv, NEW c \in Consumers, Reserve(c)
    PROVE  IInv'
<1> USE DEF IInv
<1>1. /\ able > 0 /\ able' = able - 1
      /\ pc[c] = "idle" /\ pc' = [pc EXCEPT ![c] = "fetch"]
      /\ UNCHANGED <<in_use, data, a_first, next_alloc, ppc, ready, idx, item, ticket,
                     pushed, posted, taken>>
  BY DEF Reserve, entryVars, prodVars
<1>2. Fetching' = Fetching \cup {c} /\ c \notin Fetching /\ Holders' = Holders
  BY <1>1 DEF Fetching, Holders, TypeOK
<1>3. Outstanding' = Outstanding
  BY <1>1, <1>2 DEF Outstanding
<1>4. TypeOK'
  BY <1>1 DEF TypeOK
<1>5. Counted'
  <2>1. Cardinality(Fetching') = Cardinality(Fetching) + 1
    BY <1>2, FetchingWaits, FS_AddElement
  <2> QED BY <1>1, <2>1, FetchingWaits DEF Counted, TypeOK
<1>6. Indices'
  BY <1>1 DEF Indices, Slot
<1>7. Tickets'
  BY <1>1, <1>2 DEF Tickets, Slot
<1>8. Entries'
  BY <1>1, <1>3 DEF Entries, Slot, NextEntry
<1>9. RightItem'
  BY <1>1 DEF RightItem, TypeOK
<1> QED BY <1>4, <1>5, <1>6, <1>7, <1>8, <1>9

LEMMA FetchTicketStep ==
    ASSUME IInv, NEW c \in Consumers, FetchTicket(c)
    PROVE  IInv'
<1> USE DEF IInv
<1>1. /\ pc[c] = "fetch" /\ pc' = [pc EXCEPT ![c] = "load"]
      /\ idx' = [idx EXCEPT ![c] = a_first % N]
      /\ a_first' = (a_first + 1) % Wrap
      /\ ticket' = [ticket EXCEPT ![c] = taken] /\ taken' = taken + 1
      /\ UNCHANGED <<in_use, data, able, next_alloc, ppc, ready, item, pushed, posted>>
  BY DEF FetchTicket, entryVars, prodVars
<1>2. /\ Fetching' = Fetching \ {c} /\ c \in Fetching
      /\ Holders' = Holders \cup {c} /\ c \notin Holders
  BY <1>1 DEF Fetching, Holders, TypeOK
<1>3. taken < posted /\ posted <= pushed
  BY <1>2, FetchingWaits DEF Counted, TypeOK
<1>4. Outstanding' = Outstanding
  <2>1. {ticket'[d] : d \in Holders'} = {ticket[d] : d \in Holders} \cup {taken}
    <3>1. ticket'[c] = taken /\ \A d \in Holders : ticket'[d] = ticket[d]
      BY <1>1, <1>2 DEF TypeOK, Holders
    <3> QED BY <1>2, <3>1
  <2>2. taken..(pushed - 1) = (taken + 1)..(pushed - 1) \cup {taken}
    BY <1>3 DEF TypeOK
  <2> QED BY <1>1, <2>1, <2>2 DEF Outstanding
<1>5. a_first % N = Slot(taken) /\ Slot(taken) \in Index
  BY SlotIndex DEF Indices, TypeOK
<1>6. a_first' \in 0..(Wrap - 1)
  BY <1>1, WrapAssumption, DivMod DEF TypeOK
<1>7. TypeOK'
  BY <1>1, <1>5, <1>6 DEF TypeOK
<1>8. Counted'
  <2>1. Cardinality(Fetching') = Cardinality(Fetching) - 1
    BY <1>2, FetchingWaits, FS_RemoveElement
  <2> QED BY <1>1, <2>1, FetchingWaits DEF Counted, TypeOK
<1>9. Indices'
  <2>1. a_first \in Nat /\ taken \in Nat /\ 1 \in Nat /\ N \in Nat \ {0} /\ a_first + 1 \in Nat
    BY NAssumption DEF TypeOK
  <2>2. (a_first + 1) % N = (taken + 1) % N
    BY ZenonT(40), <1>5, <2>1, ModStep DEF Slot
  <2>3. ((a_first + 1) % Wrap) % N = (a_first + 1) % N
    BY <2>1, ModWrap, WrapAssumption
  <2> QED BY <1>1, <2>2, <2>3 DEF Indices, Slot
<1>10. Tickets'
  <2>1. \A d \in Holders' : ticket'[d] < taken' /\ idx'[d] = Slot(ticket'[d])
    BY <1>1, <1>2, <1>5 DEF Tickets, TypeOK, Holders
  <2>2. \A d, f \in Holders' : ticket'[d] = ticket'[f] => d = f
    <3>1. \A d \in Holders : ticket'[d] = ticket[d] /\ ticket[d] < taken /\ ticket[d] \in Nat
      BY <1>1, <1>2 DEF Tickets, TypeOK, Holders
    <3>2. ticket'[c] = taken
      BY <1>1 DEF TypeOK
    <3> QED BY <1>2, <3>1, <3>2 DEF Tickets, TypeOK
  <2> QED BY <2>1, <2>2 DEF Tickets, Slot
<1>11. Entries'
  BY <1>1, <1>4 DEF Entries, Slot, NextEntry
<1>12. RightItem'
  BY <1>1 DEF RightItem, TypeOK
<1> QED BY <1>7, <1>8, <1>9, <1>10, <1>11, <1>12

LEMMA LoadDataStep ==
    ASSUME IInv, NEW c \in Consumers, LoadData(c)
    PROVE  IInv'
<1> USE DEF IInv
<1>1. /\ pc[c] = "load" /\ pc' = [pc EXCEPT ![c] = "release"]
      /\ item' = [item EXCEPT ![c] = data[idx[c]]]
      /\ UNCHANGED <<in_use, data, able, a_first, next_alloc, ppc, ready, idx, ticket,
                     pushed, posted, taken>>
  BY DEF LoadData, entryVars, prodVars
<1>2. Fetching' = Fetching /\ Holders' = Holders
  BY <1>1 DEF Fetching, Holders, TypeOK
<1>3. Outstanding' = Outstanding
  BY <1>1, <1>2 DEF Outstanding
<1>4. data[idx[c]] = ticket[c]
  <2>1. c \in Holders /\ ticket[c] \in Outstanding
    BY <1>1 DEF Holders, Outstanding
  <2>2. ticket[c] < taken /\ idx[c] = Slot(ticket[c])
    BY <2>1 DEF Tickets
  <2>3. ~(ticket[c] = pushed - 1 /\ ppc = "store")
    BY <2>2, FetchingWaits DEF Counted, TypeOK
  <2> QED BY <2>1, <2>2, <2>3 DEF Entries
<1>5. TypeOK'
  BY <1>1, <1>4 DEF TypeOK
<1>6. Counted'
  BY <1>1, <1>2 DEF Counted
<1>7. Indices'
  BY <1>1 DEF Indices, Slot
<1>8. Tickets'
  BY <1>1, <1>2 DEF Tickets, Slot
<1>9. Entries'
  BY <1>1, <1>3 DEF Entries, Slot, NextEntry
<1>10. RightItem'
  BY <1>1, <1>4 DEF RightItem, TypeOK
<1> QED BY <1>5, <1>6, <1>7, <1>8, <1>9, <1>10

LEMMA ReleaseStep ==
    ASSUME IInv, NEW c \in Consumers, Release(c)
    PROVE  IInv'
<1> USE DEF IInv
<1> DEFINE t == ticket[c]
<1>1. /\ pc[c] = "release" /\ pc' = [pc EXCEPT ![c] = "idle"]
      /\ in_use' = [in_use EXCEPT ![idx[c]] = 0]
      /\ item' = [item EXCEPT ![c] = NoItem]
      /\ UNCHANGED <<data, able, a_first, next_alloc, ppc, ready, idx, ticket,
                     pushed, posted, taken>>
  BY DEF Release, prodVars
<1>2. /\ Fetching' = Fetching
      /\ Holders' = Holders \ {c} /\ c \in Holders
  BY <1>1 DEF Fetching, Holders, TypeOK
<1>3. idx[c] = Slot(t) /\ t < taken /\ t \in Outstanding /\ t \in Nat /\ idx[c] \in Index
  BY <1>2 DEF Tickets, Outstanding, TypeOK
<1>4. Outstanding' \subseteq Outstanding \ {t}
  <2>1. \A d \in Holders' : ticket[d] # t
    BY <1>2 DEF Tickets
  <2>2. \A k \in taken..(pushed - 1) : k # t
    BY <1>3 DEF TypeOK
  <2> QED BY <1>1, <1>2, <2>1, <2>2 DEF Outstanding
<1> HIDE DEF t
<1>5. \A k \in Outstanding' : Slot(k) # idx[c] /\ Slot(k) \in Index
  <2>1. \A k \in Outstanding' : k \in Outstanding /\ k # t /\ k \in Nat
    BY <1>4, OutstandingNat
  <2> QED BY <1>3, <2>1, SlotIndex DEF Entries
<1>6. TypeOK'
  BY <1>1, <1>3 DEF TypeOK
<1>7. Counted'
  BY <1>1, <1>2 DEF Counted
<1>8. Indices'
  BY <1>1 DEF Indices, Slot
<1>9. Tickets'
  BY <1>1, <1>2 DEF Tickets, Slot
<1>10. Entries'
  <2>1. \A k \in Outstanding' : in_use'[Slot(k)] = 1
    BY <1>1, <1>4, <1>5 DEF Entries, TypeOK
  <2>2. ppc' = "claim" => in_use'[NextEntry'] = 0
    BY <1>1, NextEntrySlot DEF Entries, NextEntry, TypeOK
  <2> QED BY <1>1, <1>4, <2>1, <2>2 DEF Entries, Slot
<1>11. RightItem'
  BY <1>1 DEF RightItem, TypeOK
<1> QED BY <1>6, <1>7, <1>8, <1>9, <1>10, <1>11

LEMMA StutterStep ==
    ASSUME IInv, UNCHANGED vars
    PROVE  IInv'
<1>1. /\ Fetching' = Fetching /\ Holders' = Holders /\ Outstanding' = Outstanding
      /\ NextEntry' = NextEntry
  BY DEF vars, Fetching, Holders, Outstanding, NextEntry
<1> QED BY <1>1 DEF vars, IInv, TypeOK, Counted, Indices, Tickets, Entries, RightItem, Slot

LEMMA NextIInv == IInv /\ [Next]_vars => IInv'
<1> SUFFICES ASSUME IInv, [Next]_vars PROVE IInv'
  OBVIOUS
<1>1. CASE StartPush \/ TryPush \/ CountStart \/ CountStep
  BY <1>1, ProducerQuietStep
<1>2. CASE Claim
  BY <1>2, ClaimStep
<1>3. CASE StoreData
  BY <1>3, StoreDataStep
<1>4. CASE Post
  BY <1>4, PostStep
<1>5. CASE \E c \in Consumers : Consumer(c)
  BY <1>5, ReserveStep, FetchTicketStep, LoadDataStep, ReleaseStep DEF Consumer
<1>6. CASE UNCHANGED vars
  BY <1>6, StutterStep
<1> QED BY <1>1, <1>2, <1>3, <1>4, <1>5, <1>6 DEF Next, Producer

\* In every reachable state of the queue the entries, the indices and the
\* semaphore agree with the history of its items.
THEOREM InvariantHolds == Spec => []IInv
BY InitIInv, NextIInv, PTL DEF Spec

-------------------------------------------------------------------------------
(* What the invariant gives the users of the queue.                        *)

LEMMA IInvSafe == IInv => EntryInUse /\ NoSharedEntry /\ RightItem
<1> SUFFICES ASSUME IInv PROVE EntryInUse /\ NoSharedEntry /\ RightItem
  OBVIOUS
<1>1. \A c \in Holders : ticket[c] \in Outstanding /\ idx[c] = Slot(ticket[c])
  BY DEF IInv, Tickets, Outstanding
<1>2. EntryInUse
  BY <1>1 DEF IInv, Entries, EntryInUse
<1>3. NoSharedEntry
  BY <1>1 DEF IInv, Entries, Tickets, NoSharedEntry
<1> QED BY <1>2, <1>3 DEF IInv

\* fifo_spmc_pop: the entry of a ticket stays in use until its consumer clears
\* it, belongs to no other consumer, and the data read from it is the item with
\* the number of the ticket -- for any number of consumers, ring size and wrap.
THEOREM PopIsSafe == Spec => [](EntryInUse /\ NoSharedEntry /\ RightItem)
BY InvariantHolds, IInvSafe, PTL

LEMMA IInvAble == IInv => AbleEntriesValid
<1> SUFFICES ASSUME IInv,
                    NEW k \in 0..((able + Cardinality(Fetching)) - 1)
             PROVE  /\ in_use[(a_first + k) % N] = 1
                    /\ data[(a_first + k) % N] = taken + k
  BY DEF AbleEntriesValid, Fetching
<1> USE DEF IInv
<1>1. able + Cardinality(Fetching) = posted - taken /\ k \in Nat /\ taken + k \in Nat
  BY FetchingWaits DEF Counted, TypeOK
<1>2. taken + k \in Outstanding /\ ~(taken + k = pushed - 1 /\ ppc = "store")
  BY <1>1 DEF Outstanding, Counted, TypeOK
<1>3. (a_first + k) % N = Slot(taken + k)
  <2>1. a_first \in Nat /\ taken \in Nat /\ N \in Nat \ {0} /\ a_first % N = taken % N
    BY NAssumption DEF TypeOK, Indices, Slot
  <2> QED BY ZenonT(40), <1>1, <2>1, ModStep DEF Slot
<1> QED BY <1>2, <1>3 DEF Entries

\* Invariant (2) of fifo_spmc.h holds whatever the interleaving.
THEOREM AbleTheorem == Spec => []AbleEntriesValid
BY InvariantHolds, IInvAble, PTL

-------------------------------------------------------------------------------
(* fifo_spmc_pushable_count.                                               *)

LEMMA NextPushable == IInv /\ PushableKept /\ [Next]_vars => PushableKept'
<1> SUFFICES ASSUME IInv, PushableKept, [Next]_vars
             PROVE  PushableKept'
  OBVIOUS
<1> USE DEF PushableKept
<1>1. CASE UNCHANGED vars
  BY <1>1 DEF vars
<1>2. CASE StartPush \/ TryPush \/ CountStart \/ StoreData \/ Post
  BY <1>2 DEF StartPush, TryPush, CountStart, StoreData, Post, entryVars, consVars
<1>3. CASE CountStep
  <2>1. ready \in Nat
    BY DEF IInv, TypeOK
  <2> QED BY <1>3, <2>1 DEF CountStep, entryVars, consVars
<1>4. CASE Claim
  <2> DEFINE e == NextEntry
  <2>1. /\ e = next_alloc % N /\ e \in Index /\ next_alloc \in Nat
        /\ N \in Nat \ {0} /\ ready \in 0..N /\ in_use \in [Index -> {0, 1}]
    BY NextEntrySlot, NAssumption DEF IInv, TypeOK, NextEntry
  <2>2. in_use' = [in_use EXCEPT ![e] = 1] /\ next_alloc' = e + 1
    BY <1>4 DEF Claim
  <2>3. ready' = IF ready > 0 THEN ready - 1 ELSE 0
    BY <1>4 DEF Claim
  <2> HIDE DEF e
  <2> SUFFICES ASSUME NEW k \in 0..(ready' - 1)
               PROVE  in_use'[(next_alloc' + k) % N] = 0
    OBVIOUS
  <2>4. k \in Nat /\ k + 1 \in 1..(N - 1) /\ k + 1 \in 0..(ready - 1)
    BY <2>1, <2>3
  <2>5. e % N = next_alloc % N
    <3>1. e \in 0..(N - 1) /\ e = N * 0 + e
      BY <2>1 DEF Index
    <3> QED BY <2>1, <3>1, ModUnique
  <2>6. (e + (k + 1)) % N = (next_alloc + (k + 1)) % N
    <3>1. e \in Nat /\ k + 1 \in Nat
      BY <2>1, <2>4 DEF Index
    <3> QED BY ZenonT(40), <2>1, <2>5, <3>1, ModStep
  <2>7. (next_alloc + (k + 1)) % N # e
    BY <2>1, <2>4, ModApart
  <2>8. in_use[(next_alloc + (k + 1)) % N] = 0
    BY <2>4
  <2>9. (next_alloc' + k) % N = (next_alloc + (k + 1)) % N
    <3>1. next_alloc' + k = e + (k + 1)
      BY <2>1, <2>2, <2>4 DEF Index
    <3> QED BY <2>6, <3>1
  <2>10. (next_alloc + (k + 1)) % N \in Index
    <3>1. next_alloc + (k + 1) \in Nat
      BY <2>1, <2>4
    <3> QED BY <2>1, <3>1, DivMod DEF Index
  <2> QED BY <2>1, <2>2, <2>7, <2>8, <2>9, <2>10
<1>5. CASE \E c \in Consumers : Consumer(c)
  <2> SUFFICES ASSUME NEW c \in Consumers, Consumer(c)
               PROVE  PushableKept'
    BY <1>5
  <2>1. CASE Reserve(c) \/ FetchTicket(c) \/ LoadData(c)
    BY <2>1 DEF Reserve, FetchTicket, LoadData, entryVars, prodVars
  <2>2. CASE Release(c)
    <3>1. /\ in_use' = [in_use EXCEPT ![idx[c]] = 0]
          /\ UNCHANGED <<next_alloc, ready>>
      BY <2>2 DEF Release, prodVars
    <3>2. in_use \in [Index -> {0, 1}] /\ next_alloc \in Nat /\ ready \in 0..N
      BY NAssumption DEF IInv, TypeOK
    <3>3. \A k \in 0..(ready - 1) : (next_alloc + k) % N \in Index
      BY <3>2, DivMod, NAssumption DEF Index
    <3> QED BY <3>1, <3>2, <3>3
  <2> QED BY <2>1, <2>2 DEF Consumer
<1> QED BY <1>1, <1>2, <1>3, <1>4, <1>5 DEF Next, Producer

\* The count fifo_spmc_pushable_count returns never becomes too large: each
\* of that many pushes finds its entry free.
THEOREM PushableTheorem == Spec => []PushableKept
<1>1. Init => PushableKept
  BY DEF Init, PushableKept
<1> QED BY <1>1, NextPushable, InvariantHolds, PTL DEF Spec

-------------------------------------------------------------------------------
(* The ring implements the abstract queue.                                 *)

LEMMA RefineInit == Init => Queue!Init
BY DEF Init, Queue!Init, HeldItems, Holders

LEMMA RefineNext == IInv /\ [Next]_vars => [Queue!Next]_(Queue!vars)
<1> SUFFICES ASSUME IInv, [Next]_vars
             PROVE  Queue!Next \/ UNCHANGED Queue!vars
  OBVIOUS
<1>1. CASE UNCHANGED vars
  BY <1>1 DEF vars, Queue!vars, HeldItems, Holders
<1>2. CASE StartPush \/ TryPush \/ CountStart \/ CountStep \/ Claim \/ StoreData
  <2>1. UNCHANGED <<taken, posted, pc, ticket>>
    BY <1>2 DEF StartPush, TryPush, CountStart, CountStep, Claim, StoreData, consVars
  <2> QED BY <2>1 DEF Queue!vars, HeldItems, Holders
<1>3. CASE Post
  <2>1. posted' = posted + 1 /\ UNCHANGED <<taken, pc, ticket>>
    BY <1>3 DEF Post, consVars
  <2>2. posted < taken + N
    <3>1. SUFFICES ASSUME posted >= taken + N PROVE FALSE
      BY NAssumption DEF IInv, TypeOK
    <3> DEFINE j == posted - N
    <3>2. pushed = posted + 1 /\ taken \in Nat /\ posted \in Nat /\ N \in Nat \ {0}
      BY <1>3, NAssumption DEF Post, IInv, Counted, TypeOK
    <3>3. j \in Nat /\ j \in Outstanding /\ posted \in Outstanding /\ j # posted
      BY <3>1, <3>2 DEF Outstanding
    <3>4. Slot(j) = Slot(posted)
      <4>1. posted = j + N /\ j \in Nat
        BY <3>2, <3>3
      <4> HIDE DEF j
      <4> DEFINE q == j \div N
                 r == j % N
      <4>2. j = N * q + r /\ r \in 0..(N - 1) /\ q \in Nat
        BY <3>2, <4>1, DivMod
      <4> HIDE DEF q, r
      <4>3. posted = N * (q + 1) + r /\ q + 1 \in Nat
        BY <3>2, <4>1, <4>2, Z3
      <4>4. posted % N = r
        BY <3>2, <4>2, <4>3, ModUnique
      <4> QED BY <4>4 DEF Slot, r
    <3> QED BY <3>3, <3>4 DEF IInv, Entries
  <2>3. HeldItems' = HeldItems
    BY <2>1 DEF HeldItems, Holders
  <2> QED BY <2>1, <2>2, <2>3 DEF Queue!Next, Queue!Push
<1>4. CASE \E c \in Consumers : Consumer(c)
  <2> SUFFICES ASSUME NEW c \in Consumers, Consumer(c)
               PROVE  Queue!Next \/ UNCHANGED Queue!vars
    BY <1>4
  <2>1. CASE Reserve(c)
    <3>1. UNCHANGED <<taken, posted, ticket>> /\ Holders' = Holders
      BY <2>1 DEF Reserve, prodVars, Holders, IInv, TypeOK
    <3> QED BY <3>1 DEF Queue!vars, HeldItems
  <2>2. CASE LoadData(c)
    <3>1. UNCHANGED <<taken, posted, ticket>> /\ Holders' = Holders
      BY <2>2 DEF LoadData, prodVars, Holders, IInv, TypeOK
    <3> QED BY <3>1 DEF Queue!vars, HeldItems
  <2>3. CASE FetchTicket(c)
    <3>1. /\ c \notin Holders /\ Holders' = Holders \cup {c} /\ c \in Fetching
          /\ ticket' = [ticket EXCEPT ![c] = taken] /\ taken' = taken + 1
          /\ posted' = posted
      BY <2>3 DEF FetchTicket, prodVars, Holders, Fetching, IInv, TypeOK
    <3>2. taken < posted
      BY <3>1, FetchingWaits DEF IInv
    <3>3. HeldItems[c] = NoItem /\ HeldItems' = [HeldItems EXCEPT ![c] = taken]
      BY <3>1 DEF HeldItems, IInv, TypeOK
    <3> QED BY <3>1, <3>2, <3>3 DEF Queue!Next, Queue!Take
  <2>4. CASE Release(c)
    <3>1. /\ c \in Holders /\ Holders' = Holders \ {c}
          /\ UNCHANGED <<taken, posted, ticket>>
      BY <2>4 DEF Release, prodVars, Holders, IInv, TypeOK
    <3>2. HeldItems[c] # NoItem /\ HeldItems' = [HeldItems EXCEPT ![c] = NoItem]
      BY <3>1, NoItemAssumption DEF HeldItems, IInv, TypeOK
    <3> QED BY <3>1, <3>2 DEF Queue!Next, Queue!Return
  <2> QED BY <2>1, <2>2, <2>3, <2>4 DEF Consumer
<1> QED BY <1>1, <1>2, <1>3, <1>4 DEF Next, Producer

\* The ring implements FifoQueue: an item goes to exactly one consumer, in the
\* order of the pushes, and at most N items wait.
THEOREM ImplementsQueue == Spec => Refines
<1>1. Init => Queue!Init
  BY RefineInit
<1>2. IInv /\ [Next]_vars => [Queue!Next]_(Queue!vars)
  BY RefineNext
<1> QED BY <1>1, <1>2, InvariantHolds, PTL DEF Spec, Refines, Queue!Spec
===============================================================================
