------------------------- MODULE BlockAllocatorProofs -------------------------
(***************************************************************************)
(* The free stack of BlockAllocator never hands a block to two threads and *)
(* never loses one, for any number of threads, blocks and allocations.     *)
(***************************************************************************)
EXTENDS BlockCache, SequenceTheorems, TLAPS

USE DEF Id, Ids

LEMMA StackTyped ==
    ASSUME TypeOK
    PROVE  /\ Len(stack) \in Nat
           /\ \A i \in 1..Len(stack) : stack[i] \in Ids
    BY LenProperties, ElementOfSeq DEF TypeOK

LEMMA InitIInv == Init => IInv
<1> SUFFICES ASSUME Init PROVE IInv
  OBVIOUS
<1> USE DEF Init
<1>1. Len(stack) = 0 /\ OnStack = {} /\ Stamping = {}
  BY DEF OnStack, Stamping
<1>2. TypeOK
  BY BlockCountAssumption, EmptySeq DEF TypeOK, Blocks
<1>3. \A t \in Threads : Held(t) = {}
  BY DEF Held
<1>4. StackIds /\ FreshIds /\ HeldIds
  BY <1>1 DEF StackIds, FreshIds, HeldIds, Blocks
<1>5. Snapshots
  BY DEF Snapshots, SnapshotOf
<1>6. NoDoubleAllocation /\ NoLostBlock /\ Linked
  BY <1>1, <1>3 DEF NoDoubleAllocation, NoLostBlock, Linked, Below
<1> QED BY <1>2, <1>4, <1>5, <1>6 DEF IInv

\* a_next is the last block freed, or the first never allocated.
LEMMA StackTop ==
    ASSUME TypeOK, StackIds, Linked
    PROVE  /\ a_next.gen = 0 => /\ Len(stack) = 0 /\ a_next = Id(0, fresh)
                                /\ a_next.index <= fresh
           /\ a_next.gen > 0 => /\ Len(stack) \in 1..Len(stack)
                                /\ a_next = stack[Len(stack)]
                                /\ a_next.index \in 0..(fresh - 1)
                                /\ a_next.index \in OnStack
                                /\ id[a_next.index] = a_next
<1>1. CASE Len(stack) = 0
  BY <1>1 DEF Linked, Below, TypeOK
<1>2. CASE Len(stack) # 0
  <2>1. Len(stack) \in 1..Len(stack) /\ a_next = stack[Len(stack)]
    BY <1>2, StackTyped DEF Linked, Below
  <2> QED BY <2>1 DEF StackIds, Stamped, OnStack
<1> QED BY <1>1, <1>2

LEMMA TopOfStack ==
    ASSUME IInv
    PROVE  /\ a_next.gen = 0 => /\ Len(stack) = 0 /\ a_next = Id(0, fresh)
                                /\ a_next.index <= fresh
           /\ a_next.gen > 0 => /\ Len(stack) \in 1..Len(stack)
                                /\ a_next = stack[Len(stack)]
                                /\ a_next.index \in 0..(fresh - 1)
                                /\ a_next.index \in OnStack
                                /\ id[a_next.index] = a_next
BY StackTop DEF IInv

LEMMA OnStackBlocks ==
    ASSUME IInv
    PROVE  OnStack \subseteq 0..(fresh - 1) /\ OnStack \subseteq Blocks
<1>1. OnStack \subseteq 0..(fresh - 1)
  BY DEF IInv, StackIds, Stamped, OnStack
<1> QED BY <1>1, BlockCountAssumption DEF IInv, TypeOK, Blocks

\* Steps that change neither the headers, the stack nor who holds what.
LEMMA FrameInv ==
    ASSUME IInv, UNCHANGED <<a_next, id, next, stack, fresh>>,
           \A t \in Threads : Held(t)' = Held(t)
    PROVE  /\ StackIds' /\ FreshIds' /\ NoLostBlock' /\ Linked'
           /\ \A t, u \in Threads : t # u => Held(t)' \cap Held(u)' = {}
           /\ \A t \in Threads : Held(t)' \cap OnStack' = {}
<1>1. OnStack' = OnStack
  BY DEF OnStack
<1>2. StackIds' /\ FreshIds'
  BY DEF IInv, StackIds, FreshIds, Stamped
<1>3. NoLostBlock'
  BY <1>1 DEF IInv, NoLostBlock
<1>4. Linked'
  BY DEF IInv, Linked, Below
<1> QED BY <1>1, <1>2, <1>3, <1>4 DEF IInv, NoDoubleAllocation

LEMMA AllocLoadStep ==
    ASSUME IInv, NEW t \in Threads, AllocLoad(t)
    PROVE  IInv'
<1>1. /\ pc[t] = "idle" /\ pc' = [pc EXCEPT ![t] = "read"]
      /\ snap' = [snap EXCEPT ![t] = a_next]
      /\ UNCHANGED <<a_next, id, next, new_next, blk, owns, stack, fresh>>
  BY DEF AllocLoad, sharedVars
<1>2. TypeOK'
  BY <1>1 DEF IInv, TypeOK
<1>3. (\A u \in Threads : Held(u)' = Held(u)) /\ OnStack' = OnStack /\ Stamping' = Stamping
  <2>1. \A u \in Threads : pc'[u] = IF u = t THEN "read" ELSE pc[u]
    BY <1>1 DEF IInv, TypeOK
  <2>2. \A u \in Threads : Held(u)' = Held(u)
    BY <1>1, <2>1 DEF Held
  <2>3. \A u \in Threads : pc'[u] = "stamp" <=> pc[u] = "stamp"
    BY <1>1, <2>1
  <2> QED BY <1>1, <2>2, <2>3 DEF OnStack, Stamping
<1>4. HeldIds'
  BY <1>1 DEF IInv, TypeOK, HeldIds, Stamped
<1>5. /\ a_next.gen = 0 => a_next.index <= fresh
      /\ a_next.gen > 0 => /\ a_next.index \in 0..(fresh - 1) /\ a_next.index \in OnStack
                           /\ id[a_next.index] = a_next
  BY TopOfStack
<1>6. Snapshots'
  <2> SUFFICES ASSUME NEW u \in Threads PROVE SnapshotOf(u, snap[u])'
    BY DEF Snapshots
  <2>1. CASE u = t
    BY <1>1, <1>3, <1>5, <2>1 DEF SnapshotOf, IInv, TypeOK
  <2>2. CASE u # t
    <3>1. SnapshotOf(u, snap[u])
      BY DEF IInv, Snapshots
    <3> QED BY <1>1, <1>3, <2>2, <3>1 DEF SnapshotOf, IInv, TypeOK
  <2> QED BY <2>1, <2>2
<1>7. \A u \in Threads : pc'[u] \in {"stamp", "link", "publish"} => blk'[u] \notin owns'[u]
  BY <1>1 DEF IInv, NoDoubleAllocation, TypeOK
<1> QED BY <1>1, <1>2, <1>3, <1>4, <1>6, <1>7, FrameInv DEF IInv, NoDoubleAllocation

\* The steps in which a thread only reads, and starts over or goes on.
LEMMA LocalStep ==
    ASSUME IInv, NEW t \in Threads,
           OutOfMemory(t) \/ ReadNext(t) \/ FreeCasFails(t)
    PROVE  IInv'
<1>1. UNCHANGED <<a_next, id, next, blk, owns, stack, fresh>>
  BY DEF OutOfMemory, ReadNext, FreeCasFails, sharedVars
<1>2. /\ pc[t] \in {"read", "publish"} /\ pc' = [pc EXCEPT ![t] = pc'[t]]
      /\ pc[t] = "read" => pc'[t] \in {"idle", "cas"} /\ snap' = snap
      /\ pc[t] = "publish" => pc'[t] = "link" /\ new_next' = new_next
      /\ \A u \in Threads \ {t} : snap'[u] = snap[u] /\ new_next'[u] = new_next[u]
  BY DEF OutOfMemory, ReadNext, FreeCasFails, IInv, TypeOK
<1>3. TypeOK'
  <2>1. CASE OutOfMemory(t)
    BY <1>1, <2>1 DEF OutOfMemory, IInv, TypeOK
  <2>2. CASE ReadNext(t)
    <3>1. snap[t] \in Ids /\ snap[t].index \in 0..(BlockCount - 1)
      BY <2>2, BlockCountAssumption DEF ReadNext, IInv, TypeOK
    <3>2. snap[t].index + 1 \in 0..BlockCount
      BY <3>1, BlockCountAssumption
    <3>3. next[snap[t].index] \in Ids
      BY <3>1 DEF IInv, TypeOK, Blocks
    <3>4. Id(0, snap[t].index + 1) \in Ids
      BY <3>2
    <3>5. new_next' \in [Threads -> Ids]
      BY <2>2, <3>3, <3>4 DEF ReadNext, IInv, TypeOK
    <3> QED BY <1>1, <2>2, <3>5 DEF ReadNext, IInv, TypeOK
  <2>3. CASE FreeCasFails(t)
    BY <1>1, <2>3 DEF FreeCasFails, IInv, TypeOK
  <2> QED BY <2>1, <2>2, <2>3
<1>4. (\A u \in Threads : Held(u)' = Held(u)) /\ OnStack' = OnStack
  <2>1. \A u \in Threads : pc'[u] \in {"stamp", "link", "publish"}
                            <=> pc[u] \in {"stamp", "link", "publish"}
    BY <1>2 DEF IInv, TypeOK
  <2> QED BY <1>1, <2>1 DEF Held, OnStack
<1>5. Stamping' = Stamping
  <2>1. \A u \in Threads : pc'[u] = "stamp" <=> pc[u] = "stamp"
    BY <1>2 DEF IInv, TypeOK
  <2> QED BY <1>1, <2>1 DEF Stamping
<1>6. HeldIds'
  <2> SUFFICES ASSUME NEW u \in Threads
               PROVE  /\ \A b \in owns[u] : Stamped(b)'
                      /\ pc'[u] \in {"link", "publish"} => Stamped(blk[u])'
                      /\ pc'[u] = "stamp" =>
                          /\ blk[u] = snap'[u].index
                          /\ blk[u] \in 0..(fresh - 1)
                          /\ id[blk[u]].gen = snap'[u].gen
    BY <1>1 DEF HeldIds
  <2>1. /\ \A b \in owns[u] : Stamped(b)
        /\ pc[u] \in {"link", "publish"} => Stamped(blk[u])
        /\ pc[u] = "stamp" =>
            /\ blk[u] = snap[u].index
            /\ blk[u] \in 0..(fresh - 1)
            /\ id[blk[u]].gen = snap[u].gen
    BY DEF IInv, HeldIds
  <2>2. CASE u = t
    <3>1. pc'[u] \in {"idle", "cas", "link"} /\ (pc'[u] = "link" => pc[u] = "publish")
      BY <1>2, <2>2 DEF IInv, TypeOK
    <3> QED BY <1>1, <2>1, <3>1 DEF Stamped
  <2>3. CASE u # t
    <3>1. pc'[u] = pc[u] /\ snap'[u] = snap[u]
      BY <1>2, <2>3 DEF IInv, TypeOK
    <3> QED BY <1>1, <2>1, <3>1 DEF Stamped
  <2> QED BY <2>2, <2>3
<1>7. Snapshots'
  <2> SUFFICES ASSUME NEW u \in Threads PROVE SnapshotOf(u, snap[u])'
    BY DEF Snapshots
  <2>1. SnapshotOf(u, snap[u])
    BY DEF IInv, Snapshots
  <2>2. CASE u # t
    BY <1>1, <1>2, <1>4, <1>5, <2>1, <2>2 DEF SnapshotOf, IInv, TypeOK
  <2>3. CASE u = t /\ ReadNext(t)
    <3>1. /\ snap' = snap /\ pc[t] = "read" /\ snap[t] \in Ids /\ snap[t].index # BlockCount
          /\ new_next'[t] = IF snap[t].gen = 0 THEN Id(0, snap[t].index + 1)
                                               ELSE next[snap[t].index]
      BY <2>3 DEF ReadNext, IInv, TypeOK
    <3>2. snap[t].index \in Blocks
      BY <3>1, BlockCountAssumption DEF Blocks
    <3> QED BY <1>1, <1>4, <1>5, <2>1, <2>3, <3>1, <3>2 DEF SnapshotOf
  <2>4. CASE u = t /\ ~ReadNext(t)
    <3>1. pc'[t] \in {"idle", "link"}
      BY <2>4 DEF OutOfMemory, FreeCasFails, IInv, TypeOK
    <3> QED BY <2>4, <3>1 DEF SnapshotOf
  <2> QED BY <2>2, <2>3, <2>4
<1>8. \A u \in Threads : pc'[u] \in {"stamp", "link", "publish"} => blk'[u] \notin owns'[u]
  BY <1>1, <1>2 DEF IInv, NoDoubleAllocation, TypeOK
<1> QED BY <1>1, <1>3, <1>4, <1>6, <1>7, <1>8, FrameInv DEF IInv, NoDoubleAllocation

LEMMA AllocCasFailsStep ==
    ASSUME IInv, NEW t \in Threads, AllocCasFails(t)
    PROVE  IInv'
<1>1. /\ pc[t] = "cas" /\ pc' = [pc EXCEPT ![t] = "read"]
      /\ snap' = [snap EXCEPT ![t] = IF WriteBack THEN a_next ELSE snap[t]]
      /\ UNCHANGED <<a_next, id, next, new_next, blk, owns, stack, fresh>>
  BY DEF AllocCasFails, sharedVars
<1>2. TypeOK'
  BY <1>1 DEF IInv, TypeOK
<1>3. \A u \in Threads : /\ pc'[u] = IF u = t THEN "read" ELSE pc[u]
                         /\ u # t => snap'[u] = snap[u]
  BY <1>1 DEF IInv, TypeOK
<1>4. (\A u \in Threads : Held(u)' = Held(u)) /\ OnStack' = OnStack /\ Stamping' = Stamping
  <2>1. \A u \in Threads : Held(u)' = Held(u)
    BY <1>1, <1>3 DEF Held
  <2>2. \A u \in Threads : pc'[u] = "stamp" <=> pc[u] = "stamp"
    BY <1>1, <1>3
  <2> QED BY <1>1, <2>1, <2>2 DEF OnStack, Stamping
<1>5. HeldIds'
  BY <1>1, <1>3 DEF IInv, HeldIds, Stamped
<1>6. Snapshots'
  <2> SUFFICES ASSUME NEW u \in Threads PROVE SnapshotOf(u, snap[u])'
    BY DEF Snapshots
  <2>1. SnapshotOf(u, snap[u])
    BY DEF IInv, Snapshots
  <2>2. CASE u = t
    <3>1. snap'[t] = a_next \/ snap'[t] = snap[t]
      BY <1>1 DEF IInv, TypeOK
    <3>2. CASE snap'[t] = a_next
      <4>1. a_next.gen \in Nat /\ pc'[t] = "read"
        BY <1>1, <1>3 DEF IInv, TypeOK
      <4> QED BY <1>1, <1>4, <2>2, <3>2, <4>1, TopOfStack DEF SnapshotOf
    <3>3. CASE snap'[t] = snap[t]
      BY <1>1, <1>3, <1>4, <2>1, <2>2, <3>3 DEF SnapshotOf
    <3> QED BY <3>1, <3>2, <3>3
  <2>3. CASE u # t
    BY <1>1, <1>3, <1>4, <2>1, <2>3 DEF SnapshotOf
  <2> QED BY <2>2, <2>3
<1>7. \A u \in Threads : pc'[u] \in {"stamp", "link", "publish"} => blk'[u] \notin owns'[u]
  BY <1>1, <1>3 DEF IInv, NoDoubleAllocation
<1> QED BY <1>1, <1>2, <1>4, <1>5, <1>6, <1>7, FrameInv DEF IInv, NoDoubleAllocation

LEMMA FreeLoadStep ==
    ASSUME IInv, NEW t \in Threads, NEW b \in Blocks, FreeLoad(t, b)
    PROVE  IInv'
<1>1. /\ pc[t] = "idle" /\ pc' = [pc EXCEPT ![t] = "link"]
      /\ b \in owns[t] /\ owns' = [owns EXCEPT ![t] = @ \ {b}]
      /\ blk' = [blk EXCEPT ![t] = b]
      /\ snap' = [snap EXCEPT ![t] = a_next]
      /\ UNCHANGED <<a_next, id, next, new_next, stack, fresh>>
  BY DEF FreeLoad, sharedVars
<1>2. TypeOK'
  BY <1>1 DEF IInv, TypeOK
<1>3. /\ pc'[t] = "link" /\ blk'[t] = b /\ owns'[t] = owns[t] \ {b}
      /\ \A u \in Threads \ {t} : /\ pc'[u] = pc[u] /\ blk'[u] = blk[u]
                                  /\ owns'[u] = owns[u] /\ snap'[u] = snap[u]
  BY <1>1 DEF IInv, TypeOK
<1>4. (\A u \in Threads : Held(u)' = Held(u)) /\ OnStack' = OnStack /\ Stamping' = Stamping
  <2>1. \A u \in Threads : Held(u)' = Held(u)
    BY <1>1, <1>3 DEF Held
  <2>2. \A u \in Threads : /\ pc'[u] = "stamp" <=> pc[u] = "stamp"
                           /\ pc[u] = "stamp" => blk'[u] = blk[u]
    BY <1>1, <1>3
  <2> QED BY <1>1, <2>1, <2>2 DEF OnStack, Stamping
<1>5. HeldIds'
  <2>1. Stamped(b)
    BY <1>1 DEF IInv, HeldIds
  <2> QED BY <1>1, <1>3, <2>1 DEF IInv, HeldIds, Stamped
<1>6. Snapshots'
  <2> SUFFICES ASSUME NEW u \in Threads PROVE SnapshotOf(u, snap[u])'
    BY DEF Snapshots
  <2>1. CASE u = t
    BY <1>3, <2>1 DEF SnapshotOf
  <2>2. CASE u # t
    <3>1. SnapshotOf(u, snap[u])
      BY DEF IInv, Snapshots
    <3> QED BY <1>1, <1>3, <1>4, <2>2, <3>1 DEF SnapshotOf
  <2> QED BY <2>1, <2>2
<1>7. \A u \in Threads : pc'[u] \in {"stamp", "link", "publish"} => blk'[u] \notin owns'[u]
  BY <1>3 DEF IInv, NoDoubleAllocation
<1> QED BY <1>1, <1>2, <1>4, <1>5, <1>6, <1>7, FrameInv DEF IInv, NoDoubleAllocation

LEMMA FreeLinkStep ==
    ASSUME IInv, NEW t \in Threads, FreeLink(t)
    PROVE  IInv'
<1>1. /\ pc[t] = "link" /\ pc' = [pc EXCEPT ![t] = "publish"]
      /\ next' = [next EXCEPT ![blk[t]] = snap[t]]
      /\ UNCHANGED <<a_next, id, snap, new_next, blk, owns, stack, fresh>>
  BY DEF FreeLink
<1>2. TypeOK'
  BY <1>1 DEF IInv, TypeOK
<1>3. \A u \in Threads : pc'[u] = IF u = t THEN "publish" ELSE pc[u]
  BY <1>1 DEF IInv, TypeOK
<1>4. (\A u \in Threads : Held(u)' = Held(u)) /\ OnStack' = OnStack /\ Stamping' = Stamping
  <2>1. \A u \in Threads : Held(u)' = Held(u)
    BY <1>1, <1>3 DEF Held
  <2>2. \A u \in Threads : pc'[u] = "stamp" <=> pc[u] = "stamp"
    BY <1>1, <1>3
  <2> QED BY <1>1, <2>1, <2>2 DEF OnStack, Stamping
<1>5. \A b \in OnStack : b \in Blocks /\ next'[b] = next[b]
  <2>1. blk[t] \notin OnStack
    BY <1>1 DEF IInv, NoDoubleAllocation, Held
  <2> QED BY <1>1, <2>1, OnStackBlocks DEF IInv, TypeOK
<1>6. StackIds' /\ FreshIds' /\ HeldIds'
  BY <1>1, <1>3 DEF IInv, StackIds, FreshIds, HeldIds, Stamped
<1>7. Linked'
  <2>1. \A i \in 1..Len(stack) : stack[i].index \in OnStack
    BY DEF OnStack
  <2> QED BY <1>1, <1>5, <2>1 DEF IInv, Linked, Below
<1>8. Snapshots'
  <2> SUFFICES ASSUME NEW u \in Threads PROVE SnapshotOf(u, snap[u])'
    BY DEF Snapshots
  <2>1. CASE u = t
    BY <1>3, <2>1 DEF SnapshotOf
  <2>2. CASE u # t
    <3>1. SnapshotOf(u, snap[u])
      BY DEF IInv, Snapshots
    <3> QED BY <1>1, <1>3, <1>4, <1>5, <2>2, <3>1 DEF SnapshotOf
  <2> QED BY <2>1, <2>2
<1>9. NoDoubleAllocation' /\ NoLostBlock'
  BY <1>1, <1>3, <1>4 DEF IInv, NoDoubleAllocation, NoLostBlock
<1> QED BY <1>2, <1>6, <1>7, <1>8, <1>9 DEF IInv

\* Taking the first block never allocated.
LEMMA AllocFreshStep ==
    ASSUME IInv, NEW t \in Threads, AllocCas(t), snap[t].gen = 0
    PROVE  IInv'
<1> DEFINE f == snap[t].index
<1>1. /\ pc[t] = "cas" /\ pc' = [pc EXCEPT ![t] = "stamp"]
      /\ a_next' = new_next[t] /\ fresh' = fresh + 1
      /\ blk' = [blk EXCEPT ![t] = f]
      /\ UNCHANGED <<id, next, snap, new_next, owns, stack>>
  BY DEF AllocCas
<1>2. Len(stack) = 0 /\ f = fresh /\ f \in Blocks /\ new_next[t] = Id(0, fresh + 1)
  <2>1. a_next = snap[t]
    BY DEF AllocCas
  <2>2. SnapshotOf(t, snap[t])
    BY DEF IInv, Snapshots
  <2> QED BY <1>1, <2>1, <2>2, TopOfStack DEF SnapshotOf
<1> HIDE DEF f
<1>3. fresh \in 0..(BlockCount - 1) /\ fresh' \in 0..BlockCount /\ OnStack' = {} /\ OnStack = {}
  BY <1>1, <1>2, BlockCountAssumption DEF Blocks, OnStack
<1>4. TypeOK'
  BY <1>1, <1>2, <1>3 DEF IInv, TypeOK
<1>5. /\ pc'[t] = "stamp" /\ blk'[t] = fresh
      /\ \A u \in Threads \ {t} : pc'[u] = pc[u] /\ blk'[u] = blk[u]
  BY <1>1, <1>2 DEF IInv, TypeOK
<1>6. /\ Held(t)' = Held(t) \cup {fresh}
      /\ \A u \in Threads \ {t} : Held(u)' = Held(u)
      /\ \A u \in Threads : Held(u) \subseteq 0..(fresh - 1)
      /\ Stamping' = Stamping \cup {fresh}
  <2>1. Held(t)' = Held(t) \cup {fresh}
    BY <1>1, <1>5 DEF Held
  <2>2. \A u \in Threads \ {t} : Held(u)' = Held(u)
    BY <1>1, <1>5 DEF Held
  <2>3. \A u \in Threads : Held(u) \subseteq 0..(fresh - 1)
    BY DEF IInv, HeldIds, Stamped, Held
  <2>4. Stamping' = Stamping \cup {fresh}
    BY <1>1, <1>5 DEF Stamping
  <2> QED BY <2>1, <2>2, <2>3, <2>4
<1>7. StackIds' /\ Linked'
  BY <1>1, <1>2, <1>3 DEF StackIds, Linked, Below
<1>8. FreshIds'
  BY <1>1, <1>3 DEF IInv, FreshIds, Blocks
<1>9. HeldIds'
  <2>1. id[fresh].gen = 0
    BY <1>2, <1>3 DEF IInv, FreshIds, Blocks
  <2>2. snap[t].index = fresh
    BY <1>2 DEF f
  <2>3. \A b : Stamped(b) => b \in 0..(fresh' - 1) /\ id[b].index = b /\ id[b].gen > 0
    BY <1>1, <1>3 DEF Stamped
  <2> QED BY <1>1, <1>3, <1>5, <2>1, <2>2, <2>3 DEF IInv, HeldIds, Stamped
<1>10. Snapshots'
  <2> SUFFICES ASSUME NEW u \in Threads PROVE SnapshotOf(u, snap[u])'
    BY DEF Snapshots
  <2>1. CASE u = t
    BY <1>5, <2>1 DEF SnapshotOf
  <2>2. CASE u # t
    <3>1. SnapshotOf(u, snap[u]) /\ snap[u] \in Ids
      BY DEF IInv, Snapshots, TypeOK
    <3> QED BY <1>1, <1>3, <1>5, <1>6, <2>2, <3>1 DEF SnapshotOf
  <2> QED BY <2>1, <2>2
<1>11. NoDoubleAllocation'
  <2>1. fresh \notin owns[t]
    BY <1>3 DEF IInv, HeldIds, Stamped
  <2>2. \A u, v \in Threads : u # v => Held(u)' \cap Held(v)' = {}
    BY <1>3, <1>6 DEF IInv, NoDoubleAllocation
  <2> QED BY <1>1, <1>3, <1>5, <2>1, <2>2 DEF IInv, NoDoubleAllocation
<1>12. NoLostBlock'
  <2> SUFFICES ASSUME NEW b \in 0..(fresh' - 1)
               PROVE  \E u \in Threads : b \in Held(u)'
    BY DEF NoLostBlock
  <2>1. b = fresh \/ b \in 0..(fresh - 1)
    BY <1>1, <1>3
  <2>2. b \in 0..(fresh - 1) => \E u \in Threads : b \in Held(u)
    BY <1>3 DEF IInv, NoLostBlock
  <2> QED BY <1>6, <2>1, <2>2
<1> QED BY <1>4, <1>7, <1>8, <1>9, <1>10, <1>11, <1>12 DEF IInv

\* Taking the block on top of the stack.
LEMMA AllocReuseStep ==
    ASSUME IInv, NEW t \in Threads, AllocCas(t), snap[t].gen # 0
    PROVE  IInv'
<1> DEFINE b == snap[t].index
           n == Len(stack)
<1>1. /\ pc[t] = "cas" /\ pc' = [pc EXCEPT ![t] = "stamp"]
      /\ a_next = snap[t] /\ a_next' = new_next[t]
      /\ stack' = SubSeq(stack, 1, n - 1)
      /\ blk' = [blk EXCEPT ![t] = b]
      /\ UNCHANGED <<id, next, snap, new_next, owns, fresh>>
  BY DEF AllocCas
<1>2. /\ n \in Nat /\ n \in 1..n /\ stack[n] = snap[t]
      /\ b \in 0..(fresh - 1) /\ b \in OnStack /\ id[b] = snap[t] /\ b \in Blocks
      /\ new_next[t] = next[b]
  <2>1. snap[t].gen > 0
    BY DEF IInv, TypeOK
  <2>2. SnapshotOf(t, snap[t])
    BY DEF IInv, Snapshots
  <2> QED BY <1>1, <2>1, <2>2, TopOfStack, StackTyped DEF SnapshotOf, IInv
<1>3. /\ stack' \in Seq(Ids) /\ Len(stack') = n - 1
      /\ \A i \in 1..(n - 1) : stack'[i] = stack[i]
  <2>1. \A i \in 1..(n - 1) : stack[i] \in Ids
    BY <1>2, StackTyped DEF IInv
  <2>2. n - 1 \in Int /\ 1 \in Int
    BY <1>2
  <2>3. /\ SubSeq(stack, 1, n - 1) \in Seq(Ids)
        /\ Len(SubSeq(stack, 1, n - 1)) = IF 1 <= n - 1 THEN (n - 1) - 1 + 1 ELSE 0
        /\ \A i \in 1..((n - 1) - 1 + 1) : SubSeq(stack, 1, n - 1)[i] = stack[1 + i - 1]
    BY <2>1, <2>2, SubSeqProperties
  <2> HIDE DEF n
  <2>4. (n - 1) - 1 + 1 = n - 1 /\ \A i \in 1..(n - 1) : 1 + i - 1 = i
    BY <1>2
  <2> QED BY <1>1, <1>2, <2>3, <2>4
<1>4. OnStack' = OnStack \ {b}
  <2>1. \A i \in 1..(n - 1) : stack[i].index # b
    BY <1>2 DEF IInv, StackIds
  <2>2. OnStack = {stack[i].index : i \in 1..(n - 1)} \cup {b}
    BY <1>2 DEF OnStack
  <2> QED BY <1>3, <2>1, <2>2 DEF OnStack
<1> HIDE DEF b, n
<1>5. TypeOK'
  BY <1>1, <1>2, <1>3 DEF IInv, TypeOK
<1>6. /\ pc'[t] = "stamp" /\ blk'[t] = b
      /\ \A u \in Threads \ {t} : pc'[u] = pc[u] /\ blk'[u] = blk[u]
  BY <1>1 DEF IInv, TypeOK
<1>7. /\ Held(t)' = Held(t) \cup {b}
      /\ \A u \in Threads \ {t} : Held(u)' = Held(u)
      /\ \A u \in Threads : b \notin Held(u)
      /\ Stamping' = Stamping \cup {b}
  <2>1. Held(t)' = Held(t) \cup {b}
    BY <1>1, <1>6 DEF Held
  <2>2. \A u \in Threads \ {t} : Held(u)' = Held(u)
    BY <1>1, <1>6 DEF Held
  <2>3. \A u \in Threads : b \notin Held(u)
    BY <1>2 DEF IInv, NoDoubleAllocation
  <2>4. Stamping' = Stamping \cup {b}
    BY <1>1, <1>6 DEF Stamping
  <2> QED BY <2>1, <2>2, <2>3, <2>4
<1>8. StackIds'
  <2>1. \A i \in 1..(n - 1) : i \in 1..n
    BY <1>2
  <2> QED BY SMTT(20), <1>1, <1>3, <2>1 DEF IInv, StackIds, Stamped, n
<1>9. Linked'
  <2> DEFINE under(i) == IF i = 1 THEN Id(0, fresh) ELSE stack[i - 1]
  <2>1. a_next' = under(n) /\ \A i \in 1..(n - 1) : next[stack[i].index] = under(i)
    <3>1. \A i \in 1..n : next[stack[i].index] = under(i)
      BY DEF IInv, Linked, Below, n
    <3>2. a_next' = next[stack[n].index]
      BY <1>1, <1>2 DEF b
    <3> HIDE DEF under
    <3> QED BY <1>2, <3>1, <3>2
  <2>2. \A i \in 1..n : under(i) = IF i = 1 THEN Id(0, fresh') ELSE stack'[i - 1]
    BY <1>1, <1>2, <1>3
  <2> HIDE DEF under
  <2>3. Len(stack') + 1 = n
    BY <1>2, <1>3
  <2> QED BY <1>1, <1>2, <1>3, <2>1, <2>2, <2>3 DEF Linked, Below
<1>10. FreshIds'
  BY <1>1 DEF IInv, FreshIds
<1>11. HeldIds'
  BY <1>1, <1>2, <1>6 DEF IInv, HeldIds, Stamped, b
<1>12. Snapshots'
  <2> SUFFICES ASSUME NEW u \in Threads PROVE SnapshotOf(u, snap[u])'
    BY DEF Snapshots
  <2>1. CASE u = t
    BY <1>6, <2>1 DEF SnapshotOf
  <2>2. CASE u # t
    <3>1. SnapshotOf(u, snap[u])
      BY DEF IInv, Snapshots
    <3> QED BY <1>1, <1>4, <1>6, <1>7, <2>2, <3>1 DEF SnapshotOf
  <2> QED BY <2>1, <2>2
<1>13. NoDoubleAllocation'
  <2>1. b \notin owns[t]
    BY <1>7 DEF Held
  <2>2. \A u, v \in Threads : u # v => Held(u)' \cap Held(v)' = {}
    BY <1>7 DEF IInv, NoDoubleAllocation
  <2>3. \A u \in Threads : Held(u)' \cap OnStack' = {}
    BY <1>4, <1>7 DEF IInv, NoDoubleAllocation
  <2> QED BY <1>1, <1>6, <2>1, <2>2, <2>3 DEF IInv, NoDoubleAllocation
<1>14. NoLostBlock'
  BY <1>1, <1>4, <1>7 DEF IInv, NoLostBlock
<1> QED BY <1>5, <1>8, <1>9, <1>10, <1>11, <1>12, <1>13, <1>14 DEF IInv

LEMMA StampStep ==
    ASSUME IInv, NEW t \in Threads, Stamp(t)
    PROVE  IInv'
<1> DEFINE b == blk[t]
<1>1. /\ pc[t] = "stamp" /\ pc' = [pc EXCEPT ![t] = "idle"]
      /\ id' = [id EXCEPT ![b] = Id(snap[t].gen + 1, snap[t].index)]
      /\ owns' = [owns EXCEPT ![t] = @ \cup {b}]
      /\ UNCHANGED <<a_next, next, snap, new_next, blk, stack, fresh>>
  BY DEF Stamp
<1>2. /\ b \in 0..(fresh - 1) /\ b \in Blocks /\ b = snap[t].index
      /\ id[b].gen = snap[t].gen /\ id[b].gen \in Nat /\ snap[t] \in Ids /\ id[b] \in Ids
  BY <1>1 DEF IInv, HeldIds, TypeOK
<1>3. /\ id'[b] = Id(id[b].gen + 1, b)
      /\ \A c \in Blocks \ {b} : id'[c] = id[c]
  BY <1>1, <1>2 DEF IInv, TypeOK
<1>4. /\ pc'[t] = "idle" /\ owns'[t] = owns[t] \cup {b}
      /\ \A u \in Threads \ {t} : pc'[u] = pc[u] /\ owns'[u] = owns[u]
  BY <1>1 DEF IInv, TypeOK
<1>5. /\ b \notin OnStack /\ b \in Held(t)
      /\ \A u \in Threads \ {t} : b \notin Held(u)
  BY <1>1 DEF IInv, NoDoubleAllocation, Held
<1> HIDE DEF b
<1>6. TypeOK'
  <2>1. id' \in [Blocks -> Ids]
    BY SMTT(20), <1>1, <1>2 DEF IInv, TypeOK
  <2>2. owns' \in [Threads -> SUBSET Blocks]
    BY <1>1, <1>2 DEF IInv, TypeOK
  <2> QED BY <1>1, <2>1, <2>2 DEF IInv, TypeOK
<1>7. (\A u \in Threads : Held(u)' = Held(u)) /\ OnStack' = OnStack
  <2>1. \A u \in Threads : Held(u)' = Held(u)
    BY <1>1, <1>4 DEF Held, b
  <2> QED BY <1>1, <2>1 DEF OnStack
<1>8. \A c \in Stamping : c \in Stamping' \/ c = b
  <2> SUFFICES ASSUME NEW u \in Threads, pc[u] = "stamp"
               PROVE  blk[u] \in Stamping' \/ blk[u] = b
    BY DEF Stamping
  <2>1. CASE u = t
    BY <2>1 DEF b
  <2>2. CASE u # t
    <3>1. pc'[u] = "stamp" /\ blk'[u] = blk[u]
      BY <1>1, <1>4, <2>2
    <3> QED BY <3>1 DEF Stamping
  <2> QED BY <2>1, <2>2
<1>9. StackIds'
  <2>1. \A i \in 1..Len(stack) : stack[i].index \in OnStack
    BY DEF OnStack
  <2>2. \A i \in 1..Len(stack) : id'[stack[i].index] = id[stack[i].index]
    BY <1>3, <1>5, <2>1, OnStackBlocks
  <2> QED BY <1>1, <2>2 DEF IInv, StackIds, Stamped
<1>10. FreshIds' /\ Linked'
  <2>1. \A c \in Blocks : c >= fresh => c # b
    BY <1>2 DEF IInv, TypeOK
  <2>2. FreshIds'
    BY <1>1, <1>3, <2>1 DEF IInv, FreshIds
  <2>3. Linked'
    BY <1>1 DEF IInv, Linked, Below
  <2> QED BY <2>2, <2>3
<1>11. HeldIds'
  <2>1. \A c \in Blocks \ {b} : Stamped(c) => c \in 0..(fresh' - 1) /\ id'[c].index = c /\ id'[c].gen > 0
    BY <1>1, <1>3 DEF Stamped
  <2>2. b \in 0..(fresh' - 1) /\ id'[b].index = b /\ id'[b].gen > 0
    BY <1>1, <1>2, <1>3
  <2>3. \A u \in Threads : owns[u] \subseteq Blocks /\ blk[u] \in Blocks
    BY DEF IInv, TypeOK
  <2> SUFFICES ASSUME NEW u \in Threads
               PROVE  /\ \A c \in owns'[u] : Stamped(c)'
                      /\ pc'[u] \in {"link", "publish"} => Stamped(blk[u])'
                      /\ pc'[u] = "stamp" =>
                          /\ blk'[u] = snap'[u].index
                          /\ blk'[u] \in 0..(fresh' - 1)
                          /\ id'[blk'[u]].gen = snap'[u].gen
    BY DEF HeldIds
  <2>4. CASE u = t
    BY <1>4, <2>1, <2>2, <2>3, <2>4 DEF IInv, HeldIds, Stamped
  <2>5. CASE u # t
    <3>1. /\ \A c \in owns[u] : c # b
          /\ pc[u] \in {"stamp", "link", "publish"} => blk[u] # b
      BY <1>5, <2>5 DEF Held
    <3> QED BY <1>1, <1>3, <1>4, <2>1, <2>3, <2>5, <3>1 DEF IInv, HeldIds, Stamped
  <2> QED BY <2>4, <2>5
<1>12. Snapshots'
  <2> SUFFICES ASSUME NEW u \in Threads PROVE SnapshotOf(u, snap[u])'
    BY DEF Snapshots
  <2>1. CASE u = t
    BY <1>4, <2>1 DEF SnapshotOf
  <2>2. CASE u # t
    <3>1. SnapshotOf(u, snap[u]) /\ snap[u] \in Ids
      BY DEF IInv, Snapshots, TypeOK
    <3>2. fresh <= BlockCount /\ fresh \in Nat
      BY BlockCountAssumption DEF IInv, TypeOK
    <3>3. CASE snap[u].index = b
      BY <1>1, <1>2, <1>3, <1>4, <1>5, <1>7, <2>2, <3>1, <3>3 DEF SnapshotOf
    <3>4. CASE snap[u].index # b
      <4>1. snap[u].index \in 0..(fresh - 1) => id'[snap[u].index] = id[snap[u].index]
        BY <1>3, <3>2, <3>4, BlockCountAssumption DEF Blocks
      <4> QED BY <1>1, <1>3, <1>4, <1>7, <1>8, <2>2, <3>1, <3>4, <4>1 DEF SnapshotOf
    <3> QED BY <3>3, <3>4
  <2> QED BY <2>1, <2>2
<1>13. NoDoubleAllocation' /\ NoLostBlock'
  <2>1. \A u \in Threads : pc'[u] \in {"stamp", "link", "publish"} => blk'[u] \notin owns'[u]
    BY <1>1, <1>4 DEF IInv, NoDoubleAllocation
  <2> QED BY <1>1, <1>7, <2>1 DEF IInv, NoDoubleAllocation, NoLostBlock
<1> QED BY <1>6, <1>9, <1>10, <1>11, <1>12, <1>13 DEF IInv

LEMMA FreeCasStep ==
    ASSUME IInv, NEW t \in Threads, FreeCas(t)
    PROVE  IInv'
<1> DEFINE b == blk[t]
           n == Len(stack)
<1>1. /\ pc[t] = "publish" /\ pc' = [pc EXCEPT ![t] = "idle"]
      /\ a_next = next[b] /\ a_next' = id[b]
      /\ stack' = Append(stack, id[b])
      /\ UNCHANGED <<id, next, snap, new_next, blk, owns, fresh>>
  BY DEF FreeCas
<1>2. /\ b \in 0..(fresh - 1) /\ b \in Blocks /\ id[b] \in Ids
      /\ id[b].index = b /\ id[b].gen > 0 /\ b \notin owns[t] /\ b \notin OnStack
      /\ \A u \in Threads \ {t} : b \notin Held(u)
  BY <1>1 DEF IInv, HeldIds, TypeOK, Stamped, NoDoubleAllocation, Held
<1>3. /\ n \in Nat /\ stack' \in Seq(Ids) /\ Len(stack') = n + 1
      /\ stack'[n + 1] = id[b]
      /\ \A i \in 1..n : stack'[i] = stack[i]
  BY <1>1, <1>2, AppendProperties, StackTyped DEF IInv, TypeOK
<1> HIDE DEF b, n
<1>4. OnStack' = OnStack \cup {b}
  <2>1. 1..(n + 1) = 1..n \cup {n + 1}
    BY <1>3
  <2>2. stack'[n + 1].index = b /\ \A i \in 1..n : stack'[i].index = stack[i].index
    BY <1>2, <1>3
  <2>3. OnStack' = {stack'[i].index : i \in 1..(n + 1)}
    BY <1>3 DEF OnStack
  <2>4. OnStack = {stack[i].index : i \in 1..n}
    BY DEF OnStack, n
  <2>5. \A x \in OnStack' : x \in OnStack \cup {b}
    BY <2>1, <2>2, <2>3, <2>4
  <2>6. \A x \in OnStack : x \in OnStack'
    BY <2>1, <2>2, <2>3, <2>4
  <2>7. b \in OnStack'
    BY <2>1, <2>2, <2>3
  <2> QED BY <2>5, <2>6, <2>7
<1>5. /\ pc'[t] = "idle"
      /\ \A u \in Threads \ {t} : pc'[u] = pc[u]
  BY <1>1 DEF IInv, TypeOK
<1>6. /\ Held(t)' = Held(t) \ {b}
      /\ \A u \in Threads \ {t} : Held(u)' = Held(u)
      /\ Stamping' = Stamping /\ b \notin Stamping
  <2>1. Held(t)' = Held(t) \ {b}
    BY <1>1, <1>2, <1>5 DEF Held, b
  <2>2. \A u \in Threads \ {t} : Held(u)' = Held(u)
    BY <1>1, <1>5 DEF Held
  <2>3. \A u \in Threads : pc'[u] = "stamp" <=> pc[u] = "stamp"
    BY <1>1, <1>5
  <2>4. Stamping' = Stamping
    BY <1>1, <2>3 DEF Stamping
  <2>5. \A u \in Threads : pc[u] = "stamp" => blk[u] # b
    BY <1>1, <1>2 DEF Held
  <2> QED BY <2>1, <2>2, <2>4, <2>5 DEF Stamping
<1>7. TypeOK'
  BY <1>1, <1>2, <1>3 DEF IInv, TypeOK
<1>8. StackIds'
  <2>1. \A i \in 1..n : stack[i].index \in OnStack
    BY DEF OnStack, n
  <2>2. \A i \in 1..(n + 1) : i = n + 1 \/ i \in 1..n
    BY <1>3
  <2>3. \A i \in 1..n : /\ stack[i].index \in 0..(fresh - 1) /\ id[stack[i].index] = stack[i]
                        /\ id[stack[i].index].index = stack[i].index
                        /\ id[stack[i].index].gen > 0
    BY DEF IInv, StackIds, Stamped, n
  <2>4. \A i, j \in 1..n : stack[i].index = stack[j].index => i = j
    BY DEF IInv, StackIds, n
  <2>5. \A i \in 1..(n + 1) : /\ stack'[i].index \in 0..(fresh - 1)
                              /\ id[stack'[i].index] = stack'[i]
                              /\ id[stack'[i].index].index = stack'[i].index
                              /\ id[stack'[i].index].gen > 0
    <3> SUFFICES ASSUME NEW i \in 1..(n + 1)
                 PROVE  /\ stack'[i].index \in 0..(fresh - 1)
                        /\ id[stack'[i].index] = stack'[i]
                        /\ id[stack'[i].index].index = stack'[i].index
                        /\ id[stack'[i].index].gen > 0
      OBVIOUS
    <3>1. CASE i = n + 1
      BY <1>2, <1>3, <3>1
    <3>2. CASE i \in 1..n
      BY <1>3, <2>3, <3>2
    <3> QED BY <2>2, <3>1, <3>2
  <2>6. ASSUME NEW i \in 1..(n + 1), NEW j \in 1..(n + 1), stack'[i].index = stack'[j].index
        PROVE  i = j
    <3>1. CASE i \in 1..n /\ j \in 1..n
      BY <1>3, <2>4, <2>6, <3>1
    <3>2. CASE i = n + 1 /\ j \in 1..n
      BY SMTT(20), <1>2, <1>3, <2>1, <2>6, <3>2
    <3>3. CASE i \in 1..n /\ j = n + 1
      BY <1>2, <1>3, <2>1, <2>6, <3>3
    <3> QED BY <2>2, <3>1, <3>2, <3>3
  <2>7. id' = id /\ fresh' = fresh /\ Len(stack') = n + 1
    BY <1>1, <1>3
  <2> QED BY <2>5, <2>6, <2>7 DEF StackIds, Stamped
<1>9. Linked'
  <2> DEFINE under(i) == IF i = 1 THEN Id(0, fresh) ELSE stack[i - 1]
  <2>1. a_next = under(n + 1) /\ \A i \in 1..n : next[stack[i].index] = under(i)
    BY <1>3 DEF IInv, Linked, Below, n
  <2>2. \A i \in 1..(n + 1) : under(i) = IF i = 1 THEN Id(0, fresh') ELSE stack'[i - 1]
    BY <1>1, <1>3
  <2> HIDE DEF under
  <2>3. \A i \in 1..(n + 1) : next'[stack'[i].index] = under(i)
    <3>1. next'[stack'[n + 1].index] = under(n + 1)
      BY <1>1, <1>2, <1>3, <2>1
    <3>2. \A i \in 1..n : next'[stack'[i].index] = under(i)
      BY <1>1, <1>3, <2>1
    <3>3. \A i \in 1..(n + 1) : i = n + 1 \/ i \in 1..n
      BY <1>3
    <3> QED BY <3>1, <3>2, <3>3
  <2>4. a_next' = stack'[(n + 1 + 1) - 1] /\ n + 1 + 1 # 1
    BY <1>1, <1>3
  <2> QED BY <1>3, <2>2, <2>3, <2>4 DEF Linked, Below
<1>10. FreshIds' /\ HeldIds'
  BY <1>1, <1>5 DEF IInv, FreshIds, HeldIds, Stamped
<1>11. Snapshots'
  <2> SUFFICES ASSUME NEW u \in Threads PROVE SnapshotOf(u, snap[u])'
    BY DEF Snapshots
  <2>1. CASE u = t
    BY <1>5, <2>1 DEF SnapshotOf
  <2>2. CASE u # t
    <3>1. SnapshotOf(u, snap[u]) /\ snap[u] \in Ids
      BY DEF IInv, Snapshots, TypeOK
    <3>2. CASE snap[u].index = b
      <4>1. pc[u] \in {"read", "cas"} /\ snap[u].gen > 0 => id[b].gen > snap[u].gen
        BY <1>2, <1>6, <3>1, <3>2 DEF SnapshotOf
      <4>2. pc[u] \in {"read", "cas"} /\ snap[u].gen > 0 => id[b] # snap[u]
        BY <1>2, <3>1, <4>1
      <4> QED BY <1>1, <1>4, <1>5, <1>6, <2>2, <3>1, <3>2, <4>1, <4>2 DEF SnapshotOf
    <3>3. CASE snap[u].index # b
      BY <1>1, <1>4, <1>5, <1>6, <2>2, <3>1, <3>3 DEF SnapshotOf
    <3> QED BY <3>2, <3>3
  <2> QED BY <2>1, <2>2
<1>12. NoDoubleAllocation'
  <2>1. \A u, v \in Threads : u # v => Held(u)' \cap Held(v)' = {}
    BY <1>6 DEF IInv, NoDoubleAllocation
  <2>2. \A u \in Threads : Held(u)' \cap OnStack' = {}
    BY <1>2, <1>4, <1>6 DEF IInv, NoDoubleAllocation
  <2> QED BY <1>1, <1>5, <2>1, <2>2 DEF IInv, NoDoubleAllocation
<1>13. NoLostBlock'
  BY <1>1, <1>4, <1>6 DEF IInv, NoLostBlock
<1> QED BY <1>7, <1>8, <1>9, <1>10, <1>11, <1>12, <1>13 DEF IInv

LEMMA StutterStep ==
    ASSUME IInv, UNCHANGED vars
    PROVE  IInv'
<1>1. /\ OnStack' = OnStack /\ Stamping' = Stamping
      /\ \A t \in Threads : Held(t)' = Held(t)
  BY DEF vars, OnStack, Stamping, Held
<1>2. TypeOK' /\ HeldIds'
  BY DEF vars, IInv, TypeOK, HeldIds, Stamped
<1>3. Snapshots'
  BY <1>1 DEF vars, IInv, Snapshots, SnapshotOf
<1>4. \A u \in Threads : pc'[u] \in {"stamp", "link", "publish"} => blk'[u] \notin owns'[u]
  BY DEF vars, IInv, NoDoubleAllocation
<1> QED BY <1>1, <1>2, <1>3, <1>4, FrameInv DEF vars, IInv, NoDoubleAllocation

LEMMA NextIInv == IInv /\ [Next]_vars => IInv'
<1> SUFFICES ASSUME IInv, [Next]_vars PROVE IInv'
  OBVIOUS
<1>1. ASSUME NEW t \in Threads, AllocLoad(t) PROVE IInv'
  BY <1>1, AllocLoadStep
<1>2. ASSUME NEW t \in Threads, NEW b \in Blocks, FreeLoad(t, b) PROVE IInv'
  BY <1>2, FreeLoadStep
<1>3. ASSUME NEW t \in Threads, Inside(t) PROVE IInv'
  BY <1>3, LocalStep, AllocFreshStep, AllocReuseStep, AllocCasFailsStep, StampStep,
     FreeLinkStep, FreeCasStep DEF Inside
<1>4. CASE UNCHANGED vars
  BY <1>4, StutterStep
<1> QED BY <1>1, <1>2, <1>3, <1>4 DEF Next

\* The strengthened invariant of the free stack holds in every reachable state.
THEOREM InvariantHolds == Spec => []IInv
BY InitIInv, NextIInv, PTL DEF Spec

\* thread_block_alloc never hands out a block that a thread holds: the generation
\* in a_next defeats every stale snapshot, for any number of threads and blocks.
THEOREM NoDoubleAllocationTheorem == Spec => []NoDoubleAllocation
<1>1. IInv => NoDoubleAllocation
  BY DEF IInv
<1> QED BY <1>1, InvariantHolds, PTL

\* No free is ever lost, and the links always lead through all the free blocks.
THEOREM NoLostBlockTheorem == Spec => [](NoLostBlock /\ Linked)
<1>1. IInv => NoLostBlock /\ Linked
  BY DEF IInv
<1> QED BY <1>1, InvariantHolds, PTL

LEMMA IInvOutOfMemory == IInv => OutOfMemoryMeansAllHeld
<1> SUFFICES ASSUME IInv, a_next.index = BlockCount, NEW b \in Blocks
             PROVE  \E t \in Threads : b \in Held(t)
  BY DEF OutOfMemoryMeansAllHeld
<1>1. fresh \in 0..BlockCount /\ a_next.gen \in Nat
  BY DEF IInv, TypeOK
<1>2. a_next.gen = 0
  BY <1>1, TopOfStack, BlockCountAssumption
<1>3. fresh = BlockCount /\ OnStack = {}
  BY <1>2, TopOfStack, BlockCountAssumption DEF OnStack
<1> QED BY <1>3 DEF IInv, NoLostBlock, Blocks

\* NULL means out of memory: at the load of a_next that makes an allocation fail
\* no block is free.
THEOREM OutOfMemoryTheorem == Spec => []OutOfMemoryMeansAllHeld
BY InvariantHolds, IInvOutOfMemory, PTL

-------------------------------------------------------------------------------
(* The allocator implements BlockPool: the holder of a block is the thread *)
(* that has it, and there is at most one.                                  *)

HolderOf(b) ==
    IF \E t \in Threads : b \in Held(t) THEN CHOOSE t \in Threads : b \in Held(t) ELSE "free"

\* What a state says of the holders: one thread, or none and "free".
HoldersSound ==
    \A b \in Blocks :
        /\ \A t \in Threads : b \in Held(t) <=> HolderOf(b) = t
        /\ (\A t \in Threads : b \notin Held(t)) => HolderOf(b) = "free"

LEMMA HoldersAreSound == IInv => HoldersSound
<1> SUFFICES ASSUME IInv, NEW b \in Blocks
             PROVE  /\ \A t \in Threads : b \in Held(t) <=> HolderOf(b) = t
                    /\ (\A t \in Threads : b \notin Held(t)) => HolderOf(b) = "free"
  BY DEF HoldersSound
<1>1. CASE \E t \in Threads : b \in Held(t)
  <2>1. PICK t \in Threads : b \in Held(t)
    BY <1>1
  <2>2. HolderOf(b) \in Threads /\ b \in Held(HolderOf(b))
    BY <2>1 DEF HolderOf
  <2>3. \A u \in Threads : b \in Held(u) => u = HolderOf(b)
    BY <2>2 DEF IInv, NoDoubleAllocation
  <2> QED BY <1>1, <2>2, <2>3
<1>2. CASE \A t \in Threads : b \notin Held(t)
  BY <1>2, ThreadsAssumption DEF HolderOf
<1> QED BY <1>1, <1>2

\* A block that each thread holds as before has the holder it had.
LEMMA HolderStays ==
    ASSUME HoldersSound, HoldersSound', NEW b \in Blocks,
           \A t \in Threads : b \in Held(t)' <=> b \in Held(t)
    PROVE  HolderOf(b)' = HolderOf(b)
<1>1. CASE \E t \in Threads : b \in Held(t)
  BY <1>1 DEF HoldersSound
<1>2. CASE \A t \in Threads : b \notin Held(t)
  BY <1>2 DEF HoldersSound
<1> QED BY <1>1, <1>2

\* The compare-and-swap of an allocation hands a free block to its thread.
LEMMA AllocTakes ==
    ASSUME IInv, NEW t \in Threads, AllocCas(t)
    PROVE  /\ snap[t].index \in Blocks
           /\ \A u \in Threads : snap[t].index \notin Held(u)
           /\ Held(t)' = Held(t) \cup {snap[t].index}
           /\ \A u \in Threads \ {t} : Held(u)' = Held(u)
<1> DEFINE b == snap[t].index
<1>1. /\ pc[t] = "cas" /\ pc' = [pc EXCEPT ![t] = "stamp"] /\ a_next = snap[t]
      /\ blk' = [blk EXCEPT ![t] = b] /\ owns' = owns
  BY DEF AllocCas
<1>2. /\ pc'[t] = "stamp" /\ blk'[t] = b
      /\ \A u \in Threads \ {t} : pc'[u] = pc[u] /\ blk'[u] = blk[u]
  BY <1>1 DEF IInv, TypeOK
<1>3. SnapshotOf(t, snap[t]) /\ snap[t] \in Ids
  BY DEF IInv, Snapshots, TypeOK
<1>4. b \in Blocks
  BY <1>1, <1>3 DEF SnapshotOf
<1>5. \A u \in Threads : b \notin Held(u)
  <2>1. CASE snap[t].gen > 0
    BY <1>1, <2>1, TopOfStack DEF IInv, NoDoubleAllocation
  <2>2. CASE snap[t].gen = 0
    <3>1. b = fresh
      BY <1>1, <2>2, TopOfStack
    <3>2. \A u \in Threads : Held(u) \subseteq 0..(fresh - 1)
      BY DEF IInv, HeldIds, Stamped, Held
    <3> QED BY <3>1, <3>2 DEF IInv, TypeOK
  <2> QED BY <1>3, <2>1, <2>2
<1> HIDE DEF b
<1>6. Held(t)' = Held(t) \cup {b} /\ \A u \in Threads \ {t} : Held(u)' = Held(u)
  BY <1>1, <1>2 DEF Held
<1> QED BY <1>4, <1>5, <1>6 DEF b

\* The compare-and-swap of a free gives up the block of its thread.
LEMMA FreeReturns ==
    ASSUME IInv, NEW t \in Threads, FreeCas(t)
    PROVE  /\ blk[t] \in Blocks /\ blk[t] \in Held(t)
           /\ Held(t)' = Held(t) \ {blk[t]}
           /\ \A u \in Threads \ {t} : Held(u)' = Held(u)
<1>1. /\ pc[t] = "publish" /\ pc' = [pc EXCEPT ![t] = "idle"]
      /\ blk' = blk /\ owns' = owns
  BY DEF FreeCas
<1>2. /\ pc'[t] = "idle" /\ \A u \in Threads \ {t} : pc'[u] = pc[u]
  BY <1>1 DEF IInv, TypeOK
<1>3. blk[t] \in Blocks /\ blk[t] \notin owns[t]
  BY <1>1 DEF IInv, TypeOK, NoDoubleAllocation
<1> QED BY <1>1, <1>2, <1>3 DEF Held

\* The other steps leave every block with its thread: storing the new generation
\* gives the block to the caller, and entering a free takes it from the caller.
LEMMA OthersHold ==
    ASSUME IInv, [Next]_vars,
           \A t \in Threads : ~AllocCas(t) /\ ~FreeCas(t)
    PROVE  \A t \in Threads : Held(t)' = Held(t)
<1>1. CASE UNCHANGED vars
  BY <1>1 DEF vars, Held
<1>2. ASSUME NEW t \in Threads,
             AllocLoad(t) \/ OutOfMemory(t) \/ ReadNext(t) \/ AllocCasFails(t)
             \/ FreeLink(t) \/ FreeCasFails(t)
      PROVE  \A u \in Threads : Held(u)' = Held(u)
  <2>1. /\ blk' = blk /\ owns' = owns
        /\ pc' = [pc EXCEPT ![t] = pc'[t]]
        /\ pc[t] \in {"stamp", "link", "publish"} <=> pc'[t] \in {"stamp", "link", "publish"}
    BY <1>2 DEF AllocLoad, OutOfMemory, ReadNext, AllocCasFails, FreeLink, FreeCasFails,
                IInv, TypeOK
  <2>2. \A u \in Threads : pc'[u] \in {"stamp", "link", "publish"}
                            <=> pc[u] \in {"stamp", "link", "publish"}
    BY <2>1 DEF IInv, TypeOK
  <2> QED BY <2>1, <2>2 DEF Held
<1>3. ASSUME NEW t \in Threads, Stamp(t)
      PROVE  \A u \in Threads : Held(u)' = Held(u)
  <2>1. /\ blk' = blk /\ pc[t] = "stamp" /\ pc'[t] = "idle"
        /\ owns'[t] = owns[t] \cup {blk[t]}
        /\ \A u \in Threads \ {t} : pc'[u] = pc[u] /\ owns'[u] = owns[u]
    BY <1>3 DEF Stamp, IInv, TypeOK
  <2> QED BY <2>1 DEF Held
<1>4. ASSUME NEW t \in Threads, NEW b \in Blocks, FreeLoad(t, b)
      PROVE  \A u \in Threads : Held(u)' = Held(u)
  <2>1. /\ pc[t] = "idle" /\ pc'[t] = "link" /\ blk'[t] = b
        /\ b \in owns[t] /\ owns'[t] = owns[t] \ {b}
        /\ \A u \in Threads \ {t} : /\ pc'[u] = pc[u] /\ owns'[u] = owns[u]
                                    /\ blk'[u] = blk[u]
    BY <1>4 DEF FreeLoad, IInv, TypeOK
  <2> QED BY <2>1 DEF Held
<1> QED BY <1>1, <1>2, <1>3, <1>4 DEF Next, Inside

LEMMA InitRefines == Init => Pool!Init
<1> SUFFICES ASSUME Init PROVE Pool!Init
  OBVIOUS
<1>1. \A t \in Threads : Held(t) = {}
  BY DEF Init, Held
<1> QED BY <1>1 DEF Pool!Init

\* Only the two compare-and-swaps move a block in the pool, and each is one step of it.
LEMMA StepRefines ==
    ASSUME IInv, HoldersSound, HoldersSound', [Next]_vars
    PROVE  [Pool!Next]_(Pool!vars)
<1> DEFINE holder == [b \in Blocks |-> HolderOf(b)]
<1>1. CASE \E t \in Threads : AllocCas(t)
  <2>1. PICK t \in Threads : AllocCas(t)
    BY <1>1
  <2>2. PICK c \in Blocks :
          /\ \A u \in Threads : c \notin Held(u)
          /\ Held(t)' = Held(t) \cup {c}
          /\ \A u \in Threads \ {t} : Held(u)' = Held(u)
    BY <2>1, AllocTakes
  <2>3. HolderOf(c) = "free" /\ HolderOf(c)' = t
    BY <2>2 DEF HoldersSound
  <2>4. \A b \in Blocks \ {c} : \A u \in Threads : b \in Held(u)' <=> b \in Held(u)
    BY <2>2
  <2>5. \A b \in Blocks \ {c} : HolderOf(b)' = HolderOf(b)
    BY <2>4, HolderStays
  <2>6. holder[c] = "free" /\ holder' = [holder EXCEPT ![c] = t]
    BY <2>2, <2>3, <2>5
  <2>7. Pool!Alloc(t, c)
    BY <2>6 DEF Pool!Alloc, HolderOf
  <2> QED BY <2>2, <2>7 DEF Pool!Next
<1>2. CASE \E t \in Threads : FreeCas(t)
  <2>1. PICK t \in Threads : FreeCas(t)
    BY <1>2
  <2>2. PICK c \in Blocks :
          /\ c \in Held(t)
          /\ Held(t)' = Held(t) \ {c}
          /\ \A u \in Threads \ {t} : Held(u)' = Held(u)
    BY <2>1, FreeReturns
  <2>3. \A u \in Threads \ {t} : c \notin Held(u)
    BY <2>2 DEF IInv, NoDoubleAllocation
  <2>4. HolderOf(c) = t /\ HolderOf(c)' = "free"
    BY <2>2, <2>3 DEF HoldersSound
  <2>5. \A b \in Blocks \ {c} : \A u \in Threads : b \in Held(u)' <=> b \in Held(u)
    BY <2>2
  <2>6. \A b \in Blocks \ {c} : HolderOf(b)' = HolderOf(b)
    BY <2>5, HolderStays
  <2>7. holder[c] = t /\ holder' = [holder EXCEPT ![c] = "free"]
    BY <2>2, <2>4, <2>6
  <2>8. Pool!Free(t, c)
    BY <2>7 DEF Pool!Free, HolderOf
  <2> QED BY <2>2, <2>8 DEF Pool!Next
<1>3. CASE \A t \in Threads : ~AllocCas(t) /\ ~FreeCas(t)
  <2>1. \A u \in Threads : Held(u)' = Held(u)
    BY <1>3, OthersHold
  <2>2. \A b \in Blocks : HolderOf(b)' = HolderOf(b)
    BY <2>1, HolderStays
  <2>3. holder' = holder
    BY <2>2
  <2> QED BY <2>3 DEF Pool!vars, HolderOf
<1> QED BY <1>1, <1>2, <1>3

\* The lock-free stack implements BlockPool, generations, stale snapshots and retries
\* included: a block is handed to one thread at a time, at the compare-and-swap of the
\* allocation, and is free again from the compare-and-swap of its free on.
THEOREM ImplementsPool == Spec => Refines
<1>1. Spec => []HoldersSound
  BY InvariantHolds, HoldersAreSound, PTL
<1>2. Spec => [][Pool!Next]_(Pool!vars)
  BY <1>1, InvariantHolds, StepRefines, PTL DEF Spec
<1> QED BY <1>2, InitRefines, PTL DEF Spec, Refines, Pool!Spec

-------------------------------------------------------------------------------
(* The private stacks of thread_block_alloc_256B and thread_block_free_256B. *)

LEMMA LocalTyped ==
    ASSUME CacheIInv, NEW t \in Threads
    PROVE  /\ LocalHigh \in Nat /\ LocalLow \in 1..LocalHigh
           /\ local_next[t] \in Seq(Ids) /\ Len(local_next[t]) \in 0..LocalHigh
           /\ \A i \in 1..Len(local_next[t]) : local_next[t][i] \in Ids
<1>1. LocalHigh \in Nat /\ LocalLow \in 1..LocalHigh
  BY LocalAssumption DEF LocalHigh
<1>2. local_next[t] \in Seq(Ids) /\ Len(local_next[t]) <= LocalHigh
  BY DEF CacheIInv, CacheTypeOK
<1>3. Len(local_next[t]) \in Nat
  BY <1>2, LenProperties
<1>4. \A i \in 1..Len(local_next[t]) : local_next[t][i] \in Ids
  BY <1>2, ElementOfSeq
<1> QED BY <1>1, <1>2, <1>3, <1>4

\* What is private or free was allocated once.
LEMMA PlacedBlocks ==
    ASSUME CacheIInv
    PROVE  /\ fresh \in 0..BlockCount /\ 0..(fresh - 1) \subseteq Blocks
           /\ OnStack \subseteq 0..(fresh - 1)
           /\ \A t \in Threads : Private(t) \subseteq 0..(fresh - 1)
<1>1. fresh \in 0..BlockCount /\ 0..(fresh - 1) \subseteq Blocks
  BY BlockCountAssumption DEF CacheIInv, CacheTypeOK, TypeOK, Blocks
<1>2. OnStack \subseteq 0..(fresh - 1)
  BY DEF CacheIInv, StackIds, Stamped, OnStack
<1>3. \A t \in Threads : Private(t) \subseteq 0..(fresh - 1)
  BY DEF CacheIInv, PrivateIdsOf, Private, Taken, Stamped
<1> QED BY <1>1, <1>2, <1>3

\* A snapshot stays good, or stays out of date, as long as generations only grow,
\* what leaves the stack is being stamped or was, and what is pushed on it has a
\* generation the snapshot cannot have seen on the stack.
LEMMA SnapshotKept ==
    ASSUME TypeOK, NEW u \in Threads, SnapshotOf(u, snap[u]),
           pc'[u] = pc[u], snap'[u] = snap[u], new_next'[u] = new_next[u],
           fresh' \in Nat, fresh <= fresh', id' \in [Blocks -> Ids],
           \A c \in Blocks : id'[c].gen >= id[c].gen,
           \A c \in OnStack \cup Stamping :
               c \in OnStack' \cup Stamping' \/ id'[c].gen > id[c].gen,
           \A c \in OnStack' :
               \/ c \in OnStack /\ id'[c] = id[c] /\ next'[c] = next[c]
               \/ c \notin OnStack \cup Stamping
    PROVE  SnapshotOf(u, snap[u])'
<1> DEFINE s == snap[u]
<1>1. s \in Ids /\ fresh \in 0..BlockCount /\ id \in [Blocks -> Ids]
  BY DEF TypeOK
<1>2. 0..(fresh - 1) \subseteq Blocks
  BY <1>1, BlockCountAssumption DEF Blocks
<1>3. /\ pc[u] \in {"read", "cas"} /\ s.gen = 0 => s.index <= fresh
      /\ pc[u] \in {"read", "cas"} /\ s.gen > 0 =>
          /\ s.index \in 0..(fresh - 1)
          /\ id[s.index].gen >= s.gen
          /\ \/ s.index \in OnStack
             \/ id[s.index].gen > s.gen
             \/ s.index \in Stamping
      /\ pc[u] = "cas" =>
          /\ s.index \in Blocks
          /\ s.gen = 0 => new_next[u] = Id(0, s.index + 1)
          /\ s.gen > 0 /\ s.index \in OnStack /\ id[s.index] = s
                 => new_next[u] = next[s.index]
  BY DEF SnapshotOf
<1>4. s' = s
  OBVIOUS
<1>5. pc[u] \in {"read", "cas"} /\ s.gen > 0 =>
          /\ s.index \in 0..(fresh' - 1)
          /\ id'[s.index].gen >= s.gen
          /\ \/ s.index \in OnStack'
             \/ id'[s.index].gen > s.gen
             \/ s.index \in Stamping'
  <2> SUFFICES ASSUME pc[u] \in {"read", "cas"}, s.gen > 0
               PROVE  /\ s.index \in 0..(fresh' - 1)
                      /\ id'[s.index].gen >= s.gen
                      /\ \/ s.index \in OnStack'
                         \/ id'[s.index].gen > s.gen
                         \/ s.index \in Stamping'
    OBVIOUS
  <2>1. /\ s.index \in Blocks /\ s.index \in 0..(fresh - 1) /\ s.gen \in Nat
        /\ id[s.index].gen \in Nat /\ id'[s.index].gen \in Nat
    BY <1>1, <1>2, <1>3
  <2> HIDE DEF s
  <2>2. id'[s.index].gen >= s.gen
    BY <1>3, <2>1
  <2>3. CASE s.index \in OnStack \cup Stamping
    BY <1>1, <1>3, <2>1, <2>2, <2>3
  <2>4. CASE s.index \notin OnStack \cup Stamping
    BY <1>1, <1>3, <2>1, <2>2, <2>4
  <2> QED BY <1>1, <2>1, <2>2, <2>3, <2>4
<1>6. pc[u] = "cas" /\ s.gen > 0 /\ s.index \in OnStack' /\ id'[s.index] = s
          => new_next[u] = next'[s.index]
  <2> SUFFICES ASSUME pc[u] = "cas", s.gen > 0, s.index \in OnStack', id'[s.index] = s
               PROVE  new_next[u] = next'[s.index]
    OBVIOUS
  <2>1. s.gen \in Nat /\ id[s.index].gen \in Nat /\ id'[s.index].gen >= id[s.index].gen
    BY <1>1, <1>3
  <2> HIDE DEF s
  <2> QED BY <1>3, <2>1
<1> QED BY <1>1, <1>3, <1>4, <1>5, <1>6 DEF SnapshotOf

\* What a step leaves to the other threads.
LEMMA OthersKept ==
    ASSUME CacheIInv, NEW u \in Threads,
           pc'[u] = pc[u], snap'[u] = snap[u], blk'[u] = blk[u], owns'[u] = owns[u],
           local_next'[u] = local_next[u], giving'[u] = giving[u],
           fresh' \in Nat, fresh <= fresh',
           \A c \in Private(u) : id'[c] = id[c] /\ next'[c] = next[c] /\ c \notin OnStack'
    PROVE  /\ Private(u)' = Private(u)
           /\ PrivateIdsOf(u)' /\ PlacesOf(u)' /\ ChainOf(u)'
<1>1. /\ Cached(u)' = Cached(u) /\ Given(u)' = Given(u) /\ Taken(u)' = Taken(u)
      /\ Private(u)' = Private(u)
  BY DEF Private, Cached, Given, Taken
<1>2. PrivateIdsOf(u) /\ PlacesOf(u) /\ ChainOf(u) /\ fresh \in Nat
  BY DEF CacheIInv, OnePlace, ChainsKept, CacheTypeOK, TypeOK
<1>3. PlacesOf(u)'
  BY <1>1, <1>2 DEF PlacesOf
<1>4. ChainOf(u)'
  <2>1. \A i \in 1..Len(local_next[u]) : local_next[u][i].index \in Private(u)
    BY DEF Private, Cached
  <2> QED BY <1>2, <2>1 DEF ChainOf
<1>5. PrivateIdsOf(u)'
  <2>1. \A b \in owns[u] \cup Given(u) \cup Cached(u) : Stamped(b)'
    BY <1>2 DEF PrivateIdsOf, Stamped, Private
  <2>2. pc[u] = "stamp" => blk[u] \in Private(u)
    BY DEF Private, Taken
  <2> QED BY <1>1, <1>2, <2>1, <2>2 DEF PrivateIdsOf, Full
<1> QED BY <1>1, <1>3, <1>4, <1>5

LEMMA Assemble ==
    ASSUME CacheIInv, NEW t \in Threads,
           \A u \in Threads \ {t} :
               /\ Private(u)' = Private(u) /\ Private(t)' \cap Private(u) = {}
               /\ PrivateIdsOf(u)' /\ PlacesOf(u)' /\ ChainOf(u)',
           PrivateIdsOf(t)', PlacesOf(t)', ChainOf(t)',
           CacheTypeOK', StackIds', FreshIds', Snapshots', Linked', EachPlaced'
    PROVE  CacheIInv'
<1>1. \A u, v \in Threads : u # v => Private(u)' \cap Private(v)' = {}
  BY DEF CacheIInv, OnePlace
<1> QED BY <1>1 DEF CacheIInv, OnePlace, ChainsKept

LEMMA CacheInitInv == CacheInit => CacheIInv
<1> SUFFICES ASSUME CacheInit PROVE CacheIInv
  OBVIOUS
<1>1. IInv
  BY InitIInv DEF CacheInit
<1>2. /\ \A t \in Threads : local_next[t] = <<>> /\ giving[t] = 0 /\ pc[t] = "idle" /\ owns[t] = {}
      /\ fresh = 0 /\ stack = <<>>
  BY DEF CacheInit, Init
<1>3. CacheTypeOK
  BY <1>1, LocalAssumption, BlockCountAssumption, EmptySeq
     DEF CacheInit, IInv, CacheTypeOK, LocalHigh, Blocks
<1>4. \A t \in Threads : Private(t) = {}
  BY <1>2 DEF Private, Taken, Given, Cached
<1>5. \A t \in Threads : PlacesOf(t) /\ ChainOf(t) /\ PrivateIdsOf(t)
  <2>1. \A t \in Threads : Taken(t) = {} /\ Given(t) = {} /\ Cached(t) = {} /\ Len(local_next[t]) = 0
    BY <1>2 DEF Taken, Given, Cached
  <2> QED BY <1>2, <1>4, <2>1 DEF PlacesOf, ChainOf, PrivateIdsOf
<1>6. EachPlaced
  BY <1>2 DEF EachPlaced
<1> QED BY <1>1, <1>3, <1>4, <1>5, <1>6 DEF IInv, CacheIInv, OnePlace, ChainsKept

\* The steps that change neither the blocks nor where they are.
LEMMA CacheQuiet ==
    ASSUME CacheIInv, NEW t \in Threads,
           UNCHANGED <<a_next, id, next, stack, fresh, blk, owns, local_next, giving>>,
           \A u \in Threads \ {t} :
               pc'[u] = pc[u] /\ snap'[u] = snap[u] /\ new_next'[u] = new_next[u],
           \/ pc[t] = "idle" /\ pc'[t] = "read" /\ local_next[t] = <<>>
           \/ pc[t] = "read" /\ pc'[t] \in {"idle", "cas"}
           \/ pc[t] = "cas" /\ pc'[t] = "read"
           \/ pc[t] = "publish" /\ pc'[t] = "link",
           TypeOK', SnapshotOf(t, snap[t])'
    PROVE  CacheIInv'
<1>1. OnStack' = OnStack /\ fresh \in Nat /\ id \in [Blocks -> Ids]
  BY DEF OnStack, CacheIInv, CacheTypeOK, TypeOK
<1>2. Stamping' = Stamping
  <2>1. \A u \in Threads : pc'[u] = "stamp" <=> pc[u] = "stamp"
    OBVIOUS
  <2> QED BY <2>1 DEF Stamping
<1>3. \A u \in Threads \ {t} :
          /\ Private(u)' = Private(u) /\ PrivateIdsOf(u)' /\ PlacesOf(u)' /\ ChainOf(u)'
  <2> TAKE u \in Threads \ {t}
  <2>1. \A c \in Private(u) : c \notin OnStack'
    BY <1>1 DEF CacheIInv, OnePlace, PlacesOf
  <2> QED BY <1>1, <2>1, OthersKept
<1>4. /\ Cached(t)' = Cached(t) /\ Given(t)' = Given(t) /\ Taken(t)' = Taken(t)
      /\ Private(t)' = Private(t)
  BY DEF Private, Cached, Given, Taken
<1>5. PlacesOf(t)' /\ ChainOf(t)'
  BY <1>1, <1>4 DEF CacheIInv, OnePlace, PlacesOf, ChainsKept, ChainOf
<1>6. PrivateIdsOf(t)'
  BY <1>4 DEF CacheIInv, PrivateIdsOf, Stamped, Full
<1>7. CacheTypeOK' /\ StackIds' /\ FreshIds' /\ Linked'
  BY DEF CacheIInv, CacheTypeOK, StackIds, FreshIds, Stamped, ChainsKept, Linked, Below
<1>8. EachPlaced'
  BY <1>1, <1>3, <1>4 DEF CacheIInv, ChainsKept, EachPlaced
<1>9. Snapshots'
  <2> SUFFICES ASSUME NEW u \in Threads \ {t} PROVE SnapshotOf(u, snap[u])'
    BY DEF Snapshots
  <2>1. SnapshotOf(u, snap[u])
    BY DEF CacheIInv, Snapshots
  <2> QED BY <1>1, <1>2, <2>1 DEF SnapshotOf
<1>10. \A u \in Threads \ {t} : Private(t)' \cap Private(u) = {}
  BY <1>4 DEF CacheIInv, OnePlace
<1> QED BY <1>3, <1>5, <1>6, <1>7, <1>8, <1>9, <1>10, Assemble

LEMMA SharedAllocInv ==
    ASSUME CacheIInv, NEW t \in Threads, SharedAlloc(t)
    PROVE  CacheIInv'
<1>1. /\ pc[t] = "idle" /\ pc' = [pc EXCEPT ![t] = "read"] /\ local_next[t] = <<>>
      /\ snap' = [snap EXCEPT ![t] = a_next]
      /\ UNCHANGED <<a_next, id, next, new_next, blk, owns, stack, fresh, local_next, giving>>
  BY DEF SharedAlloc, AllocLoad, sharedVars, cacheVars
<1>2. TypeOK /\ TypeOK'
  BY <1>1 DEF CacheIInv, CacheTypeOK, TypeOK
<1>3. /\ pc'[t] = "read" /\ snap'[t] = a_next
      /\ \A u \in Threads \ {t} : pc'[u] = pc[u] /\ snap'[u] = snap[u]
  BY <1>1, <1>2 DEF TypeOK
<1>4. OnStack' = OnStack
  BY <1>1 DEF OnStack
<1>5. SnapshotOf(t, snap[t])'
  <2>1. /\ a_next.gen = 0 => a_next.index <= fresh
        /\ a_next.gen > 0 => /\ a_next.index \in 0..(fresh - 1) /\ a_next.index \in OnStack
                             /\ id[a_next.index] = a_next
    BY <1>2, StackTop DEF CacheIInv, ChainsKept
  <2>2. a_next \in Ids
    BY <1>2 DEF TypeOK
  <2> QED BY <1>1, <1>3, <1>4, <2>1, <2>2 DEF SnapshotOf
<1> QED BY <1>1, <1>2, <1>3, <1>5, CacheQuiet

LEMMA SharedReadInv ==
    ASSUME CacheIInv, NEW t \in Threads, OutOfMemory(t) \/ ReadNext(t), UNCHANGED cacheVars
    PROVE  CacheIInv'
<1>1. UNCHANGED <<a_next, id, next, blk, owns, stack, fresh, local_next, giving, snap>>
  BY DEF OutOfMemory, ReadNext, sharedVars, cacheVars
<1>2. TypeOK /\ SnapshotOf(t, snap[t]) /\ OnStack' = OnStack
  BY <1>1 DEF CacheIInv, CacheTypeOK, Snapshots, OnStack
<1>3. CASE OutOfMemory(t)
  <2>1. TypeOK' /\ pc[t] = "read" /\ pc'[t] = "idle" /\ new_next' = new_next
        /\ \A u \in Threads \ {t} : pc'[u] = pc[u]
    BY <1>2, <1>3 DEF OutOfMemory, TypeOK, sharedVars
  <2>2. SnapshotOf(t, snap[t])'
    BY <2>1 DEF SnapshotOf
  <2> QED BY <1>1, <2>1, <2>2, CacheQuiet
<1>4. CASE ReadNext(t)
  <2>1. /\ pc[t] = "read" /\ pc' = [pc EXCEPT ![t] = "cas"] /\ snap[t].index # BlockCount
        /\ new_next' = [new_next EXCEPT ![t] =
               IF snap[t].gen = 0 THEN Id(0, snap[t].index + 1) ELSE next[snap[t].index]]
    BY <1>4 DEF ReadNext
  <2>2. snap[t] \in Ids /\ snap[t].index \in Blocks /\ snap[t].index + 1 \in 0..BlockCount
    <3>1. snap[t] \in Ids /\ snap[t].index \in 0..BlockCount
      BY <1>2 DEF TypeOK
    <3> QED BY <2>1, <3>1, BlockCountAssumption DEF Blocks
  <2>3. next[snap[t].index] \in Ids
    BY <1>2, <2>2 DEF TypeOK
  <2>4. new_next' \in [Threads -> Ids]
    BY <1>2, <2>1, <2>2, <2>3 DEF TypeOK
  <2>5. TypeOK'
    BY <1>1, <1>2, <2>1, <2>4 DEF TypeOK
  <2>6. /\ pc'[t] = "cas"
        /\ new_next'[t] = IF snap[t].gen = 0 THEN Id(0, snap[t].index + 1) ELSE next[snap[t].index]
        /\ \A u \in Threads \ {t} : pc'[u] = pc[u] /\ new_next'[u] = new_next[u]
    BY <1>2, <2>1 DEF TypeOK
  <2>7. Stamping' = Stamping
    <3>1. \A u \in Threads : pc'[u] = "stamp" <=> pc[u] = "stamp"
      BY <2>1, <2>6
    <3> QED BY <1>1, <3>1 DEF Stamping
  <2>8. SnapshotOf(t, snap[t])'
    BY <1>1, <1>2, <2>1, <2>2, <2>6, <2>7 DEF SnapshotOf
  <2> QED BY <1>1, <2>1, <2>5, <2>6, <2>8, CacheQuiet
<1> QED BY <1>3, <1>4

\* A compare-and-swap that fails, of an allocation or of a return.
LEMMA SharedFailInv ==
    ASSUME CacheIInv, NEW t \in Threads, AllocCasFails(t) \/ FreeCasFails(t),
           UNCHANGED cacheVars
    PROVE  CacheIInv'
<1>1. /\ UNCHANGED <<a_next, id, next, blk, owns, stack, fresh, local_next, giving, new_next>>
      /\ snap' = [snap EXCEPT ![t] = IF WriteBack THEN a_next ELSE snap[t]]
      /\ \/ pc[t] = "cas" /\ pc' = [pc EXCEPT ![t] = "read"]
         \/ pc[t] = "publish" /\ pc' = [pc EXCEPT ![t] = "link"]
  BY DEF AllocCasFails, FreeCasFails, sharedVars, cacheVars
<1>2. TypeOK /\ SnapshotOf(t, snap[t]) /\ OnStack' = OnStack
  BY <1>1 DEF CacheIInv, CacheTypeOK, Snapshots, OnStack
<1>3. TypeOK'
  BY <1>1, <1>2 DEF TypeOK
<1>4. /\ \/ pc[t] = "cas" /\ pc'[t] = "read"
         \/ pc[t] = "publish" /\ pc'[t] = "link"
      /\ snap'[t] = a_next \/ snap'[t] = snap[t]
      /\ \A u \in Threads \ {t} : pc'[u] = pc[u] /\ snap'[u] = snap[u]
  BY <1>1, <1>2 DEF TypeOK
<1>5. Stamping' = Stamping
  <2>1. \A u \in Threads : pc'[u] = "stamp" <=> pc[u] = "stamp"
    BY <1>1, <1>4
  <2> QED BY <1>1, <2>1 DEF Stamping
<1>6. SnapshotOf(t, snap[t])'
  <2>1. CASE snap'[t] = a_next
    <3>1. /\ a_next.gen = 0 => a_next.index <= fresh
          /\ a_next.gen > 0 => /\ a_next.index \in 0..(fresh - 1) /\ a_next.index \in OnStack
                               /\ id[a_next.index] = a_next
      BY <1>2, StackTop DEF CacheIInv, ChainsKept
    <3>2. a_next \in Ids
      BY <1>2 DEF TypeOK
    <3> QED BY <1>1, <1>2, <1>4, <2>1, <3>1, <3>2 DEF SnapshotOf
  <2>2. CASE snap'[t] = snap[t]
    BY <1>1, <1>2, <1>4, <1>5, <2>2 DEF SnapshotOf
  <2> QED BY <1>4, <2>1, <2>2
<1> QED BY <1>1, <1>3, <1>4, <1>6, CacheQuiet

\* The compare-and-swap of an allocation: the block it takes was the top of the stack,
\* or the first never allocated, and the links go on below it.
LEMMA AllocPops ==
    ASSUME TypeOK, StackIds, FreshIds, Linked, NEW t \in Threads,
           SnapshotOf(t, snap[t]), AllocCas(t), NEW b, b = snap[t].index
    PROVE  /\ b \in Blocks /\ b \in OnStack \cup {fresh}
           /\ fresh' \in 0..BlockCount /\ 0..(fresh' - 1) = 0..(fresh - 1) \cup {b}
           /\ fresh <= fresh'
           /\ id[b].gen = snap[t].gen
           /\ OnStack' = OnStack \ {b}
           /\ TypeOK' /\ StackIds' /\ FreshIds' /\ Linked'
<1>1. /\ pc[t] = "cas" /\ pc' = [pc EXCEPT ![t] = "stamp"]
      /\ a_next = snap[t] /\ a_next' = new_next[t] /\ blk' = [blk EXCEPT ![t] = b]
      /\ UNCHANGED <<id, next, snap, new_next, owns>>
  BY DEF AllocCas
<1>2. b \in Blocks /\ snap[t] \in Ids /\ fresh \in 0..BlockCount /\ new_next[t] \in Ids
  BY <1>1 DEF SnapshotOf, TypeOK
<1>3. CASE snap[t].gen = 0
  <2>1. fresh' = fresh + 1 /\ stack' = stack
    BY <1>3 DEF AllocCas
  <2>2. Len(stack) = 0 /\ b = fresh /\ new_next[t] = Id(0, fresh + 1)
    BY <1>1, <1>2, <1>3, StackTop DEF SnapshotOf
  <2>3. /\ fresh' \in 0..BlockCount /\ OnStack = {} /\ OnStack' = {}
        /\ 0..(fresh' - 1) = 0..(fresh - 1) \cup {b}
    BY <1>2, <2>1, <2>2, BlockCountAssumption DEF Blocks, OnStack
  <2>4. TypeOK'
    BY <1>1, <1>2, <2>1, <2>3 DEF TypeOK
  <2>5. id[b].gen = 0
    BY <1>2, <2>2 DEF FreshIds
  <2>6. StackIds' /\ Linked'
    BY <1>1, <2>1, <2>2 DEF StackIds, Linked, Below
  <2>7. FreshIds'
    BY <1>1, <1>2, <2>1 DEF FreshIds, Blocks
  <2> QED BY <1>2, <1>3, <2>1, <2>2, <2>3, <2>4, <2>5, <2>6, <2>7
<1>4. CASE snap[t].gen # 0
  <2> DEFINE n == Len(stack)
  <2>1. fresh' = fresh /\ stack' = SubSeq(stack, 1, n - 1)
    BY <1>4 DEF AllocCas
  <2>2. /\ n \in Nat /\ n \in 1..n /\ stack[n] = snap[t]
        /\ b \in 0..(fresh - 1) /\ b \in OnStack /\ id[b] = snap[t]
        /\ new_next[t] = next[b]
    <3>1. snap[t].gen > 0
      BY <1>2, <1>4
    <3> QED BY <1>1, <3>1, StackTop, StackTyped DEF SnapshotOf
  <2>3. /\ stack' \in Seq(Ids) /\ Len(stack') = n - 1
        /\ \A i \in 1..(n - 1) : stack'[i] = stack[i]
    <3>1. \A i \in 1..(n - 1) : stack[i] \in Ids
      BY <2>2, StackTyped
    <3>2. n - 1 \in Int /\ 1 \in Int
      BY <2>2
    <3>3. /\ SubSeq(stack, 1, n - 1) \in Seq(Ids)
          /\ Len(SubSeq(stack, 1, n - 1)) = IF 1 <= n - 1 THEN (n - 1) - 1 + 1 ELSE 0
          /\ \A i \in 1..((n - 1) - 1 + 1) : SubSeq(stack, 1, n - 1)[i] = stack[1 + i - 1]
      BY <3>1, <3>2, SubSeqProperties
    <3> HIDE DEF n
    <3>4. (n - 1) - 1 + 1 = n - 1 /\ \A i \in 1..(n - 1) : 1 + i - 1 = i
      BY <2>2
    <3> QED BY <2>1, <2>2, <3>3, <3>4
  <2>4. OnStack' = OnStack \ {b}
    <3>1. \A i \in 1..(n - 1) : stack[i].index # b
      BY <2>2 DEF StackIds
    <3>2. OnStack = {stack[i].index : i \in 1..(n - 1)} \cup {b}
      BY <2>2 DEF OnStack
    <3> QED BY <2>3, <3>1, <3>2 DEF OnStack
  <2>5. TypeOK'
    BY <1>1, <1>2, <2>1, <2>3 DEF TypeOK
  <2>6. StackIds' /\ FreshIds'
    <3>1. \A i \in 1..(n - 1) : i \in 1..n
      BY <2>2
    <3> QED BY <1>1, <2>1, <2>3, <3>1 DEF StackIds, FreshIds, Stamped
  <2>7. Linked'
    <3> DEFINE under(i) == IF i = 1 THEN Id(0, fresh) ELSE stack[i - 1]
    <3>1. \A i \in 1..n : next[stack[i].index] = under(i)
      BY DEF Linked, Below
    <3>2. \A i \in 1..n : under(i) = IF i = 1 THEN Id(0, fresh') ELSE stack'[i - 1]
      BY <2>1, <2>2, <2>3
    <3> HIDE DEF under
    <3>3. a_next' = under(n) /\ Len(stack') + 1 = n
      BY <1>1, <2>2, <2>3, <3>1
    <3> HIDE DEF n
    <3>4. \A i \in 1..(n - 1) : i \in 1..n
      BY <2>2
    <3>5. \A i \in 1..(n - 1) : next'[stack'[i].index] = under(i)
      BY <1>1, <2>3, <3>1, <3>4
    <3>6. n \in 1..n
      BY <2>2
    <3> QED BY <2>3, <3>2, <3>3, <3>4, <3>5, <3>6 DEF Linked, Below
  <2> QED BY <1>2, <2>1, <2>2, <2>4, <2>5, <2>6, <2>7
<1> QED BY <1>3, <1>4

LEMMA SharedTakeInv ==
    ASSUME CacheIInv, NEW t \in Threads, AllocCas(t), UNCHANGED cacheVars
    PROVE  CacheIInv'
<1> DEFINE b == snap[t].index
<1>1. /\ pc[t] = "cas" /\ pc' = [pc EXCEPT ![t] = "stamp"] /\ blk' = [blk EXCEPT ![t] = b]
      /\ UNCHANGED <<id, next, snap, new_next, owns, local_next, giving>>
  BY DEF AllocCas, cacheVars
<1>2. TypeOK /\ SnapshotOf(t, snap[t])
  BY DEF CacheIInv, CacheTypeOK, Snapshots
<1>3. /\ b \in Blocks /\ b \in OnStack \cup {fresh}
      /\ fresh' \in 0..BlockCount /\ 0..(fresh' - 1) = 0..(fresh - 1) \cup {b}
      /\ fresh <= fresh'
      /\ id[b].gen = snap[t].gen
      /\ OnStack' = OnStack \ {b}
      /\ TypeOK' /\ StackIds' /\ FreshIds' /\ Linked'
  <2>1. StackIds /\ FreshIds /\ Linked
    BY DEF CacheIInv, ChainsKept
  <2> QED BY <1>2, <2>1, AllocPops
<1>4. /\ pc'[t] = "stamp" /\ blk'[t] = b
      /\ \A u \in Threads \ {t} : pc'[u] = pc[u] /\ blk'[u] = blk[u]
  BY <1>1, <1>2 DEF TypeOK
<1>5. \A u \in Threads : b \notin Private(u)
  <2>1. CASE b \in OnStack
    BY <2>1 DEF CacheIInv, OnePlace, PlacesOf
  <2>2. CASE b = fresh
    BY <2>2, PlacedBlocks
  <2> QED BY <1>3, <2>1, <2>2
<1>6. snap'[t].index = b /\ id'[b] = id[b] /\ snap'[t].gen = snap[t].gen
  BY <1>1
<1> HIDE DEF b
<1>7. /\ Taken(t)' = {b} /\ Given(t)' = {} /\ Taken(t) = {} /\ Given(t) = {}
      /\ Cached(t) = {} /\ Cached(t)' = {} /\ Len(local_next[t]) = 0 /\ local_next[t] = <<>>
  <2>1. local_next[t] = <<>>
    BY <1>1 DEF CacheIInv, PrivateIdsOf
  <2> QED BY <1>1, <1>4, <2>1 DEF Taken, Given, Cached
<1>8. Private(t)' = Private(t) \cup {b}
  BY <1>1, <1>7 DEF Private
<1>9. \A u \in Threads \ {t} :
          /\ Private(u)' = Private(u) /\ Private(t)' \cap Private(u) = {}
          /\ PrivateIdsOf(u)' /\ PlacesOf(u)' /\ ChainOf(u)'
  <2> TAKE u \in Threads \ {t}
  <2>1. \A c \in Private(u) : c \notin OnStack'
    BY <1>3 DEF CacheIInv, OnePlace, PlacesOf
  <2>2. Private(t) \cap Private(u) = {}
    BY DEF CacheIInv, OnePlace
  <2> QED BY <1>1, <1>3, <1>4, <1>5, <1>8, <2>1, <2>2, OthersKept
<1>10. PlacesOf(t)' /\ ChainOf(t)'
  <2>1. PlacesOf(t)
    BY DEF CacheIInv, OnePlace
  <2> QED BY <1>1, <1>3, <1>5, <1>7, <1>8, <2>1 DEF PlacesOf, ChainOf, Private
<1>11. PrivateIdsOf(t)'
  <2>1. \A c \in owns[t] : Stamped(c)
    BY DEF CacheIInv, PrivateIdsOf
  <2>2. \A c \in owns[t] : Stamped(c)'
    BY <1>1, <1>3, <2>1 DEF Stamped
  <2>3. blk'[t] = snap'[t].index /\ blk'[t] \in 0..(fresh' - 1)
        /\ id'[blk'[t]].gen = snap'[t].gen
    BY <1>3, <1>4, <1>6
  <2> QED BY <1>1, <1>4, <1>7, <2>2, <2>3 DEF PrivateIdsOf
<1>12. CacheTypeOK'
  BY <1>1, <1>3 DEF CacheIInv, CacheTypeOK
<1>13. EachPlaced'
  <2>1. \A c \in 0..(fresh - 1) : c \in OnStack \/ \E u \in Threads : c \in Private(u)
    BY DEF CacheIInv, ChainsKept, EachPlaced
  <2> QED BY <1>3, <1>8, <1>9, <2>1 DEF EachPlaced
<1>14. Snapshots'
  <2>1. SnapshotOf(t, snap[t])'
    BY <1>4 DEF SnapshotOf
  <2>2. Stamping' = Stamping \cup {b}
    BY <1>1, <1>4 DEF Stamping
  <2> SUFFICES ASSUME NEW u \in Threads \ {t} PROVE SnapshotOf(u, snap[u])'
    BY <2>1 DEF Snapshots
  <2>3. SnapshotOf(u, snap[u]) /\ id \in [Blocks -> Ids] /\ fresh' \in Nat
    BY <1>2, <1>3, BlockCountAssumption DEF CacheIInv, Snapshots, TypeOK
  <2>4. \A c \in Blocks : id'[c].gen >= id[c].gen
    BY <1>1, <2>3
  <2> QED BY <1>1, <1>2, <1>3, <1>4, <2>2, <2>3, <2>4, SnapshotKept
<1> QED BY <1>3, <1>9, <1>10, <1>11, <1>12, <1>13, <1>14, Assemble

LEMMA SharedStampInv ==
    ASSUME CacheIInv, NEW t \in Threads, Stamp(t), UNCHANGED cacheVars
    PROVE  CacheIInv'
<1> DEFINE b == blk[t]
<1>1. /\ pc[t] = "stamp" /\ pc' = [pc EXCEPT ![t] = "idle"]
      /\ id' = [id EXCEPT ![b] = Id(snap[t].gen + 1, snap[t].index)]
      /\ owns' = [owns EXCEPT ![t] = @ \cup {b}]
      /\ UNCHANGED <<a_next, next, snap, new_next, blk, stack, fresh, local_next, giving>>
  BY DEF Stamp, cacheVars
<1>2. TypeOK /\ PrivateIdsOf(t) /\ PlacesOf(t)
  BY DEF CacheIInv, CacheTypeOK, OnePlace
<1>3. /\ b \in 0..(fresh - 1) /\ b \in Blocks /\ b = snap[t].index
      /\ id[b].gen = snap[t].gen /\ snap[t] \in Ids /\ id[b] \in Ids
      /\ local_next[t] = <<>>
  BY <1>1, <1>2 DEF PrivateIdsOf, TypeOK
<1>4. /\ id'[b] = Id(id[b].gen + 1, b) /\ id' \in [Blocks -> Ids]
      /\ \A c \in Blocks \ {b} : id'[c] = id[c]
      /\ \A c \in Blocks : id'[c].gen >= id[c].gen
  <2> HIDE DEF b
  <2>1. id \in [Blocks -> Ids] /\ id' = [id EXCEPT ![b] = Id(id[b].gen + 1, b)]
    BY <1>1, <1>2, <1>3 DEF TypeOK
  <2>2. Id(id[b].gen + 1, b) \in Ids /\ \A c \in Blocks : id[c].gen \in Nat
    BY <1>3, <2>1
  <2>3. id' \in [Blocks -> Ids]
    BY <2>1, <2>2
  <2>4. id'[b] = Id(id[b].gen + 1, b) /\ \A c \in Blocks \ {b} : id'[c] = id[c]
    BY <1>3, <2>1
  <2>5. \A c \in Blocks : id'[c].gen >= id[c].gen
    BY <2>2, <2>4
  <2> QED BY <2>3, <2>4, <2>5
<1>5. /\ pc'[t] = "idle" /\ owns'[t] = owns[t] \cup {b}
      /\ \A u \in Threads \ {t} : pc'[u] = pc[u] /\ owns'[u] = owns[u]
  BY <1>1, <1>2 DEF TypeOK
<1>6. /\ Taken(t) = {b} /\ Given(t) = {} /\ Cached(t) = {}
      /\ Taken(t)' = {} /\ Given(t)' = {} /\ Cached(t)' = {} /\ Len(local_next[t]) = 0
  BY <1>1, <1>3, <1>5 DEF Taken, Given, Cached
<1>7. Private(t)' = Private(t) /\ b \in Private(t) /\ OnStack' = OnStack /\ b \notin OnStack
  BY <1>1, <1>2, <1>5, <1>6 DEF Private, OnStack, PlacesOf
<1> HIDE DEF b
<1>8. fresh \in Nat /\ OnStack \subseteq Blocks /\ \A u \in Threads : Private(u) \subseteq Blocks
  BY PlacedBlocks
<1>9. \A u \in Threads \ {t} :
          /\ Private(u)' = Private(u) /\ Private(t)' \cap Private(u) = {}
          /\ PrivateIdsOf(u)' /\ PlacesOf(u)' /\ ChainOf(u)'
  <2> TAKE u \in Threads \ {t}
  <2>1. Private(t) \cap Private(u) = {} /\ Private(u) \cap OnStack = {}
    BY DEF CacheIInv, OnePlace, PlacesOf
  <2>2. \A c \in Private(u) : id'[c] = id[c] /\ next'[c] = next[c] /\ c \notin OnStack'
    BY <1>1, <1>4, <1>7, <1>8, <2>1
  <2> QED BY <1>1, <1>5, <1>7, <1>8, <2>1, <2>2, OthersKept
<1>10. PlacesOf(t)' /\ ChainOf(t)'
  BY <1>1, <1>2, <1>3, <1>6, <1>7 DEF PlacesOf, ChainOf
<1>11. PrivateIdsOf(t)'
  <2>1. \A c \in owns[t] : Stamped(c) /\ c \in Blocks
    BY <1>2, <1>8 DEF PrivateIdsOf, Private
  <2>2. \A c \in owns'[t] : Stamped(c)'
    BY <1>1, <1>3, <1>4, <1>5, <2>1 DEF Stamped
  <2> QED BY <1>5, <1>6, <2>2 DEF PrivateIdsOf
<1>12. CacheTypeOK'
  <2>1. owns' \in [Threads -> SUBSET Blocks]
    BY <1>1, <1>2, <1>3 DEF TypeOK
  <2> QED BY <1>1, <1>2, <1>4, <2>1 DEF CacheIInv, CacheTypeOK, TypeOK
<1>13. StackIds' /\ FreshIds' /\ Linked'
  <2>1. \A i \in 1..Len(stack) : stack[i].index \in OnStack
    BY DEF OnStack
  <2>2. \A i \in 1..Len(stack) : id'[stack[i].index] = id[stack[i].index]
    BY <1>4, <1>7, <1>8, <2>1
  <2>3. StackIds'
    BY <1>1, <2>2 DEF CacheIInv, StackIds, Stamped
  <2>4. FreshIds'
    BY <1>1, <1>3, <1>4, <1>8 DEF CacheIInv, FreshIds
  <2> QED BY <1>1, <2>3, <2>4 DEF CacheIInv, ChainsKept, Linked, Below
<1>14. EachPlaced'
  BY <1>1, <1>7, <1>9 DEF CacheIInv, ChainsKept, EachPlaced
<1>15. Snapshots'
  <2>1. SnapshotOf(t, snap[t])'
    BY <1>5 DEF SnapshotOf
  <2>2. \A c \in Stamping : c \in Stamping' \/ id'[c].gen > id[c].gen
    <3> SUFFICES ASSUME NEW u \in Threads, pc[u] = "stamp"
                 PROVE  blk[u] \in Stamping' \/ id'[blk[u]].gen > id[blk[u]].gen
      BY DEF Stamping
    <3>1. CASE u = t
      BY <1>3, <1>4, <3>1 DEF b
    <3>2. CASE u # t
      <4>1. pc'[u] = "stamp" /\ blk'[u] = blk[u]
        BY <1>1, <1>5, <3>2
      <4> QED BY <4>1 DEF Stamping
    <3> QED BY <3>1, <3>2
  <2> SUFFICES ASSUME NEW u \in Threads \ {t} PROVE SnapshotOf(u, snap[u])'
    BY <2>1 DEF Snapshots
  <2>3. SnapshotOf(u, snap[u])
    BY DEF CacheIInv, Snapshots
  <2>4. \A c \in OnStack' : c \in OnStack /\ id'[c] = id[c] /\ next'[c] = next[c]
    BY <1>1, <1>4, <1>7, <1>8
  <2> QED BY <1>1, <1>2, <1>4, <1>5, <1>7, <1>8, <2>2, <2>3, <2>4, SnapshotKept
<1> QED BY <1>9, <1>10, <1>11, <1>12, <1>13, <1>14, <1>15, Assemble

\* Popping the private stack.
LEMMA LocalAllocInv ==
    ASSUME CacheIInv, NEW t \in Threads, LocalAlloc(t)
    PROVE  CacheIInv'
<1> DEFINE n == Len(local_next[t])
           top == Last(local_next[t])
           b == top.index
<1>1. /\ pc[t] = "idle" /\ local_next[t] # <<>>
      /\ id' = [id EXCEPT ![b] = Id(top.gen + 1, b)]
      /\ owns' = [owns EXCEPT ![t] = @ \cup {b}]
      /\ local_next' = [local_next EXCEPT ![t] = Front(@)]
      /\ UNCHANGED <<a_next, next, pc, snap, new_next, blk, stack, fresh, giving>>
  BY DEF LocalAlloc
<1>2. TypeOK /\ PrivateIdsOf(t) /\ PlacesOf(t) /\ ChainOf(t)
  BY DEF CacheIInv, CacheTypeOK, OnePlace, ChainsKept
<1>3. /\ n \in Nat \ {0} /\ n \in 1..n /\ n <= LocalHigh /\ LocalHigh \in Nat
      /\ \A i \in 1..n : local_next[t][i] \in Ids
      /\ local_next[t] \in Seq(Ids) /\ top = local_next[t][n]
  <2>1. /\ LocalHigh \in Nat /\ local_next[t] \in Seq(Ids) /\ n \in 0..LocalHigh
        /\ \A i \in 1..n : local_next[t][i] \in Ids
    BY LocalTyped
  <2>2. n # 0
    BY <1>1, <2>1, EmptySeq
  <2> QED BY <2>1, <2>2 DEF Last
<1>4. /\ b \in Cached(t) /\ b \in Private(t) /\ b \notin owns[t] /\ b \notin OnStack
      /\ Stamped(b) /\ id[b] = top /\ top \in Ids
  BY <1>2, <1>3 DEF Cached, Private, PlacesOf, PrivateIdsOf, ChainOf
<1>5. /\ fresh \in Nat /\ OnStack \subseteq Blocks /\ b \in Blocks /\ b \in 0..(fresh - 1)
      /\ \A u \in Threads : Private(u) \subseteq Blocks
  BY <1>4, PlacedBlocks DEF Stamped
<1>6. /\ id'[b] = Id(id[b].gen + 1, b) /\ id' \in [Blocks -> Ids]
      /\ \A c \in Blocks \ {b} : id'[c] = id[c]
      /\ \A c \in Blocks : id'[c].gen >= id[c].gen
  <2>1. Id(top.gen + 1, b) \in Ids /\ id[b].gen + 1 \in Nat
    BY SMTT(20), <1>2, <1>4, <1>5 DEF TypeOK
  <2> HIDE DEF b, top
  <2>2. id \in [Blocks -> Ids] /\ id' = [id EXCEPT ![b] = Id(id[b].gen + 1, b)]
    BY <1>1, <1>2, <1>4 DEF TypeOK
  <2>3. id[b].gen \in Nat /\ \A c \in Blocks : id[c].gen \in Nat
    BY <1>5, <2>2
  <2>4. id' \in [Blocks -> Ids]
    BY <1>4, <2>1, <2>2
  <2>5. id'[b] = Id(id[b].gen + 1, b) /\ \A c \in Blocks \ {b} : id'[c] = id[c]
    BY <1>5, <2>2
  <2>6. \A c \in Blocks : id'[c].gen >= id[c].gen
    BY <2>3, <2>5
  <2> QED BY <2>4, <2>5, <2>6
<1>7. /\ local_next'[t] \in Seq(Ids) /\ Len(local_next'[t]) = n - 1
      /\ \A i \in 1..(n - 1) : i \in 1..n /\ local_next'[t][i] = local_next[t][i]
  <2>1. local_next'[t] = SubSeq(local_next[t], 1, n - 1)
    BY <1>1 DEF Front, CacheIInv, CacheTypeOK
  <2> HIDE DEF n
  <2>2. n - 1 \in Int /\ 1 \in Int /\ \A i \in 1..(n - 1) : i \in 1..n
    BY <1>3
  <2>3. \A i \in 1..(n - 1) : local_next[t][i] \in Ids
    BY <1>3, <2>2
  <2>4. /\ SubSeq(local_next[t], 1, n - 1) \in Seq(Ids)
        /\ Len(SubSeq(local_next[t], 1, n - 1)) = IF 1 <= n - 1 THEN (n - 1) - 1 + 1 ELSE 0
        /\ \A i \in 1..((n - 1) - 1 + 1) : SubSeq(local_next[t], 1, n - 1)[i] = local_next[t][1 + i - 1]
    BY <2>2, <2>3, SubSeqProperties
  <2>5. (n - 1) - 1 + 1 = n - 1 /\ \A i \in 1..(n - 1) : 1 + i - 1 = i
    BY <1>3
  <2>6. Len(local_next'[t]) = n - 1
    BY <1>3, <2>1, <2>4
  <2>7. \A i \in 1..(n - 1) : local_next'[t][i] = local_next[t][i]
    BY <2>1, <2>4, <2>5
  <2> QED BY <2>1, <2>2, <2>4, <2>6, <2>7
<1>8. Cached(t)' = Cached(t) \ {b} /\ Given(t)' = {} /\ Taken(t)' = {}
      /\ Given(t) = {} /\ Taken(t) = {} /\ owns'[t] = owns[t] \cup {b}
  <2>1. \A i \in 1..(n - 1) : local_next[t][i].index # b
    <3> SUFFICES ASSUME NEW i \in 1..(n - 1), local_next[t][i].index = local_next[t][n].index
                 PROVE  FALSE
      BY <1>3
    <3>1. i = n
      BY <1>2, <1>3, <1>7 DEF PlacesOf
    <3> HIDE DEF n
    <3> QED BY <1>3, <3>1
  <2>2. Cached(t) = {local_next[t][i].index : i \in 1..(n - 1)} \cup {b}
    <3>1. \A i \in 1..n : i = n \/ i \in 1..(n - 1)
      BY <1>3
    <3> QED BY <1>3, <1>7, <3>1 DEF Cached
  <2>3. Cached(t)' = {local_next[t][i].index : i \in 1..(n - 1)}
    BY <1>7 DEF Cached
  <2>4. Cached(t)' = Cached(t) \ {b}
    <3> HIDE DEF b, n
    <3> QED BY <2>1, <2>2, <2>3
  <2>5. Given(t)' = {} /\ Taken(t)' = {} /\ Given(t) = {} /\ Taken(t) = {}
    BY <1>1 DEF Given, Taken
  <2>6. owns'[t] = owns[t] \cup {b}
    <3> HIDE DEF b
    <3> QED BY <1>1, <1>2 DEF TypeOK
  <2> QED BY <2>4, <2>5, <2>6
<1>9. Private(t)' = Private(t) /\ OnStack' = OnStack
  BY <1>1, <1>4, <1>8 DEF Private, OnStack
<1>10. \A u \in Threads \ {t} : owns'[u] = owns[u] /\ local_next'[u] = local_next[u]
  BY <1>1 DEF CacheIInv, CacheTypeOK, TypeOK
<1>11. PlacesOf(t)'
  <2>1. owns'[t] \cap Cached(t)' = {}
    BY <1>2, <1>8 DEF PlacesOf
  <2> QED BY <1>2, <1>7, <1>8, <1>9, <2>1 DEF PlacesOf
<1>12. ChainOf(t)'
  <2>1. \A i \in 1..(n - 1) : local_next[t][i].index \in Blocks \ {b}
    <3>1. \A i \in 1..(n - 1) : local_next'[t][i].index \in Cached(t)'
      BY <1>7 DEF Cached
    <3> QED BY <1>5, <1>7, <1>8, <3>1 DEF Private
  <2>2. \A i \in 1..(n - 1) : i > 1 => i - 1 \in 1..(n - 1)
    BY <1>3
  <2> HIDE DEF n, b
  <2>3. \A i \in 1..(n - 1) :
            /\ id'[local_next'[t][i].index] = local_next'[t][i]
            /\ i > 1 /\ i # LocalLow =>
                next'[local_next'[t][i].index] = local_next'[t][i - 1]
    <3> SUFFICES ASSUME NEW i \in 1..(n - 1)
                 PROVE  /\ id'[local_next'[t][i].index] = local_next'[t][i]
                        /\ i > 1 /\ i # LocalLow =>
                            next'[local_next'[t][i].index] = local_next'[t][i - 1]
      OBVIOUS
    <3>1. /\ local_next'[t][i] = local_next[t][i] /\ i \in 1..n
          /\ i > 1 => local_next'[t][i - 1] = local_next[t][i - 1]
      BY <1>7, <2>2
    <3>2. /\ id[local_next[t][i].index] = local_next[t][i]
          /\ i > 1 /\ i # LocalLow => next[local_next[t][i].index] = local_next[t][i - 1]
      BY <1>2, <3>1 DEF ChainOf, n
    <3>3. id'[local_next[t][i].index] = id[local_next[t][i].index] /\ next' = next
      BY <1>1, <1>6, <2>1
    <3> QED BY <3>1, <3>2, <3>3
  <2> QED BY <1>7, <2>3 DEF ChainOf
<1> HIDE DEF b, n, top
<1>13. \A u \in Threads \ {t} :
          /\ Private(u)' = Private(u) /\ Private(t)' \cap Private(u) = {}
          /\ PrivateIdsOf(u)' /\ PlacesOf(u)' /\ ChainOf(u)'
  <2> TAKE u \in Threads \ {t}
  <2>1. Private(t) \cap Private(u) = {} /\ Private(u) \cap OnStack = {}
    BY DEF CacheIInv, OnePlace, PlacesOf
  <2>2. \A c \in Private(u) : id'[c] = id[c] /\ next'[c] = next[c] /\ c \notin OnStack'
    BY <1>1, <1>4, <1>5, <1>6, <1>9, <2>1
  <2> QED BY <1>1, <1>5, <1>9, <1>10, <2>1, <2>2, OthersKept
<1>14. PrivateIdsOf(t)'
  <2>1. \A c \in Blocks : Stamped(c) => Stamped(c)'
    BY <1>1, <1>2, <1>5, <1>6 DEF Stamped, TypeOK
  <2>2. \A c \in owns'[t] \cup Given(t)' \cup Cached(t)' : c \in Blocks /\ Stamped(c)
    BY <1>2, <1>4, <1>5, <1>8 DEF PrivateIdsOf, Private
  <2> QED BY <1>1, <2>1, <2>2 DEF PrivateIdsOf
<1>15. CacheTypeOK'
  <2>1. owns' \in [Threads -> SUBSET Blocks]
    BY <1>1, <1>2, <1>5 DEF TypeOK
  <2>2. TypeOK'
    BY <1>1, <1>2, <1>6, <2>1 DEF TypeOK
  <2>3. local_next' \in [Threads -> Seq(Ids)]
    BY <1>1, <1>7 DEF CacheIInv, CacheTypeOK
  <2>4. \A u \in Threads : Len(local_next'[u]) <= LocalHigh
    BY SMTT(20), <1>3, <1>7, <1>10 DEF CacheIInv, CacheTypeOK
  <2> QED BY <1>1, <2>2, <2>3, <2>4 DEF CacheIInv, CacheTypeOK
<1>16. StackIds' /\ FreshIds' /\ Linked'
  <2>1. \A i \in 1..Len(stack) : stack[i].index \in OnStack
    BY DEF OnStack
  <2>2. \A i \in 1..Len(stack) : id'[stack[i].index] = id[stack[i].index]
    BY <1>4, <1>5, <1>6, <2>1
  <2>3. StackIds'
    BY <1>1, <2>2 DEF CacheIInv, StackIds, Stamped
  <2>4. FreshIds'
    BY <1>1, <1>5, <1>6 DEF CacheIInv, FreshIds
  <2> QED BY <1>1, <2>3, <2>4 DEF CacheIInv, ChainsKept, Linked, Below
<1>17. EachPlaced'
  BY <1>1, <1>9, <1>13 DEF CacheIInv, ChainsKept, EachPlaced
<1>18. Snapshots'
  <2>1. SnapshotOf(t, snap[t])'
    BY <1>1 DEF SnapshotOf
  <2> SUFFICES ASSUME NEW u \in Threads \ {t} PROVE SnapshotOf(u, snap[u])'
    BY <2>1 DEF Snapshots
  <2>2. SnapshotOf(u, snap[u]) /\ Stamping' = Stamping
    BY <1>1 DEF CacheIInv, Snapshots, Stamping
  <2>3. \A c \in OnStack' : c \in OnStack /\ id'[c] = id[c] /\ next'[c] = next[c]
    BY <1>1, <1>4, <1>5, <1>6, <1>9
  <2> QED BY <1>1, <1>2, <1>5, <1>6, <1>9, <2>2, <2>3, SnapshotKept
<1> QED BY <1>11, <1>12, <1>13, <1>14, <1>15, <1>16, <1>17, <1>18, Assemble

\* Pushing a block that belongs to no stack on a private one leaves a chain, where the
\* store of the link is of the whole identifier.
LEMMA PushesLocal ==
    ASSUME CacheIInv, WideStore, NEW t \in Threads, NEW b \in Blocks, id[b].index = b,
           NEW stk \in Seq(Ids), Len(stk) < LocalHigh,
           PushLocal(t, b, stk), id' = id, b \notin OnStack,
           \A i \in 1..Len(stk) :
               /\ stk[i].index \in Blocks /\ stk[i].index # b
               /\ id[stk[i].index] = stk[i]
               /\ (i > 1 /\ i # LocalLow => next[stk[i].index] = stk[i - 1]),
           \A i, j \in 1..Len(stk) : stk[i].index = stk[j].index => i = j
    PROVE  /\ next' \in [Blocks -> Ids] /\ local_next' \in [Threads -> Seq(Ids)]
           /\ \A c \in Blocks \ {b} : next'[c] = next[c]
           /\ \A u \in Threads \ {t} : local_next'[u] = local_next[u]
           /\ Len(local_next'[t]) = Len(stk) + 1
           /\ ChainOf(t)' /\ Cached(t)' = {stk[i].index : i \in 1..Len(stk)} \cup {b}
           /\ \A i, j \in 1..Len(local_next'[t]) :
                  local_next'[t][i].index = local_next'[t][j].index => i = j
           /\ Linked => \A i \in 1..Len(stack) : next'[stack[i].index] = next[stack[i].index]
<1> DEFINE n == Len(stk)
           top == LocalTop(stk)
<1>1. /\ next \in [Blocks -> Ids] /\ id \in [Blocks -> Ids] /\ id[b] \in Ids
      /\ local_next \in [Threads -> Seq(Ids)] /\ n \in Nat
  BY LenProperties DEF CacheIInv, CacheTypeOK, TypeOK
<1>2. top \in Ids /\ (n > 0 => top = stk[n])
  <2>1. CASE stk = <<>>
    BY <2>1, BlockCountAssumption, EmptySeq DEF LocalTop
  <2>2. CASE stk # <<>>
    <3>1. n \in 1..n
      BY <1>1, <2>2, EmptySeq
    <3> QED BY <2>2, <3>1, ElementOfSeq DEF LocalTop, Last
  <2> QED BY <2>1, <2>2
<1>3. next' = [next EXCEPT ![b] = top] /\ local_next' = [local_next EXCEPT ![t] = Append(stk, id[b])]
  BY DEF PushLocal, Stored
<1> HIDE DEF top
<1>4. /\ next' \in [Blocks -> Ids] /\ next'[b] = top
      /\ \A c \in Blocks \ {b} : next'[c] = next[c]
  BY <1>1, <1>2, <1>3
<1>5. /\ local_next'[t] = Append(stk, id[b])
      /\ Append(stk, id[b]) \in Seq(Ids) /\ Len(Append(stk, id[b])) = n + 1
      /\ \A i \in 1..n : Append(stk, id[b])[i] = stk[i]
      /\ Append(stk, id[b])[n + 1] = id[b]
  BY <1>1, <1>3, AppendProperties
<1>6. /\ local_next' \in [Threads -> Seq(Ids)]
      /\ \A u \in Threads \ {t} : local_next'[u] = local_next[u]
  BY <1>1, <1>3, <1>5
<1> DEFINE L == local_next'[t]
<1>7. L = local_next'[t] /\ Len(L) = n + 1 /\ L[n + 1] = id[b] /\ \A i \in 1..n : L[i] = stk[i]
  BY <1>5
<1>8. 1..(n + 1) = 1..n \cup {n + 1}
  BY <1>1
<1>9. ChainOf(t)'
  <2> SUFFICES ASSUME NEW i \in 1..(n + 1)
               PROVE  /\ id[L[i].index] = L[i]
                      /\ (i > 1 /\ i # LocalLow => next'[L[i].index] = L[i - 1])
    BY <1>7 DEF ChainOf
  <2>1. CASE i \in 1..n
    <3>1. i > 1 => i - 1 \in 1..n
      BY SMTT(20), <1>1, <2>1
    <3>2. L[i] = stk[i] /\ (i > 1 => L[i - 1] = stk[i - 1])
      BY <1>7, <2>1, <3>1
    <3>3. id[stk[i].index] = stk[i] /\ next'[stk[i].index] = next[stk[i].index]
      BY <1>4, <2>1
    <3>4. i > 1 /\ i # LocalLow => next[stk[i].index] = stk[i - 1]
      BY <2>1
    <3> HIDE DEF L, n
    <3> QED BY <3>2, <3>3, <3>4
  <2>2. CASE i = n + 1
    <3>1. i > 1 => n > 0 /\ n \in 1..n /\ i - 1 = n
      BY <1>1, <2>2
    <3> HIDE DEF L, n
    <3> QED BY SMTT(20), <1>2, <1>4, <1>7, <2>2, <3>1 DEF n
  <2> QED BY <1>8, <2>1, <2>2
<1>10. Cached(t)' = {stk[i].index : i \in 1..n} \cup {b}
  <2>1. Cached(t)' = {L[i].index : i \in 1..(n + 1)}
    BY <1>7 DEF Cached
  <2>2. L[n + 1].index = b /\ \A i \in 1..n : L[i].index = stk[i].index
    BY <1>7
  <2> HIDE DEF L, n
  <2>3. \A i \in 1..(n + 1) : L[i].index \in {stk[j].index : j \in 1..n} \cup {b}
    BY <1>8, <2>2
  <2>4. n + 1 \in 1..(n + 1) /\ \A i \in 1..n : i \in 1..(n + 1)
    BY <1>8
  <2>5. \A i \in 1..n : stk[i].index \in {L[j].index : j \in 1..(n + 1)}
    BY <2>2, <2>4
  <2>6. b \in {L[j].index : j \in 1..(n + 1)}
    BY <2>2, <2>4
  <2>7. ASSUME NEW x \in Cached(t)' PROVE x \in {stk[i].index : i \in 1..n} \cup {b}
    <3>1. PICK i \in 1..(n + 1) : x = L[i].index
      BY <2>1
    <3> QED BY <2>3, <3>1
  <2>8. {stk[i].index : i \in 1..n} \cup {b} \subseteq Cached(t)'
    BY <2>1, <2>5, <2>6
  <2> QED BY <2>7, <2>8
<1>11. \A i, j \in 1..(n + 1) : L[i].index = L[j].index => i = j
  <2> HIDE DEF L, n
  <2>1. \A i, j \in 1..n : L[i].index = L[j].index => i = j
    BY <1>7 DEF n
  <2>2. \A i \in 1..n : L[i].index # L[n + 1].index
    BY <1>7 DEF n
  <2> QED BY <1>8, <2>1, <2>2
<1>12. Linked => \A i \in 1..Len(stack) : next'[stack[i].index] = next[stack[i].index]
  <2>1. \A i \in 1..Len(stack) : stack[i].index \in OnStack
    BY DEF OnStack
  <2> QED BY <1>4, <2>1, PlacedBlocks
<1> QED BY <1>4, <1>5, <1>6, <1>7, <1>9, <1>10, <1>11, <1>12

LEMMA LocalFreeInv ==
    ASSUME CacheIInv, WideStore, NEW t \in Threads, NEW b \in Blocks, LocalFree(t, b)
    PROVE  CacheIInv'
<1> DEFINE stk == local_next[t]
<1>1. /\ pc[t] = "idle" /\ b \in owns[t] /\ ~Full(t)
      /\ PushLocal(t, b, stk)
      /\ owns' = [owns EXCEPT ![t] = @ \ {b}]
      /\ UNCHANGED <<a_next, id, pc, snap, new_next, blk, stack, fresh, giving>>
  BY DEF LocalFree
<1>2. TypeOK /\ PrivateIdsOf(t) /\ PlacesOf(t) /\ ChainOf(t) /\ Linked
  BY DEF CacheIInv, CacheTypeOK, OnePlace, ChainsKept
<1>3. /\ b \in Private(t) /\ b \notin OnStack /\ b \notin Cached(t) /\ Stamped(b)
      /\ id[b].index = b
  BY <1>1, <1>2 DEF Private, PlacesOf, PrivateIdsOf, Stamped
<1>4. /\ stk \in Seq(Ids) /\ LocalHigh \in Nat /\ Len(stk) \in Nat /\ Len(stk) < LocalHigh
      /\ \A i \in 1..Len(stk) : stk[i].index \in Cached(t)
      /\ Cached(t) \subseteq Private(t)
  <2>1. /\ stk \in Seq(Ids) /\ LocalHigh \in Nat /\ Len(stk) \in 0..LocalHigh
    BY LocalTyped
  <2>2. Len(stk) # LocalHigh
    BY <1>1 DEF Full
  <2>3. Cached(t) \subseteq Private(t) /\ \A i \in 1..Len(stk) : stk[i].index \in Cached(t)
    BY DEF Cached, Private
  <2> HIDE DEF stk
  <2> QED BY <2>1, <2>2, <2>3
<1>5. /\ fresh \in Nat /\ OnStack \subseteq Blocks
      /\ \A u \in Threads : Private(u) \subseteq Blocks
  BY PlacedBlocks
<1>6. /\ next' \in [Blocks -> Ids] /\ local_next' \in [Threads -> Seq(Ids)]
      /\ \A c \in Blocks \ {b} : next'[c] = next[c]
      /\ \A u \in Threads \ {t} : local_next'[u] = local_next[u]
      /\ Len(local_next'[t]) = Len(stk) + 1
      /\ ChainOf(t)' /\ Cached(t)' = Cached(t) \cup {b}
      /\ \A i, j \in 1..Len(local_next'[t]) :
             local_next'[t][i].index = local_next'[t][j].index => i = j
      /\ \A i \in 1..Len(stack) : next'[stack[i].index] = next[stack[i].index]
  <2>1. \A i \in 1..Len(stk) :
            /\ stk[i].index \in Blocks /\ stk[i].index # b
            /\ id[stk[i].index] = stk[i]
            /\ (i > 1 /\ i # LocalLow => next[stk[i].index] = stk[i - 1])
    BY <1>2, <1>3, <1>4, <1>5 DEF ChainOf
  <2>2. \A i, j \in 1..Len(stk) : stk[i].index = stk[j].index => i = j
    BY <1>2 DEF PlacesOf
  <2>3. Cached(t) = {stk[i].index : i \in 1..Len(stk)}
    BY DEF Cached
  <2> HIDE DEF stk
  <2>4. id' = id
    BY <1>1
  <2>5. stk \in Seq(Ids) /\ Len(stk) < LocalHigh /\ PushLocal(t, b, stk)
    BY <1>1, <1>4
  <2>6. /\ next' \in [Blocks -> Ids] /\ local_next' \in [Threads -> Seq(Ids)]
        /\ \A c \in Blocks \ {b} : next'[c] = next[c]
        /\ \A u \in Threads \ {t} : local_next'[u] = local_next[u]
        /\ Len(local_next'[t]) = Len(stk) + 1
        /\ ChainOf(t)' /\ Cached(t)' = {stk[i].index : i \in 1..Len(stk)} \cup {b}
        /\ \A i, j \in 1..Len(local_next'[t]) :
               local_next'[t][i].index = local_next'[t][j].index => i = j
        /\ Linked => \A i \in 1..Len(stack) : next'[stack[i].index] = next[stack[i].index]
    BY <1>3, <2>1, <2>2, <2>4, <2>5, PushesLocal
  <2> QED BY <1>2, <2>3, <2>6
<1> HIDE DEF stk
<1>7. /\ owns'[t] = owns[t] \ {b} /\ \A u \in Threads \ {t} : owns'[u] = owns[u]
      /\ Given(t)' = {} /\ Taken(t)' = {} /\ Given(t) = {} /\ Taken(t) = {}
  BY <1>1, <1>2 DEF TypeOK, Given, Taken
<1>8. Private(t)' = Private(t) /\ OnStack' = OnStack
  BY <1>1, <1>6, <1>7 DEF Private, OnStack
<1>9. \A u \in Threads \ {t} :
          /\ Private(u)' = Private(u) /\ Private(t)' \cap Private(u) = {}
          /\ PrivateIdsOf(u)' /\ PlacesOf(u)' /\ ChainOf(u)'
  <2> TAKE u \in Threads \ {t}
  <2>1. Private(t) \cap Private(u) = {} /\ Private(u) \cap OnStack = {}
    BY DEF CacheIInv, OnePlace, PlacesOf
  <2>2. \A c \in Private(u) : id'[c] = id[c] /\ next'[c] = next[c] /\ c \notin OnStack'
    BY <1>1, <1>3, <1>5, <1>6, <1>8, <2>1
  <2> QED BY <1>1, <1>5, <1>6, <1>7, <1>8, <2>1, <2>2, OthersKept
<1>10. PlacesOf(t)'
  BY <1>2, <1>6, <1>7, <1>8 DEF PlacesOf
<1>11. PrivateIdsOf(t)'
  <2>1. \A c \in owns'[t] \cup Given(t)' \cup Cached(t)' : Stamped(c)
    BY <1>2, <1>3, <1>6, <1>7 DEF PrivateIdsOf
  <2> QED BY <1>1, <2>1 DEF PrivateIdsOf, Stamped
<1>12. CacheTypeOK'
  <2>1. owns' \in [Threads -> SUBSET Blocks]
    BY <1>1, <1>2 DEF TypeOK
  <2>2. TypeOK'
    BY <1>1, <1>2, <1>6, <2>1 DEF TypeOK
  <2>3. \A u \in Threads : Len(local_next'[u]) <= LocalHigh
    <3>1. Len(local_next'[t]) <= LocalHigh
      BY <1>4, <1>6
    <3> QED BY <1>6, <3>1 DEF CacheIInv, CacheTypeOK
  <2> QED BY <1>1, <1>6, <2>2, <2>3 DEF CacheIInv, CacheTypeOK
<1>13. StackIds' /\ FreshIds' /\ Linked'
  BY <1>1, <1>2, <1>6 DEF CacheIInv, StackIds, Stamped, FreshIds, Linked, Below
<1>14. EachPlaced'
  BY <1>1, <1>8, <1>9 DEF CacheIInv, ChainsKept, EachPlaced
<1>15. Snapshots'
  <2>1. SnapshotOf(t, snap[t])'
    BY <1>1 DEF SnapshotOf
  <2> SUFFICES ASSUME NEW u \in Threads \ {t} PROVE SnapshotOf(u, snap[u])'
    BY <2>1 DEF Snapshots
  <2>2. SnapshotOf(u, snap[u]) /\ Stamping' = Stamping /\ id \in [Blocks -> Ids]
    BY <1>1, <1>2 DEF CacheIInv, Snapshots, Stamping, TypeOK
  <2>3. \A c \in OnStack' : c \in OnStack /\ id'[c] = id[c] /\ next'[c] = next[c]
    BY <1>1, <1>3, <1>5, <1>6, <1>8
  <2>4. \A c \in Blocks : id'[c].gen >= id[c].gen
    BY <1>1, <2>2
  <2> QED BY <1>1, <1>2, <1>5, <1>8, <2>2, <2>3, <2>4, SnapshotKept
<1> QED BY <1>6, <1>9, <1>10, <1>11, <1>12, <1>13, <1>14, <1>15, Assemble

LEMMA ReturnLoadInv ==
    ASSUME CacheIInv, NEW t \in Threads, NEW b \in Blocks, ReturnLoad(t, b)
    PROVE  CacheIInv'
<1> DEFINE first == local_next[t][LocalLow]
<1>1. /\ pc[t] = "idle" /\ b \in owns[t] /\ Full(t)
      /\ owns' = [owns EXCEPT ![t] = @ \ {b}]
      /\ giving' = [giving EXCEPT ![t] = b]
      /\ blk' = [blk EXCEPT ![t] = first.index]
      /\ snap' = [snap EXCEPT ![t] = a_next]
      /\ pc' = [pc EXCEPT ![t] = "link"]
      /\ UNCHANGED <<a_next, id, next, new_next, stack, fresh, local_next>>
  BY DEF ReturnLoad, sharedVars
<1>2. TypeOK /\ PrivateIdsOf(t) /\ PlacesOf(t) /\ ChainOf(t)
  BY DEF CacheIInv, CacheTypeOK, OnePlace, ChainsKept
<1>3. first.index \in Cached(t) /\ first.index \in Blocks
  <2>1. LocalLow \in 1..Len(local_next[t])
    BY <1>1, LocalTyped DEF Full
  <2> QED BY <2>1, PlacedBlocks DEF Cached, Private
<1> HIDE DEF first
<1>4. /\ pc'[t] = "link" /\ owns'[t] = owns[t] \ {b} /\ giving'[t] = b /\ blk'[t] = first.index
      /\ \A u \in Threads \ {t} : /\ pc'[u] = pc[u] /\ owns'[u] = owns[u] /\ snap'[u] = snap[u]
                                  /\ giving'[u] = giving[u] /\ blk'[u] = blk[u]
  BY <1>1 DEF CacheIInv, CacheTypeOK, TypeOK
<1>5. /\ Given(t)' = {b} /\ Given(t) = {} /\ Taken(t)' = {} /\ Taken(t) = {}
      /\ Cached(t)' = Cached(t) /\ b \notin Cached(t) /\ Stamped(b)
  BY <1>1, <1>2, <1>4 DEF Given, Taken, Cached, PlacesOf, PrivateIdsOf
<1>6. Private(t)' = Private(t) /\ OnStack' = OnStack
  BY <1>1, <1>4, <1>5 DEF Private, OnStack
<1>7. fresh \in Nat
  BY PlacedBlocks
<1>8. \A u \in Threads \ {t} :
          /\ Private(u)' = Private(u) /\ Private(t)' \cap Private(u) = {}
          /\ PrivateIdsOf(u)' /\ PlacesOf(u)' /\ ChainOf(u)'
  <2> TAKE u \in Threads \ {t}
  <2>1. Private(t) \cap Private(u) = {} /\ Private(u) \cap OnStack = {}
    BY DEF CacheIInv, OnePlace, PlacesOf
  <2>2. \A c \in Private(u) : id'[c] = id[c] /\ next'[c] = next[c] /\ c \notin OnStack'
    BY <1>1, <1>6, <2>1
  <2> QED BY <1>1, <1>4, <1>6, <1>7, <2>1, <2>2, OthersKept
<1>9. PlacesOf(t)' /\ ChainOf(t)'
  BY <1>1, <1>2, <1>4, <1>5, <1>6 DEF PlacesOf, ChainOf
<1>10. PrivateIdsOf(t)'
  <2>1. \A c \in owns'[t] \cup Given(t)' \cup Cached(t)' : Stamped(c)
    BY <1>2, <1>4, <1>5 DEF PrivateIdsOf
  <2> QED BY <1>1, <1>4, <2>1 DEF PrivateIdsOf, Stamped, Full, first
<1>11. CacheTypeOK'
  <2>1. owns' \in [Threads -> SUBSET Blocks]
    BY <1>1, <1>2 DEF TypeOK
  <2>2. TypeOK'
    BY <1>1, <1>2, <1>3, <2>1 DEF TypeOK
  <2> QED BY <1>1, <2>2 DEF CacheIInv, CacheTypeOK
<1>12. StackIds' /\ FreshIds' /\ Linked'
  BY <1>1 DEF CacheIInv, ChainsKept, StackIds, Stamped, FreshIds, Linked, Below
<1>13. EachPlaced'
  BY <1>1, <1>6, <1>8 DEF CacheIInv, ChainsKept, EachPlaced
<1>14. Snapshots'
  <2>1. SnapshotOf(t, snap[t])'
    BY <1>4 DEF SnapshotOf
  <2>2. Stamping' = Stamping
    <3>1. \A u \in Threads : pc'[u] = "stamp" <=> pc[u] = "stamp"
      BY <1>1, <1>4
    <3>2. \A u \in Threads : pc[u] = "stamp" => blk'[u] = blk[u]
      BY <1>1, <1>4
    <3> QED BY <3>1, <3>2 DEF Stamping
  <2> SUFFICES ASSUME NEW u \in Threads \ {t} PROVE SnapshotOf(u, snap[u])'
    BY <2>1 DEF Snapshots
  <2>3. SnapshotOf(u, snap[u])
    BY DEF CacheIInv, Snapshots
  <2> QED BY <1>1, <1>4, <1>6, <2>2, <2>3 DEF SnapshotOf
<1> QED BY <1>8, <1>9, <1>10, <1>11, <1>12, <1>13, <1>14, Assemble

LEMMA ReturnLinkInv ==
    ASSUME CacheIInv, NEW t \in Threads, FreeLink(t), UNCHANGED cacheVars
    PROVE  CacheIInv'
<1> DEFINE b == blk[t]
<1>1. /\ pc[t] = "link" /\ pc' = [pc EXCEPT ![t] = "publish"]
      /\ next' = [next EXCEPT ![b] = snap[t]]
      /\ UNCHANGED <<a_next, id, snap, new_next, blk, owns, stack, fresh, local_next, giving>>
  BY DEF FreeLink, cacheVars
<1>2. TypeOK /\ PrivateIdsOf(t) /\ PlacesOf(t) /\ ChainOf(t)
  BY DEF CacheIInv, CacheTypeOK, OnePlace, ChainsKept
<1>3. /\ b = local_next[t][LocalLow].index /\ LocalLow \in 1..Len(local_next[t])
      /\ b \in Private(t) /\ b \notin OnStack /\ b \in Blocks
  <2>1. Full(t) /\ b = local_next[t][LocalLow].index
    BY <1>1, <1>2 DEF PrivateIdsOf
  <2>2. LocalLow \in 1..Len(local_next[t])
    BY <2>1, LocalTyped DEF Full
  <2> QED BY <1>2, <2>1, <2>2, PlacedBlocks DEF Private, Cached, PlacesOf
<1> HIDE DEF b
<1>4. /\ pc'[t] = "publish" /\ \A u \in Threads \ {t} : pc'[u] = pc[u]
      /\ next' \in [Blocks -> Ids] /\ \A c \in Blocks \ {b} : next'[c] = next[c]
  BY <1>1, <1>2 DEF TypeOK
<1>5. /\ Given(t)' = Given(t) /\ Taken(t)' = Taken(t) /\ Cached(t)' = Cached(t)
      /\ Private(t)' = Private(t) /\ OnStack' = OnStack
  BY <1>1, <1>4 DEF Given, Taken, Cached, Private, OnStack
<1>6. /\ fresh \in Nat /\ OnStack \subseteq Blocks
      /\ \A u \in Threads : Private(u) \subseteq Blocks
  BY PlacedBlocks
<1>7. \A u \in Threads \ {t} :
          /\ Private(u)' = Private(u) /\ Private(t)' \cap Private(u) = {}
          /\ PrivateIdsOf(u)' /\ PlacesOf(u)' /\ ChainOf(u)'
  <2> TAKE u \in Threads \ {t}
  <2>1. Private(t) \cap Private(u) = {} /\ Private(u) \cap OnStack = {}
    BY DEF CacheIInv, OnePlace, PlacesOf
  <2>2. \A c \in Private(u) : id'[c] = id[c] /\ next'[c] = next[c] /\ c \notin OnStack'
    BY <1>1, <1>3, <1>4, <1>5, <1>6, <2>1
  <2> QED BY <1>1, <1>4, <1>5, <1>6, <2>1, <2>2, OthersKept
<1>8. PlacesOf(t)' /\ PrivateIdsOf(t)'
  BY <1>1, <1>2, <1>4, <1>5 DEF PlacesOf, PrivateIdsOf, Stamped, Full
<1>9. ChainOf(t)'
  <2>1. \A i \in 1..Len(local_next[t]) : i # LocalLow =>
            local_next[t][i].index \in Blocks \ {b}
    BY <1>2, <1>3, <1>6 DEF PlacesOf, Private, Cached
  <2> QED BY <1>1, <1>2, <1>4, <2>1 DEF ChainOf
<1>10. CacheTypeOK'
  BY <1>1, <1>4 DEF CacheIInv, CacheTypeOK, TypeOK
<1>11. StackIds' /\ FreshIds' /\ Linked'
  <2>1. \A i \in 1..Len(stack) : stack[i].index \in OnStack
    BY DEF OnStack
  <2>2. \A i \in 1..Len(stack) : next'[stack[i].index] = next[stack[i].index]
    BY <1>3, <1>4, <1>6, <2>1
  <2> QED BY <1>1, <2>2 DEF CacheIInv, ChainsKept, StackIds, Stamped, FreshIds, Linked, Below
<1>12. EachPlaced'
  BY <1>1, <1>5, <1>7 DEF CacheIInv, ChainsKept, EachPlaced
<1>13. Snapshots'
  <2>1. SnapshotOf(t, snap[t])'
    BY <1>4 DEF SnapshotOf
  <2>2. Stamping' = Stamping
    <3>1. \A u \in Threads : pc'[u] = "stamp" <=> pc[u] = "stamp"
      BY <1>1, <1>4
    <3> QED BY <1>1, <3>1 DEF Stamping
  <2> SUFFICES ASSUME NEW u \in Threads \ {t} PROVE SnapshotOf(u, snap[u])'
    BY <2>1 DEF Snapshots
  <2>3. SnapshotOf(u, snap[u]) /\ id \in [Blocks -> Ids]
    BY <1>2 DEF CacheIInv, Snapshots, TypeOK
  <2>4. \A c \in OnStack' : c \in OnStack /\ id'[c] = id[c] /\ next'[c] = next[c]
    BY <1>1, <1>3, <1>4, <1>5, <1>6
  <2>5. \A c \in Blocks : id'[c].gen >= id[c].gen
    BY <1>1, <2>3
  <2> QED BY <1>1, <1>2, <1>4, <1>5, <1>6, <2>2, <2>3, <2>4, <2>5, SnapshotKept
<1> QED BY <1>7, <1>8, <1>9, <1>10, <1>11, <1>12, <1>13, Assemble

\* The compare-and-swap that gives the upper part of a full private stack back, and the
\* push of the block being freed on what stays private.
LEMMA ReturnCasInv ==
    ASSUME CacheIInv, WideStore, NEW t \in Threads, ReturnCas(t)
    PROVE  CacheIInv'
<1> DEFINE ln == local_next[t]
           g == giving[t]
           C == SubSeq(ln, LocalLow, LocalHigh)
           stk == SubSeq(ln, 1, LocalLow - 1)
           n == Len(stack)
           m == LocalHigh - LocalLow + 1
           Moved == {ln[i].index : i \in LocalLow..LocalHigh}
           Kept == {ln[i].index : i \in 1..(LocalLow - 1)}
<1>1. /\ pc[t] = "publish" /\ a_next = next[blk[t]] /\ a_next' = ln[LocalHigh]
      /\ stack' = stack \o C /\ PushLocal(t, g, stk)
      /\ pc' = [pc EXCEPT ![t] = "idle"]
      /\ UNCHANGED <<id, snap, new_next, blk, owns, fresh, giving>>
  BY DEF ReturnCas
<1>2. TypeOK /\ PrivateIdsOf(t) /\ PlacesOf(t) /\ ChainOf(t) /\ Linked /\ StackIds
  BY DEF CacheIInv, CacheTypeOK, OnePlace, ChainsKept
<1> HIDE DEF C, stk, n, m, Moved, Kept
<1>3. /\ LocalHigh \in Nat /\ LocalLow \in 1..LocalHigh /\ LocalLow \in Nat
      /\ ln \in Seq(Ids) /\ Len(ln) = LocalHigh /\ blk[t] = ln[LocalLow].index
      /\ \A i \in 1..LocalHigh : ln[i] \in Ids
  <2>1. Full(t) /\ blk[t] = ln[LocalLow].index
    BY <1>1, <1>2 DEF PrivateIdsOf
  <2>2. Len(ln) = LocalHigh
    BY <2>1 DEF Full
  <2>3. LocalHigh \in Nat /\ LocalLow \in 1..LocalHigh /\ ln \in Seq(Ids)
        /\ \A i \in 1..Len(ln) : ln[i] \in Ids
    BY LocalTyped
  <2> QED BY <2>1, <2>2, <2>3
<1> HIDE DEF ln
<1>4. /\ m \in Nat \ {0} /\ C \in Seq(Ids) /\ Len(C) = m
      /\ \A i \in 1..m : C[i] = ln[LocalLow + i - 1]
      /\ stk \in Seq(Ids) /\ Len(stk) = LocalLow - 1
      /\ \A i \in 1..(LocalLow - 1) : stk[i] = ln[i]
  <2>1. \A i \in LocalLow..LocalHigh : i \in 1..LocalHigh
    BY <1>3
  <2>2. \A i \in LocalLow..LocalHigh : ln[i] \in Ids
    BY <1>3, <2>1
  <2>3. LocalLow \in Int /\ LocalHigh \in Int /\ LocalLow <= LocalHigh
    BY <1>3
  <2>4. /\ C \in Seq(Ids) /\ Len(C) = m
        /\ \A i \in 1..m : C[i] = ln[LocalLow + i - 1]
    BY <2>2, <2>3, SubSeqProperties DEF C, m
  <2>5. \A i \in 1..(LocalLow - 1) : i \in 1..LocalHigh
    BY <1>3
  <2>6. \A i \in 1..(LocalLow - 1) : ln[i] \in Ids
    BY <1>3, <2>5
  <2>7. 1 \in Int /\ LocalLow - 1 \in Int
    BY <1>3
  <2>8. /\ stk \in Seq(Ids)
        /\ Len(stk) = IF 1 <= LocalLow - 1 THEN (LocalLow - 1) - 1 + 1 ELSE 0
        /\ \A i \in 1..((LocalLow - 1) - 1 + 1) : stk[i] = ln[1 + i - 1]
    BY <2>6, <2>7, SubSeqProperties DEF stk
  <2>9. (LocalLow - 1) - 1 + 1 = LocalLow - 1 /\ \A i \in 1..(LocalLow - 1) : 1 + i - 1 = i
    BY <1>3
  <2>10. Len(stk) = LocalLow - 1
    BY <1>3, <2>8, <2>9
  <2>11. m \in Nat \ {0}
    BY <1>3 DEF m
  <2>12. \A i \in 1..(LocalLow - 1) : stk[i] = ln[i]
    BY <2>8, <2>9
  <2> QED BY <2>4, <2>8, <2>10, <2>11, <2>12
<1>5. /\ \A i \in 1..LocalHigh : i \in 1..(LocalLow - 1) \/ i \in LocalLow..LocalHigh
      /\ \A i \in 1..(LocalLow - 1) : i \in 1..LocalHigh /\ i # LocalLow
      /\ \A i \in LocalLow..LocalHigh : i \in 1..LocalHigh
      /\ \A i \in 1..m : LocalLow + i - 1 \in LocalLow..LocalHigh
      /\ \A i \in LocalLow..LocalHigh : i - LocalLow + 1 \in 1..m /\ LocalLow + (i - LocalLow + 1) - 1 = i
  BY <1>3 DEF m
<1>6. /\ \A i \in 1..LocalHigh : ln[i].index \in Cached(t) /\ Stamped(ln[i].index) /\ id[ln[i].index] = ln[i]
      /\ \A i, j \in 1..LocalHigh : ln[i].index = ln[j].index => i = j
      /\ \A i \in 1..LocalHigh : i > 1 /\ i # LocalLow => next[ln[i].index] = ln[i - 1]
      /\ Cached(t) = {ln[i].index : i \in 1..LocalHigh}
  <2>1. Cached(t) = {ln[i].index : i \in 1..LocalHigh}
    BY <1>3 DEF Cached, ln
  <2>2. \A i, j \in 1..LocalHigh : ln[i].index = ln[j].index => i = j
    BY <1>2, <1>3 DEF PlacesOf, ln
  <2>3. /\ \A i \in 1..LocalHigh : i > 1 /\ i # LocalLow => next[ln[i].index] = ln[i - 1]
        /\ \A i \in 1..LocalHigh : id[ln[i].index] = ln[i]
    BY <1>2, <1>3 DEF ChainOf, ln
  <2>4. \A i \in 1..LocalHigh : ln[i].index \in Cached(t) /\ Stamped(ln[i].index)
    BY <1>2, <2>1 DEF PrivateIdsOf
  <2> QED BY <2>1, <2>2, <2>3, <2>4
<1>7. Cached(t) = Kept \cup Moved /\ Kept \cap Moved = {}
  <2>1. \A i \in 1..(LocalLow - 1), j \in LocalLow..LocalHigh : ln[i].index # ln[j].index
    <3> SUFFICES ASSUME NEW i \in 1..(LocalLow - 1), NEW j \in LocalLow..LocalHigh,
                        ln[i].index = ln[j].index
                 PROVE  FALSE
      OBVIOUS
    <3>1. i = j
      BY <1>5, <1>6
    <3> QED BY <1>3, <3>1
  <2>2. Cached(t) \subseteq Kept \cup Moved
    BY <1>5, <1>6 DEF Kept, Moved
  <2>3. Kept \cup Moved \subseteq Cached(t)
    BY <1>5, <1>6 DEF Kept, Moved
  <2>4. Kept \cap Moved = {}
    BY <2>1 DEF Kept, Moved
  <2> QED BY <2>2, <2>3, <2>4
<1>8. /\ g \in Given(t) /\ g \in Private(t) /\ g \notin Cached(t) /\ g \notin OnStack
      /\ g \notin owns[t] /\ Stamped(g) /\ Given(t) = {g} /\ Taken(t) = {}
      /\ Cached(t) \subseteq Private(t) /\ Cached(t) \cap OnStack = {}
      /\ owns[t] \cap Cached(t) = {}
  BY <1>1, <1>2 DEF Given, Taken, Private, PlacesOf, PrivateIdsOf
<1>9. /\ fresh \in Nat /\ OnStack \subseteq Blocks /\ g \in Blocks /\ id[g].index = g
      /\ \A u \in Threads : Private(u) \subseteq Blocks
  <2>1. fresh \in Nat /\ OnStack \subseteq Blocks /\ \A u \in Threads : Private(u) \subseteq Blocks
    BY PlacedBlocks
  <2> QED BY <1>8, <2>1 DEF Stamped
<1>10. /\ next' \in [Blocks -> Ids] /\ local_next' \in [Threads -> Seq(Ids)]
       /\ \A c \in Blocks \ {g} : next'[c] = next[c]
       /\ \A u \in Threads \ {t} : local_next'[u] = local_next[u]
       /\ Len(local_next'[t]) = LocalLow
       /\ ChainOf(t)' /\ Cached(t)' = Kept \cup {g}
       /\ \A i, j \in 1..Len(local_next'[t]) :
              local_next'[t][i].index = local_next'[t][j].index => i = j
       /\ \A i \in 1..n : next'[stack[i].index] = next[stack[i].index]
  <2>1. \A i \in 1..Len(stk) :
            /\ stk[i].index \in Blocks /\ stk[i].index # g
            /\ id[stk[i].index] = stk[i]
            /\ (i > 1 /\ i # LocalLow => next[stk[i].index] = stk[i - 1])
    <3> SUFFICES ASSUME NEW i \in 1..(LocalLow - 1)
                 PROVE  /\ ln[i].index \in Blocks /\ ln[i].index # g
                        /\ id[ln[i].index] = ln[i]
                        /\ (i > 1 => next[ln[i].index] = stk[i - 1])
      BY <1>4
    <3>1. i \in 1..LocalHigh /\ i # LocalLow /\ (i > 1 => i - 1 \in 1..(LocalLow - 1))
      BY <1>3, <1>5
    <3> QED BY <1>4, <1>6, <1>8, <1>9, <3>1
  <2>2. \A i, j \in 1..Len(stk) : stk[i].index = stk[j].index => i = j
    BY <1>4, <1>5, <1>6
  <2>3. Len(stk) < LocalHigh /\ Len(stk) + 1 = LocalLow
    BY <1>3, <1>4
  <2>4. {stk[i].index : i \in 1..Len(stk)} = Kept
    BY <1>4 DEF Kept
  <2> HIDE DEF g
  <2>5. /\ next' \in [Blocks -> Ids] /\ local_next' \in [Threads -> Seq(Ids)]
        /\ \A c \in Blocks \ {g} : next'[c] = next[c]
        /\ \A u \in Threads \ {t} : local_next'[u] = local_next[u]
        /\ Len(local_next'[t]) = Len(stk) + 1
        /\ ChainOf(t)' /\ Cached(t)' = {stk[i].index : i \in 1..Len(stk)} \cup {g}
        /\ \A i, j \in 1..Len(local_next'[t]) :
               local_next'[t][i].index = local_next'[t][j].index => i = j
        /\ Linked => \A i \in 1..Len(stack) : next'[stack[i].index] = next[stack[i].index]
    <3>1. stk \in Seq(Ids) /\ PushLocal(t, g, stk) /\ id' = id
      BY <1>1, <1>4
    <3> QED BY <1>8, <1>9, <2>1, <2>2, <2>3, <3>1, PushesLocal
  <2> QED BY <1>2, <2>3, <2>4, <2>5 DEF n
<1>11. /\ n \in Nat /\ stack \in Seq(Ids) /\ stack' \in Seq(Ids) /\ Len(stack') = n + m
       /\ \A i \in 1..n : stack'[i] = stack[i]
       /\ \A i \in 1..m : stack'[n + i] = ln[LocalLow + i - 1]
  <2>1. n \in Nat /\ stack \in Seq(Ids)
    BY <1>2, StackTyped DEF TypeOK, n
  <2>2. /\ stack' \in Seq(Ids) /\ Len(stack') = n + m
        /\ \A i \in 1..(n + m) : stack'[i] = IF i <= n THEN stack[i] ELSE C[i - n]
    BY <1>1, <1>4, <2>1, ConcatProperties DEF n
  <2>3. \A i \in 1..n : i \in 1..(n + m) /\ i <= n
    BY <1>4, <2>1
  <2>4. \A i \in 1..m : n + i \in 1..(n + m) /\ ~(n + i <= n) /\ (n + i) - n = i
    BY <1>4, <2>1
  <2>5. \A i \in 1..n : stack'[i] = stack[i]
    BY <2>2, <2>3
  <2>6. \A i \in 1..m : stack'[n + i] = ln[LocalLow + i - 1]
    BY <1>4, <2>2, <2>4
  <2> QED BY <2>1, <2>2, <2>5, <2>6
<1>12. \A i \in 1..(n + m) : i \in 1..n \/ (i - n \in 1..m /\ n + (i - n) = i)
  BY <1>4, <1>11
<1>13. OnStack' = OnStack \cup Moved
  <2>1. OnStack = {stack[i].index : i \in 1..n} /\ OnStack' = {stack'[i].index : i \in 1..(n + m)}
    BY <1>11 DEF OnStack, n
  <2>2. ASSUME NEW i \in 1..(n + m) PROVE stack'[i].index \in OnStack \cup Moved
    <3>1. CASE i \in 1..n
      BY <1>11, <2>1, <3>1
    <3>2. CASE i - n \in 1..m /\ n + (i - n) = i
      <4>1. stack'[i] = ln[LocalLow + (i - n) - 1]
        BY <1>11, <3>2
      <4>2. LocalLow + (i - n) - 1 \in LocalLow..LocalHigh
        BY <1>5, <3>2
      <4> QED BY <4>1, <4>2 DEF Moved
    <3> QED BY <1>12, <3>1, <3>2
  <2>3. \A i \in 1..n : i \in 1..(n + m)
    BY <1>4, <1>11
  <2>4. \A i \in 1..m : n + i \in 1..(n + m)
    BY <1>4, <1>11
  <2>5. ASSUME NEW i \in LocalLow..LocalHigh PROVE ln[i].index \in OnStack'
    <3> DEFINE j == i - LocalLow + 1
    <3>1. j \in 1..m /\ LocalLow + j - 1 = i
      BY <1>5
    <3> HIDE DEF j
    <3> QED BY <1>11, <2>1, <2>4, <3>1
  <2>6. OnStack \subseteq OnStack'
    BY <1>11, <2>1, <2>3
  <2>7. Moved \subseteq OnStack'
    BY <2>5 DEF Moved
  <2>8. OnStack' \subseteq OnStack \cup Moved
    BY <2>1, <2>2
  <2> QED BY <2>6, <2>7, <2>8
<1>14. /\ pc'[t] = "idle" /\ \A u \in Threads \ {t} : pc'[u] = pc[u]
       /\ Given(t)' = {} /\ Taken(t)' = {}
  BY <1>1, <1>2 DEF TypeOK, Given, Taken
<1>15. Private(t) = owns[t] \cup {g} \cup Kept \cup Moved /\ Private(t)' = owns[t] \cup {g} \cup Kept
  BY <1>1, <1>7, <1>8, <1>10, <1>14 DEF Private
<1>16. \A u \in Threads \ {t} :
          /\ Private(u)' = Private(u) /\ Private(t)' \cap Private(u) = {}
          /\ PrivateIdsOf(u)' /\ PlacesOf(u)' /\ ChainOf(u)'
  <2> TAKE u \in Threads \ {t}
  <2>1. Private(t) \cap Private(u) = {} /\ Private(u) \cap OnStack = {}
    BY DEF CacheIInv, OnePlace, PlacesOf
  <2>2. \A c \in Private(u) : id'[c] = id[c] /\ next'[c] = next[c] /\ c \notin OnStack'
    BY <1>1, <1>8, <1>9, <1>10, <1>13, <1>15, <2>1
  <2> QED BY <1>1, <1>9, <1>10, <1>14, <1>15, <2>1, <2>2, OthersKept
<1>17. PlacesOf(t)'
  <2>1. Private(t)' \cap OnStack' = {}
    <3>1. Private(t) \cap OnStack = {}
      BY <1>2 DEF PlacesOf
    <3> QED BY <1>7, <1>8, <1>13, <1>15, <3>1
  <2>2. owns'[t] \cap Cached(t)' = {}
    BY <1>1, <1>7, <1>8, <1>10
  <2> QED BY <1>10, <1>14, <2>1, <2>2 DEF PlacesOf
<1>18. PrivateIdsOf(t)'
  <2>1. \A c \in owns'[t] \cup Given(t)' \cup Cached(t)' : Stamped(c)
    BY <1>1, <1>2, <1>7, <1>8, <1>10, <1>14 DEF PrivateIdsOf
  <2> QED BY <1>1, <1>14, <2>1 DEF PrivateIdsOf, Stamped
<1>19. CacheTypeOK'
  <2>1. a_next' \in Ids
    BY <1>1, <1>3
  <2>2. TypeOK'
    BY <1>1, <1>2, <1>10, <1>11, <2>1 DEF TypeOK
  <2>3. \A u \in Threads : Len(local_next'[u]) <= LocalHigh
    <3>1. Len(local_next'[t]) <= LocalHigh
      BY <1>3, <1>10
    <3> QED BY <1>10, <3>1 DEF CacheIInv, CacheTypeOK
  <2> QED BY <1>1, <1>10, <2>2, <2>3 DEF CacheIInv, CacheTypeOK
<1>20. StackIds'
  <2>1. \A i \in 1..n : /\ Stamped(stack[i].index) /\ id[stack[i].index] = stack[i]
                       /\ stack[i].index \in OnStack
    BY <1>2 DEF StackIds, OnStack, n
  <2>2. \A i, j \in 1..n : stack[i].index = stack[j].index => i = j
    BY <1>2 DEF StackIds, n
  <2>3. \A i \in 1..m : /\ Stamped(stack'[n + i].index) /\ id[stack'[n + i].index] = stack'[n + i]
                       /\ stack'[n + i].index \in Cached(t)
    <3> SUFFICES ASSUME NEW i \in 1..m
                 PROVE  /\ Stamped(stack'[n + i].index) /\ id[stack'[n + i].index] = stack'[n + i]
                        /\ stack'[n + i].index \in Cached(t)
      OBVIOUS
    <3> DEFINE k == LocalLow + i - 1
    <3>1. k \in 1..LocalHigh /\ stack'[n + i] = ln[k]
      BY <1>5, <1>11
    <3> HIDE DEF k
    <3> QED BY <1>6, <3>1
  <2>4. \A i, j \in 1..m : stack'[n + i].index = stack'[n + j].index => i = j
    <3> SUFFICES ASSUME NEW i \in 1..m, NEW j \in 1..m, stack'[n + i].index = stack'[n + j].index
                 PROVE  i = j
      OBVIOUS
    <3>1. LocalLow + i - 1 = LocalLow + j - 1
      <4> DEFINE k == LocalLow + i - 1
                 l == LocalLow + j - 1
      <4>1. k \in 1..LocalHigh /\ l \in 1..LocalHigh /\ stack'[n + i] = ln[k] /\ stack'[n + j] = ln[l]
        BY <1>5, <1>11
      <4>2. k = l
        <5> HIDE DEF k, l
        <5> QED BY <1>6, <4>1
      <4> QED BY <4>2
    <3> QED BY <1>3, <1>4, <3>1
  <2>5. \A i \in 1..(n + m) : Stamped(stack'[i].index) /\ id[stack'[i].index] = stack'[i]
    <3> SUFFICES ASSUME NEW i \in 1..(n + m)
                 PROVE  Stamped(stack'[i].index) /\ id[stack'[i].index] = stack'[i]
      OBVIOUS
    <3>1. CASE i \in 1..n
      BY <1>11, <2>1, <3>1
    <3>2. CASE i - n \in 1..m /\ n + (i - n) = i
      BY <2>3, <3>2
    <3> QED BY <1>12, <3>1, <3>2
  <2>6. ASSUME NEW i \in 1..(n + m), NEW j \in 1..(n + m), stack'[i].index = stack'[j].index
        PROVE  i = j
    <3>1. CASE i \in 1..n /\ j \in 1..n
      BY <1>11, <2>2, <2>6, <3>1
    <3>2. CASE i \in 1..n /\ j - n \in 1..m /\ n + (j - n) = j
      BY <1>8, <1>11, <2>1, <2>3, <2>6, <3>2
    <3>3. CASE j \in 1..n /\ i - n \in 1..m /\ n + (i - n) = i
      BY <1>8, <1>11, <2>1, <2>3, <2>6, <3>3
    <3>4. CASE i - n \in 1..m /\ n + (i - n) = i /\ j - n \in 1..m /\ n + (j - n) = j
      <4>1. i - n = j - n
        BY <2>4, <2>6, <3>4
      <4> QED BY <3>4, <4>1
    <3> QED BY <1>12, <3>1, <3>2, <3>3, <3>4
  <2> QED BY <1>1, <1>11, <2>5, <2>6 DEF StackIds, Stamped
<1>21. Linked'
  <2> DEFINE under(i) == IF i = 1 THEN Id(0, fresh) ELSE stack'[i - 1]
  <2>1. a_next = IF n = 0 THEN Id(0, fresh) ELSE stack[n]
    BY <1>2, <1>11 DEF Linked, Below, n
  <2>2. \A i \in 1..n : next'[stack'[i].index] = under(i)
    <3>1. \A i \in 1..n : next[stack[i].index] = IF i = 1 THEN Id(0, fresh) ELSE stack[i - 1]
      BY <1>2 DEF Linked, Below, n
    <3>2. \A i \in 1..n : i # 1 => i - 1 \in 1..n
      BY <1>11
    <3> HIDE DEF under
    <3>3. \A i \in 1..n : under(i) = IF i = 1 THEN Id(0, fresh) ELSE stack[i - 1]
      BY <1>11, <3>2 DEF under
    <3> SUFFICES ASSUME NEW i \in 1..n PROVE next'[stack'[i].index] = under(i)
      OBVIOUS
    <3>4. next[stack[i].index] = under(i)
      BY <3>1, <3>3
    <3>5. next'[stack[i].index] = next[stack[i].index]
      BY <1>10
    <3>6. stack'[i] = stack[i]
      BY <1>11
    <3> QED BY <3>4, <3>5, <3>6
  <2>3. \A i \in 1..m : next'[stack'[n + i].index] = under(n + i)
    <3> SUFFICES ASSUME NEW i \in 1..m PROVE next'[stack'[n + i].index] = under(n + i)
      OBVIOUS
    <3> DEFINE k == LocalLow + i - 1
    <3>1. /\ stack'[n + i] = ln[k] /\ k \in 1..LocalHigh
          /\ next'[ln[k].index] = next[ln[k].index]
      BY <1>5, <1>6, <1>8, <1>9, <1>10, <1>11
    <3>2. CASE i = 1
      <4>1. k = LocalLow /\ n + 1 - 1 = n
        BY <1>3, <1>11, <3>2
      <4>2. next[ln[k].index] = a_next
        BY <1>1, <1>3, <4>1
      <4>3. n = 0 <=> n + 1 = 1
        BY <1>11
      <4>4. n # 0 => n \in 1..n
        BY <1>11
      <4>5. a_next = under(n + 1)
        BY <1>11, <2>1, <4>1, <4>3, <4>4
      <4> HIDE DEF under, k
      <4> QED BY <3>1, <3>2, <4>2, <4>5
    <3>3. CASE i # 1
      <4>1. i - 1 \in 1..m /\ k > 1 /\ k # LocalLow /\ k - 1 = LocalLow + (i - 1) - 1
            /\ n + (i - 1) = (n + i) - 1 /\ n + i # 1
        BY <1>3, <1>4, <1>11, <3>3
      <4>2. next[ln[k].index] = ln[k - 1]
        BY <1>6, <3>1, <4>1
      <4>3. stack'[n + (i - 1)] = ln[LocalLow + (i - 1) - 1]
        BY <1>11, <4>1
      <4>4. under(n + i) = ln[k - 1]
        BY <4>1, <4>3
      <4> HIDE DEF under, k
      <4> QED BY <3>1, <4>2, <4>4
    <3> QED BY <3>2, <3>3
  <2>4. a_next' = stack'[n + m] /\ n + m # 0 /\ n + m + 1 # 1 /\ (n + m + 1) - 1 = n + m
    <3>1. m \in 1..m /\ LocalLow + m - 1 = LocalHigh
      BY <1>3, <1>4 DEF m
    <3>2. stack'[n + m] = ln[LocalLow + m - 1]
      <4>1. \A i \in 1..m : stack'[n + i] = ln[LocalLow + i - 1]
        BY <1>11
      <4> QED BY <3>1, <4>1
    <3>3. a_next' = ln[LocalHigh]
      BY <1>1
    <3>4. n \in Nat /\ m \in Nat /\ m # 0
      BY <1>4, <1>11, <3>1
    <3> HIDE DEF n, m
    <3>5. n + m # 0 /\ n + m + 1 # 1 /\ (n + m + 1) - 1 = n + m
      BY <3>4
    <3> QED BY <3>1, <3>2, <3>3, <3>5
  <2>5. \A i \in 1..(n + m) : next'[stack'[i].index] = under(i)
    <3> HIDE DEF under
    <3> SUFFICES ASSUME NEW i \in 1..(n + m) PROVE next'[stack'[i].index] = under(i)
      OBVIOUS
    <3>1. CASE i \in 1..n
      BY <2>2, <3>1
    <3>2. CASE i - n \in 1..m /\ n + (i - n) = i
      BY <2>3, <3>2
    <3> QED BY <1>12, <3>1, <3>2
  <2> QED BY <1>1, <1>11, <2>4, <2>5 DEF Linked, Below
<1>22. FreshIds' /\ EachPlaced'
  <2>1. FreshIds'
    BY <1>1 DEF CacheIInv, FreshIds
  <2>2. \A c \in 0..(fresh - 1) : c \in OnStack \/ \E u \in Threads : c \in Private(u)
    BY DEF CacheIInv, ChainsKept, EachPlaced
  <2>3. \A c \in 0..(fresh - 1) : c \in OnStack' \/ \E u \in Threads : c \in Private(u)'
    BY <1>13, <1>15, <1>16, <2>2
  <2> QED BY <1>1, <2>1, <2>3 DEF EachPlaced
<1>23. Snapshots'
  <2>1. SnapshotOf(t, snap[t])'
    BY <1>14 DEF SnapshotOf
  <2>2. Stamping' = Stamping
    <3>1. \A u \in Threads : pc'[u] = "stamp" <=> pc[u] = "stamp"
      BY <1>1, <1>14
    <3> QED BY <1>1, <3>1 DEF Stamping
  <2>3. Stamping \cap Private(t) = {}
    <3> SUFFICES ASSUME NEW u \in Threads, pc[u] = "stamp" PROVE blk[u] \notin Private(t)
      BY DEF Stamping
    <3>1. u # t /\ blk[u] \in Private(u)
      BY <1>1 DEF Private, Taken
    <3> QED BY <3>1 DEF CacheIInv, OnePlace
  <2> SUFFICES ASSUME NEW u \in Threads \ {t} PROVE SnapshotOf(u, snap[u])'
    BY <2>1 DEF Snapshots
  <2>4. SnapshotOf(u, snap[u]) /\ id \in [Blocks -> Ids]
    BY <1>2 DEF CacheIInv, Snapshots, TypeOK
  <2>5. \A c \in OnStack' : \/ c \in OnStack /\ id'[c] = id[c] /\ next'[c] = next[c]
                           \/ c \notin OnStack \cup Stamping
    <3>1. \A c \in OnStack : id'[c] = id[c] /\ next'[c] = next[c]
      BY <1>1, <1>8, <1>9, <1>10
    <3>2. \A c \in Moved : c \notin OnStack /\ c \notin Stamping
      BY <1>7, <1>8, <2>3
    <3> QED BY <1>13, <3>1, <3>2
  <2>6. \A c \in Blocks : id'[c].gen >= id[c].gen
    BY <1>1, <2>4
  <2> QED BY <1>1, <1>2, <1>9, <1>13, <1>14, <2>2, <2>4, <2>5, <2>6, SnapshotKept
<1> QED BY <1>10, <1>16, <1>17, <1>18, <1>19, <1>20, <1>21, <1>22, <1>23, Assemble

LEMMA CacheStutterInv ==
    ASSUME CacheIInv, UNCHANGED allVars
    PROVE  CacheIInv'
<1>1. /\ OnStack' = OnStack /\ Stamping' = Stamping
      /\ \A t \in Threads : /\ Cached(t)' = Cached(t) /\ Given(t)' = Given(t)
                           /\ Taken(t)' = Taken(t) /\ Private(t)' = Private(t)
  BY DEF allVars, vars, cacheVars, OnStack, Stamping, Private, Cached, Given, Taken
<1>2. CacheTypeOK' /\ StackIds' /\ FreshIds' /\ Linked'
  BY DEF allVars, vars, cacheVars, CacheIInv, CacheTypeOK, TypeOK, StackIds, Stamped, FreshIds,
         ChainsKept, Linked, Below
<1>3. Snapshots'
  BY <1>1 DEF allVars, vars, CacheIInv, Snapshots, SnapshotOf
<1>4. (\A t \in Threads : PrivateIdsOf(t)') /\ OnePlace'
  BY <1>1 DEF allVars, vars, cacheVars, CacheIInv, OnePlace, PlacesOf, PrivateIdsOf, Stamped, Full
<1>5. (\A t \in Threads : ChainOf(t)') /\ EachPlaced'
  BY <1>1 DEF allVars, vars, cacheVars, CacheIInv, ChainsKept, ChainOf, EachPlaced
<1> QED BY <1>2, <1>3, <1>4, <1>5 DEF CacheIInv, ChainsKept

LEMMA CacheNextInv ==
    ASSUME CacheIInv, WideStore, [CacheNext]_allVars
    PROVE  CacheIInv'
<1>1. ASSUME NEW t \in Threads, SharedAllocStep(t) PROVE CacheIInv'
  BY <1>1, SharedReadInv, SharedTakeInv, SharedFailInv, SharedStampInv DEF SharedAllocStep
<1>2. ASSUME NEW t \in Threads, ReturnStep(t) PROVE CacheIInv'
  BY <1>2, ReturnLinkInv, SharedFailInv DEF ReturnStep
<1>3. ASSUME NEW t \in Threads, LocalAlloc(t) \/ SharedAlloc(t) \/ ReturnCas(t) PROVE CacheIInv'
  BY <1>3, LocalAllocInv, SharedAllocInv, ReturnCasInv
<1>4. ASSUME NEW t \in Threads, NEW b \in Blocks, LocalFree(t, b) \/ ReturnLoad(t, b)
      PROVE  CacheIInv'
  BY <1>4, LocalFreeInv, ReturnLoadInv
<1> QED BY <1>1, <1>2, <1>3, <1>4, CacheStutterInv DEF CacheNext

\* The invariant of the private stacks in front of the shared one, where the store of a
\* link is of the whole identifier (GCC and clang).
THEOREM CacheInvariantHolds ==
    ASSUME WideStore
    PROVE  CacheSpec => []CacheIInv
<1>1. CacheIInv /\ [CacheNext]_allVars => CacheIInv'
  BY CacheNextInv
<1> QED BY <1>1, CacheInitInv, PTL DEF CacheSpec

\* No block is lost or has two owners, and no chain is cut, while whole chains move
\* between the private stacks and the shared one (thread_block_free_256B).
THEOREM BlocksKeptTheorem ==
    ASSUME WideStore
    PROVE  CacheSpec => []BlocksKept
<1>1. CacheIInv => BlocksKept
  BY DEF CacheIInv, BlocksKept
<1> QED BY <1>1, CacheInvariantHolds, PTL

\* A generation 0 in a_next means that the free list is empty (allocator.c:300), also
\* after chains were given back.
THEOREM GenZeroTheorem ==
    ASSUME WideStore
    PROVE  CacheSpec => []GenZeroMeansEmpty
<1>1. CacheIInv => GenZeroMeansEmpty
  <2> SUFFICES ASSUME CacheIInv, a_next.gen = 0 PROVE stack = <<>>
    BY DEF GenZeroMeansEmpty
  <2>1. TypeOK /\ StackIds /\ Linked
    BY DEF CacheIInv, CacheTypeOK, ChainsKept
  <2>2. Len(stack) = 0 /\ stack \in Seq(Ids)
    BY <2>1, StackTop DEF TypeOK
  <2> QED BY <2>2, EmptySeq
<1> QED BY <1>1, CacheInvariantHolds, PTL

\* Only two steps bring a thread to see that there is no block, its load and its failed
\* exchange; both leave it with the current value of a_next and with nothing in its private
\* stack or on its way.
LEMMA SeeingNone ==
    ASSUME CacheIInv, CacheNext, NEW t \in Threads, ~SeesNone(t), SeesNone(t)'
    PROVE  a_next.index = BlockCount /\ Private(t) = owns[t]
<1>1. TypeOK /\ SnapshotOf(t, snap[t]) /\ PrivateIdsOf(t)
  BY DEF CacheIInv, CacheTypeOK, Snapshots
<1>2. (AllocLoad(t) /\ local_next[t] = <<>>) \/ AllocCasFails(t)
  <2>1. PICK u \in Threads :
            \/ LocalAlloc(u) \/ SharedAlloc(u) \/ SharedAllocStep(u)
            \/ ReturnStep(u) \/ ReturnCas(u)
            \/ \E b \in Blocks : LocalFree(u, b) \/ ReturnLoad(u, b)
    BY DEF CacheNext
  <2>2. pc[t] = "read" /\ pc'[t] = "read" => snap'[t] # snap[t]
    BY DEF SeesNone
  <2>3. ASSUME ReturnStep(u) \/ ReturnCas(u) \/ LocalAlloc(u) \/ \E b \in Blocks : LocalFree(u, b) \/ ReturnLoad(u, b)
        PROVE  FALSE
    <3>1. pc'[t] = "read" /\ pc[t] # "read" => FALSE
      BY <1>1, <2>3 DEF ReturnStep, FreeLink, FreeCasFails, ReturnCas, LocalAlloc, LocalFree, ReturnLoad, TypeOK
    <3>2. pc'[t] = "read" => snap'[t] = snap[t]
      BY <1>1, <2>3 DEF ReturnStep, FreeLink, FreeCasFails, ReturnCas, LocalAlloc, LocalFree, ReturnLoad, TypeOK
    <3> QED BY <2>2, <3>1, <3>2 DEF SeesNone
  <2>4. ASSUME SharedAllocStep(u), ~AllocCasFails(u) PROVE FALSE
    <3>1. pc'[t] = "read" => pc[t] = "read" /\ snap'[t] = snap[t]
      BY <1>1, <2>4 DEF SharedAllocStep, OutOfMemory, ReadNext, AllocCas, Stamp, TypeOK
    <3> QED BY <2>2, <3>1 DEF SeesNone
  <2>5. ASSUME SharedAlloc(u) \/ AllocCasFails(u) PROVE u = t
    <3>1. u # t => pc'[t] = pc[t] /\ snap'[t] = snap[t]
      BY <1>1, <2>5 DEF SharedAlloc, AllocLoad, AllocCasFails, TypeOK
    <3> QED BY <3>1 DEF SeesNone
  <2> QED BY <2>1, <2>3, <2>4, <2>5 DEF SharedAlloc
<1>3. CASE AllocLoad(t) /\ local_next[t] = <<>>
  <2>1. pc[t] = "idle" /\ snap'[t] = a_next
    BY <1>1, <1>3 DEF AllocLoad, TypeOK
  <2> QED BY <1>3, <2>1 DEF SeesNone, Private, Taken, Given, Cached
<1>4. CASE AllocCasFails(t)
  <2>1. pc[t] = "cas" /\ local_next[t] = <<>>
    BY <1>1, <1>4 DEF AllocCasFails, PrivateIdsOf
  <2>2. snap'[t] = IF WriteBack THEN a_next ELSE snap[t]
    BY <1>1, <1>4 DEF AllocCasFails, TypeOK
  <2>3. snap[t].index # BlockCount
    BY <1>1, <2>1, BlockCountAssumption DEF SnapshotOf, Blocks
  <2> QED BY <2>1, <2>2, <2>3 DEF SeesNone, Private, Taken, Given, Cached
<1> QED BY <1>2, <1>3, <1>4

\* A thread that comes to see that there is no block, by its load or by the value a failed
\* exchange wrote back, has no free block of its own and neither has the shared stack: every
\* block is with its caller or another thread.
THEOREM OutOfMemoryTakenTheorem ==
    ASSUME WideStore
    PROVE  CacheSpec => OutOfMemoryMeansTaken
<1> DEFINE P == \A t \in Threads : ~SeesNone(t) /\ SeesNone(t)' =>
               \A b \in Blocks : b \in owns[t] \/ \E u \in Threads \ {t} : b \in Private(u)
<1>1. ASSUME CacheIInv, CacheNext PROVE P
  <2> SUFFICES ASSUME NEW t \in Threads, ~SeesNone(t), SeesNone(t)', NEW b \in Blocks
               PROVE  b \in owns[t] \/ \E u \in Threads \ {t} : b \in Private(u)
    OBVIOUS
  <2>1. TypeOK /\ StackIds /\ Linked
    BY <1>1 DEF CacheIInv, CacheTypeOK, ChainsKept
  <2>2. a_next.index = BlockCount /\ Private(t) = owns[t]
    BY <1>1, SeeingNone
  <2>3. fresh = BlockCount /\ OnStack = {}
    <3>1. fresh \in 0..BlockCount /\ a_next.gen \in Nat
      BY <2>1 DEF TypeOK
    <3>2. a_next.gen = 0
      BY <2>1, <2>2, <3>1, StackTop, BlockCountAssumption
    <3> QED BY <2>1, <2>2, <3>1, <3>2, StackTop, BlockCountAssumption DEF OnStack
  <2>4. b \in OnStack \/ \E u \in Threads : b \in Private(u)
    BY <1>1, <2>3 DEF CacheIInv, ChainsKept, EachPlaced, Blocks
  <2> QED BY <2>2, <2>3, <2>4
<1>2. ASSUME CacheIInv, [CacheNext]_allVars PROVE [P]_allVars
  BY <1>1, <1>2
<1> QED BY <1>2, CacheInvariantHolds, PTL DEF CacheSpec, OutOfMemoryMeansTaken
===============================================================================
