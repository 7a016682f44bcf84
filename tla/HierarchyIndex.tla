---------------------------- MODULE HierarchyIndex ----------------------------
(***************************************************************************)
(* The operations of containers/hierarchy_index.c on the links of a forest *)
(* of nodes, kept by index: parent, next and prev sibling, first and last  *)
(* child, number of children.  Index 0 is the null index and the stub      *)
(* above all roots, index 1 the stub that keeps orphans.                   *)
(*                                                                         *)
(* Where a node has no neighbour the code writes the next and prev of      *)
(* index 0, which nothing reads; those writes are left out.                *)
(***************************************************************************)
EXTENDS Integers, FiniteSets, SequencesExt

HI_NULL_INDEX == 0
HI_ROOT_STUB_INDEX == 0
HI_ORPHAN_STUB_INDEX == 1

\* A node without neighbours and children.
Unlinked == [parent |-> 0, next |-> 0, prev |-> 0, first |-> 0, last |-> 0, child_count |-> 0]

\* The children of n in the order of their links.  Links that go round are
\* followed once.
Children(h, n) ==
    LET longer == [s \in Seq(DOMAIN h) |->
                      LET i == IF s = <<>> THEN h[n].first ELSE h[s[Len(s)]].next
                      IN  IF i = HI_NULL_INDEX THEN s ELSE Append(s, i)]
        listed[k \in 0..Cardinality(DOMAIN h)] == IF k = 0 THEN <<>> ELSE longer[listed[k - 1]]
    IN  listed[Cardinality(DOMAIN h)]

\* The nodes below n: those a stack of first children and next siblings gives out.
Below(h, n) ==
    LET reached[k \in 0..Cardinality(DOMAIN h)] ==
            IF k = 0 THEN {h[n].first} \ {HI_NULL_INDEX}
            ELSE LET r == reached[k - 1]
                 IN  r \cup ((UNION {{h[i].first, h[i].next} : i \in r}) \ {HI_NULL_INDEX})
    IN  reached[Cardinality(DOMAIN h)]

\* None of them is given out twice: no two links lead to the same node.
FoundOnce(h, n) ==
    LET below == Below(h, n)
    IN  /\ \A i, j \in below \cup {n} : h[i].first = h[j].first => i = j \/ h[i].first = HI_NULL_INDEX
        /\ \A i, j \in below : h[i].next = h[j].next => i = j \/ h[i].next = HI_NULL_INDEX
        /\ \A i \in below \cup {n}, j \in below : h[i].first = h[j].next => h[i].first = HI_NULL_INDEX

\* Puts n, whatever its links were, behind the children of p.
AppendChild(h, n, p, node) ==
    LET l == h[p].last
    IN  [h EXCEPT ![n] = [node EXCEPT !.parent = p, !.prev = l, !.next = HI_NULL_INDEX],
                  ![p].child_count = @ + 1,
                  ![p].first = IF l = HI_NULL_INDEX THEN n ELSE @,
                  ![p].last = n,
                  ![l].next = IF l = HI_NULL_INDEX THEN @ ELSE n]

\* hierarchy_index_add, of a reserved index.
HierarchyAdd(h, n, p) == AppendChild(h, n, p, Unlinked)

\* What hierarchy_index_adopt_node does to the neighbours and the parent of a node
\* that leaves with its children.
Detach(h, n) ==
    LET node == h[n]
        o == node.parent
        only == h[o].first = h[o].last
        mended == [h EXCEPT ![o].child_count = @ - 1,
                            ![node.next].prev = IF node.next = HI_NULL_INDEX THEN @ ELSE node.prev,
                            ![node.prev].next = IF node.prev = HI_NULL_INDEX THEN @ ELSE node.next]
    IN  [mended EXCEPT ![o].first = IF only THEN HI_NULL_INDEX ELSE IF @ = n THEN node.next ELSE @,
                       ![o].last = IF only THEN HI_NULL_INDEX
                                   ELSE IF h[o].first # n /\ @ = n THEN node.prev ELSE @]

AdoptNode(h, n, p) == AppendChild(Detach(h, n), n, p, h[n])

\* The four cases in which hierarchy_index_adopt_node_exclusive leaves the
\* children of a node in its place: it was an only child, the first, the last,
\* or between two others.
LiftOnly(h, n) ==
    [h EXCEPT ![h[n].parent].first = h[n].first, ![h[n].parent].last = h[n].last]

LiftFirst(h, n) ==
    LET node == h[n]
        mended == [h EXCEPT ![node.next].prev = node.last]
    IN  IF node.first # HI_NULL_INDEX
        THEN [mended EXCEPT ![node.parent].first = node.first, ![node.last].next = node.next]
        ELSE [mended EXCEPT ![node.parent].first = node.next]

LiftLast(h, n) ==
    LET node == h[n]
        mended == [h EXCEPT ![node.prev].next = node.first]
    IN  IF node.last # HI_NULL_INDEX
        THEN [mended EXCEPT ![node.parent].last = node.last, ![node.first].prev = node.prev]
        ELSE [mended EXCEPT ![node.parent].last = node.prev]

LiftMiddle(h, n) ==
    LET node == h[n]
    IN  IF node.first # HI_NULL_INDEX
        THEN [h EXCEPT ![node.prev].next = node.first, ![node.next].prev = node.last,
                       ![node.first].prev = node.prev, ![node.last].next = node.next]
        ELSE [h EXCEPT ![node.next].prev = node.prev, ![node.prev].next = node.next]

Lift(h, n) ==
    LET o == h[n].parent
    IN  IF h[o].first = h[o].last THEN LiftOnly(h, n)
        ELSE IF h[o].first = n THEN LiftFirst(h, n)
        ELSE IF h[o].last = n THEN LiftLast(h, n)
        ELSE LiftMiddle(h, n)

\* hierarchy_index_adopt_node_exclusive.  Its walk over the children goes on
\* through the siblings behind them, which have that parent already.
AdoptNodeExclusive(h, n, p) ==
    LET o == h[n].parent
        lifted == [Lift(h, n) EXCEPT ![o].child_count = @ + h[n].child_count - 1]
        moved == [i \in DOMAIN h |-> IF h[i].parent = n THEN [lifted[i] EXCEPT !.parent = o]
                                     ELSE lifted[i]]
    IN  AppendChild(moved, n, p, Unlinked)

\* hierarchy_index_apply_custom_free_and_remove of each child of n: what is
\* below n is freed, and n is left without children.
RemoveBelow(h, n) ==
    LET below == Below(h, n)
    IN  [i \in DOMAIN h |->
            IF i \in below THEN Unlinked
            ELSE IF i = n
            THEN [h[n] EXCEPT !.first = HI_NULL_INDEX, !.last = HI_NULL_INDEX,
                              !.child_count = @ - Cardinality({j \in below : h[j].parent = n})]
            ELSE h[i]]

-------------------------------------------------------------------------------
(* What the operations keep, for the proofs.                               *)

LinksIn(D) == [parent : D, next : D, prev : D, first : D, last : D, child_count : Int]

\* The links of the nodes in S, which hang from the stub r, agree with each other.
WellLinked(h, S, r) ==
    /\ \A i \in S :
          /\ h[i].parent \in S \cup {r}
          /\ h[i].next \in S \cup {HI_NULL_INDEX}
          /\ h[i].prev \in S \cup {HI_NULL_INDEX}
          /\ IF h[i].next = HI_NULL_INDEX THEN h[h[i].parent].last = i
             ELSE h[h[i].next].prev = i /\ h[h[i].next].parent = h[i].parent
          /\ IF h[i].prev = HI_NULL_INDEX THEN h[h[i].parent].first = i
             ELSE h[h[i].prev].next = i
    /\ \A p \in S \cup {r} :
          /\ h[p].first \in S \cup {HI_NULL_INDEX}
          /\ h[p].last \in S \cup {HI_NULL_INDEX}
          /\ h[p].first = HI_NULL_INDEX <=> h[p].last = HI_NULL_INDEX
          /\ h[p].first # HI_NULL_INDEX =>
                h[h[p].first].parent = p /\ h[h[p].first].prev = HI_NULL_INDEX
          /\ h[p].last # HI_NULL_INDEX =>
                h[h[p].last].parent = p /\ h[h[p].last].next = HI_NULL_INDEX

\* The node whose first or next leads to i.
Ref(h, i) == IF h[i].prev = HI_NULL_INDEX THEN h[i].parent ELSE h[i].prev

\* Going back over the links leads out of every set of nodes: to the stub.
Rooted(h, S) == \A T \in SUBSET S : T # {} => \E i \in T : Ref(h, i) \notin T

\* The nodes in S are a forest below the stub r.
Forest(h, S, r) == WellLinked(h, S, r) /\ Rooted(h, S)

\* s lists the children of p in the order of their links.
Listed(h, p, s) ==
    /\ \A k \in DOMAIN s : s[k] \in DOMAIN h \ {HI_NULL_INDEX}
    /\ \A j, k \in DOMAIN s : s[j] = s[k] => j = k
    /\ h[p].first = IF s = <<>> THEN HI_NULL_INDEX ELSE s[1]
    /\ \A k \in DOMAIN s : h[s[k]].next = IF k = Len(s) THEN HI_NULL_INDEX ELSE s[k + 1]
===============================================================================
