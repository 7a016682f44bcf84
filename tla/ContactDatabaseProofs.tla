------------------------ MODULE ContactDatabaseProofs -------------------------
(* Proofs about ContactDatabase, for any bodies, pairs and pool.           *)
EXTENDS ContactDatabase, FiniteSetTheorems, WellFoundedInduction, TLAPS

(***************************************************************************)
(* One doubly linked list: what putting a node before the head and taking  *)
(* a node out do to it.                                                    *)
(***************************************************************************)

\* The head is a node, if there are any.
LEMMA HeadIsNode ==
    ASSUME NEW nodes, NEW head, NEW next, NEW prev, DoublyLinked(nodes, head, next, prev)
    PROVE  head \in nodes \cup {NLL_NULL}
  <1> SUFFICES ASSUME nodes # {}, head \notin nodes PROVE FALSE
    BY DEF DoublyLinked
  <1>1. nodes \in SUBSET nodes
    OBVIOUS
  <1> QED
    BY <1>1 DEF DoublyLinked

\* Every other node has the one before it, which leads to it.
LEMMA PreviousIsNode ==
    ASSUME NEW nodes, NEW head, NEW next, NEW prev, DoublyLinked(nodes, head, next, prev),
           NLL_NULL \notin nodes, NEW i \in nodes, i # head
    PROVE  prev[i] \in nodes \ {i} /\ next[prev[i]] = i
  <1>1. {i} \in SUBSET nodes /\ {i} # {} /\ head \notin {i}
    OBVIOUS
  <1>2. PICK j \in nodes \ {i} : next[j] \in {i}
    BY <1>1 DEF DoublyLinked
  <1> QED
    BY <1>2 DEF DoublyLinked

\* A node put before the head is the head of a list of one node more.
LEMMA Prepend ==
    ASSUME NEW nodes, NEW head, NEW next, NEW prev, DoublyLinked(nodes, head, next, prev),
           NLL_NULL \notin nodes, NEW i, i \notin nodes, i # NLL_NULL
    PROVE  DoublyLinked(nodes \cup {i}, i,
               [j \in nodes \cup {i} |-> IF j = i THEN head ELSE next[j]],
               [j \in nodes \cup {i} |-> IF j = i THEN NLL_NULL ELSE IF j = head THEN i ELSE prev[j]])
  <1> DEFINE all == nodes \cup {i}
             nx == [j \in all |-> IF j = i THEN head ELSE next[j]]
             pv == [j \in all |-> IF j = i THEN NLL_NULL ELSE IF j = head THEN i ELSE prev[j]]
  <1>h. head \in nodes \cup {NLL_NULL}
    BY HeadIsNode
  <1>1. ASSUME NEW j \in all
        PROVE  /\ j = i <=> pv[j] = NLL_NULL
               /\ nx[j] \in all \cup {NLL_NULL}
               /\ nx[j] # NLL_NULL => pv[nx[j]] = j
    <2>1. CASE j = i
      BY <1>h, <2>1
    <2>2. CASE j # i
      <3>1. j \in nodes /\ (j = head <=> prev[j] = NLL_NULL) /\ next[j] \in nodes \cup {NLL_NULL}
        BY <2>2 DEF DoublyLinked
      <3>2. next[j] # NLL_NULL => prev[next[j]] = j /\ next[j] # head
        BY <3>1, <2>2 DEF DoublyLinked
      <3> QED
        BY <3>1, <3>2, <2>2
    <2> QED
      BY <2>1, <2>2
  <1>2. ASSUME NEW part \in SUBSET all, part # {}, i \notin part
        PROVE  \E j \in all \ part : nx[j] \in part
    <2>1. CASE head \in part
      BY <2>1, <1>2
    <2>2. CASE head \notin part
      <3>1. part \in SUBSET nodes
        BY <1>2
      <3>2. PICK j \in nodes \ part : next[j] \in part
        BY <3>1, <2>2, <1>2 DEF DoublyLinked
      <3> QED
        BY <3>2
    <2> QED
      BY <2>1, <2>2
  <1>3. i = NLL_NULL <=> all = {}
    OBVIOUS
  <1> HIDE DEF all, nx, pv
  <1>4. DoublyLinked(all, i, nx, pv)
    BY <1>1, <1>2, <1>3 DEF DoublyLinked
  <1> QED
    BY <1>4 DEF all, nx, pv

\* A list stays one when a node is taken out and its neighbours are linked.
LEMMA Cut ==
    ASSUME NEW nodes, NEW head, NEW next, NEW prev, DoublyLinked(nodes, head, next, prev),
           NLL_NULL \notin nodes, NEW i \in nodes
    PROVE  DoublyLinked(nodes \ {i}, IF head = i THEN next[i] ELSE head,
               [j \in nodes \ {i} |-> IF prev[i] = j THEN next[i] ELSE next[j]],
               [j \in nodes \ {i} |-> IF next[i] = j THEN prev[i] ELSE prev[j]])
  <1> DEFINE rest == nodes \ {i}
             hd == IF head = i THEN next[i] ELSE head
             nx == [j \in rest |-> IF prev[i] = j THEN next[i] ELSE next[j]]
             pv == [j \in rest |-> IF next[i] = j THEN prev[i] ELSE prev[j]]
  <1>h. head \in nodes
    BY HeadIsNode DEF DoublyLinked
  <1>p. i # head => prev[i] \in rest /\ next[prev[i]] = i
    BY PreviousIsNode
  <1>q. \A j \in nodes : /\ j = head <=> prev[j] = NLL_NULL
                         /\ next[j] \in nodes \cup {NLL_NULL}
                         /\ next[j] # NLL_NULL => prev[next[j]] = j
    BY DEF DoublyLinked
  <1>s. next[i] # i
    BY <1>p, <1>q
  <1>1. hd = NLL_NULL <=> rest = {}
    <2>1. CASE head # i
      BY <2>1, <1>h
    <2>2. CASE head = i /\ next[i] # NLL_NULL
      BY <2>2, <1>q, <1>s
    <2>3. CASE head = i /\ next[i] = NLL_NULL
      <3> SUFFICES ASSUME rest # {} PROVE FALSE
        BY <2>3
      <3>1. rest \in SUBSET nodes /\ head \notin rest
        BY <2>3
      <3>2. PICK j \in nodes \ rest : next[j] \in rest
        BY <3>1 DEF DoublyLinked
      <3> QED
        BY <3>2, <2>3
    <2> QED
      BY <2>1, <2>2, <2>3
  <1>2. ASSUME NEW j \in rest
        PROVE  /\ j = hd <=> pv[j] = NLL_NULL
               /\ nx[j] \in rest \cup {NLL_NULL}
               /\ nx[j] # NLL_NULL => pv[nx[j]] = j
    <2>1. j = hd <=> pv[j] = NLL_NULL
      <3>1. CASE next[i] = j
        BY <3>1, <1>q
      <3>2. CASE next[i] # j
        BY <3>2, <1>q
      <3> QED
        BY <3>1, <3>2
    <2>2. CASE prev[i] = j
      <3>1. i # head
        BY <2>2, <1>q
      <3>2. nx[j] = next[i]
        BY <2>2
      <3> QED
        BY <2>1, <3>1, <3>2, <2>2, <1>q, <1>s
    <2>3. CASE prev[i] # j
      <3>1. nx[j] = next[j] /\ next[j] # i
        BY <2>3, <1>q
      <3>2. next[j] # NLL_NULL => next[j] # next[i] /\ pv[next[j]] = prev[next[j]]
        BY <3>1, <1>q
      <3> QED
        BY <2>1, <3>1, <3>2, <1>q
    <2> QED
      BY <2>2, <2>3
  <1>3. ASSUME NEW part \in SUBSET rest, part # {}, hd \notin part
        PROVE  \E j \in rest \ part : nx[j] \in part
    <2>1. part \in SUBSET nodes /\ head \notin part
      BY <1>3
    <2>2. PICK j \in nodes \ part : next[j] \in part
      BY <2>1, <1>3 DEF DoublyLinked
    <2>3. CASE j # i
      <3>1. prev[i] # j
        BY <2>3, <2>2, <1>p, <1>q
      <3> QED
        BY <2>2, <2>3, <3>1
    <2>4. CASE j = i
      <3>1. head # i
        BY <2>2, <2>4, <1>3
      <3>2. part \cup {i} \in SUBSET nodes /\ head \notin part \cup {i} /\ part \cup {i} # {}
        BY <2>1, <3>1
      <3>3. PICK l \in nodes \ (part \cup {i}) : next[l] \in part \cup {i}
        BY ONLY <3>2, DoublyLinked(nodes, head, next, prev) DEF DoublyLinked
      <3>4. l \in rest \ part
        BY <3>3
      <3>5. CASE next[l] = i
        <4>1. prev[i] = l
          BY <3>5, <3>4, <1>q
        <4> QED
          BY <4>1, <3>4, <2>2, <2>4
      <3>6. CASE next[l] # i
        <4>1. prev[i] # l
          BY <3>6, <1>p, <3>1
        <4> QED
          BY <4>1, <3>4, <3>3, <3>6
      <3> QED
        BY <3>5, <3>6
    <2> QED
      BY <2>3, <2>4
  <1> HIDE DEF rest, hd, nx, pv
  <1>4. DoublyLinked(rest, hd, nx, pv)
    BY <1>1, <1>2, <1>3 DEF DoublyLinked
  <1> QED
    BY <1>4 DEF rest, hd, nx, pv

(***************************************************************************)
(* The sides of a contact.                                                 *)
(***************************************************************************)

\* A key names two bodies, one on each side.
LEMMA KeyBodies ==
    ASSUME NEW k \in Keys
    PROVE  /\ Body(k, 0) \in Bodies /\ Body(k, 1) \in Bodies /\ Body(k, 0) # Body(k, 1)
           /\ k # NoKey
  <1>1. k \in Bodies \X Bodies /\ k[1] < k[2]
    BY KeysAssumption
  <1>2. k[1] \in Nat /\ k[2] \in Nat
    BY <1>1, BodiesAssumption
  <1>3. k # NoKey
    BY <1>1 DEF NoKey
  <1> QED
    BY <1>1, <1>2, <1>3 DEF Body

LEMMA IndexCount == Cardinality(Keys) \in Nat
  BY KeysAssumption, FS_CardinalityType

\* Contacts have an index other than the stub's, and a key.
LEMMA LiveIndices ==
    ASSUME TypeOK, Pool
    PROVE  /\ Live \subseteq Indices \ {NLL_NULL}
           /\ \A i \in Live : key[i] \in Keys
  <1>1. count_max \in Nat /\ count_max - 1 <= Cardinality(Keys)
    BY IndexCount DEF TypeOK
  <1>2. Live \subseteq Indices \ {NLL_NULL}
    BY <1>1, IndexCount DEF Live, Indices, NLL_NULL
  <1> QED
    BY <1>2 DEF TypeOK, Pool

\* Of a contact on the list of b, exactly the side SideOf(i, b) belongs to it.
LEMMA SideOfBody ==
    ASSUME TypeOK, Pool, NEW b, NEW i \in On(b)
    PROVE  /\ i \in Live /\ SideOf(i, b) \in Sides /\ Body(key[i], SideOf(i, b)) = b
           /\ \A s \in Sides : Body(key[i], s) = b => s = SideOf(i, b)
           /\ \A c : i \in On(c) /\ SideOf(i, c) = SideOf(i, b) => c = b
  <1>1. i \in Live /\ key[i] \in Keys
    BY LiveIndices DEF On
  <1>2. Body(key[i], 0) # Body(key[i], 1)
    BY <1>1, KeyBodies
  <1>3. \A c : i \in On(c) => /\ SideOf(i, c) \in Sides /\ Body(key[i], SideOf(i, c)) = c
                              /\ \A s \in Sides : Body(key[i], s) = c => s = SideOf(i, c)
    BY <1>2 DEF SideOf, On, Sides
  <1> QED
    BY <1>1, <1>3

\* A contact is on the list of its body on either side.
LEMMA OnBothLists ==
    ASSUME TypeOK, Pool, NEW i \in Live, NEW s \in Sides
    PROVE  /\ Body(key[i], s) \in Bodies /\ i \in On(Body(key[i], s))
           /\ SideOf(i, Body(key[i], s)) = s
  <1>1. key[i] \in Keys
    BY LiveIndices
  <1>2. Body(key[i], s) \in Bodies
    BY <1>1, KeyBodies DEF Sides
  <1>3. i \in On(Body(key[i], s))
    BY DEF On
  <1> QED
    BY <1>2, <1>3, SideOfBody

\* What the lists say of a contact on the list of b.
LEMMA ListFacts ==
    ASSUME TypeOK, Pool, Lists, NEW b \in Bodies
    PROVE  /\ ListHead(b) \in On(b) \cup {NLL_NULL} /\ NLL_NULL \notin On(b)
           /\ \A i \in On(b) : /\ i = ListHead(b) <=> Previous(i, b) = NLL_NULL
                               /\ After(i, b) \in On(b) \cup {NLL_NULL}
                               /\ After(i, b) # NLL_NULL => Previous(After(i, b), b) = i
                               /\ Previous(i, b) \in On(b) \cup {NLL_NULL}
  <1> DEFINE nx == [i \in On(b) |-> After(i, b)]
             pv == [i \in On(b) |-> Previous(i, b)]
  <1>1. DoublyLinked(On(b), ListHead(b), nx, pv)
    BY DEF Lists
  <1>2. NLL_NULL \notin On(b)
    BY LiveIndices DEF On
  <1>3. ListHead(b) \in On(b) \cup {NLL_NULL}
    <2> HIDE DEF nx, pv
    <2> QED
      BY <1>1, HeadIsNode
  <1>4. ASSUME NEW i \in On(b)
        PROVE  /\ i = ListHead(b) <=> pv[i] = NLL_NULL
               /\ nx[i] \in On(b) \cup {NLL_NULL}
               /\ nx[i] # NLL_NULL => pv[nx[i]] = i
               /\ pv[i] \in On(b) \cup {NLL_NULL}
    <2> HIDE DEF nx, pv
    <2>1. /\ i = ListHead(b) <=> pv[i] = NLL_NULL
          /\ nx[i] \in On(b) \cup {NLL_NULL}
          /\ nx[i] # NLL_NULL => pv[nx[i]] = i
      BY <1>1 DEF DoublyLinked
    <2>2. i # ListHead(b) => pv[i] \in On(b)
      BY <1>1, <1>2, PreviousIsNode
    <2> QED
      BY <2>1, <2>2
  <1> QED
    BY <1>2, <1>3, <1>4

(***************************************************************************)
(* Unlinking a contact.                                                    *)
(***************************************************************************)

\* The side of j that has i as neighbour on the list of b is found, and no other.
LEMMA Beside ==
    ASSUME TypeOK, Pool, Lists, NEW i \in Live, NEW b \in Bodies, NEW j \in On(b),
           NEW link \in {nll_next, nll_prev}
    PROVE  {t \in Sides : link[i][t] = j /\ SideOf(j, b) = SideOf(j, Body(key[i], t))}
               = IF i \in On(b) /\ link[i][SideOf(i, b)] = j THEN {SideOf(i, b)} ELSE {}
  <1>1. ASSUME NEW t \in Sides, link[i][t] = j, SideOf(j, b) = SideOf(j, Body(key[i], t))
        PROVE  i \in On(b) /\ t = SideOf(i, b)
    <2> DEFINE c == Body(key[i], t)
    <2>1. c \in Bodies /\ i \in On(c) /\ SideOf(i, c) = t
      BY OnBothLists
    <2>2. j # NLL_NULL
      BY ListFacts
    <2>3. j \in On(c)
      <3> HIDE DEF c
      <3>1. link[i][SideOf(i, c)] \in On(c) \cup {NLL_NULL}
        BY <2>1, ListFacts DEF After, Previous
      <3> QED
        BY <3>1, <2>1, <2>2, <1>1
    <2>4. c = b
      <3> HIDE DEF c
      <3>1. SideOf(j, b) = SideOf(j, c)
        BY <1>1 DEF c
      <3> QED
        BY <3>1, <2>3, SideOfBody
    <2> QED
      BY <2>1, <2>4
  <1>2. ASSUME i \in On(b), link[i][SideOf(i, b)] = j
        PROVE  SideOf(i, b) \in Sides /\ Body(key[i], SideOf(i, b)) = b
    BY <1>2, SideOfBody
  <1> QED
    BY <1>1, <1>2

\* What Unlink(i) does to the links of the other contacts, list by list.
LEMMA UnlinkLinks ==
    ASSUME TypeOK, Pool, Lists, NEW i \in Live, Unlink(i), NEW b \in Bodies, NEW j \in On(b), j # i
    PROVE  /\ key'[j] = key[j]
           /\ After(j, b)' = IF i \in On(b) /\ Previous(i, b) = j THEN After(i, b) ELSE After(j, b)
           /\ Previous(j, b)' = IF i \in On(b) /\ After(i, b) = j THEN Previous(i, b) ELSE Previous(j, b)
  <1> DEFINE s == SideOf(j, b)
             beside(link) == {t \in Sides : link[i][t] = j /\ s = SideOf(j, Body(key[i], t))}
  <1>1. i \in Indices /\ j \in Indices \ {NLL_NULL} /\ s \in Sides
    BY LiveIndices, SideOfBody DEF On
  <1>2. key'[j] = key[j]
    BY <1>1 DEF Unlink, TypeOK
  <1>3. SideOf(j, b)' = s
    BY <1>2 DEF SideOf
  <1>4. /\ nll_next'[j][s] = IF beside(nll_prev) # {} THEN nll_next[i][CHOOSE t \in beside(nll_prev) : TRUE]
                             ELSE nll_next[j][s]
        /\ nll_prev'[j][s] = IF beside(nll_next) # {} THEN nll_prev[i][CHOOSE t \in beside(nll_next) : TRUE]
                             ELSE nll_prev[j][s]
    BY <1>1 DEF Unlink
  <1>5. /\ beside(nll_next) = IF i \in On(b) /\ After(i, b) = j THEN {SideOf(i, b)} ELSE {}
        /\ beside(nll_prev) = IF i \in On(b) /\ Previous(i, b) = j THEN {SideOf(i, b)} ELSE {}
    BY Beside DEF After, Previous
  <1>6. \A x : (CHOOSE t \in {x} : TRUE) = x
    OBVIOUS
  <1> HIDE DEF s, beside
  <1>7. nll_next'[j][s] = IF i \in On(b) /\ Previous(i, b) = j THEN After(i, b) ELSE After(j, b)
    BY <1>4, <1>5, <1>6 DEF After, s
  <1>8. nll_prev'[j][s] = IF i \in On(b) /\ After(i, b) = j THEN Previous(i, b) ELSE Previous(j, b)
    BY <1>4, <1>5, <1>6 DEF Previous, s
  <1> QED
    BY <1>2, <1>3, <1>7, <1>8 DEF After, Previous

\* The list of a body is one after the contact is unlinked, if its head is moved on.
LEMMA UnlinkList ==
    ASSUME TypeOK, Pool, Lists, NEW i \in Live, Unlink(i), Live' = Live \ {i}, NEW b \in Bodies,
           ListHead(b)' = IF ListHead(b) = i THEN After(i, b) ELSE ListHead(b)
    PROVE  DoublyLinked(On(b)', ListHead(b)', [j \in On(b)' |-> After(j, b)'], [j \in On(b)' |-> Previous(j, b)'])
  <1> DEFINE next == [j \in On(b) |-> After(j, b)]
             prev == [j \in On(b) |-> Previous(j, b)]
  <1>1. DoublyLinked(On(b), ListHead(b), next, prev) /\ NLL_NULL \notin On(b)
    BY ListFacts DEF Lists
  <1>2. \A j \in Live \ {i} : key'[j] = key[j]
    BY LiveIndices DEF Unlink, TypeOK
  <1>3. On(b)' = On(b) \ {i}
    BY <1>2 DEF On
  <1>4. ListHead(b) \in On(b) \cup {NLL_NULL} /\ i # NLL_NULL
    BY ListFacts, LiveIndices
  <1>5. CASE i \in On(b)
    <2>1. DoublyLinked(On(b) \ {i}, IF ListHead(b) = i THEN next[i] ELSE ListHead(b),
               [j \in On(b) \ {i} |-> IF prev[i] = j THEN next[i] ELSE next[j]],
               [j \in On(b) \ {i} |-> IF next[i] = j THEN prev[i] ELSE prev[j]])
      <3> HIDE DEF next, prev
      <3> QED
        BY <1>1, <1>5, Cut
    <2>2. next[i] = After(i, b) /\ prev[i] = Previous(i, b)
      BY <1>5
    <2>3. ASSUME NEW j \in On(b) \ {i}
          PROVE  /\ After(j, b)' = IF prev[i] = j THEN next[i] ELSE next[j]
                 /\ Previous(j, b)' = IF next[i] = j THEN prev[i] ELSE prev[j]
      BY <2>2, <1>5, UnlinkLinks
    <2> HIDE DEF next, prev
    <2>4. /\ [j \in On(b)' |-> After(j, b)'] = [j \in On(b) \ {i} |-> IF prev[i] = j THEN next[i] ELSE next[j]]
          /\ [j \in On(b)' |-> Previous(j, b)'] = [j \in On(b) \ {i} |-> IF next[i] = j THEN prev[i] ELSE prev[j]]
      BY <2>3, <1>3
    <2> QED
      BY <2>1, <2>2, <2>4, <1>3
  <1>6. CASE i \notin On(b)
    <2>1. On(b)' = On(b) /\ ListHead(b)' = ListHead(b)
      BY <1>3, <1>4, <1>6
    <2>2. ASSUME NEW j \in On(b)
          PROVE  After(j, b)' = After(j, b) /\ Previous(j, b)' = Previous(j, b)
      BY <1>6, UnlinkLinks
    <2>3. [j \in On(b)' |-> After(j, b)'] = next /\ [j \in On(b)' |-> Previous(j, b)'] = prev
      BY <2>1, <2>2
    <2> QED
      BY <2>1, <2>3, <1>1
  <1> QED
    BY <1>5, <1>6

(***************************************************************************)
(* Linking a contact.                                                      *)
(***************************************************************************)

\* What LinkFirst(i, k) does to the links of the other contacts, list by list.
LEMMA LinkLinks ==
    ASSUME TypeOK, Pool, Lists, pc # "walk", NEW i \in Indices \ Live, NEW k \in Keys, LinkFirst(i, k),
           NEW b \in Bodies, NEW j \in On(b)
    PROVE  /\ key'[j] = key[j]
           /\ After(j, b)' = After(j, b)
           /\ Previous(j, b)' = IF (\E s \in Sides : Body(k, s) = b) /\ j = first[b] THEN i ELSE Previous(j, b)
  <1> DEFINE s == SideOf(j, b)
             heads == {t \in Sides : j = first[Body(k, t)] /\ s = SideOf(j, Body(k, t))}
  <1>1. j \in Live /\ j \in Indices \ {NLL_NULL} /\ j # i /\ s \in Sides
    BY LiveIndices, SideOfBody DEF On
  <1>2. key'[j] = key[j]
    BY <1>1 DEF LinkFirst, TypeOK
  <1>3. SideOf(j, b)' = s
    BY <1>2 DEF SideOf
  <1>4. nll_next'[j] = nll_next[j]
    BY <1>1 DEF LinkFirst, TypeOK
  <1>5. nll_prev'[j][s] = IF heads # {} THEN i ELSE nll_prev[j][s]
    BY <1>1 DEF LinkFirst
  <1>6. ASSUME NEW t \in Sides, j = first[Body(k, t)], s = SideOf(j, Body(k, t))
        PROVE  Body(k, t) = b
    <2> DEFINE c == Body(k, t)
    <2>1. c \in Bodies
      BY KeyBodies DEF Sides
    <2>2. ListHead(c) = first[c]
      BY DEF ListHead
    <2> HIDE DEF c
    <2>3. j \in On(c)
      BY <2>1, <2>2, <1>1, <1>6, ListFacts DEF c
    <2> QED
      BY <2>3, <1>6, SideOfBody DEF c
  <1>7. heads # {} <=> (\E t \in Sides : Body(k, t) = b) /\ j = first[b]
    BY <1>6
  <1> HIDE DEF heads, s
  <1>8. nll_prev'[j][s] = IF (\E t \in Sides : Body(k, t) = b) /\ j = first[b] THEN i ELSE nll_prev[j][s]
    BY <1>5, <1>7
  <1> QED
    BY <1>2, <1>3, <1>4, <1>8 DEF After, Previous, s

\* The list of a body is one after a contact is linked, whether it is of the body or not.
LEMMA LinkList ==
    ASSUME TypeOK, Pool, Lists, pc # "walk", UNCHANGED <<pc, walk>>,
           NEW i \in Indices \ Live, i # NLL_NULL, NEW k \in Keys, LinkFirst(i, k),
           Live' = Live \cup {i}, NEW b \in Bodies
    PROVE  DoublyLinked(On(b)', ListHead(b)', [j \in On(b)' |-> After(j, b)'], [j \in On(b)' |-> Previous(j, b)'])
  <1> DEFINE next == [j \in On(b) |-> After(j, b)]
             prev == [j \in On(b) |-> Previous(j, b)]
  <1>1. DoublyLinked(On(b), first[b], next, prev) /\ NLL_NULL \notin On(b)
    BY ListFacts DEF Lists, ListHead
  <1>2. \A j \in Live : key'[j] = key[j]
    BY LiveIndices DEF LinkFirst, TypeOK
  <1>3. key'[i] = k
    BY DEF LinkFirst, TypeOK
  <1>4. On(b)' = IF \E s \in Sides : Body(k, s) = b THEN On(b) \cup {i} ELSE On(b)
    BY <1>2, <1>3 DEF On
  <1>5. ListHead(b)' = IF \E s \in Sides : Body(k, s) = b THEN i ELSE first[b]
    BY DEF ListHead, LinkFirst
  <1>6. i \notin On(b)
    BY DEF On
  <1>7. CASE \E s \in Sides : Body(k, s) = b
    <2>1. PICK s \in Sides : Body(k, s) = b
      BY <1>7
    <2>2. SideOf(i, b)' = s
      <3>1. Body(k, 0) # Body(k, 1)
        BY KeyBodies
      <3> QED
        BY <2>1, <3>1, <1>3 DEF SideOf, Sides
    <2>3. nll_next'[i][s] = first[b] /\ nll_prev'[i][s] = NLL_NULL
      BY <2>1 DEF LinkFirst, TypeOK
    <2>4. After(i, b)' = first[b] /\ Previous(i, b)' = NLL_NULL
      BY <2>2, <2>3 DEF After, Previous
    <2>5. ASSUME NEW j \in On(b) \cup {i}
          PROVE  /\ After(j, b)' = IF j = i THEN first[b] ELSE next[j]
                 /\ Previous(j, b)' = IF j = i THEN NLL_NULL ELSE IF j = first[b] THEN i ELSE prev[j]
      <3>1. CASE j = i
        BY <3>1, <2>4
      <3>2. CASE j \in On(b)
        BY <3>2, <1>6, <1>7, LinkLinks
      <3> QED
        BY <3>1, <3>2
    <2> HIDE DEF next, prev
    <2>6. DoublyLinked(On(b) \cup {i}, i,
               [j \in On(b) \cup {i} |-> IF j = i THEN first[b] ELSE next[j]],
               [j \in On(b) \cup {i} |-> IF j = i THEN NLL_NULL ELSE IF j = first[b] THEN i ELSE prev[j]])
      BY <1>1, <1>6, Prepend
    <2>7. /\ [j \in On(b)' |-> After(j, b)'] = [j \in On(b) \cup {i} |-> IF j = i THEN first[b] ELSE next[j]]
          /\ [j \in On(b)' |-> Previous(j, b)']
              = [j \in On(b) \cup {i} |-> IF j = i THEN NLL_NULL ELSE IF j = first[b] THEN i ELSE prev[j]]
      BY <2>5, <1>4, <1>7
    <2> QED
      BY <2>6, <2>7, <1>4, <1>5, <1>7
  <1>8. CASE ~ \E s \in Sides : Body(k, s) = b
    <2>1. ASSUME NEW j \in On(b)
          PROVE  After(j, b)' = After(j, b) /\ Previous(j, b)' = Previous(j, b)
      BY <1>8, LinkLinks
    <2>2. [j \in On(b)' |-> After(j, b)'] = next /\ [j \in On(b)' |-> Previous(j, b)'] = prev
      BY <1>4, <1>8, <2>1
    <2> QED
      BY <2>2, <1>1, <1>4, <1>5, <1>8
  <1> QED
    BY <1>7, <1>8

(***************************************************************************)
(* The pool.                                                               *)
(***************************************************************************)

\* A pair without a contact leaves a slot for one: the contacts have different keys.
LEMMA RoomForNew ==
    ASSUME TypeOK, Pool, MapAgrees, NEW k \in Keys, contact_map[k] = NLL_NULL, free = <<>>
    PROVE  count_max <= Cardinality(Keys)
  <1> DEFINE f == [i \in 1 .. count_max - 1 |-> key[i]]
  <1>1. Live = 1 .. count_max - 1
    BY DEF Live, Removed
  <1>2. \A i \in Live : key[i] \in Keys \ {k} /\ contact_map[key[i]] = i
    <2>1. \A i \in Live : i # NLL_NULL
      BY LiveIndices
    <2> QED
      BY <2>1, LiveIndices DEF MapAgrees
  <1>3. f \in Injection(1 .. count_max - 1, Keys \ {k})
    BY <1>1, <1>2 DEF Injection, IsInjective
  <1>4. IsFiniteSet(Keys \ {k}) /\ Cardinality(Keys \ {k}) = Cardinality(Keys) - 1
    BY KeysAssumption, FS_RemoveElement
  <1> HIDE DEF f
  <1>5. Cardinality(1 .. count_max - 1) <= Cardinality(Keys) - 1
    BY <1>3, <1>4, FS_Injection
  <1>6. count_max \in Nat /\ count_max >= 1
    BY IndexCount DEF TypeOK
  <1>7. Cardinality(1 .. count_max - 1) = count_max - 1
    BY <1>6, FS_Interval
  <1> QED
    BY <1>5, <1>6, <1>7, IndexCount

\* pool_add hands out an index that names no contact, and keeps the rest.
LEMMA PoolAddSound ==
    ASSUME TypeOK, Pool, MapAgrees, NEW k \in Keys, contact_map[k] = NLL_NULL, PoolAdd
    PROVE  /\ NewIndex \in Indices \ Live /\ NewIndex # NLL_NULL
           /\ Live' = Live \cup {NewIndex} /\ Removed' \subseteq Removed
           /\ free' \in Seq(Indices) /\ count_max' \in 1..(Cardinality(Keys) + 1) /\ length' \in Nat
           /\ \A n \in 1..Len(free') : free'[n] \in 1..(count_max' - 1)
           /\ \A m, n \in 1..Len(free') : free'[m] = free'[n] => m = n
           /\ count_max' <= length'
  <1>t. /\ count_max \in Nat /\ count_max >= 1 /\ count_max <= Cardinality(Keys) + 1
        /\ length \in Nat /\ count_max <= length /\ free \in Seq(Indices) /\ Cardinality(Keys) \in Nat
    BY IndexCount DEF TypeOK, Pool
  <1>1. CASE free = <<>>
    <2>1. count_max <= Cardinality(Keys)
      BY <1>1, RoomForNew
    <2>2. NewIndex = count_max /\ free' = <<>> /\ count_max' = count_max + 1 /\ Len(free) = 0
      BY <1>1 DEF NewIndex, PoolAdd
    <2>3. length' = IF count_max = length THEN 2 * length ELSE length
      BY <2>2, <1>t DEF PoolAdd
    <2>4. Removed = {} /\ Removed' = {}
      BY <2>2, <1>1 DEF Removed
    <2>5. Live = 1 .. count_max - 1 /\ Live' = 1 .. count_max
      BY <2>2, <2>4, <1>t DEF Live
    <2> QED
      BY <2>1, <2>2, <2>3, <2>4, <2>5, <1>t DEF Indices, NLL_NULL
  <1>2. CASE free # <<>>
    <2>1. NewIndex = free[1] /\ free' = Tail(free) /\ count_max' = count_max
      BY <1>2, <1>t DEF NewIndex, PoolAdd
    <2>2. /\ Len(free) \in Nat /\ Len(free) >= 1 /\ Len(free') = Len(free) - 1 /\ free' \in Seq(Indices)
          /\ \A n \in 1..Len(free') : free'[n] = free[n + 1]
      BY <2>1, <1>2, <1>t
    <2>3. length' \in Nat /\ length <= length'
      BY <1>t, <2>2 DEF PoolAdd
    <2>4. \A n \in 1..Len(free') : n + 1 \in 1..Len(free)
      BY <2>2
    <2>p. /\ \A n \in 1..Len(free) : free[n] \in 1..(count_max - 1)
          /\ \A m, n \in 1..Len(free) : free[m] = free[n] => m = n
      BY DEF Pool
    <2>5. /\ \A n \in 1..Len(free') : free'[n] \in 1..(count_max - 1)
          /\ \A m, n \in 1..Len(free') : free'[m] = free'[n] => m = n
      <3>1. ASSUME NEW n \in 1..Len(free') PROVE free'[n] \in 1..(count_max - 1)
        BY <2>2, <2>4, <2>p
      <3>2. ASSUME NEW m \in 1..Len(free'), NEW n \in 1..Len(free'), free'[m] = free'[n] PROVE m = n
        <4>1. m + 1 = n + 1
          BY <3>2, <2>2, <2>4, <2>p
        <4> QED
          BY <4>1
      <3> QED
        BY <3>1, <3>2
    <2>6. free[1] \in 1..(count_max - 1) /\ free[1] \in Removed
      BY <2>2 DEF Pool, Removed
    <2>7. Removed' = Removed \ {free[1]}
      <3>1. Removed' \subseteq Removed
        BY <2>2, <2>4 DEF Removed
      <3>2. free[1] \notin Removed'
        <4> SUFFICES ASSUME NEW n \in 1..Len(free'), free'[n] = free[1] PROVE FALSE
          BY DEF Removed
        <4> QED
          BY <2>2, <2>4 DEF Pool
      <3>3. ASSUME NEW m \in 1..Len(free), free[m] # free[1] PROVE free[m] \in Removed'
        <4>1. m - 1 \in 1..Len(free') /\ (m - 1) + 1 = m
          BY <2>2, <3>3
        <4>2. free'[m - 1] = free[m]
          BY <4>1, <2>2
        <4> QED
          BY <4>1, <4>2 DEF Removed
      <3> QED
        BY <3>1, <3>2, <3>3 DEF Removed
    <2>8. Live' = Live \cup {free[1]}
      BY <2>1, <2>6, <2>7 DEF Live
    <2>9. free[1] \in Indices /\ free[1] \notin Live /\ free[1] # NLL_NULL
      BY <2>6, <1>t DEF Live, Indices, NLL_NULL
    <2> QED
      BY <2>1, <2>2, <2>3, <2>5, <2>7, <2>8, <2>9, <1>t
  <1> QED
    BY <1>1, <1>2

\* pool_remove takes exactly the index of the contact.
LEMMA PoolRemoveSound ==
    ASSUME TypeOK, Pool, NEW i \in Live, PoolRemove(i)
    PROVE  /\ Live' = Live \ {i} /\ Removed' = Removed \cup {i}
           /\ free' \in Seq(Indices) /\ UNCHANGED <<count_max, length>>
           /\ \A n \in 1..Len(free') : free'[n] \in 1..(count_max' - 1)
           /\ \A m, n \in 1..Len(free') : free'[m] = free'[n] => m = n
  <1>1. i \in Indices /\ i \in 1..(count_max - 1) /\ i \notin Removed /\ free \in Seq(Indices)
    BY LiveIndices DEF Live, TypeOK
  <1>2. free' = <<i>> \o free /\ UNCHANGED <<count_max, length>>
    BY DEF PoolRemove
  <1>3. /\ free' \in Seq(Indices) /\ Len(free) \in Nat /\ Len(free') = Len(free) + 1
        /\ free'[1] = i /\ \A n \in 2..Len(free') : free'[n] = free[n - 1]
    BY <1>1, <1>2
  <1>4. \A n \in 2..Len(free') : n - 1 \in 1..Len(free)
    BY <1>3
  <1>5. \A n \in 1..Len(free') : n = 1 \/ n \in 2..Len(free')
    BY <1>3
  <1>6. \A n \in 1..Len(free) : free'[n + 1] = free[n] /\ n + 1 \in 1..Len(free')
    BY <1>3
  <1>7. Removed' = Removed \cup {i}
    <2>1. Removed' \subseteq Removed \cup {i}
      BY <1>3, <1>4, <1>5 DEF Removed
    <2>2. Removed \subseteq Removed'
      BY <1>6 DEF Removed
    <2>3. 1 \in 1..Len(free')
      BY <1>3
    <2>4. i \in Removed'
      BY <2>3, <1>3 DEF Removed
    <2> QED
      BY <2>1, <2>2, <2>4
  <1>8. Live' = Live \ {i}
    BY <1>2, <1>7 DEF Live
  <1>9. \A n \in 1..Len(free') : free'[n] \in 1..(count_max' - 1)
    BY <1>1, <1>2, <1>3, <1>4, <1>5 DEF Pool
  <1>10. ASSUME NEW m \in 1..Len(free'), NEW n \in 1..Len(free'), free'[m] = free'[n]
         PROVE  m = n
    <2>1. \A l \in 2..Len(free') : free'[l] \in Removed
      BY <1>3, <1>4 DEF Removed
    <2>2. CASE m = 1 \/ n = 1
      BY <2>1, <2>2, <1>10, <1>1, <1>3, <1>5
    <2>3. CASE m # 1 /\ n # 1
      <3>1. m - 1 \in 1..Len(free) /\ n - 1 \in 1..Len(free) /\ free[m - 1] = free[n - 1]
        BY <2>3, <1>10, <1>3, <1>4, <1>5
      <3>2. m - 1 = n - 1
        BY <3>1 DEF Pool
      <3> QED
        BY <3>2
    <2> QED
      BY <2>2, <2>3
  <1> QED
    BY <1>2, <1>3, <1>7, <1>8, <1>9, <1>10

(***************************************************************************)
(* The net, the pool and the map together.                                 *)
(***************************************************************************)

\* What TypeOK and Pool say of the net and the pool.
NetTypeOK ==
    /\ key \in [Indices -> Keys \cup {NoKey}]
    /\ nll_next \in [Indices -> [Sides -> Indices]]
    /\ nll_prev \in [Indices -> [Sides -> Indices]]
    /\ contact_map \in [Keys -> Indices] /\ first \in [Bodies -> Indices]
    /\ free \in Seq(Indices) /\ count_max \in 1..(Cardinality(Keys) + 1) /\ length \in Nat

\* Unlinking a contact and giving its index back.
LEMMA UnlinkSound ==
    ASSUME TypeOK, Pool, NetSound, NEW i \in Live, Unlink(i), PoolRemove(i),
           first' \in [Bodies -> Indices],
           \A b \in Bodies : ListHead(b)' = IF ListHead(b) = i THEN After(i, b) ELSE ListHead(b)
    PROVE  /\ NetTypeOK' /\ Pool' /\ NetSound'
           /\ Live' = Live \ {i} /\ Removed' = Removed \cup {i}
           /\ \A j \in Live \ {i} : key'[j] = key[j]
           /\ UNCHANGED count_max
  <1>1. /\ Live' = Live \ {i} /\ Removed' = Removed \cup {i}
        /\ free' \in Seq(Indices) /\ UNCHANGED <<count_max, length>>
        /\ \A n \in 1..Len(free') : free'[n] \in 1..(count_max' - 1)
        /\ \A m, n \in 1..Len(free') : free'[m] = free'[n] => m = n
    BY PoolRemoveSound
  <1>2. i \in Indices /\ i # NLL_NULL /\ NLL_NULL \in Indices /\ key[i] \in Keys
    BY LiveIndices, IndexCount DEF Indices, NLL_NULL
  <1>3. key' = [key EXCEPT ![i] = NoKey] /\ contact_map' = [contact_map EXCEPT ![key[i]] = NLL_NULL]
    BY DEF Unlink
  <1>4. nll_next' \in [Indices -> [Sides -> Indices]] /\ nll_prev' \in [Indices -> [Sides -> Indices]]
    <2> DEFINE beside(j, s, link) == {t \in Sides : link[i][t] = j /\ s = SideOf(j, Body(key[i], t))}
    <2>1. \A j, s, link : beside(j, s, link) # {} => (CHOOSE t \in beside(j, s, link) : TRUE) \in Sides
      <3>1. \A S : S # {} => (CHOOSE t \in S : TRUE) \in S
        OBVIOUS
      <3> QED
        BY <3>1
    <2> DEFINE nx(j, s) == IF j = NLL_NULL \/ j = i THEN NLL_NULL
                   ELSE IF beside(j, s, nll_prev) # {} THEN nll_next[i][CHOOSE t \in beside(j, s, nll_prev) : TRUE]
                   ELSE nll_next[j][s]
               pv(j, s) == IF j = NLL_NULL \/ j = i THEN NLL_NULL
                   ELSE IF beside(j, s, nll_next) # {} THEN nll_prev[i][CHOOSE t \in beside(j, s, nll_next) : TRUE]
                   ELSE nll_prev[j][s]
    <2>2. /\ nll_next' = [j \in Indices |-> [s \in Sides |-> nx(j, s)]]
          /\ nll_prev' = [j \in Indices |-> [s \in Sides |-> pv(j, s)]]
      BY DEF Unlink
    <2>3. ASSUME NEW j \in Indices, NEW s \in Sides PROVE nx(j, s) \in Indices /\ pv(j, s) \in Indices
      <3> HIDE DEF beside
      <3>1. \A x \in Indices, t \in Sides : nll_next[x][t] \in Indices /\ nll_prev[x][t] \in Indices
        BY DEF TypeOK
      <3>2. nx(j, s) \in Indices
        BY <2>1, <3>1, <1>2
      <3>3. pv(j, s) \in Indices
        BY <2>1, <3>1, <1>2
      <3> QED
        BY <3>2, <3>3
    <2> HIDE DEF nx, pv
    <2> QED
      BY <2>2, <2>3
  <1>5. NetTypeOK'
    BY <1>1, <1>2, <1>3, <1>4 DEF TypeOK, NetTypeOK
  <1>6. \A j \in Live \ {i} : key'[j] = key[j]
    BY <1>3, LiveIndices DEF TypeOK
  <1>7. Pool'
    <2>1. \A j \in Indices : key'[j] # NoKey <=> j \in Live'
      BY <1>1, <1>3 DEF Pool, TypeOK
    <2> QED
      BY <2>1, <1>1 DEF Pool
  <1>8. Lists'
    BY UnlinkList, <1>1 DEF Lists, NetSound
  <1>9. MapAgrees'
    <2>1. \A j \in Live \ {i} : key[j] # key[i] /\ key[j] \in Keys
      BY LiveIndices DEF NetSound, MapAgrees
    <2>2. \A k \in Keys : contact_map'[k] = IF k = key[i] THEN NLL_NULL ELSE contact_map[k]
      BY <1>3 DEF TypeOK
    <2>3. \A j \in Live' : contact_map'[key'[j]] = j
      BY <1>1, <1>6, <2>1, <2>2 DEF NetSound, MapAgrees
    <2>4. ASSUME NEW k \in Keys, contact_map'[k] # NLL_NULL
          PROVE  contact_map'[k] \in Live' /\ key'[contact_map'[k]] = k
      BY <2>2, <2>4, <1>1, <1>6 DEF NetSound, MapAgrees
    <2> QED
      BY <2>3, <2>4 DEF MapAgrees
  <1> QED
    BY <1>1, <1>5, <1>6, <1>7, <1>8, <1>9 DEF NetSound

\* Making a contact of a pair that has none.
LEMMA LinkSound ==
    ASSUME TypeOK, Pool, NetSound, pc # "walk", UNCHANGED <<pc, walk>>,
           NEW k \in Keys, contact_map[k] = NLL_NULL, PoolAdd, LinkFirst(NewIndex, k)
    PROVE  /\ NetTypeOK' /\ Pool' /\ NetSound'
           /\ NewIndex \in Indices \ Live /\ Live' = Live \cup {NewIndex} /\ Removed' \subseteq Removed
           /\ key'[NewIndex] = k /\ \A j \in Live : key'[j] = key[j]
  <1> DEFINE i == NewIndex
  <1>1. /\ i \in Indices \ Live /\ i # NLL_NULL
        /\ Live' = Live \cup {i} /\ Removed' \subseteq Removed
        /\ free' \in Seq(Indices) /\ count_max' \in 1..(Cardinality(Keys) + 1) /\ length' \in Nat
        /\ \A n \in 1..Len(free') : free'[n] \in 1..(count_max' - 1)
        /\ \A m, n \in 1..Len(free') : free'[m] = free'[n] => m = n
        /\ count_max' <= length'
    BY PoolAddSound DEF NetSound
  <1> HIDE DEF i
  <1>l. LinkFirst(i, k)
    BY DEF i
  <1>2. /\ key' = [key EXCEPT ![i] = k] /\ contact_map' = [contact_map EXCEPT ![k] = i]
        /\ first' = [b \in Bodies |-> IF \E s \in Sides : b = Body(k, s) THEN i ELSE first[b]]
    BY <1>l DEF LinkFirst
  <1>3. nll_next' \in [Indices -> [Sides -> Indices]] /\ nll_prev' \in [Indices -> [Sides -> Indices]]
    <2>1. [s \in Sides |-> first[Body(k, s)]] \in [Sides -> Indices]
      BY KeyBodies DEF TypeOK, Sides
    <2>2. NLL_NULL \in Indices
      BY IndexCount DEF Indices, NLL_NULL
    <2> QED
      BY <1>l, <1>1, <2>1, <2>2 DEF LinkFirst, TypeOK
  <1>4. NetTypeOK'
    BY <1>1, <1>2, <1>3 DEF TypeOK, NetTypeOK
  <1>5. key'[i] = k /\ \A j \in Live : key'[j] = key[j] /\ key[j] \in Keys /\ j # i
    BY <1>1, <1>2, LiveIndices DEF TypeOK
  <1>6. Pool'
    <2>1. \A j \in Indices : key'[j] # NoKey <=> j \in Live'
      BY <1>1, <1>2, KeyBodies DEF Pool, TypeOK
    <2> QED
      BY <2>1, <1>1 DEF Pool
  <1>7. Lists'
    <2>1. \A b \in Bodies : DoublyLinked(On(b)', ListHead(b)', [j \in On(b)' |-> After(j, b)'],
                                         [j \in On(b)' |-> Previous(j, b)'])
      BY LinkList, <1>1, <1>l DEF NetSound
    <2> QED
      BY <2>1 DEF Lists
  <1>8. MapAgrees'
    <2>1. \A j \in Live : key[j] # k
      <3>1. \A j \in Live : j # NLL_NULL
        BY LiveIndices
      <3> QED
        BY <3>1 DEF NetSound, MapAgrees
    <2>2. \A l \in Keys : contact_map'[l] = IF l = k THEN i ELSE contact_map[l]
      BY <1>2 DEF TypeOK
    <2>3. \A j \in Live' : contact_map'[key'[j]] = j
      BY <1>1, <1>5, <2>1, <2>2 DEF NetSound, MapAgrees
    <2>4. ASSUME NEW l \in Keys, contact_map'[l] # NLL_NULL
          PROVE  contact_map'[l] \in Live' /\ key'[contact_map'[l]] = l
      BY <2>2, <2>4, <1>1, <1>5 DEF NetSound, MapAgrees
    <2> QED
      BY <2>3, <2>4 DEF MapAgrees
  <1> QED
    BY <1>1, <1>4, <1>5, <1>6, <1>7, <1>8 DEF NetSound, i

(***************************************************************************)
(* The inductive invariant, one lemma for each kind of step.               *)
(***************************************************************************)

\* An empty net: the initial state, and the state after a flush.
EmptyNet ==
    /\ key = [i \in Indices |-> NoKey]
    /\ nll_next = [i \in Indices |-> [s \in Sides |-> NLL_NULL]]
    /\ nll_prev = [i \in Indices |-> [s \in Sides |-> NLL_NULL]]
    /\ free = <<>> /\ count_max = 1 /\ length \in Nat /\ 1 <= length
    /\ contact_map = [k \in Keys |-> NLL_NULL]
    /\ first = [b \in Bodies |-> NLL_NULL] /\ pc = "idle"

EmptySoundness == NetTypeOK /\ Pool /\ NetSound /\ Live = {} /\ Removed = {}

LEMMA EmptySound == EmptyNet => EmptySoundness
  <1> SUFFICES ASSUME EmptyNet PROVE EmptySoundness
    OBVIOUS
  <1> USE DEF EmptyNet
  <1>1. NLL_NULL \in Indices /\ free \in Seq(Indices) /\ 1 \in 1..(Cardinality(Keys) + 1) /\ Len(free) = 0
    BY IndexCount DEF Indices, NLL_NULL
  <1>2. Live = {} /\ Removed = {}
    BY <1>1 DEF Live, Removed
  <1>3. NetTypeOK
    BY <1>1 DEF NetTypeOK
  <1>4. Pool
    BY <1>1, <1>2 DEF Pool
  <1>5. \A b \in Bodies : On(b) = {} /\ ListHead(b) = NLL_NULL
    BY <1>2 DEF On, ListHead
  <1>6. Lists
    BY <1>5 DEF Lists, DoublyLinked
  <1>7. MapAgrees
    BY <1>2 DEF MapAgrees
  <1> QED
    BY <1>2, <1>3, <1>4, <1>6, <1>7 DEF NetSound, EmptySoundness

LEMMA InitInv == Init => IInv
  <1> SUFFICES ASSUME Init PROVE IInv
    OBVIOUS
  <1>1. length \in Nat /\ 1 <= length /\ persistent_count \in Nat \ {0} /\ count_max <= persistent_count
    BY SizeAssumption DEF Init
  <1>2. NetTypeOK /\ Pool /\ NetSound /\ Live = {} /\ Removed = {}
    BY <1>1, EmptySound DEF Init, EmptyNet, EmptySoundness
  <1> QED
    BY <1>1, <1>2 DEF Init, IInv, TypeOK, NetTypeOK, Walk, Bits, Quiet

LEMMA FlushInv ==
    ASSUME IInv, Flush
    PROVE  IInv'
  <1>1. length' \in Nat /\ 1 <= length' /\ pc' = "idle" /\ count_max' = 1
    BY IndexCount DEF Flush, IInv, TypeOK, Pool
  <1>2. NetTypeOK' /\ Pool' /\ NetSound' /\ Live' = {} /\ Removed' = {}
    <2>1. EmptyNet'
      BY <1>1 DEF Flush, EmptyNet
    <2>2. EmptySoundness'
      BY <2>1, EmptySound, PTL
    <2> QED
      BY <2>2 DEF EmptySoundness
  <1>3. persistent' = {} /\ 1 <= persistent_count
    BY IndexCount DEF Flush, IInv, Bits, Quiet, TypeOK
  <1> QED
    BY <1>1, <1>2, <1>3 DEF Flush, IInv, TypeOK, NetTypeOK, Walk, Bits, Quiet

\* Steps that leave the net, the pool and the heads of the lists alone.
LEMMA NetUnchanged ==
    ASSUME Pool, NetSound, UNCHANGED <<key, nll_next, nll_prev, contact_map, poolVars>>,
           \A b \in Bodies : ListHead(b)' = ListHead(b)
    PROVE  Pool' /\ NetSound' /\ Live' = Live /\ Removed' = Removed
  <1>1. Live' = Live /\ Removed' = Removed
    BY DEF Live, Removed, poolVars
  <1>2. Pool' /\ MapAgrees'
    BY <1>1 DEF Pool, MapAgrees, NetSound, poolVars
  <1>3. Lists'
    <2>1. ASSUME NEW b \in Bodies
          PROVE  /\ On(b)' = On(b) /\ ListHead(b)' = ListHead(b)
                 /\ [j \in On(b)' |-> After(j, b)'] = [j \in On(b) |-> After(j, b)]
                 /\ [j \in On(b)' |-> Previous(j, b)'] = [j \in On(b) |-> Previous(j, b)]
      BY <1>1 DEF On, After, Previous, SideOf
    <2> QED
      BY <2>1 DEF NetSound, Lists
  <1> QED
    BY <1>1, <1>2, <1>3 DEF NetSound

LEMMA RemoveBodyStartInv ==
    ASSUME IInv, NEW b \in Bodies, RemoveBodyStart(b)
    PROVE  IInv'
  <1>1. \A c \in Bodies : ListHead(c)' = ListHead(c)
    BY DEF IInv, TypeOK, RemoveBodyStart, ListHead
  <1>2. Pool' /\ NetSound' /\ Live' = Live
    BY <1>1, NetUnchanged DEF IInv, RemoveBodyStart
  <1>3. NLL_NULL \in Indices /\ first[b] \in Indices
    BY IndexCount DEF Indices, NLL_NULL, IInv, TypeOK
  <1>4. TypeOK'
    BY <1>3 DEF IInv, RemoveBodyStart, TypeOK, poolVars, bitVars
  <1>5. Walk'
    BY <1>3 DEF IInv, RemoveBodyStart, TypeOK, Walk
  <1>6. Bits'
    BY <1>2 DEF IInv, RemoveBodyStart, Bits, Quiet, poolVars, bitVars
  <1> QED
    BY <1>2, <1>4, <1>5, <1>6 DEF IInv

LEMMA RemoveBodyEndInv ==
    ASSUME IInv, RemoveBodyEnd
    PROVE  IInv'
  <1>1. \A c \in Bodies : ListHead(c)' = ListHead(c)
    BY DEF IInv, Walk, RemoveBodyEnd, ListHead, netVars
  <1>2. Pool' /\ NetSound' /\ Live' = Live
    BY <1>1, NetUnchanged DEF IInv, RemoveBodyEnd, netVars
  <1>3. TypeOK'
    BY DEF IInv, RemoveBodyEnd, TypeOK, poolVars, bitVars, netVars
  <1>4. Walk'
    BY DEF RemoveBodyEnd, Walk
  <1>5. Bits'
    BY <1>2 DEF IInv, RemoveBodyEnd, Bits, Quiet, poolVars, bitVars
  <1> QED
    BY <1>2, <1>3, <1>4, <1>5 DEF IInv

LEMMA BeginFrameInv ==
    ASSUME IInv, BeginFrame
    PROVE  IInv'
  <1>1. \A c \in Bodies : ListHead(c)' = ListHead(c)
    BY DEF BeginFrame, ListHead, netVars
  <1>2. Pool' /\ NetSound' /\ Live' = Live /\ Removed' = Removed
    BY <1>1, NetUnchanged DEF IInv, BeginFrame, netVars
  <1>3. TypeOK'
    BY DEF IInv, BeginFrame, TypeOK, poolVars, netVars
  <1>4. Walk'
    BY DEF IInv, BeginFrame, Walk
  <1>5. persistent = Live /\ count_max <= persistent_count /\ found = {} /\ contact_new = {}
    BY DEF IInv, BeginFrame, Bits, Quiet
  <1>6. \A i \in Live \cup Removed : i < persistent_count
    <2>1. \A i \in Live \cup Removed : i \in 1 .. count_max - 1
      BY DEF IInv, Pool, Live, Removed
    <2> QED
      BY <2>1, <1>5, IndexCount DEF IInv, TypeOK
  <1>7. Bits'
    BY <1>2, <1>5, <1>6 DEF BeginFrame, Bits, InFrame
  <1> QED
    BY <1>2, <1>3, <1>4, <1>7 DEF IInv

LEMMA AllFoundInv ==
    ASSUME IInv, AllFound
    PROVE  IInv'
  <1>1. \A c \in Bodies : ListHead(c)' = ListHead(c)
    BY DEF AllFound, ListHead, netVars
  <1>2. Pool' /\ NetSound' /\ Live' = Live /\ Removed' = Removed
    BY <1>1, NetUnchanged DEF IInv, AllFound, netVars
  <1>3. TypeOK'
    BY DEF IInv, AllFound, TypeOK, poolVars, netVars, bitVars
  <1>4. Walk'
    BY DEF IInv, AllFound, Walk
  <1>5. Bits'
    BY <1>2 DEF IInv, AllFound, Bits, InFrame, bitVars, netVars
  <1> QED
    BY <1>2, <1>3, <1>4, <1>5 DEF IInv

\* The contact the walk stands at is one of the body.
LEMMA WalkAtContact ==
    ASSUME IInv, pc = "walk", walk[2] # NLL_NULL
    PROVE  walk[1] \in Bodies /\ walk[2] \in On(walk[1]) /\ walk[2] \in Live
  <1>1. walk[1] \in Bodies /\ ListHead(walk[1]) = walk[2]
    BY DEF IInv, Walk, ListHead
  <1>2. walk[2] \in On(walk[1])
    BY <1>1, ListFacts DEF IInv, NetSound
  <1> QED
    BY <1>1, <1>2 DEF On

LEMMA RemoveBodyContactInv ==
    ASSUME IInv, RemoveBodyContact
    PROVE  IInv'
  <1> DEFINE b == walk[1]
             i == walk[2]
  <1>1. /\ pc = "walk" /\ i # NLL_NULL
        /\ walk' = <<b, After(i, b)>>
        /\ first' = [FirstWithout(i) EXCEPT ![b] = NLL_NULL]
        /\ persistent' = persistent \ {i}
        /\ Unlink(i)
        /\ PoolRemove(i)
        /\ UNCHANGED <<persistent_count, frame, frame_count, contact_new, found, pc>>
    BY DEF RemoveBodyContact
  <1>2. b \in Bodies /\ i \in On(b) /\ i \in Live
    BY <1>1, WalkAtContact
  <1>3. TypeOK /\ Pool /\ NetSound /\ Lists /\ Walk /\ Bits
    BY DEF IInv, NetSound
  <1>4. first \in [Bodies -> Indices] /\ first[b] = NLL_NULL /\ NLL_NULL \in Indices
    BY <1>1, <1>3, IndexCount DEF TypeOK, Walk, Indices, NLL_NULL
  <1> HIDE DEF b, i
  <1>w. walk = <<b, i>>
    BY <1>1, <1>3 DEF Walk, b, i
  <1>5. ASSUME NEW c \in Bodies
        PROVE  /\ ListHead(c)' = IF ListHead(c) = i THEN After(i, c) ELSE ListHead(c)
               /\ first'[c] \in Indices
    <2>1. CASE c = b
      BY <2>1, <1>1, <1>2, <1>4, <1>w DEF ListHead, FirstWithout
    <2>2. CASE c # b
      <3>1. ListHead(c) = first[c]
        BY <2>2, <1>w DEF ListHead
      <3>2. ListHead(c)' = first'[c]
        BY <2>2, <1>1 DEF ListHead
      <3>3. first'[c] = IF first[c] = i THEN After(i, c) ELSE first[c]
        BY <2>2, <1>1, <1>4 DEF FirstWithout
      <3>4. first[c] = i => i \in On(c) /\ After(i, c) \in Indices
        <4>1. first[c] = i => i \in On(c)
          BY <3>1, <1>1, <1>3, ListFacts
        <4>2. i \in On(c) => After(i, c) \in Indices
          BY <1>3, <1>4, ListFacts, LiveIndices DEF On
        <4> QED
          BY <4>1, <4>2
      <3> QED
        BY <3>1, <3>2, <3>3, <3>4, <1>4
    <2> QED
      BY <2>1, <2>2
  <1>6. first' \in [Bodies -> Indices]
    <2>1. DOMAIN first' = Bodies /\ first' = [c \in Bodies |-> first'[c]]
      BY <1>1 DEF FirstWithout
    <2> QED
      BY <2>1, <1>5
  <1>7. /\ NetTypeOK' /\ Pool' /\ NetSound' /\ Live' = Live \ {i} /\ UNCHANGED count_max
    BY <1>1, <1>2, <1>3, <1>5, <1>6, UnlinkSound
  <1>8. TypeOK'
    BY <1>1, <1>3, <1>7 DEF TypeOK, NetTypeOK
  <1>9. Walk'
    <2>1. After(i, b) \in Indices
      BY <1>2, <1>3, <1>4, ListFacts, LiveIndices DEF On
    <2>2. first'[b] = NLL_NULL
      BY <1>1, <1>2 DEF FirstWithout
    <2> QED
      BY <2>1, <2>2, <1>1, <1>2 DEF Walk
  <1>10. Bits'
    BY <1>1, <1>3, <1>7 DEF Bits, Quiet
  <1> QED
    BY <1>7, <1>8, <1>9, <1>10 DEF IInv

\* What a frame's contact does to the database: the index it has then, which is a new
\* one if the pair had no contact.
LEMMA AddContactSound ==
    ASSUME IInv, NEW k \in Keys, AddContact(k)
    PROVE  \E i \in Indices :
             /\ i \in Live' /\ key'[i] = k /\ Live' = Live \cup {i}
             /\ \A j \in Live : key'[j] = key[j]
             /\ \A j \in Live : key[j] = k => j = i
             /\ i \in persistent => i \in Live
             /\ frame' = IF i < frame_count THEN frame \cup {i} ELSE frame
             /\ contact_new' = IF i >= persistent_count \/ i \notin persistent THEN contact_new \cup {i} ELSE contact_new
             /\ NetTypeOK' /\ Pool' /\ NetSound' /\ Removed' \subseteq Removed
  <1>1. /\ pc = "push" /\ k \notin found
        /\ UNCHANGED <<persistent, persistent_count, frame_count, walk, pc>>
    BY DEF AddContact
  <1>2. TypeOK /\ Pool /\ NetSound /\ MapAgrees /\ persistent \subseteq Live
    BY <1>1 DEF IInv, NetSound, Bits, InFrame
  <1>3. CASE contact_map[k] = NLL_NULL
    <2> DEFINE i == NewIndex
    <2>1. /\ PoolAdd /\ LinkFirst(i, k)
          /\ frame' = IF i < frame_count THEN frame \cup {i} ELSE frame
          /\ contact_new' = IF i >= persistent_count \/ i \notin persistent THEN contact_new \cup {i} ELSE contact_new
      BY <1>3 DEF AddContact
    <2>2. /\ NetTypeOK' /\ Pool' /\ NetSound'
          /\ i \in Indices \ Live /\ Live' = Live \cup {i} /\ Removed' \subseteq Removed
          /\ key'[i] = k /\ \A j \in Live : key'[j] = key[j]
      BY <1>1, <1>2, <1>3, <2>1, LinkSound
    <2>3. \A j \in Live : key[j] # k
      <3>1. \A j \in Live : j # NLL_NULL
        BY <1>2, LiveIndices
      <3> QED
        BY <3>1, <1>2, <1>3 DEF MapAgrees
    <2> HIDE DEF i
    <2> QED
      BY <2>1, <2>2, <2>3, <1>2
  <1>4. CASE contact_map[k] # NLL_NULL
    <2> DEFINE i == contact_map[k]
    <2>1. /\ UNCHANGED <<netVars, poolVars>>
          /\ frame' = IF i < frame_count THEN frame \cup {i} ELSE frame
          /\ contact_new' = IF i >= persistent_count \/ i \notin persistent THEN contact_new \cup {i} ELSE contact_new
      BY <1>4 DEF AddContact
    <2>2. i \in Live /\ key[i] = k /\ i \in Indices
      BY <1>2, <1>4, LiveIndices DEF MapAgrees
    <2>3. \A j \in Live : key[j] = k => j = i
      BY <1>2 DEF MapAgrees
    <2>4. \A b \in Bodies : ListHead(b)' = ListHead(b)
      BY <1>1, <2>1 DEF ListHead, netVars
    <2>5. Pool' /\ NetSound' /\ Live' = Live /\ Removed' = Removed
      BY <1>2, <2>1, <2>4, NetUnchanged DEF netVars
    <2>6. NetTypeOK'
      BY <1>2, <2>1 DEF TypeOK, NetTypeOK, netVars, poolVars
    <2>7. key' = key
      BY <2>1 DEF netVars
    <2> HIDE DEF i
    <2> QED
      BY <2>1, <2>2, <2>3, <2>5, <2>6, <2>7
  <1> QED
    BY <1>3, <1>4

LEMMA AddContactInv ==
    ASSUME IInv, NEW k \in Keys, AddContact(k)
    PROVE  IInv'
  <1>1. PICK i \in Indices :
             /\ i \in Live' /\ key'[i] = k /\ Live' = Live \cup {i}
             /\ \A j \in Live : key'[j] = key[j]
             /\ \A j \in Live : key[j] = k => j = i
             /\ i \in persistent => i \in Live
             /\ frame' = IF i < frame_count THEN frame \cup {i} ELSE frame
             /\ contact_new' = IF i >= persistent_count \/ i \notin persistent THEN contact_new \cup {i} ELSE contact_new
             /\ NetTypeOK' /\ Pool' /\ NetSound' /\ Removed' \subseteq Removed
    BY AddContactSound
  <1>2. /\ pc = "push" /\ k \notin found /\ found' = found \cup {k}
        /\ UNCHANGED <<persistent, persistent_count, frame_count, walk, pc>>
    BY DEF AddContact
  <1>3. TypeOK /\ Walk /\ InFrame
    BY <1>2 DEF IInv, Bits
  <1>4. TypeOK'
    BY <1>1, <1>2, <1>3 DEF TypeOK, NetTypeOK
  <1>5. Walk'
    BY <1>2, <1>3 DEF Walk
  <1>6. \A j \in persistent' \cup Removed' : j < persistent_count'
    BY <1>1, <1>2, <1>3 DEF InFrame
  <1>7. frame' = {j \in Live' : j < frame_count' /\ key'[j] \in found'}
    <2>1. frame = {j \in Live : j < frame_count /\ key[j] \in found}
      BY <1>3 DEF InFrame
    <2>2. \A j \in Live : key'[j] \in found' <=> key[j] \in found \/ j = i
      BY <1>1, <1>2
    <2> QED
      BY <2>1, <2>2, <1>1, <1>2
  <1>8. contact_new' = Live' \ persistent'
    <2>1. contact_new = Live \ persistent
      BY <1>3 DEF InFrame
    <2>2. i >= persistent_count \/ i \notin persistent <=> i \notin persistent
      BY <1>3 DEF InFrame, TypeOK, Indices
    <2> QED
      BY <2>1, <2>2, <1>1, <1>2
  <1>9. \A j \in contact_new' : key'[j] \in found'
    <2>1. \A j \in contact_new : j \in Live /\ key[j] \in found
      BY <1>3 DEF InFrame
    <2> QED
      BY <2>1, <1>1, <1>2
  <1>10. persistent' \subseteq Live'
    BY <1>1, <1>2, <1>3 DEF InFrame
  <1>11. Bits'
    BY <1>2, <1>3, <1>6, <1>7, <1>8, <1>9, <1>10 DEF Bits, InFrame
  <1> QED
    BY <1>1, <1>4, <1>5, <1>11 DEF IInv

\* A set of indices has a smallest one.
LEMMA SmallestIndex ==
    ASSUME NEW S \in SUBSET Nat, S # {}
    PROVE  \E i \in S : \A j \in S : i <= j
  <1>1. PICK i \in S : \A j \in S : <<j, i>> \notin OpToRel(<, Nat)
    BY NatLessThanWellFounded, WFMin
  <1>2. \A j \in S : ~ (j < i)
    BY <1>1 DEF OpToRel
  <1> QED
    BY <1>2

\* The contact that is dropped is one that the frame did not find.
LEMMA BrokenContact ==
    ASSUME IInv, Broken # {}
    PROVE  (CHOOSE j \in Broken : \A l \in Broken : j <= l) \in Broken
  <1>1. Broken \in SUBSET Nat
    <2>1. Indices \subseteq Nat
      BY IndexCount DEF Indices
    <2>2. persistent \subseteq Indices
      BY DEF IInv, TypeOK
    <2> QED
      BY <2>1, <2>2 DEF Broken
  <1>2. \E j \in Broken : \A l \in Broken : j <= l
    BY <1>1, SmallestIndex
  <1> QED
    BY <1>2

LEMMA BrokenIsLive ==
    ASSUME IInv, NEW i \in Broken
    PROVE  i \in Live /\ i \in persistent /\ i \notin frame
  BY DEF IInv, TypeOK, Pool, Broken

\* What dropping a contact does to the database.
LEMMA RemoveContactSound ==
    ASSUME IInv, RemoveContact
    PROVE  \E i \in Broken :
             /\ NetTypeOK' /\ Pool' /\ NetSound'
             /\ Live' = Live \ {i} /\ Removed' = Removed \cup {i}
             /\ \A j \in Live \ {i} : key'[j] = key[j]
  <1> DEFINE i == CHOOSE j \in Broken : \A l \in Broken : j <= l
  <1>1. /\ pc = "drop" /\ Broken # {}
        /\ first' = FirstWithout(i)
        /\ Unlink(i)
        /\ PoolRemove(i)
        /\ UNCHANGED <<bitVars, contact_new, found, walk, pc>>
    BY DEF RemoveContact
  <1>2. i \in Broken
    BY <1>1, BrokenContact
  <1> HIDE DEF i
  <1>3. i \in Live /\ TypeOK /\ Pool /\ NetSound /\ Lists /\ i # NLL_NULL
    BY <1>2, BrokenIsLive, LiveIndices DEF IInv, NetSound
  <1>4. ASSUME NEW b \in Bodies
        PROVE  /\ ListHead(b) = first[b] /\ ListHead(b)' = first'[b]
               /\ first'[b] = IF first[b] = i THEN After(i, b) ELSE first[b]
               /\ first'[b] \in Indices
    <2>1. /\ ListHead(b) = first[b] /\ ListHead(b)' = first'[b]
          /\ first'[b] = IF first[b] = i THEN After(i, b) ELSE first[b]
      BY <1>1 DEF ListHead, FirstWithout
    <2>2. first[b] = i => i \in On(b)
      BY <2>1, <1>3, ListFacts
    <2>3. i \in On(b) => After(i, b) \in Indices
      BY <1>3, IndexCount, ListFacts, LiveIndices DEF On, Indices, NLL_NULL
    <2> QED
      BY <2>1, <2>2, <2>3, <1>3 DEF TypeOK
  <1>5. first' \in [Bodies -> Indices]
    <2>1. first' = [b \in Bodies |-> first'[b]]
      BY <1>1 DEF FirstWithout
    <2> QED
      BY <2>1, <1>4
  <1>6. \A b \in Bodies : ListHead(b)' = IF ListHead(b) = i THEN After(i, b) ELSE ListHead(b)
    BY <1>4
  <1> QED
    BY <1>1, <1>2, <1>3, <1>5, <1>6, UnlinkSound

LEMMA RemoveContactInv ==
    ASSUME IInv, RemoveContact
    PROVE  IInv'
  <1>1. PICK i \in Broken :
             /\ NetTypeOK' /\ Pool' /\ NetSound'
             /\ Live' = Live \ {i} /\ Removed' = Removed \cup {i}
             /\ \A j \in Live \ {i} : key'[j] = key[j]
    BY RemoveContactSound
  <1>2. pc = "drop" /\ UNCHANGED <<bitVars, contact_new, found, walk, pc>>
    BY DEF RemoveContact
  <1>3. TypeOK /\ Walk /\ InFrame
    BY <1>2 DEF IInv, Bits
  <1>4. i \in Live /\ i \in persistent /\ i \notin frame
    BY BrokenIsLive
  <1>5. TypeOK' /\ Walk'
    BY <1>1, <1>2, <1>3 DEF TypeOK, NetTypeOK, Walk, bitVars
  <1>6. \A j \in persistent \cup Removed' : j < persistent_count
    BY <1>1, <1>3, <1>4 DEF InFrame
  <1>7. frame = {j \in Live' : j < frame_count /\ key'[j] \in found}
    <2>1. frame = {j \in Live : j < frame_count /\ key[j] \in found}
      BY <1>3 DEF InFrame
    <2> QED
      BY <2>1, <1>1, <1>4
  <1>8. contact_new = Live' \ persistent /\ \A j \in contact_new : key'[j] \in found
    <2>1. contact_new = Live \ persistent /\ \A j \in contact_new : key[j] \in found
      BY <1>3 DEF InFrame
    <2> QED
      BY <2>1, <1>1, <1>4
  <1>9. Bits'
    BY <1>2, <1>3, <1>6, <1>7, <1>8 DEF Bits, InFrame, bitVars
  <1> QED
    BY <1>1, <1>5, <1>9 DEF IInv

\* At the end of a frame every contact was found, and the new ones lie below count_max.
LEMMA UpdateUsageExact ==
    ASSUME IInv, UpdateUsage
    PROVE  persistent' = Live /\ count_max <= persistent_count' /\ persistent_count' \in Nat \ {0}
  <1>1. pc = "drop" /\ Broken = {} /\ InFrame /\ TypeOK /\ Pool
    BY DEF UpdateUsage, IInv, Bits
  <1>2. \A i \in Live : i \in persistent => i \in frame
    <2>1. \A i \in Live : i \in Indices /\ key[i] # NoKey
      BY <1>1, LiveIndices, KeyBodies
    <2> QED
      BY <2>1, <1>1 DEF Broken
  <1>3. \A i \in Live : i \notin persistent => key[i] \in found
    BY <1>1 DEF InFrame
  <1>4. frame = {i \in Live : i < persistent_count /\ key[i] \in found}
    BY <1>1 DEF InFrame
  <1>5. frame = {i \in Live : i < persistent_count}
    BY <1>2, <1>3, <1>4
  <1>t. count_max \in Nat \ {0} /\ persistent_count \in Nat \ {0} /\ length \in Nat /\ count_max <= length
        /\ \A i \in Live : i \in Nat /\ i < count_max /\ i >= 1
    <2>1. count_max \in Nat \ {0} /\ persistent_count \in Nat \ {0} /\ length \in Nat /\ count_max <= length
      BY <1>1, IndexCount DEF TypeOK, Pool
    <2>2. \A i \in Live : i \in 1 .. count_max - 1
      BY DEF Live
    <2> QED
      BY <2>1, <2>2
  <1>6. CASE persistent_count < count_max
    <2>1. persistent' = frame \cup (persistent_count .. count_max - 1) /\ persistent_count' = length
      BY <1>6 DEF UpdateUsage
    <2>2. \A i \in persistent_count .. count_max - 1 : i \in Live
      <3> SUFFICES ASSUME NEW i \in persistent_count .. count_max - 1 PROVE i \in Live
        OBVIOUS
      <3>1. i \notin Removed
        BY <1>1, <1>t DEF InFrame
      <3>2. persistent_count # 0
        BY <1>1 DEF TypeOK
      <3> QED
        BY <3>1, <3>2, <1>t DEF Live
    <2>3. \A i \in Live : i < persistent_count \/ i \in persistent_count .. count_max - 1
      BY <1>t
    <2> QED
      BY <2>1, <2>2, <2>3, <1>5, <1>t
  <1>7. CASE ~ (persistent_count < count_max)
    <2>1. persistent' = frame /\ persistent_count' = persistent_count
      BY <1>7 DEF UpdateUsage
    <2>2. \A i \in Live : i < persistent_count
      BY <1>7, <1>t
    <2> QED
      BY <2>1, <2>2, <1>5, <1>7, <1>t
  <1> QED
    BY <1>6, <1>7

LEMMA UpdateUsageInv ==
    ASSUME IInv, UpdateUsage
    PROVE  IInv'
  <1>1. \A c \in Bodies : ListHead(c)' = ListHead(c)
    BY DEF UpdateUsage, ListHead, netVars
  <1>2. Pool' /\ NetSound' /\ Live' = Live
    BY <1>1, NetUnchanged DEF IInv, UpdateUsage, netVars
  <1>3. persistent' = Live /\ count_max <= persistent_count' /\ persistent_count' \in Nat \ {0}
    BY UpdateUsageExact
  <1>4. TypeOK'
    BY <1>3, LiveIndices DEF IInv, UpdateUsage, TypeOK, netVars, poolVars
  <1>5. Walk'
    BY DEF IInv, UpdateUsage, Walk
  <1>6. Bits'
    BY <1>2, <1>3 DEF UpdateUsage, Bits, Quiet, poolVars
  <1> QED
    BY <1>2, <1>4, <1>5, <1>6 DEF IInv

(***************************************************************************)
(* The theorems.                                                           *)
(***************************************************************************)

LEMMA StepInv == IInv /\ [Next]_vars => IInv'
  <1> SUFFICES ASSUME IInv, [Next]_vars PROVE IInv'
    OBVIOUS
  <1>1. ASSUME NEW b \in Bodies, RemoveBodyStart(b) PROVE IInv'
    BY <1>1, RemoveBodyStartInv
  <1>2. CASE RemoveBodyContact
    BY <1>2, RemoveBodyContactInv
  <1>3. CASE RemoveBodyEnd
    BY <1>3, RemoveBodyEndInv
  <1>4. CASE Flush
    BY <1>4, FlushInv
  <1>5. CASE BeginFrame
    BY <1>5, BeginFrameInv
  <1>6. ASSUME NEW k \in Keys, AddContact(k) PROVE IInv'
    BY <1>6, AddContactInv
  <1>7. CASE AllFound
    BY <1>7, AllFoundInv
  <1>8. CASE RemoveContact
    BY <1>8, RemoveContactInv
  <1>9. CASE UpdateUsage
    BY <1>9, UpdateUsageInv
  <1>10. CASE UNCHANGED vars
    <2>1. /\ UNCHANGED <<key, nll_next, nll_prev, contact_map, first>>
          /\ UNCHANGED <<free, count_max, length, walk, pc>>
          /\ UNCHANGED <<bitVars, contact_new, found>>
      BY <1>10 DEF vars, netVars, poolVars
    <2>2. \A b \in Bodies : ListHead(b)' = ListHead(b)
      BY <2>1 DEF ListHead
    <2>3. Pool' /\ NetSound' /\ Live' = Live /\ Removed' = Removed
      BY <2>1, <2>2, NetUnchanged DEF IInv, poolVars
    <2>4. TypeOK' /\ Walk'
      BY <2>1 DEF IInv, TypeOK, Walk, bitVars
    <2>5. Bits'
      BY <2>1, <2>3 DEF IInv, Bits, Quiet, InFrame, bitVars
    <2> QED
      BY <2>3, <2>4, <2>5 DEF IInv
  <1> QED
    BY <1>1, <1>2, <1>3, <1>4, <1>5, <1>6, <1>7, <1>8, <1>9, <1>10 DEF Next

\* The inductive invariant holds.
THEOREM InvariantHolds == Spec => []IInv
  BY InitInv, StepInv, PTL DEF Spec

\* The lists of contact_database.c and its map always name exactly the contacts, each
\* list whole from first_contact_index on, though a node is unlinked through the sides
\* of its neighbours and its index is used again.
THEOREM NetSoundTheorem == Spec => []NetSound
  <1>1. IInv => NetSound
    BY DEF IInv
  <1> QED
    BY <1>1, InvariantHolds, PTL

\* Between frames contacts_persistent_usage has the bits of the contacts and no other,
\* and a bit for every slot in use.
THEOREM UsageExactTheorem == Spec => []UsageExact
  <1>1. IInv => UsageExact
    BY DEF IInv, UsageExact, Bits, Quiet
  <1> QED
    BY <1>1, InvariantHolds, PTL

\* Dropping a contact that the frame has not found, or outside of a frame, drops its pair.
LEMMA DropPair ==
    ASSUME TypeOK, Pool, MapAgrees, NEW i \in Live, Live' = Live \ {i},
           \A j \in Live \ {i} : key'[j] = key[j],
           i \in persistent, persistent' \in {persistent, persistent \ {i}},
           contact_new \subseteq Live \ persistent, UNCHANGED <<contact_new, found>>, key[i] \notin found
    PROVE  \E c \in Keys : Set!Drop(c)
  <1>1. key[i] \in Keys /\ \A j \in Live : key[j] = key[i] => j = i
    BY LiveIndices DEF MapAgrees
  <1>2. key[i] \in KeysOf(Live \cap persistent)
    BY DEF KeysOf
  <1>3. KeysOf(Live)' = KeysOf(Live) \ {key[i]}
    BY <1>1 DEF KeysOf
  <1>4. KeysOf(Live \cap persistent)' = KeysOf(Live \cap persistent) \ {key[i]}
    <2>1. (Live \cap persistent)' = (Live \cap persistent) \ {i}
      OBVIOUS
    <2> QED
      BY <1>1, <2>1 DEF KeysOf
  <1>5. KeysOf(contact_new)' = KeysOf(contact_new)
    BY DEF KeysOf
  <1>6. Set!Drop(key[i])
    BY <1>2, <1>3, <1>4, <1>5 DEF Set!Drop
  <1> QED
    BY <1>1, <1>6

\* A frame's contact finds its pair, and reports it if it was not there before.
LEMMA AddContactFinds ==
    ASSUME IInv, NEW k \in Keys, AddContact(k)
    PROVE  Set!Find(k)
  <1>1. PICK i \in Indices :
             /\ i \in Live' /\ key'[i] = k /\ Live' = Live \cup {i}
             /\ \A j \in Live : key'[j] = key[j]
             /\ \A j \in Live : key[j] = k => j = i
             /\ i \in persistent => i \in Live
             /\ frame' = IF i < frame_count THEN frame \cup {i} ELSE frame
             /\ contact_new' = IF i >= persistent_count \/ i \notin persistent THEN contact_new \cup {i} ELSE contact_new
             /\ NetTypeOK' /\ Pool' /\ NetSound' /\ Removed' \subseteq Removed
    BY AddContactSound
  <1>2. pc = "push" /\ k \notin found /\ found' = found \cup {k} /\ UNCHANGED persistent
    BY DEF AddContact
  <1>3. InFrame /\ TypeOK
    BY <1>2 DEF IInv, Bits
  <1>4. KeysOf(Live)' = KeysOf(Live) \cup {k}
    BY <1>1 DEF KeysOf
  <1>5. KeysOf(Live \cap persistent)' = KeysOf(Live \cap persistent)
    <2>1. (Live \cap persistent)' = Live \cap persistent
      BY <1>1, <1>2
    <2> QED
      BY <1>1, <2>1 DEF KeysOf
  <1>6. contact_new' = IF i \notin persistent THEN contact_new \cup {i} ELSE contact_new
    BY <1>1, <1>3 DEF InFrame, TypeOK, Indices
  <1>7. k \in KeysOf(Live \cap persistent) <=> i \in persistent
    BY <1>1 DEF KeysOf
  <1>8. KeysOf(contact_new)' = IF i \notin persistent THEN KeysOf(contact_new) \cup {k} ELSE KeysOf(contact_new)
    <2>1. contact_new \subseteq Live
      BY <1>3 DEF InFrame
    <2> QED
      BY <2>1, <1>1, <1>6 DEF KeysOf
  <1> QED
    BY <1>2, <1>4, <1>5, <1>7, <1>8 DEF Set!Find

LEMMA StepImplements == IInv /\ IInv' /\ [Next]_vars => [Set!Next]_(Set!vars)
  <1> SUFFICES ASSUME IInv, IInv', [Next]_vars PROVE [Set!Next]_(Set!vars)
    OBVIOUS
  <1>m. TypeOK /\ Pool /\ NetSound /\ MapAgrees
    BY DEF IInv, NetSound
  <1>s. ASSUME UNCHANGED <<key, free, count_max, persistent, contact_new, found>>
        PROVE  UNCHANGED Set!vars
    <2>1. Live' = Live
      BY <1>s DEF Live, Removed
    <2> QED
      BY <1>s, <2>1 DEF Set!vars, KeysOf
  <1>1. ASSUME NEW b \in Bodies, RemoveBodyStart(b) PROVE UNCHANGED Set!vars
    BY <1>1, <1>s DEF RemoveBodyStart, poolVars, bitVars
  <1>2. CASE RemoveBodyContact
    <2>1. /\ pc = "walk" /\ walk[2] # NLL_NULL
          /\ persistent' = persistent \ {walk[2]}
          /\ Unlink(walk[2]) /\ PoolRemove(walk[2]) /\ UNCHANGED <<contact_new, found>>
      BY <1>2 DEF RemoveBodyContact
    <2>2. walk[2] \in Live
      BY <2>1, WalkAtContact
    <2>3. Live' = Live \ {walk[2]}
      BY <2>1, <2>2, <1>m, PoolRemoveSound
    <2>4. \A j \in Live \ {walk[2]} : key'[j] = key[j]
      BY <2>1, <1>m, LiveIndices DEF Unlink, TypeOK
    <2>5. persistent = Live /\ found = {} /\ contact_new = {}
      BY <2>1 DEF IInv, Bits, Quiet
    <2>6. \E c \in Keys : Set!Drop(c)
      BY <2>1, <2>2, <2>3, <2>4, <2>5, <1>m, DropPair
    <2> QED
      BY <2>6 DEF Set!Next
  <1>3. CASE RemoveBodyEnd
    BY <1>3, <1>s DEF RemoveBodyEnd, netVars, poolVars, bitVars
  <1>4. CASE Flush
    <2>1. persistent = Live /\ found = {} /\ contact_new = {}
      BY <1>4 DEF Flush, IInv, Bits, Quiet
    <2>2. persistent' = {} /\ found' = {} /\ contact_new' = {} /\ count_max' = 1
      BY <1>4, <2>1 DEF Flush
    <2>3. Live' = {}
      BY <2>2 DEF Live
    <2>4. Set!Flush
      BY <2>1, <2>2, <2>3 DEF Set!Flush, KeysOf
    <2> QED
      BY <2>4 DEF Set!Next
  <1>5. CASE BeginFrame
    BY <1>5, <1>s DEF BeginFrame, netVars, poolVars
  <1>6. ASSUME NEW k \in Keys, AddContact(k) PROVE Set!Next
    BY <1>6, AddContactFinds DEF Set!Next
  <1>7. CASE AllFound
    BY <1>7, <1>s DEF AllFound, netVars, poolVars, bitVars
  <1>8. CASE RemoveContact
    <2>1. PICK i \in Broken : Live' = Live \ {i} /\ \A j \in Live \ {i} : key'[j] = key[j]
      BY <1>8, RemoveContactSound
    <2>2. pc = "drop" /\ UNCHANGED <<persistent, contact_new, found>>
      BY <1>8 DEF RemoveContact, bitVars
    <2>3. i \in Live /\ i \in persistent /\ i \notin frame
      BY BrokenIsLive
    <2>4. InFrame
      BY <2>2 DEF IInv, Bits
    <2>5. key[i] \notin found /\ contact_new \subseteq Live \ persistent
      BY <2>3, <2>4 DEF InFrame
    <2>6. \E c \in Keys : Set!Drop(c)
      BY <2>1, <2>2, <2>3, <2>5, <1>m, DropPair
    <2> QED
      BY <2>6 DEF Set!Next
  <1>9. CASE UpdateUsage
    <2>1. persistent' = Live /\ found' = {} /\ contact_new' = {} /\ pc = "drop" /\ Broken = {}
          /\ UNCHANGED <<key, free, count_max>>
      BY <1>9, UpdateUsageExact DEF UpdateUsage, netVars, poolVars
    <2>2. Live' = Live
      BY <2>1 DEF Live, Removed
    <2>3. InFrame
      BY <2>1 DEF IInv, Bits
    <2>4. \A i \in Live \cap persistent : key[i] \in found
      <3>1. \A i \in Live : i \in Indices /\ key[i] # NoKey
        BY <1>m, LiveIndices, KeyBodies
      <3>2. \A i \in Live \cap persistent : i \in frame
        BY <3>1, <2>1 DEF Broken
      <3> QED
        BY <3>2, <2>3 DEF InFrame
    <2>5. Set!EndFrame
      BY <2>1, <2>2, <2>4 DEF Set!EndFrame, KeysOf
    <2> QED
      BY <2>5 DEF Set!Next
  <1>10. CASE UNCHANGED vars
    BY <1>10, <1>s DEF vars, netVars, poolVars, bitVars
  <1> QED
    BY <1>1, <1>2, <1>3, <1>4, <1>5, <1>6, <1>7, <1>8, <1>9, <1>10 DEF Next

\* The database implements ContactSet: every step finds or drops a pair, ends the frame,
\* flushes, or changes nothing the islands can see.
THEOREM ImplementsSetTheorem == Spec => ImplementsSet
  <1>1. Init => Set!Init
    <2> SUFFICES ASSUME Init PROVE Set!Init
      OBVIOUS
    <2>1. Live = {} /\ contact_new = {} /\ found = {}
      BY DEF Init, Live
    <2> QED
      BY <2>1 DEF Set!Init, KeysOf
  <1>2. Spec => [][Set!Next]_(Set!vars)
    BY StepImplements, InvariantHolds, PTL DEF Spec
  <1> QED
    BY <1>1, <1>2, PTL DEF Spec, ImplementsSet, Set!Spec

===============================================================================
