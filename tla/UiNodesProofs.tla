---------------------------- MODULE UiNodesProofs ----------------------------
(***************************************************************************)
(* The node cache of the interface library, for any identifiers, any       *)
(* number of slots and trees of any shape.                                 *)
(***************************************************************************)
EXTENDS UiNodes, FiniteSetTheorems, SequenceTheorems, WellFoundedInduction, TLAPS

-----------------------------------------------------------------------------
(* Numbers and sequences.                                                   *)

LEMMA SmallestNumber ==
    ASSUME NEW T, T \subseteq Nat, T # {}
    PROVE  \E n \in T : \A m \in T : n <= m
<1>1. PICK n \in T : \A m \in T : <<m, n>> \notin OpToRel(<, Nat)
  BY NatLessThanWellFounded, WFMin
<1>2. \A m \in T : ~ (m < n)
  BY <1>1 DEF OpToRel
<1> QED BY <1>2

\* What holds of 0 and is kept by every step holds up to C.
LEMMA UpTo ==
    ASSUME NEW C \in Nat, NEW G, 0 \in G, \A k \in 1..C : k - 1 \in G => k \in G
    PROVE  \A k \in 0..C : k \in G
<1> DEFINE T == {k \in 0..C : k \notin G}
<1> SUFFICES ASSUME T # {} PROVE FALSE
  OBVIOUS
<1>1. T \subseteq Nat
  OBVIOUS
<1>2. PICK m \in T : \A j \in T : m <= j
  <2> HIDE DEF T
  <2> QED BY <1>1, SmallestNumber
<1>3. m # 0 /\ m \in 1..C /\ m - 1 \in 0..C /\ m - 1 \notin T
  BY <1>2
<1> QED BY <1>2, <1>3

Taken(f, step, start, C) == f[0] = start /\ \A k \in 1..C : f[k] = step[f[k - 1]]

\* A value can be taken through any number of steps.
LEMMA Recursion ==
    ASSUME NEW S, NEW step \in [S -> S], NEW start \in S, NEW C \in Nat
    PROVE  \E f \in [0..C -> S] : Taken(f, step, start, C)
<1> USE DEF Taken
<1> DEFINE Runs(m) == \E f \in [0..m -> S] : Taken(f, step, start, m)
           T == {m \in Nat : ~Runs(m)}
<1>1. Runs(0)
  <2> DEFINE f == [k \in 0..0 |-> start]
  <2>1. f \in [0..0 -> S] /\ f[0] = start /\ \A k \in 1..0 : f[k] = step[f[k - 1]]
    OBVIOUS
  <2> QED BY <2>1
<1>2. ASSUME NEW m \in Nat \ {0}, Runs(m - 1) PROVE Runs(m)
  <2>1. m - 1 \in Nat
    OBVIOUS
  <2>2. PICK f \in [0..(m - 1) -> S] : f[0] = start /\ \A k \in 1..(m - 1) : f[k] = step[f[k - 1]]
    BY <1>2
  <2> DEFINE g == [k \in 0..m |-> IF k = m THEN step[f[m - 1]] ELSE f[k]]
  <2>3. g \in [0..m -> S] /\ g[0] = start
    BY <2>1, <2>2
  <2>4. ASSUME NEW k \in 1..m PROVE g[k] = step[g[k - 1]]
    BY <2>1, <2>2
  <2> QED BY <2>3, <2>4
<1>3. T \subseteq Nat /\ \A m \in Nat : m \in T <=> ~Runs(m)
  OBVIOUS
<1> HIDE DEF T, Runs
<1>4. SUFFICES ASSUME T # {} PROVE FALSE
  <2>1. T = {} => Runs(C)
    BY <1>3
  <2> QED BY <1>4, <2>1 DEF Runs
<1>5. PICK m \in T : \A j \in T : m <= j
  BY <1>3, <1>4, SmallestNumber
<1>6. m \in Nat \ {0} /\ m - 1 \in Nat /\ m - 1 \notin T
  BY <1>1, <1>3, <1>5
<1> QED BY <1>2, <1>3, <1>5, <1>6

-----------------------------------------------------------------------------
(* What hangs below a node, and its children.                               *)

Reaching(h, n, C, f) ==
    /\ Below(h, n) = f[C]
    /\ f[0] = {h[n].first} \ {0}
    /\ \A k \in 1..C : \A x :
          x \in f[k] <=> \/ x \in f[k - 1]
                         \/ x # 0 /\ \E i \in f[k - 1] : x = h[i].first \/ x = h[i].next

\* The nodes below n are reached in steps.
LEMMA BelowReached ==
    ASSUME NEW D, NEW C \in Nat, Cardinality(D) = C, NEW h \in [D -> LinksIn(D)], NEW n \in D
    PROVE  \E f \in [0..C -> SUBSET D] : Reaching(h, n, C, f)
<1> DEFINE S == SUBSET D
           start == {h[n].first} \ {0}
           From(r) == r \cup ((UNION {{h[i].first, h[i].next} : i \in r}) \ {0})
           step == [r \in S |-> From(r)]
           Is(g) == g = [k \in 0..C |-> IF k = 0 THEN start ELSE From(g[k - 1])]
           f == CHOOSE g : Is(g)
<1>1. start \in S
  BY DEF LinksIn
<1>2. \A r \in S : From(r) \in S
  BY DEF LinksIn
<1>a. ASSUME NEW r, NEW x
      PROVE  x \in From(r) <=> \/ x \in r
                               \/ x # 0 /\ \E i \in r : x = h[i].first \/ x = h[i].next
  <2>1. x \in UNION {{h[i].first, h[i].next} : i \in r} <=> \E i \in r : x \in {h[i].first, h[i].next}
    OBVIOUS
  <2>2. x \in From(r) <=> \/ x \in r
                          \/ x \in UNION {{h[i].first, h[i].next} : i \in r} /\ x # 0
    <3> DEFINE U == UNION {{h[i].first, h[i].next} : i \in r}
    <3>1. From(r) = r \cup (U \ {0})
      OBVIOUS
    <3> HIDE DEF U, From
    <3> QED BY <3>1 DEF U
  <2>3. \A i : x \in {h[i].first, h[i].next} <=> x = h[i].first \/ x = h[i].next
    OBVIOUS
  <2> HIDE DEF From
  <2> QED BY <2>1, <2>2, <2>3
<1> HIDE DEF start, From, S
<1>3. \E g : Is(g)
  <2>1. PICK g \in [0..C -> S] : g[0] = start /\ \A k \in 1..C : g[k] = step[g[k - 1]]
    <3>1. step \in [S -> S]
      BY <1>2
    <3> HIDE DEF step
    <3>2. \E g \in [0..C -> S] : Taken(g, step, start, C)
      BY <1>1, <3>1, Recursion
    <3> QED BY <3>2 DEF Taken
  <2>2. ASSUME NEW k \in 0..C PROVE g[k] = IF k = 0 THEN start ELSE From(g[k - 1])
    <3>1. CASE k = 0
      BY <2>1, <3>1
    <3>2. CASE k # 0
      <4>1. k \in 1..C /\ k - 1 \in 0..C /\ g[k - 1] \in S
        BY <2>1, <3>2
      <4>2. step[g[k - 1]] = From(g[k - 1])
        BY <4>1
      <4> QED BY <2>1, <3>2, <4>1, <4>2
    <3> QED BY <3>1, <3>2
  <2> QED BY <2>1, <2>2
<1>4. Is(f)
  <2> HIDE DEF Is
  <2> QED BY <1>3
<1>5. Below(h, n) = f[C]
  BY DEF Below, HI_NULL_INDEX, start, From
<1> HIDE DEF f
<1>6. f[0] = start /\ \A k \in 1..C : f[k] = From(f[k - 1])
  BY <1>4
<1>7. \A k \in 0..C : f[k] \in S
  <2> DEFINE G == {k \in 0..C : f[k] \in S}
  <2>1. 0 \in G
    BY <1>1, <1>6
  <2>2. \A k \in 1..C : k - 1 \in G => k \in G
    BY <1>2, <1>6
  <2>3. \A k \in 0..C : k \in G
    <3> HIDE DEF G
    <3> QED BY <2>1, <2>2, UpTo
  <2> QED BY <2>3
<1>8. f \in [0..C -> S]
  BY <1>4, <1>7
<1>9. \A k \in 1..C : \A x :
         x \in f[k] <=> \/ x \in f[k - 1]
                        \/ x # 0 /\ \E i \in f[k - 1] : x = h[i].first \/ x = h[i].next
  <2> SUFFICES ASSUME NEW k \in 1..C, NEW x
               PROVE  x \in f[k] <=> \/ x \in f[k - 1]
                                     \/ x # 0 /\ \E i \in f[k - 1] : x = h[i].first \/ x = h[i].next
    OBVIOUS
  <2>1. f[k] = From(f[k - 1])
    BY <1>6
  <2> QED BY <2>1, <1>a
<1> QED BY <1>5, <1>6, <1>8, <1>9 DEF start, S, Reaching

After(h, n, s) == IF s = <<>> THEN h[n].first ELSE h[s[Len(s)]].next

Listing(h, n, C, f) ==
    /\ Children(h, n) = f[C]
    /\ f[0] = <<>>
    /\ \A k \in 1..C : f[k] = IF After(h, n, f[k - 1]) = 0 THEN f[k - 1]
                              ELSE Append(f[k - 1], After(h, n, f[k - 1]))

\* The children of n are listed in steps.
LEMMA ChildrenTaken ==
    ASSUME NEW D, NEW C \in Nat, Cardinality(D) = C, NEW h \in [D -> LinksIn(D)], NEW n \in D
    PROVE  \E f \in [0..C -> Seq(D)] : Listing(h, n, C, f)
<1> DEFINE S == Seq(D)
           From(s) == IF After(h, n, s) = 0 THEN s ELSE Append(s, After(h, n, s))
           step == [s \in S |-> From(s)]
           Is(g) == g = [k \in 0..C |-> IF k = 0 THEN <<>> ELSE step[g[k - 1]]]
           f == CHOOSE g : Is(g)
<1>1. <<>> \in S
  OBVIOUS
<1>2. \A s \in S : From(s) \in S
  <2> SUFFICES ASSUME NEW s \in S PROVE After(h, n, s) \in D
    OBVIOUS
  <2>1. s # <<>> => s[Len(s)] \in D
    OBVIOUS
  <2> QED BY <2>1 DEF LinksIn, After
<1>3. Children(h, n) = f[C]
  <2>1. DOMAIN h = D
    OBVIOUS
  <2> QED BY <2>1 DEF Children, HI_NULL_INDEX, After
<1> HIDE DEF From, S
<1>4. step \in [S -> S] /\ \A s \in S : step[s] = From(s)
  BY <1>2
<1> HIDE DEF step
<1>5. \E g : Is(g)
  <2>1. \E g \in [0..C -> S] : Taken(g, step, <<>>, C)
    BY <1>1, <1>4, Recursion
  <2>2. PICK g \in [0..C -> S] : g[0] = <<>> /\ \A k \in 1..C : g[k] = step[g[k - 1]]
    BY <2>1 DEF Taken
  <2>3. ASSUME NEW k \in 0..C PROVE g[k] = IF k = 0 THEN <<>> ELSE step[g[k - 1]]
    BY <2>2
  <2> QED BY <2>2, <2>3
<1>6. Is(f)
  <2> HIDE DEF Is
  <2> QED BY <1>5
<1> HIDE DEF f
<1>7. f[0] = <<>> /\ \A k \in 1..C : f[k] = step[f[k - 1]]
  BY <1>6
<1>8. \A k \in 0..C : f[k] \in S
  <2> DEFINE G == {k \in 0..C : f[k] \in S}
  <2>1. 0 \in G
    BY <1>1, <1>7
  <2>2. \A k \in 1..C : k - 1 \in G => k \in G
    BY <1>4, <1>7
  <2>3. \A k \in 0..C : k \in G
    <3> HIDE DEF G
    <3> QED BY <2>1, <2>2, UpTo
  <2> QED BY <2>3
<1>9. f \in [0..C -> S]
  BY <1>6, <1>8
<1>10. \A k \in 1..C : f[k] = From(f[k - 1])
  BY <1>4, <1>7, <1>8
<1> QED BY <1>3, <1>7, <1>9, <1>10 DEF From, S, Listing

\* A sequence that lists the children of n is the one found.
LEMMA ChildrenListed ==
    ASSUME NEW D, IsFiniteSet(D), NEW h \in [D -> LinksIn(D)], NEW n \in D,
           NEW s \in Seq(D), Listed(h, n, s)
    PROVE  Children(h, n) = s
<1> DEFINE C == Cardinality(D)
<1>1. C \in Nat
  BY FS_CardinalityType
<1>2. Len(s) <= C
  <2> DEFINE L == Len(s)
  <2>1. L \in Nat /\ DOMAIN s = 1..L /\ s \in [1..L -> D]
    OBVIOUS
  <2>2. s \in Injection(1..L, D)
    <3>1. \A j, k \in 1..L : s[j] = s[k] => j = k
      BY <2>1 DEF Listed
    <3> HIDE DEF L
    <3> QED BY <2>1, <3>1 DEF Injection, IsInjective
  <2> HIDE DEF L
  <2>3. Cardinality(1..L) = IF 1 > L THEN 0 ELSE L - 1 + 1
    BY <2>1, FS_Interval
  <2>4. Cardinality(1..L) = L
    BY <2>1, <2>3
  <2>5. Cardinality(1..L) <= Cardinality(D)
    BY <2>2, FS_Injection
  <2> QED BY <2>4, <2>5 DEF L
<1> HIDE DEF C
<1>3. PICK f \in [0..C -> Seq(D)] : Listing(h, n, C, f)
  BY <1>1, ChildrenTaken DEF C
<1> DEFINE G == {k \in 0..C : /\ Len(f[k]) = IF k <= Len(s) THEN k ELSE Len(s)
                              /\ \A j \in 1..Len(f[k]) : f[k][j] = s[j]}
<1>4. 0 \in G
  BY <1>1, <1>3 DEF Listing
<1>5. ASSUME NEW k \in 1..C, k - 1 \in G PROVE k \in G
  <2> DEFINE t == f[k - 1]
             i == After(h, n, t)
  <2>1. /\ k - 1 \in 0..C /\ t \in Seq(D)
        /\ Len(t) = IF k - 1 <= Len(s) THEN k - 1 ELSE Len(s)
        /\ \A j \in 1..Len(t) : t[j] = s[j]
        /\ f[k] = IF i = 0 THEN t ELSE Append(t, i)
    BY <1>3, <1>5 DEF Listing
  <2>2. i = IF Len(t) = Len(s) THEN 0 ELSE s[Len(t) + 1]
    <3>1. CASE t = <<>>
      <4>1. Len(t) = 0 /\ (s = <<>> <=> Len(s) = 0)
        BY <3>1
      <4> QED BY <3>1, <4>1 DEF Listed, HI_NULL_INDEX, After
    <3>2. CASE t # <<>>
      <4>1. Len(t) \in 1..Len(s) /\ t[Len(t)] = s[Len(t)]
        BY <2>1, <3>2
      <4> QED BY <3>2, <4>1 DEF Listed, HI_NULL_INDEX, After
    <3> QED BY <3>1, <3>2
  <2> HIDE DEF t, i
  <2>3. CASE Len(t) = Len(s)
    <3>1. f[k] = t
      BY <2>1, <2>2, <2>3
    <3> QED BY <1>1, <2>1, <2>3, <3>1
  <2>4. CASE Len(t) # Len(s)
    <3>0. Len(s) \in Nat
      OBVIOUS
    <3>1. Len(t) = k - 1 /\ k \in 1..Len(s)
      BY <1>1, <2>1, <2>4, <3>0
    <3>2. s[k] \in D \ {0}
      BY <3>1 DEF Listed, HI_NULL_INDEX
    <3>3. i = s[k] /\ f[k] = Append(t, s[k])
      BY <2>1, <2>2, <2>4, <3>1, <3>2
    <3>4. Len(f[k]) = k /\ \A j \in 1..k : f[k][j] = s[j]
      BY <2>1, <3>1, <3>3
    <3> QED BY <1>1, <3>1, <3>4
  <2> QED BY <2>3, <2>4
<1>6. C \in G
  <2>1. \A k \in 0..C : k \in G
    <3> HIDE DEF G
    <3> QED BY <1>1, <1>4, <1>5, UpTo
  <2> QED BY <1>1, <2>1
<1>7. f[C] \in Seq(D) /\ Len(f[C]) = Len(s) /\ \A j \in 1..Len(s) : f[C][j] = s[j]
  BY <1>1, <1>2, <1>3, <1>6
<1>8. f[C] = s
  BY <1>7
<1> QED BY <1>3, <1>8 DEF Listing

\* Below the stub of a forest lie its nodes.
LEMMA BelowForest ==
    ASSUME NEW D, IsFiniteSet(D), 0 \in D, NEW h \in [D -> LinksIn(D)], NEW r \in D \ {0},
           NEW S \in SUBSET (D \ {0, r}), Forest(h, S, r)
    PROVE  Below(h, r) = S
<1> DEFINE C == Cardinality(D)
<1>1. C \in Nat
  BY FS_CardinalityType
<1> HIDE DEF C
<1>2. PICK f \in [0..C -> SUBSET D] : Reaching(h, r, C, f)
  BY <1>1, BelowReached DEF C
<1> USE DEF Reaching
<1>3. \A i \in S : h[i].first \in S \cup {0} /\ h[i].next \in S \cup {0}
  BY DEF Forest, WellLinked, HI_NULL_INDEX
<1>4. h[r].first \in S \cup {0}
  BY DEF Forest, WellLinked, HI_NULL_INDEX
<1>5. \A k \in 0..C : f[k] \subseteq S
  <2> DEFINE G == {k \in 0..C : f[k] \subseteq S}
  <2>1. 0 \in G
    BY <1>1, <1>2, <1>4
  <2>2. \A k \in 1..C : k - 1 \in G => k \in G
    BY <1>2, <1>3
  <2>3. \A k \in 0..C : k \in G
    <3> HIDE DEF G
    <3> QED BY <1>1, <2>1, <2>2, UpTo
  <2> QED BY <2>3
\* A step that reaches no other node is the last: there is one before every node was reached.
<1> DEFINE Closed(k) == \A i \in f[k] : h[i].first \in f[k] \cup {0} /\ h[i].next \in f[k] \cup {0}
<1>6. Closed(C)
  <2> DEFINE G == {k \in 0..C : Closed(k) \/ Cardinality(f[k]) >= k}
  <2>0. \A k \in 0..C : IsFiniteSet(f[k]) /\ Cardinality(f[k]) \in Nat
    BY <1>2, FS_Subset, FS_CardinalityType
  <2>1. 0 \in G
    BY <1>1, <2>0
  <2>2. ASSUME NEW k \in 1..C, k - 1 \in G PROVE k \in G
    <3>0. k - 1 \in 0..C
      BY <1>1
    <3>1. /\ \A x : x \in f[k] <=>
                       \/ x \in f[k - 1]
                       \/ x # 0 /\ \E i \in f[k - 1] : x = h[i].first \/ x = h[i].next
      BY <1>2
    <3>2. CASE Closed(k - 1)
      <4>0. \A x : x \in f[k] <=> x \in f[k - 1]
        BY <3>1, <3>2
      <4>1. f[k] = f[k - 1]
        BY <4>0, Zenon
      <4> QED BY <3>2, <4>1
    <3>3. CASE ~Closed(k - 1)
      <4>1. Cardinality(f[k - 1]) >= k - 1
        BY <2>2, <3>3
      <4>2. f[k - 1] \subseteq f[k] /\ f[k - 1] # f[k]
        BY <3>1, <3>3
      <4>3. Cardinality(f[k - 1]) <= Cardinality(f[k]) /\ Cardinality(f[k - 1]) # Cardinality(f[k])
        BY <2>0, <4>2, FS_Subset
      <4>4. Cardinality(f[k - 1]) \in Nat /\ Cardinality(f[k]) \in Nat
        BY <2>0, <3>0
      <4>5. Cardinality(f[k]) >= k
        BY <4>1, <4>3, <4>4
      <4> QED BY <4>5
    <3> QED BY <3>2, <3>3
  <2>3. C \in 0..C /\ C \in G
    <3>1. \A k \in 0..C : k \in G
      <4> HIDE DEF G
      <4> QED BY <1>1, <2>1, <2>2, UpTo
    <3> QED BY <1>1, <3>1
  <2>4. Cardinality(f[C]) < C
    <3>1. f[C] \subseteq D \ {0}
      BY <1>5, <2>3
    <3>2. IsFiniteSet(D \ {0}) /\ Cardinality(D \ {0}) = C - 1
      BY FS_RemoveElement DEF C
    <3>3. Cardinality(f[C]) <= C - 1 /\ Cardinality(f[C]) \in Nat
      BY <2>0, <2>3, <3>1, <3>2, FS_Subset
    <3> QED BY <1>1, <3>3
  <2>5. Cardinality(f[C]) \in Nat
    BY <2>0, <2>3
  <2> QED BY <1>1, <2>3, <2>4, <2>5
<1>7. {h[r].first} \ {0} \subseteq f[C]
  <2> DEFINE G == {k \in 0..C : {h[r].first} \ {0} \subseteq f[k]}
  <2>1. 0 \in G
    BY <1>1, <1>2
  <2>2. \A k \in 1..C : k - 1 \in G => k \in G
    BY <1>2
  <2>3. \A k \in 0..C : k \in G
    <3> HIDE DEF G
    <3> QED BY <1>1, <2>1, <2>2, UpTo
  <2> QED BY <1>1, <2>3
<1> DEFINE R == f[C]
<1>8. R \subseteq S
  BY <1>1, <1>5
<1>9. \A i \in R : h[i].first \in R \cup {0} /\ h[i].next \in R \cup {0}
  BY <1>6
<1>10. h[r].first \in R \cup {0}
  BY <1>7
<1> HIDE DEF R, Closed
<1>11. S \ R = {}
  <2> SUFFICES ASSUME S \ R # {} PROVE FALSE
    OBVIOUS
  <2>1. PICK i \in S \ R : Ref(h, i) \notin S \ R
    BY DEF Forest, Rooted
  <2>2. CASE h[i].prev # 0
    <3>1. h[i].prev \in R /\ h[h[i].prev].next = i
      BY <2>1, <2>2 DEF Forest, WellLinked, Ref, HI_NULL_INDEX
    <3> QED BY <1>9, <2>1, <3>1
  <2>3. CASE h[i].prev = 0
    <3>1. h[i].parent \in R \cup {r} /\ h[h[i].parent].first = i
      BY <2>1, <2>3 DEF Forest, WellLinked, Ref, HI_NULL_INDEX
    <3> QED BY <1>9, <1>10, <2>1, <3>1
  <2> QED BY <2>2, <2>3
<1>12. R = S
  BY <1>8, <1>11
<1> QED BY <1>2, <1>12 DEF R

-----------------------------------------------------------------------------
(* The operations on a forest.                                              *)

\* A forest is one of the links of its nodes and the children of its stub.
LEMMA ForestFrame ==
    ASSUME NEW h, NEW g, NEW S, NEW r, Forest(h, S, r),
           \A i \in S : g[i] = h[i],
           g[r].first = h[r].first, g[r].last = h[r].last
    PROVE  Forest(g, S, r)
<1>1. WellLinked(g, S, r)
  BY DEF Forest, WellLinked, HI_NULL_INDEX
<1>2. Rooted(g, S)
  BY DEF Forest, Rooted, Ref, HI_NULL_INDEX
<1> QED BY <1>1, <1>2 DEF Forest

\* Every link but the ones at the end of the children of p stays.
Appended(D, h, n, p, x, g) ==
    LET l == h[p].last
    IN  /\ g \in [D -> LinksIn(D)]
        /\ g[n].parent = p /\ g[n].prev = l /\ g[n].next = 0
        /\ g[n].first = x.first /\ g[n].last = x.last
        /\ \A i \in D \ {n} :
              /\ g[i].parent = h[i].parent /\ g[i].prev = h[i].prev
              /\ g[i].next = IF i = l /\ l # 0 THEN n ELSE h[i].next
              /\ g[i].first = IF i = p /\ l = 0 THEN n ELSE h[i].first
              /\ g[i].last = IF i = p THEN n ELSE h[i].last
              /\ i \notin {p, l} => g[i] = h[i]

LEMMA AppendLinks ==
    ASSUME NEW D, 0 \in D, NEW h \in [D -> LinksIn(D)], NEW n \in D, NEW p \in D \ {n},
           NEW x \in LinksIn(D), h[p].last # n
    PROVE  Appended(D, h, n, p, x, AppendChild(h, n, p, x))
<1> DEFINE l == h[p].last
           g == AppendChild(h, n, p, x)
<1>2. l \in D \ {n}
  BY DEF LinksIn
<1> HIDE DEF l
<1>3. g = [h EXCEPT ![n] = [x EXCEPT !.parent = p, !.prev = l, !.next = 0],
                  ![p].child_count = @ + 1,
                  ![p].first = IF l = 0 THEN n ELSE @,
                  ![p].last = n,
                  ![l].next = IF l = 0 THEN @ ELSE n]
  BY DEF AppendChild, HI_NULL_INDEX, l
<1> HIDE DEF g
<1>4. g \in [D -> LinksIn(D)]
  BY <1>2, <1>3 DEF LinksIn
<1>5. /\ g[n].parent = p /\ g[n].prev = l /\ g[n].next = 0
      /\ g[n].first = x.first /\ g[n].last = x.last
  BY <1>2, <1>3 DEF LinksIn
<1>6. ASSUME NEW i \in D \ {n}
      PROVE  g[i].parent = h[i].parent /\ g[i].prev = h[i].prev
  BY <1>2, <1>3 DEF LinksIn
<1>7. ASSUME NEW i \in D \ {n}
      PROVE  g[i].next = IF i = l /\ l # 0 THEN n ELSE h[i].next
  BY <1>2, <1>3 DEF LinksIn
<1>8. ASSUME NEW i \in D \ {n}
      PROVE  g[i].first = IF i = p /\ l = 0 THEN n ELSE h[i].first
  BY <1>2, <1>3 DEF LinksIn
<1>9. ASSUME NEW i \in D \ {n}
      PROVE  g[i].last = IF i = p THEN n ELSE h[i].last
  BY <1>2, <1>3 DEF LinksIn
<1>10. ASSUME NEW i \in D \ {n, p, l}
      PROVE  g[i] = h[i]
  BY <1>2, <1>3 DEF LinksIn
<1> QED BY <1>4, <1>5, <1>6, <1>7, <1>8, <1>9, <1>10 DEF l, g, Appended

\* A node without children that is put below another extends the forest, and
\* no link outside it changes.
Extended(D, h, S, r, n, g) ==
    /\ g \in [D -> LinksIn(D)]
    /\ Forest(g, S \cup {n}, r)
    /\ \A i \in D \ (S \cup {n, 0, r}) : g[i] = h[i]
    /\ \A i \in D \ (S \cup {n, r}) : g[i].first = h[i].first /\ g[i].last = h[i].last

LEMMA AppendForest ==
    ASSUME NEW D, 0 \in D, NEW h \in [D -> LinksIn(D)], NEW r \in D, NEW S \in SUBSET (D \ {0, r}),
           Forest(h, S, r), NEW p \in S \cup {r}, NEW n \in D \ (S \cup {0, r}),
           NEW x \in LinksIn(D), x.first = 0, x.last = 0
    PROVE  Extended(D, h, S, r, n, AppendChild(h, n, p, x))
<1> DEFINE g == AppendChild(h, n, p, x)
           l == h[p].last
           U == S \cup {n}
<1>1. /\ l \in S \cup {0} /\ l # n /\ p \in D \ {n} /\ (h[p].first = 0 <=> l = 0)
      /\ l # 0 => h[l].parent = p /\ h[l].next = 0
  BY DEF Forest, WellLinked, HI_NULL_INDEX
<1>2. /\ g \in [D -> LinksIn(D)]
      /\ g[n].parent = p /\ g[n].prev = l /\ g[n].next = 0 /\ g[n].first = 0 /\ g[n].last = 0
      /\ \A i \in D \ {n} :
            /\ g[i].parent = h[i].parent /\ g[i].prev = h[i].prev
            /\ g[i].next = IF i = l /\ l # 0 THEN n ELSE h[i].next
            /\ g[i].first = IF i = p /\ l = 0 THEN n ELSE h[i].first
            /\ g[i].last = IF i = p THEN n ELSE h[i].last
            /\ i \notin {p, l} => g[i] = h[i]
  <2>1. Appended(D, h, n, p, x, g)
    BY <1>1, AppendLinks
  <2> HIDE DEF g
  <2> QED BY <2>1 DEF Appended
<1> HIDE DEF g, l
<1>3. /\ \A i \in S :
            /\ h[i].parent \in S \cup {r} /\ h[i].next \in S \cup {0} /\ h[i].prev \in S \cup {0}
            /\ h[i].next = 0 => h[h[i].parent].last = i
            /\ h[i].next # 0 => h[h[i].next].prev = i /\ h[h[i].next].parent = h[i].parent
            /\ h[i].prev = 0 => h[h[i].parent].first = i
            /\ h[i].prev # 0 => h[h[i].prev].next = i
      /\ \A q \in S \cup {r} :
            /\ h[q].first \in S \cup {0} /\ h[q].last \in S \cup {0}
            /\ h[q].first = 0 <=> h[q].last = 0
            /\ h[q].first # 0 => h[h[q].first].parent = q /\ h[h[q].first].prev = 0
            /\ h[q].last # 0 => h[h[q].last].parent = q /\ h[h[q].last].next = 0
  BY DEF Forest, WellLinked, HI_NULL_INDEX
<1>4. ASSUME NEW i \in U
      PROVE  /\ g[i].parent \in U \cup {r} /\ g[i].next \in U \cup {0} /\ g[i].prev \in U \cup {0}
             /\ g[i].next = 0 => g[g[i].parent].last = i
             /\ g[i].next # 0 => g[g[i].next].prev = i /\ g[g[i].next].parent = g[i].parent
             /\ g[i].prev = 0 => g[g[i].parent].first = i
             /\ g[i].prev # 0 => g[g[i].prev].next = i
  <2>1. CASE i = n
    BY <1>1, <1>2, <2>1 DEF l
  <2>2. CASE i # n
    <3>1. i \in S /\ i \in D \ {n}
      BY <2>2
    <3>2. g[i].parent \in U \cup {r} /\ g[i].next \in U \cup {0} /\ g[i].prev \in U \cup {0}
      BY <1>2, <1>3, <3>1
    <3>3. g[i].next = 0 => g[g[i].parent].last = i
      BY <1>1, <1>2, <1>3, <3>1 DEF l
    <3>4. g[i].next # 0 => g[g[i].next].prev = i /\ g[g[i].next].parent = g[i].parent
      BY <1>1, <1>2, <1>3, <3>1
    <3>5. g[i].prev = 0 => g[g[i].parent].first = i
      BY <1>1, <1>2, <1>3, <3>1
    <3>6. g[i].prev # 0 => g[g[i].prev].next = i
      BY <1>1, <1>2, <1>3, <3>1
    <3> QED BY <3>2, <3>3, <3>4, <3>5, <3>6
  <2> QED BY <2>1, <2>2
<1>5. ASSUME NEW q \in U \cup {r}
      PROVE  /\ g[q].first \in U \cup {0} /\ g[q].last \in U \cup {0}
             /\ g[q].first = 0 <=> g[q].last = 0
             /\ g[q].first # 0 => g[g[q].first].parent = q /\ g[g[q].first].prev = 0
             /\ g[q].last # 0 => g[g[q].last].parent = q /\ g[g[q].last].next = 0
  <2>1. CASE q = n
    BY <1>2, <2>1
  <2>2. CASE q # n
    <3>1. q \in S \cup {r} /\ q \in D \ {n}
      BY <2>2
    <3>2. g[q].first \in U \cup {0} /\ g[q].last \in U \cup {0}
      BY <1>2, <1>3, <3>1
    <3>3. g[q].first = 0 <=> g[q].last = 0
      BY <1>1, <1>2, <1>3, <3>1 DEF l
    <3>4. g[q].first # 0 => g[g[q].first].parent = q /\ g[g[q].first].prev = 0
      BY <1>1, <1>2, <1>3, <3>1
    <3>5. g[q].last # 0 => g[g[q].last].parent = q /\ g[g[q].last].next = 0
      BY <1>1, <1>2, <1>3, <3>1
    <3> QED BY <3>2, <3>3, <3>4, <3>5
  <2> QED BY <2>1, <2>2
<1>6. WellLinked(g, U, r)
  <2> HIDE DEF U
  <2> QED BY <1>4, <1>5 DEF WellLinked, HI_NULL_INDEX
<1>7. Rooted(g, U)
  <2> SUFFICES ASSUME NEW T \in SUBSET U, T # {}, \A i \in T : Ref(g, i) \in T PROVE FALSE
    BY DEF Rooted
  <2>1. \A i \in S : Ref(g, i) = Ref(h, i)
    BY <1>2 DEF Ref
  <2>2. \A i \in S : Ref(h, i) \in S \cup {r}
    BY <1>3 DEF Ref, HI_NULL_INDEX
  <2>3. Ref(g, n) # n /\ Ref(g, n) \in S \cup {r}
    BY <1>1, <1>2 DEF Ref, HI_NULL_INDEX
  <2>4. T \ {n} # {}
    BY <2>3
  <2>5. \A i \in T \ {n} : Ref(h, i) \in T \ {n}
    BY <2>1, <2>2
  <2> QED BY <2>4, <2>5 DEF Forest, Rooted
<1>8. \A i \in D \ (U \cup {0, r}) : g[i] = h[i]
  BY <1>1, <1>2
<1>9. \A i \in D \ (U \cup {r}) : g[i].first = h[i].first /\ g[i].last = h[i].last
  BY <1>1, <1>2
<1> QED BY <1>2, <1>6, <1>7, <1>8, <1>9 DEF Forest, g, Extended

\* No node is its own parent.
LEMMA NotOwnParent ==
    ASSUME NEW h, NEW r, NEW S, 0 \notin S, Forest(h, S, r), NEW n \in S
    PROVE  h[n].parent # n
<1> SUFFICES ASSUME h[n].parent = n PROVE FALSE
  OBVIOUS
<1> DEFINE T == {i \in S : h[i].parent = n}
<1>1. T \in SUBSET S /\ T # {}
  OBVIOUS
<1>2. ASSUME NEW i \in T PROVE Ref(h, i) \in T
  <2>1. CASE h[i].prev = 0
    BY <2>1 DEF Ref, HI_NULL_INDEX
  <2>2. CASE h[i].prev # 0
    <3>1. h[i].prev \in S /\ h[h[i].prev].next = i
      BY <2>2 DEF Forest, WellLinked, HI_NULL_INDEX
    <3>2. h[h[i].prev].parent = h[i].parent
      BY <3>1 DEF Forest, WellLinked, HI_NULL_INDEX
    <3> QED BY <2>2, <3>1, <3>2 DEF Ref, HI_NULL_INDEX
  <2> QED BY <2>1, <2>2
<1> HIDE DEF T
<1> QED BY <1>1, <1>2 DEF Forest, Rooted

\* The first child is the last one only if there is no other.
LEMMA OnlyChild ==
    ASSUME NEW h, NEW r, NEW S, 0 \notin S, Forest(h, S, r), NEW n \in S,
           h[h[n].parent].first = h[h[n].parent].last
    PROVE  h[h[n].parent].first = n
<1> DEFINE o == h[n].parent
           x == h[o].first
           T == {i \in S : h[i].parent = o /\ i # x}
<1> SUFFICES ASSUME n # x PROVE FALSE
  OBVIOUS
<1>1. T \in SUBSET S /\ T # {}
  OBVIOUS
<1>2. ASSUME NEW i \in T PROVE Ref(h, i) \in T
  <2>1. h[i].prev # 0
    BY DEF Forest, WellLinked, HI_NULL_INDEX
  <2>2. h[i].prev \in S /\ h[h[i].prev].next = i
    BY <2>1 DEF Forest, WellLinked, HI_NULL_INDEX
  <2>3. h[h[i].prev].parent = h[i].parent
    BY <2>2 DEF Forest, WellLinked, HI_NULL_INDEX
  <2>4. o \in S \cup {r} /\ h[o].last = x
    BY DEF Forest, WellLinked, HI_NULL_INDEX
  <2>5. x # 0 => h[x].next = 0
    BY <2>4 DEF Forest, WellLinked, HI_NULL_INDEX
  <2>6. h[i].prev # x
    BY <2>1, <2>2, <2>5
  <2> QED BY <2>1, <2>2, <2>3, <2>6 DEF Ref, HI_NULL_INDEX
<1> HIDE DEF T
<1> QED BY <1>1, <1>2 DEF Forest, Rooted

\* The children of n take its place among its siblings; o is the parent of n,
\* a and b are its neighbours, c and d its first and last child.
Rewired(D, h, n, o, a, b, c, d, g) ==
    /\ g \in [D -> LinksIn(D)]
    /\ \A i \in D :
          /\ g[i].next = IF i = a /\ a # 0 THEN IF c = 0 THEN b ELSE c
                         ELSE IF i = d /\ d # 0 THEN b ELSE h[i].next
          /\ g[i].prev = IF i = b /\ b # 0 THEN IF d = 0 THEN a ELSE d
                         ELSE IF i = c /\ c # 0 THEN a ELSE h[i].prev
          /\ g[i].first = IF i = o /\ a = 0 THEN IF c = 0 THEN b ELSE c ELSE h[i].first
          /\ g[i].last = IF i = o /\ b = 0 THEN IF d = 0 THEN a ELSE d ELSE h[i].last
          /\ i \notin {o, a, b, c, d} /\ h[i].parent # n => g[i] = h[i]

Lifted(D, h, n, g) == Rewired(D, h, n, h[n].parent, h[n].prev, h[n].next, h[n].first, h[n].last, g)

LEMMA LiftLinks ==
    ASSUME NEW D, NEW r \in D, NEW S \in SUBSET (D \ {0, r}), 0 \in D,
           NEW h \in [D -> LinksIn(D)], Forest(h, S, r), NEW n \in S
    PROVE  /\ Lifted(D, h, n, Lift(h, n))
           /\ \A i \in D : Lift(h, n)[i].parent = h[i].parent
<1> DEFINE o == h[n].parent
           a == h[n].prev
           b == h[n].next
           c == h[n].first
           d == h[n].last
           g == Lift(h, n)
<1>1. o \in D /\ a \in D /\ b \in D /\ c \in D /\ d \in D /\ o # n
  BY NotOwnParent DEF LinksIn
<1>2. /\ a = 0 <=> h[o].first = n
      /\ b = 0 <=> h[o].last = n
      /\ a # 0 => h[a].next = n /\ h[a].parent = o
      /\ b # 0 => h[b].prev = n /\ h[b].parent = o
      /\ c = 0 <=> d = 0
      /\ c # 0 => h[c].prev = 0 /\ h[c].parent = n
      /\ d # 0 => h[d].next = 0 /\ h[d].parent = n
  BY DEF Forest, WellLinked, HI_NULL_INDEX
<1>3. h[o].first = h[o].last => h[o].first = n
  BY OnlyChild
<1>3a. (a # 0 /\ d # 0 => a # d) /\ (b # 0 /\ c # 0 => b # c)
  BY <1>1, <1>2
<1> HIDE DEF o, a, b, c, d
<1> SUFFICES Rewired(D, h, n, o, a, b, c, d, g) /\ \A i \in D : g[i].parent = h[i].parent
  BY DEF Lifted, o, a, b, c, d
<1>4. CASE h[o].first = h[o].last
  <2>1. g = [h EXCEPT ![o].first = c, ![o].last = d]
    BY <1>4 DEF Lift, LiftOnly, o, c, d
  <2>2. a = 0 /\ b = 0
    BY <1>2, <1>3, <1>4
  <2> HIDE DEF g
  <2>3. ASSUME NEW i \in D
        PROVE  g[i].next = IF i = a /\ a # 0 THEN IF c = 0 THEN b ELSE c
                                   ELSE IF i = d /\ d # 0 THEN b ELSE h[i].next
    BY <1>1, <1>2, <2>1, <2>2 DEF LinksIn
  <2>4. ASSUME NEW i \in D
        PROVE  g[i].prev = IF i = b /\ b # 0 THEN IF d = 0 THEN a ELSE d
                                   ELSE IF i = c /\ c # 0 THEN a ELSE h[i].prev
    BY <1>1, <1>2, <2>1, <2>2 DEF LinksIn
  <2>5. ASSUME NEW i \in D
        PROVE  g[i].first = IF i = o /\ a = 0 THEN IF c = 0 THEN b ELSE c ELSE h[i].first
    BY <1>1, <1>2, <2>1, <2>2 DEF LinksIn
  <2>6. ASSUME NEW i \in D
        PROVE  g[i].last = IF i = o /\ b = 0 THEN IF d = 0 THEN a ELSE d ELSE h[i].last
    BY <1>1, <1>2, <2>1, <2>2 DEF LinksIn
  <2>7. ASSUME NEW i \in D \ {o} PROVE g[i] = h[i]
    BY <1>1, <2>1 DEF LinksIn
  <2>8. ASSUME NEW i \in D PROVE g[i] \in LinksIn(D) /\ g[i].parent = h[i].parent
    <3>1. CASE i = o
      <4>1. g[i] = [h[i] EXCEPT !.first = c, !.last = d]
        BY <2>1, <3>1
      <4> QED BY <1>1, <4>1 DEF LinksIn
    <3>2. CASE i # o
      BY <2>1, <3>2
    <3> QED BY <3>1, <3>2
  <2>9. g \in [D -> LinksIn(D)]
    <3>1. g = [i \in D |-> g[i]]
      BY <2>1
    <3> QED BY <2>8, <3>1
  <2> QED BY <2>3, <2>4, <2>5, <2>6, <2>7, <2>8, <2>9 DEF Rewired
<1>5. CASE h[o].first # h[o].last /\ h[o].first = n
  <2>1. a = 0 /\ b # 0
    BY <1>2, <1>5
  <2>2. CASE c # 0
    <3>1. g = [h EXCEPT ![b].prev = d, ![o].first = c, ![d].next = b]
      BY <1>5, <2>2 DEF Lift, LiftFirst, HI_NULL_INDEX, o, a, b, c, d
    <3> HIDE DEF g
    <3>8. ASSUME NEW i \in D PROVE g[i] \in LinksIn(D) /\ g[i].parent = h[i].parent
      BY <1>1, <3>1 DEF LinksIn
    <3>2. g \in [D -> LinksIn(D)]
      <4>1. g = [i \in D |-> g[i]]
        BY <3>1
      <4> QED BY <3>8, <4>1
    <3>3. ASSUME NEW i \in D
          PROVE  g[i].next = IF i = a /\ a # 0 THEN IF c = 0 THEN b ELSE c
                                     ELSE IF i = d /\ d # 0 THEN b ELSE h[i].next
      BY <1>1, <1>2, <1>3a, <1>5, <2>1, <2>2, <3>1 DEF LinksIn
    <3>4. ASSUME NEW i \in D
          PROVE  g[i].prev = IF i = b /\ b # 0 THEN IF d = 0 THEN a ELSE d
                                     ELSE IF i = c /\ c # 0 THEN a ELSE h[i].prev
      BY <1>1, <1>2, <1>3a, <1>5, <2>1, <2>2, <3>1 DEF LinksIn
    <3>5. ASSUME NEW i \in D
          PROVE  g[i].first = IF i = o /\ a = 0 THEN IF c = 0 THEN b ELSE c ELSE h[i].first
      BY <1>1, <1>2, <1>3a, <1>5, <2>1, <2>2, <3>1 DEF LinksIn
    <3>6. ASSUME NEW i \in D
          PROVE  g[i].last = IF i = o /\ b = 0 THEN IF d = 0 THEN a ELSE d ELSE h[i].last
      BY <1>1, <1>2, <1>3a, <1>5, <2>1, <2>2, <3>1 DEF LinksIn
    <3>7. ASSUME NEW i \in D \ {o, a, b, c, d} PROVE g[i] = h[i]
      BY <1>1, <3>1 DEF LinksIn
    <3> QED BY <3>2, <3>3, <3>4, <3>5, <3>6, <3>7, <3>8 DEF Rewired
  <2>3. CASE c = 0
    <3>1. g = [h EXCEPT ![b].prev = d, ![o].first = b]
      BY <1>5, <2>3 DEF Lift, LiftFirst, HI_NULL_INDEX, o, a, b, c, d
    <3> HIDE DEF g
    <3>8. ASSUME NEW i \in D PROVE g[i] \in LinksIn(D) /\ g[i].parent = h[i].parent
      BY <1>1, <3>1 DEF LinksIn
    <3>2. g \in [D -> LinksIn(D)]
      <4>1. g = [i \in D |-> g[i]]
        BY <3>1
      <4> QED BY <3>8, <4>1
    <3>3. ASSUME NEW i \in D
          PROVE  g[i].next = IF i = a /\ a # 0 THEN IF c = 0 THEN b ELSE c
                                     ELSE IF i = d /\ d # 0 THEN b ELSE h[i].next
      BY <1>1, <1>2, <1>3a, <1>5, <2>1, <2>3, <3>1 DEF LinksIn
    <3>4. ASSUME NEW i \in D
          PROVE  g[i].prev = IF i = b /\ b # 0 THEN IF d = 0 THEN a ELSE d
                                     ELSE IF i = c /\ c # 0 THEN a ELSE h[i].prev
      BY <1>1, <1>2, <1>3a, <1>5, <2>1, <2>3, <3>1 DEF LinksIn
    <3>5. ASSUME NEW i \in D
          PROVE  g[i].first = IF i = o /\ a = 0 THEN IF c = 0 THEN b ELSE c ELSE h[i].first
      BY <1>1, <1>2, <1>3a, <1>5, <2>1, <2>3, <3>1 DEF LinksIn
    <3>6. ASSUME NEW i \in D
          PROVE  g[i].last = IF i = o /\ b = 0 THEN IF d = 0 THEN a ELSE d ELSE h[i].last
      BY <1>1, <1>2, <1>3a, <1>5, <2>1, <2>3, <3>1 DEF LinksIn
    <3>7. ASSUME NEW i \in D \ {o, a, b, c, d} PROVE g[i] = h[i]
      BY <1>1, <3>1 DEF LinksIn
    <3> QED BY <3>2, <3>3, <3>4, <3>5, <3>6, <3>7, <3>8 DEF Rewired
  <2> QED BY <2>2, <2>3
<1>6. CASE h[o].first # n /\ h[o].last = n
  <2>1. a # 0 /\ b = 0
    BY <1>2, <1>6
  <2>2. CASE d # 0
    <3>1. g = [h EXCEPT ![a].next = c, ![o].last = d, ![c].prev = a]
      BY <1>6, <2>2 DEF Lift, LiftLast, HI_NULL_INDEX, o, a, b, c, d
    <3> HIDE DEF g
    <3>8. ASSUME NEW i \in D PROVE g[i] \in LinksIn(D) /\ g[i].parent = h[i].parent
      BY <1>1, <3>1 DEF LinksIn
    <3>2. g \in [D -> LinksIn(D)]
      <4>1. g = [i \in D |-> g[i]]
        BY <3>1
      <4> QED BY <3>8, <4>1
    <3>3. ASSUME NEW i \in D
          PROVE  g[i].next = IF i = a /\ a # 0 THEN IF c = 0 THEN b ELSE c
                                     ELSE IF i = d /\ d # 0 THEN b ELSE h[i].next
      BY <1>1, <1>2, <1>3a, <1>6, <2>1, <2>2, <3>1 DEF LinksIn
    <3>4. ASSUME NEW i \in D
          PROVE  g[i].prev = IF i = b /\ b # 0 THEN IF d = 0 THEN a ELSE d
                                     ELSE IF i = c /\ c # 0 THEN a ELSE h[i].prev
      BY <1>1, <1>2, <1>3a, <1>6, <2>1, <2>2, <3>1 DEF LinksIn
    <3>5. ASSUME NEW i \in D
          PROVE  g[i].first = IF i = o /\ a = 0 THEN IF c = 0 THEN b ELSE c ELSE h[i].first
      BY <1>1, <1>2, <1>3a, <1>6, <2>1, <2>2, <3>1 DEF LinksIn
    <3>6. ASSUME NEW i \in D
          PROVE  g[i].last = IF i = o /\ b = 0 THEN IF d = 0 THEN a ELSE d ELSE h[i].last
      BY <1>1, <1>2, <1>3a, <1>6, <2>1, <2>2, <3>1 DEF LinksIn
    <3>7. ASSUME NEW i \in D \ {o, a, b, c, d} PROVE g[i] = h[i]
      BY <1>1, <3>1 DEF LinksIn
    <3> QED BY <3>2, <3>3, <3>4, <3>5, <3>6, <3>7, <3>8 DEF Rewired
  <2>3. CASE d = 0
    <3>1. g = [h EXCEPT ![a].next = c, ![o].last = a]
      BY <1>6, <2>3 DEF Lift, LiftLast, HI_NULL_INDEX, o, a, b, c, d
    <3> HIDE DEF g
    <3>8. ASSUME NEW i \in D PROVE g[i] \in LinksIn(D) /\ g[i].parent = h[i].parent
      BY <1>1, <3>1 DEF LinksIn
    <3>2. g \in [D -> LinksIn(D)]
      <4>1. g = [i \in D |-> g[i]]
        BY <3>1
      <4> QED BY <3>8, <4>1
    <3>3. ASSUME NEW i \in D
          PROVE  g[i].next = IF i = a /\ a # 0 THEN IF c = 0 THEN b ELSE c
                                     ELSE IF i = d /\ d # 0 THEN b ELSE h[i].next
      BY <1>1, <1>2, <1>3a, <1>6, <2>1, <2>3, <3>1 DEF LinksIn
    <3>4. ASSUME NEW i \in D
          PROVE  g[i].prev = IF i = b /\ b # 0 THEN IF d = 0 THEN a ELSE d
                                     ELSE IF i = c /\ c # 0 THEN a ELSE h[i].prev
      BY <1>1, <1>2, <1>3a, <1>6, <2>1, <2>3, <3>1 DEF LinksIn
    <3>5. ASSUME NEW i \in D
          PROVE  g[i].first = IF i = o /\ a = 0 THEN IF c = 0 THEN b ELSE c ELSE h[i].first
      BY <1>1, <1>2, <1>3a, <1>6, <2>1, <2>3, <3>1 DEF LinksIn
    <3>6. ASSUME NEW i \in D
          PROVE  g[i].last = IF i = o /\ b = 0 THEN IF d = 0 THEN a ELSE d ELSE h[i].last
      BY <1>1, <1>2, <1>3a, <1>6, <2>1, <2>3, <3>1 DEF LinksIn
    <3>7. ASSUME NEW i \in D \ {o, a, b, c, d} PROVE g[i] = h[i]
      BY <1>1, <3>1 DEF LinksIn
    <3> QED BY <3>2, <3>3, <3>4, <3>5, <3>6, <3>7, <3>8 DEF Rewired
  <2> QED BY <2>2, <2>3
<1>7. CASE h[o].first # h[o].last /\ h[o].first # n /\ h[o].last # n
  <2>1. a # 0 /\ b # 0
    BY <1>2, <1>7
  <2>2. CASE c # 0
    <3>1. g = [h EXCEPT ![a].next = c, ![b].prev = d, ![c].prev = a, ![d].next = b]
      BY <1>7, <2>2 DEF Lift, LiftMiddle, HI_NULL_INDEX, o, a, b, c, d
    <3> HIDE DEF g
    <3>8. ASSUME NEW i \in D PROVE g[i] \in LinksIn(D) /\ g[i].parent = h[i].parent
      <4> DEFINE k == [h EXCEPT ![a].next = c, ![b].prev = d]
      <4>1. k \in [D -> LinksIn(D)] /\ \A j \in D : k[j].parent = h[j].parent
        <5>1. ASSUME NEW j \in D PROVE k[j] \in LinksIn(D) /\ k[j].parent = h[j].parent
          BY <1>1 DEF LinksIn
        <5>2. k = [j \in D |-> k[j]]
          OBVIOUS
        <5> QED BY <5>1, <5>2
      <4>2. g = [k EXCEPT ![c].prev = a, ![d].next = b]
        BY <3>1
      <4> HIDE DEF k
      <4> DEFINE x == IF i = c THEN a ELSE k[i].prev
                 y == IF i = d THEN b ELSE k[i].next
      <4>3. x \in D /\ y \in D /\ k[i] \in LinksIn(D)
        BY <1>1, <4>1 DEF LinksIn
      <4>4. g[i] = [k[i] EXCEPT !.prev = x, !.next = y]
        BY <4>1, <4>2 DEF LinksIn
      <4> HIDE DEF x, y
      <4>5. g[i] \in LinksIn(D) /\ g[i].parent = k[i].parent
        BY <4>3, <4>4 DEF LinksIn
      <4> QED BY <4>1, <4>5
    <3>2. g \in [D -> LinksIn(D)]
      <4>1. g = [i \in D |-> g[i]]
        BY <3>1
      <4> QED BY <3>8, <4>1
    <3>3. ASSUME NEW i \in D
          PROVE  g[i].next = IF i = a /\ a # 0 THEN IF c = 0 THEN b ELSE c
                                     ELSE IF i = d /\ d # 0 THEN b ELSE h[i].next
      BY <1>1, <1>2, <1>3a, <1>7, <2>1, <2>2, <3>1 DEF LinksIn
    <3>4. ASSUME NEW i \in D
          PROVE  g[i].prev = IF i = b /\ b # 0 THEN IF d = 0 THEN a ELSE d
                                     ELSE IF i = c /\ c # 0 THEN a ELSE h[i].prev
      BY <1>1, <1>2, <1>3a, <1>7, <2>1, <2>2, <3>1 DEF LinksIn
    <3>5. ASSUME NEW i \in D
          PROVE  g[i].first = IF i = o /\ a = 0 THEN IF c = 0 THEN b ELSE c ELSE h[i].first
      BY SMTT(30), <1>1, <1>2, <1>3a, <1>7, <2>1, <2>2, <3>1 DEF LinksIn
    <3>6. ASSUME NEW i \in D
          PROVE  g[i].last = IF i = o /\ b = 0 THEN IF d = 0 THEN a ELSE d ELSE h[i].last
      BY SMTT(30), <1>1, <1>2, <1>3a, <1>7, <2>1, <2>2, <3>1 DEF LinksIn
    <3>7. ASSUME NEW i \in D \ {o, a, b, c, d} PROVE g[i] = h[i]
      BY <1>1, <3>1 DEF LinksIn
    <3> QED BY <3>2, <3>3, <3>4, <3>5, <3>6, <3>7, <3>8 DEF Rewired
  <2>3. CASE c = 0
    <3>1. g = [h EXCEPT ![b].prev = a, ![a].next = b]
      BY <1>7, <2>3 DEF Lift, LiftMiddle, HI_NULL_INDEX, o, a, b, c, d
    <3> HIDE DEF g
    <3>8. ASSUME NEW i \in D PROVE g[i] \in LinksIn(D) /\ g[i].parent = h[i].parent
      BY <1>1, <3>1 DEF LinksIn
    <3>2. g \in [D -> LinksIn(D)]
      <4>1. g = [i \in D |-> g[i]]
        BY <3>1
      <4> QED BY <3>8, <4>1
    <3>3. ASSUME NEW i \in D
          PROVE  g[i].next = IF i = a /\ a # 0 THEN IF c = 0 THEN b ELSE c
                                     ELSE IF i = d /\ d # 0 THEN b ELSE h[i].next
      BY <1>1, <1>2, <1>3a, <1>7, <2>1, <2>3, <3>1 DEF LinksIn
    <3>4. ASSUME NEW i \in D
          PROVE  g[i].prev = IF i = b /\ b # 0 THEN IF d = 0 THEN a ELSE d
                                     ELSE IF i = c /\ c # 0 THEN a ELSE h[i].prev
      BY <1>1, <1>2, <1>3a, <1>7, <2>1, <2>3, <3>1 DEF LinksIn
    <3>5. ASSUME NEW i \in D
          PROVE  g[i].first = IF i = o /\ a = 0 THEN IF c = 0 THEN b ELSE c ELSE h[i].first
      BY <1>1, <1>2, <1>3a, <1>7, <2>1, <2>3, <3>1 DEF LinksIn
    <3>6. ASSUME NEW i \in D
          PROVE  g[i].last = IF i = o /\ b = 0 THEN IF d = 0 THEN a ELSE d ELSE h[i].last
      BY <1>1, <1>2, <1>3a, <1>7, <2>1, <2>3, <3>1 DEF LinksIn
    <3>7. ASSUME NEW i \in D \ {o, a, b, c, d} PROVE g[i] = h[i]
      BY <1>1, <3>1 DEF LinksIn
    <3> QED BY <3>2, <3>3, <3>4, <3>5, <3>6, <3>7, <3>8 DEF Rewired
  <2> QED BY <2>2, <2>3
<1> QED BY <1>3, <1>4, <1>5, <1>6, <1>7

\* The links once the parent of the children is the one of n as well.
Moved(D, h, n, m) ==
    /\ Lifted(D, h, n, m)
    /\ \A i \in D : m[i].parent = IF h[i].parent = n THEN h[n].parent ELSE h[i].parent

LEMMA MovedLinks ==
    ASSUME NEW D, NEW r \in D, NEW S \in SUBSET (D \ {0, r}), 0 \in D,
           NEW h \in [D -> LinksIn(D)], Forest(h, S, r), NEW n \in S, NEW p
    PROVE  \E m \in [D -> LinksIn(D)] :
              AdoptNodeExclusive(h, n, p) = AppendChild(m, n, p, Unlinked) /\ Moved(D, h, n, m)
<1> DEFINE o == h[n].parent
           a == h[n].prev
           b == h[n].next
           c == h[n].first
           d == h[n].last
           f == Lift(h, n)
           g == [f EXCEPT ![o].child_count = @ + h[n].child_count - 1]
           m == [i \in D |-> IF h[i].parent = n THEN [g[i] EXCEPT !.parent = o] ELSE g[i]]
<1>1. AdoptNodeExclusive(h, n, p) = AppendChild(m, n, p, Unlinked)
  BY DEF AdoptNodeExclusive
<1>2. Rewired(D, h, n, o, a, b, c, d, f) /\ \A i \in D : f[i].parent = h[i].parent
  BY SMTT(30), LiftLinks DEF Lifted
<1>3. o \in D /\ h[n].child_count \in Int /\ \A i \in D : h[i] \in LinksIn(D)
  BY DEF LinksIn
<1> HIDE DEF o, a, b, c, d, f
<1>4. \A i \in D : f[i] \in LinksIn(D)
  BY <1>2 DEF Rewired
<1>5. ASSUME NEW i \in D
      PROVE  /\ g[i] \in LinksIn(D)
             /\ g[i].parent = f[i].parent /\ g[i].next = f[i].next /\ g[i].prev = f[i].prev
             /\ g[i].first = f[i].first /\ g[i].last = f[i].last
             /\ i # o => g[i] = f[i]
  <2>1. CASE i = o
    <3>1. f[i] \in LinksIn(D)
      BY <1>4
    <3>2. g[i] = [f[i] EXCEPT !.child_count = @ + h[n].child_count - 1]
      BY <1>2, <1>3, <2>1 DEF Rewired
    <3> HIDE DEF g
    <3> QED BY <1>3, <2>1, <3>1, <3>2 DEF LinksIn
  <2>2. CASE i # o
    BY <1>2, <1>4, <2>2 DEF Rewired
  <2> QED BY <2>1, <2>2
<1> HIDE DEF g
<1>6. ASSUME NEW i \in D
      PROVE  /\ m[i] \in LinksIn(D)
             /\ m[i].parent = IF h[i].parent = n THEN o ELSE h[i].parent
             /\ m[i].next = f[i].next /\ m[i].prev = f[i].prev
             /\ m[i].first = f[i].first /\ m[i].last = f[i].last
             /\ i # o /\ h[i].parent # n => m[i] = f[i]
  <2>1. CASE h[i].parent = n
    <3>1. m[i] = [g[i] EXCEPT !.parent = o]
      BY <2>1
    <3> HIDE DEF m
    <3> QED BY <1>3, <1>5, <2>1, <3>1 DEF LinksIn
  <2>2. CASE h[i].parent # n
    <3>1. m[i] = g[i]
      BY <2>2
    <3> HIDE DEF m
    <3> QED BY <1>2, <1>5, <2>2, <3>1
  <2> QED BY <2>1, <2>2
<1>7. m = [i \in D |-> m[i]]
  OBVIOUS
<1> HIDE DEF m
<1>8. m \in [D -> LinksIn(D)]
  BY <1>6, <1>7
<1>9. Rewired(D, h, n, o, a, b, c, d, m)
  BY <1>2, <1>6, <1>8 DEF Rewired
<1> QED BY <1>1, <1>6, <1>8, <1>9 DEF Moved, Lifted, o, a, b, c, d

\* What is left when a node was lifted out of a forest is a forest.
Remaining(D, h, S, r, n, m) ==
    /\ Forest(m, S \ {n}, r)
    /\ \A i \in D \ (S \cup {0, r}) : h[i].parent # n => m[i] = h[i]
    /\ \A i \in D \ (S \cup {r}) : m[i].first = h[i].first /\ m[i].last = h[i].last

LEMMA LiftForest ==
    ASSUME NEW D, NEW r \in D \ {0}, NEW S \in SUBSET (D \ {0, r}), 0 \in D,
           NEW h \in [D -> LinksIn(D)], Forest(h, S, r), NEW n \in S,
           NEW m \in [D -> LinksIn(D)], Moved(D, h, n, m)
    PROVE  Remaining(D, h, S, r, n, m)
<1> DEFINE o == h[n].parent
           a == h[n].prev
           b == h[n].next
           c == h[n].first
           d == h[n].last
           R == S \ {n}
<1>1. /\ \A i \in S :
            /\ h[i].parent \in S \cup {r} /\ h[i].next \in S \cup {0} /\ h[i].prev \in S \cup {0}
            /\ h[i].next = 0 => h[h[i].parent].last = i
            /\ h[i].next # 0 => h[h[i].next].prev = i /\ h[h[i].next].parent = h[i].parent
            /\ h[i].prev = 0 => h[h[i].parent].first = i
            /\ h[i].prev # 0 => h[h[i].prev].next = i
      /\ \A q \in S \cup {r} :
            /\ h[q].first \in S \cup {0} /\ h[q].last \in S \cup {0}
            /\ h[q].first = 0 <=> h[q].last = 0
            /\ h[q].first # 0 => h[h[q].first].parent = q /\ h[h[q].first].prev = 0
            /\ h[q].last # 0 => h[h[q].last].parent = q /\ h[h[q].last].next = 0
  BY DEF Forest, WellLinked, HI_NULL_INDEX
<1>2. ASSUME NEW i \in S, h[i].prev # 0
      PROVE  h[h[i].prev].parent = h[i].parent
  BY <1>1, <1>2
<1>3. o # n /\ o \in R \cup {r}
  BY <1>1, NotOwnParent
<1>4. \A i \in R :
         /\ h[i].next # i /\ h[i].prev # i
  <2> SUFFICES ASSUME NEW i \in R PROVE h[i].next # i /\ h[i].prev # i
    OBVIOUS
  <2>1. Ref(h, i) \notin {i}
    BY DEF Forest, Rooted
  <2>2. h[i].prev # i
    BY <2>1 DEF Ref, HI_NULL_INDEX
  <2> QED BY <1>1, <2>2
<1>5. a # n /\ b # n /\ c # n /\ d # n
  <2>1. Ref(h, n) \notin {n}
    BY DEF Forest, Rooted
  <2>2. a # n
    BY <2>1 DEF Ref, HI_NULL_INDEX
  <2>3. b # n
    BY <1>1, <2>2
  <2>4. c # n /\ d # n
    BY <1>1, <1>3
  <2> QED BY <2>2, <2>3, <2>4
<1>6. /\ a \in R \cup {0} /\ b \in R \cup {0} /\ c \in R \cup {0} /\ d \in R \cup {0}
      /\ a # 0 => h[a].next = n /\ h[a].parent = o
      /\ a = 0 => h[o].first = n
      /\ b # 0 => h[b].prev = n /\ h[b].parent = o
      /\ b = 0 => h[o].last = n
      /\ c = 0 <=> d = 0
      /\ c # 0 => h[c].prev = 0 /\ h[c].parent = n
      /\ d # 0 => h[d].next = 0 /\ h[d].parent = n
  BY <1>1, <1>2, <1>5
<1>7. \A i \in D :
         /\ m[i].parent = IF h[i].parent = n THEN o ELSE h[i].parent
         /\ m[i].next = IF i = a /\ a # 0 THEN IF c = 0 THEN b ELSE c
                        ELSE IF i = d /\ d # 0 THEN b ELSE h[i].next
         /\ m[i].prev = IF i = b /\ b # 0 THEN IF d = 0 THEN a ELSE d
                        ELSE IF i = c /\ c # 0 THEN a ELSE h[i].prev
         /\ m[i].first = IF i = o /\ a = 0 THEN IF c = 0 THEN b ELSE c ELSE h[i].first
         /\ m[i].last = IF i = o /\ b = 0 THEN IF d = 0 THEN a ELSE d ELSE h[i].last
         /\ i \notin {o, a, b, c, d} /\ h[i].parent # n => m[i] = h[i]
  BY DEF Moved, Lifted, Rewired
<1>8. \A i \in S : /\ h[i].next = n => i = a
                   /\ h[i].prev = n => i = b
                   /\ h[i].parent = n /\ h[i].prev = 0 => i = c
                   /\ h[i].parent = n /\ h[i].next = 0 => i = d
                   /\ h[i].parent = o /\ h[i].prev = 0 => h[o].first = i
                   /\ h[i].parent = o /\ h[i].next = 0 => h[o].last = i
  BY <1>1, <1>5
<1>9. \A q \in S \cup {r} : /\ h[q].first = n => q = o /\ a = 0
                            /\ h[q].last = n => q = o /\ b = 0
                            /\ h[q].first # 0 /\ h[q].first = c => q = n
                            /\ h[q].last # 0 /\ h[q].last = d => q = n
  BY <1>1, <1>6
<1>a. (a # 0 /\ d # 0 => a # d) /\ (b # 0 /\ c # 0 => b # c) /\ (a # 0 /\ b # 0 => a # b)
  <2>1. a # 0 /\ b # 0 => a # b
    <3> SUFFICES ASSUME a # 0, a = b PROVE FALSE
      OBVIOUS
    <3> DEFINE T == {a, n}
    <3>1. T \in SUBSET S /\ T # {}
      BY <1>6
    <3>2. \A i \in T : Ref(h, i) \in T
      BY <1>6 DEF Ref, HI_NULL_INDEX
    <3> HIDE DEF T
    <3> QED BY <3>1, <3>2 DEF Forest, Rooted
  <2> QED BY <1>3, <1>6, <2>1
<1> HIDE DEF o, a, b, c, d
<1>10. ASSUME NEW i \in R
       PROVE  /\ m[i].parent \in R \cup {r} /\ m[i].next \in R \cup {0} /\ m[i].prev \in R \cup {0}
              /\ m[i].next = 0 => m[m[i].parent].last = i
              /\ m[i].next # 0 => m[m[i].next].prev = i /\ m[m[i].next].parent = m[i].parent
              /\ m[i].prev = 0 => m[m[i].parent].first = i
              /\ m[i].prev # 0 => m[m[i].prev].next = i
  <2>1. m[i].parent \in R \cup {r}
    BY <1>1, <1>3, <1>7
  <2>2. m[i].next \in R \cup {0}
    BY <1>1, <1>6, <1>7, <1>8
  <2>3. m[i].prev \in R \cup {0}
    BY <1>1, <1>6, <1>7, <1>8
  <2>4. ASSUME m[i].next = 0 PROVE m[m[i].parent].last = i
    BY <1>1, <1>3, <1>6, <1>7, <1>8, <1>9, <1>a, <2>4
  <2>5. ASSUME m[i].next # 0 PROVE m[m[i].next].prev = i /\ m[m[i].next].parent = m[i].parent
    BY <1>1, <1>2, <1>3, <1>4, <1>6, <1>7, <1>8, <1>9, <1>a, <2>5
  <2>6. ASSUME m[i].prev = 0 PROVE m[m[i].parent].first = i
    BY <1>1, <1>3, <1>6, <1>7, <1>8, <1>9, <1>a, <2>6
  <2>7. ASSUME m[i].prev # 0 PROVE m[m[i].prev].next = i
    BY <1>1, <1>2, <1>3, <1>4, <1>6, <1>7, <1>8, <1>9, <1>a, <2>7
  <2> QED BY <2>1, <2>2, <2>3, <2>4, <2>5, <2>6, <2>7
<1>11. ASSUME NEW q \in R \cup {r}
       PROVE  /\ m[q].first \in R \cup {0} /\ m[q].last \in R \cup {0}
              /\ m[q].first = 0 <=> m[q].last = 0
              /\ m[q].first # 0 => m[m[q].first].parent = q /\ m[m[q].first].prev = 0
              /\ m[q].last # 0 => m[m[q].last].parent = q /\ m[m[q].last].next = 0
  <2>1. m[q].first \in R \cup {0} /\ m[q].last \in R \cup {0}
    BY <1>1, <1>6, <1>7, <1>9
  <2>2. m[q].first = 0 <=> m[q].last = 0
    BY <1>1, <1>6, <1>7, <1>9
  <2>3. ASSUME m[q].first # 0 PROVE m[m[q].first].parent = q /\ m[m[q].first].prev = 0
    BY <1>1, <1>3, <1>6, <1>7, <1>8, <1>9, <1>a, <2>3
  <2>4. ASSUME m[q].last # 0 PROVE m[m[q].last].parent = q /\ m[m[q].last].next = 0
    BY <1>1, <1>3, <1>6, <1>7, <1>8, <1>9, <1>a, <2>4
  <2> QED BY <2>1, <2>2, <2>3, <2>4
<1>12. WellLinked(m, R, r)
  <2> HIDE DEF R
  <2> QED BY <1>10, <1>11 DEF WellLinked, HI_NULL_INDEX
<1>13. Rooted(m, R)
  <2> SUFFICES ASSUME NEW T \in SUBSET R, T # {}, \A i \in T : Ref(m, i) \in T PROVE FALSE
    BY DEF Rooted
  <2>1. /\ \A i \in R \ {b, c} : Ref(m, i) = Ref(h, i)
        /\ c # 0 => Ref(m, c) = Ref(h, n)
        /\ b # 0 /\ d = 0 => Ref(m, b) = Ref(h, n)
        /\ b # 0 /\ d # 0 => Ref(m, b) = d
    <3>1. ASSUME NEW i \in R \ {b, c} PROVE Ref(m, i) = Ref(h, i)
      BY <1>7, <1>8 DEF Ref, HI_NULL_INDEX
    <3>2. c # 0 => Ref(m, c) = Ref(h, n)
      BY <1>6, <1>7, <1>a DEF Ref, HI_NULL_INDEX, o, a
    <3>3. b # 0 /\ d = 0 => Ref(m, b) = Ref(h, n)
      BY <1>3, <1>6, <1>7, <1>a DEF Ref, HI_NULL_INDEX, o, a
    <3>4. b # 0 /\ d # 0 => Ref(m, b) = d
      BY <1>6, <1>7, <1>a DEF Ref, HI_NULL_INDEX
    <3> QED BY <3>1, <3>2, <3>3, <3>4
  <2>2. (b # 0 => Ref(h, b) = n) /\ (c # 0 => Ref(h, c) = n)
    BY <1>6 DEF Ref, HI_NULL_INDEX
  <2>3. Ref(h, n) # n
    BY <1>3, <1>5 DEF Ref, HI_NULL_INDEX, a, o
  <2>4. 0 \notin T
    OBVIOUS
  <2>5. CASE c \in T \/ (b \in T /\ d = 0)
    <3> DEFINE U == T \cup {n}
    <3>1. U \in SUBSET S /\ U # {}
      OBVIOUS
    <3>2. Ref(h, n) \in T
      BY <2>1, <2>4, <2>5
    <3>3. \A i \in U : Ref(h, i) \in U
      BY <2>1, <2>2, <2>4, <3>2
    <3> HIDE DEF U
    <3> QED BY <3>1, <3>3 DEF Forest, Rooted
  <2>6. CASE c \notin T /\ b \notin T
    <3>1. \A i \in T : Ref(h, i) \in T
      BY <2>1, <2>6
    <3> QED BY <3>1 DEF Forest, Rooted
  <2>7. CASE c \notin T /\ b \in T /\ d # 0
    <3> DEFINE U == {i \in T : h[i].parent = n}
    <3>1. d \in T
      BY <2>1, <2>4, <2>7
    <3>2. U \in SUBSET S /\ U # {}
      BY <1>6, <2>7, <3>1
    <3>3. ASSUME NEW i \in U PROVE Ref(h, i) \in U
      <4>1. i \in R \ {b, c} /\ h[i].parent = n
        BY <1>3, <1>6, <2>7
      <4>2. h[i].prev # 0
        BY <1>8, <4>1
      <4>3. Ref(h, i) = h[i].prev /\ h[h[i].prev].parent = n
        BY <1>2, <4>1, <4>2 DEF Ref, HI_NULL_INDEX
      <4>4. Ref(h, i) \in T
        BY <2>1, <4>1
      <4> QED BY <4>3, <4>4
    <3> HIDE DEF U
    <3> QED BY <3>2, <3>3 DEF Forest, Rooted
  <2> QED BY <2>5, <2>6, <2>7
<1>14. \A i \in D \ (S \cup {0, r}) : h[i].parent # n => m[i] = h[i]
  BY <1>3, <1>6, <1>7
<1>15. \A i \in D \ (S \cup {r}) : m[i].first = h[i].first /\ m[i].last = h[i].last
  BY <1>3, <1>6, <1>7
<1> QED BY <1>12, <1>13, <1>14, <1>15 DEF Forest, Remaining

\* The tree U below the stub 0 has grown by n, the last child of p.
Grown(h, U, n, p, g) ==
    /\ g[n].parent = p /\ g[n].next = 0 /\ g[n].first = 0
    /\ \A i \in U \cup {0} : /\ g[i].first = IF i = p /\ h[p].last = 0 THEN n ELSE h[i].first
                             /\ g[i].last = IF i = p THEN n ELSE h[i].last
    /\ \A i \in U : /\ g[i].parent = h[i].parent
                    /\ g[i].next = IF i = h[p].last THEN n ELSE h[i].next

LEMMA GrowForests ==
    ASSUME NEW D, 0 \in D, NEW r \in D \ {0}, NEW S \in SUBSET (D \ {0, r}),
           NEW U \in SUBSET (D \ (S \cup {0, r})), NEW h \in [D -> LinksIn(D)],
           Forest(h, S, r), Forest(h, U, 0), NEW n \in D \ (S \cup U \cup {0, r}), NEW p \in U \cup {0}
    PROVE  LET g == AppendChild(h, n, p, Unlinked)
           IN  /\ g \in [D -> LinksIn(D)]
               /\ Forest(g, S, r)
               /\ Forest(g, U \cup {n}, 0)
               /\ Grown(h, U, n, p, g)
<1> DEFINE g == AppendChild(h, n, p, Unlinked)
<1>1. Unlinked \in LinksIn(D) /\ Unlinked.first = 0 /\ Unlinked.last = 0
  BY DEF Unlinked, LinksIn
<1>2. Extended(D, h, U, 0, n, g)
  <2>1. U \in SUBSET (D \ {0, 0}) /\ p \in U \cup {0} /\ n \in D \ (U \cup {0, 0})
    OBVIOUS
  <2> HIDE DEF g
  <2> QED BY <1>1, <2>1, AppendForest DEF g
<1>3. Appended(D, h, n, p, Unlinked, g)
  <2>1. h[p].last # n /\ p \in D \ {n}
    BY DEF Forest, WellLinked, HI_NULL_INDEX
  <2> HIDE DEF g
  <2> QED BY <1>1, <2>1, AppendLinks DEF g
<1> HIDE DEF g
<1>4. Forest(g, S, r)
  <2>1. \A i \in S \cup {r} : g[i] = h[i]
    BY <1>2 DEF Extended
  <2> QED BY <2>1, ForestFrame
<1>5. Grown(h, U, n, p, g)
  <2>1. \A i \in U \cup {0} : i \in D \ {n}
    OBVIOUS
  <2>2. 0 \notin U
    OBVIOUS
  <2> QED BY <1>1, <1>3, <2>1, <2>2 DEF Grown, Appended
<1> QED BY <1>2, <1>4, <1>5 DEF g, Extended

\* A node that is added, and one that is lifted out of the other tree.
LEMMA AddForests ==
    ASSUME NEW D, 0 \in D, NEW r \in D \ {0}, NEW S \in SUBSET (D \ {0, r}),
           NEW U \in SUBSET (D \ (S \cup {0, r})), NEW h \in [D -> LinksIn(D)],
           Forest(h, S, r), Forest(h, U, 0), NEW n \in D \ (S \cup U \cup {0, r}), NEW p \in U \cup {0}
    PROVE  LET g == HierarchyAdd(h, n, p)
           IN  /\ g \in [D -> LinksIn(D)]
               /\ Forest(g, S, r)
               /\ Forest(g, U \cup {n}, 0)
               /\ Grown(h, U, n, p, g)
BY GrowForests DEF HierarchyAdd

LEMMA AdoptForests ==
    ASSUME NEW D, 0 \in D, NEW r \in D \ {0}, NEW S \in SUBSET (D \ {0, r}),
           NEW U \in SUBSET (D \ (S \cup {0, r})), NEW h \in [D -> LinksIn(D)],
           Forest(h, S, r), Forest(h, U, 0), NEW n \in S, NEW p \in U \cup {0}
    PROVE  LET g == AdoptNodeExclusive(h, n, p)
           IN  /\ g \in [D -> LinksIn(D)]
               /\ Forest(g, S \ {n}, r)
               /\ Forest(g, U \cup {n}, 0)
               /\ Grown(h, U, n, p, g)
<1> DEFINE g == AdoptNodeExclusive(h, n, p)
<1>1. PICK m \in [D -> LinksIn(D)] :
         g = AppendChild(m, n, p, Unlinked) /\ Moved(D, h, n, m)
  BY MovedLinks
<1> HIDE DEF g
<1>2. /\ Forest(m, S \ {n}, r)
      /\ \A i \in D \ (S \cup {0, r}) : h[i].parent # n => m[i] = h[i]
      /\ \A i \in D \ (S \cup {r}) : m[i].first = h[i].first /\ m[i].last = h[i].last
  <2>1. Remaining(D, h, S, r, n, m)
    BY <1>1, LiftForest
  <2> QED BY <2>1 DEF Remaining
<1>3. /\ \A i \in U : m[i] = h[i]
      /\ m[0].first = h[0].first /\ m[0].last = h[0].last
  BY <1>2 DEF Forest, WellLinked
<1>4. Forest(m, U, 0)
  BY <1>3, ForestFrame
<1>5. /\ g \in [D -> LinksIn(D)]
      /\ Forest(g, S \ {n}, r)
      /\ Forest(g, U \cup {n}, 0)
      /\ Grown(m, U, n, p, g)
  <2> DEFINE R == S \ {n}
  <2>1. /\ R \in SUBSET (D \ {0, r}) /\ U \in SUBSET (D \ (R \cup {0, r}))
        /\ n \in D \ (R \cup U \cup {0, r})
    OBVIOUS
  <2> HIDE DEF R
  <2>2. Forest(m, R, r)
    BY <1>2 DEF R
  <2>3. /\ AppendChild(m, n, p, Unlinked) \in [D -> LinksIn(D)]
        /\ Forest(AppendChild(m, n, p, Unlinked), R, r)
        /\ Forest(AppendChild(m, n, p, Unlinked), U \cup {n}, 0)
        /\ Grown(m, U, n, p, AppendChild(m, n, p, Unlinked))
    BY <1>4, <2>1, <2>2, GrowForests
  <2> QED BY <1>1, <2>3 DEF R
<1>6. Grown(h, U, n, p, g)
  BY <1>3, <1>5 DEF Grown
<1> QED BY <1>5, <1>6 DEF g

LEMMA Childless ==
    ASSUME NEW D, 0 \in D, NEW x \in LinksIn(D), NEW y, y = [x EXCEPT !.first = 0, !.last = 0]
    PROVE  y \in LinksIn(D) /\ y.first = 0 /\ y.last = 0
BY DEF LinksIn

LEMMA Counted ==
    ASSUME NEW D, NEW x \in LinksIn(D), NEW q \in Int, NEW y, y = [x EXCEPT !.child_count = q]
    PROVE  y \in LinksIn(D) /\ y.first = x.first /\ y.last = x.last
BY DEF LinksIn

\* What is below the stub r is freed, and the tree below the stub 0 moves there.
LEMMA PruneForests ==
    ASSUME NEW D, IsFiniteSet(D), 0 \in D, NEW r \in D \ {0}, NEW S \in SUBSET (D \ {0, r}),
           NEW U \in SUBSET (D \ (S \cup {0, r})), NEW h \in [D -> LinksIn(D)],
           Forest(h, S, r), Forest(h, U, 0), NEW x \in U, h[0].first = x, h[0].last = x,
           \A i \in U : h[i].parent = 0 => i = x
    PROVE  LET g == AdoptNode(RemoveBelow(h, r), x, r)
           IN  /\ g \in [D -> LinksIn(D)]
               /\ Forest(g, U, r)
               /\ Forest(g, {}, 0)
               /\ \A i \in U : g[i].first = h[i].first /\ g[i].next = h[i].next
<1> DEFINE k == RemoveBelow(h, r)
           e == Detach(k, x)
           g == AppendChild(e, x, r, k[x])
           y == [h[r] EXCEPT !.first = 0, !.last = 0,
                             !.child_count = @ - Cardinality({j \in S : h[j].parent = r})]
<1>1. Below(h, r) = S
  BY BelowForest
<1>2. k = [i \in D |-> IF i \in S THEN Unlinked ELSE IF i = r THEN y ELSE h[i]]
  BY <1>1 DEF RemoveBelow, HI_NULL_INDEX
<1>3. Unlinked \in LinksIn(D) /\ y \in LinksIn(D) /\ y.first = 0 /\ y.last = 0
  <2>1. Cardinality({j \in S : h[j].parent = r}) \in Int
    <3>1. IsFiniteSet({j \in S : h[j].parent = r})
      BY FS_Subset
    <3> QED BY <3>1, FS_CardinalityType
  <2> DEFINE q == Cardinality({j \in S : h[j].parent = r})
  <2> HIDE DEF q
  <2>2. y = [h[r] EXCEPT !.first = 0, !.last = 0, !.child_count = @ - q] /\ q \in Int
    BY <2>1 DEF q
  <2>3. h[r] \in LinksIn(D)
    OBVIOUS
  <2> HIDE DEF y
  <2> DEFINE w == [h[r] EXCEPT !.first = 0, !.last = 0]
             v == w.child_count - q
  <2>4. w \in LinksIn(D) /\ w.first = 0 /\ w.last = 0
    <3> HIDE DEF w
    <3> QED BY <2>3, Childless DEF w
  <2>5. y = [w EXCEPT !.child_count = v]
    BY <2>2, <2>3 DEF LinksIn
  <2>6. y \in LinksIn(D) /\ y.first = 0 /\ y.last = 0
    <3> HIDE DEF w
    <3>1. v \in Int
      BY <2>2, <2>4 DEF LinksIn
    <3> HIDE DEF v
    <3> QED BY <2>4, <2>5, <3>1, Counted
  <2> QED BY <2>6 DEF LinksIn, Unlinked
<1> HIDE DEF k, y
<1>4. /\ k \in [D -> LinksIn(D)] /\ \A i \in U \cup {0} : k[i] = h[i]
      /\ k[r].first = 0 /\ k[r].last = 0
  BY <1>2, <1>3
<1>5. h[x].parent = 0 /\ h[x].prev = 0 /\ h[x].next = 0
  BY DEF Forest, WellLinked, HI_NULL_INDEX
<1>7. /\ e \in [D -> LinksIn(D)] /\ \A i \in D \ {0} : e[i] = k[i]
      /\ e[0].first = 0 /\ e[0].last = 0
  <2> DEFINE z == [k EXCEPT ![0].child_count = @ - 1,
                            ![0].prev = IF 0 = 0 THEN @ ELSE 0,
                            ![0].next = IF 0 = 0 THEN @ ELSE 0]
  <2>1. k[x].parent = 0 /\ k[x].prev = 0 /\ k[x].next = 0 /\ k[0].first = k[0].last
    BY <1>4, <1>5
  <2>2. e = [z EXCEPT ![0].first = 0, ![0].last = 0]
    BY <2>1 DEF Detach, HI_NULL_INDEX
  <2>3. z \in [D -> LinksIn(D)] /\ \A i \in D \ {0} : z[i] = k[i]
    <3>1. z = [k EXCEPT ![0].child_count = @ - 1]
      BY <1>4 DEF LinksIn
    <3> HIDE DEF z
    <3> QED BY <1>4, <3>1 DEF LinksIn
  <2> HIDE DEF e, z
  <2>4. /\ \A i \in D \ {0} : e[i] = k[i]
        /\ e[0] = [z[0] EXCEPT !.first = 0, !.last = 0]
    BY <2>2, <2>3
  <2>5. e[0] \in LinksIn(D) /\ e[0].first = 0 /\ e[0].last = 0
    <3> DEFINE e0 == e[0]
               z0 == z[0]
    <3>1. z0 \in LinksIn(D)
      BY <2>3
    <3>2. e0 = [z0 EXCEPT !.first = 0, !.last = 0]
      BY <2>4
    <3>3. e0 \in LinksIn(D) /\ e0.first = 0 /\ e0.last = 0
      <4> HIDE DEF e0, z0
      <4> QED BY <3>1, <3>2, Childless
    <3> QED BY <3>3
  <2>6. e = [i \in D |-> e[i]]
    BY <2>2, <2>3
  <2> QED BY <1>4, <2>4, <2>5, <2>6
<1> HIDE DEF e
<1>8. Appended(D, e, x, r, k[x], g)
  <2>1. e[r].last # x /\ r \in D \ {x} /\ k[x] \in LinksIn(D)
    BY <1>4, <1>7
  <2> HIDE DEF g
  <2> QED BY <1>7, <2>1, AppendLinks DEF g
<1> HIDE DEF g
<1>9. /\ g \in [D -> LinksIn(D)]
      /\ \A i \in U \ {x} : g[i] = h[i]
      /\ g[x].parent = r /\ g[x].prev = 0 /\ g[x].next = 0
      /\ g[x].first = h[x].first /\ g[x].last = h[x].last
      /\ g[r].first = x /\ g[r].last = x
      /\ g[0].first = 0 /\ g[0].last = 0
  BY <1>4, <1>7, <1>8 DEF Appended
<1>10. Forest(g, {}, 0)
  BY <1>9 DEF Forest, WellLinked, Rooted, HI_NULL_INDEX
<1>11. /\ \A i \in U :
            /\ h[i].parent \in U \cup {0} /\ h[i].next \in U \cup {0} /\ h[i].prev \in U \cup {0}
            /\ h[i].next = 0 => h[h[i].parent].last = i
            /\ h[i].next # 0 => h[h[i].next].prev = i /\ h[h[i].next].parent = h[i].parent
            /\ h[i].prev = 0 => h[h[i].parent].first = i
            /\ h[i].prev # 0 => h[h[i].prev].next = i
      /\ \A q \in U \cup {0} :
            /\ h[q].first \in U \cup {0} /\ h[q].last \in U \cup {0}
            /\ h[q].first = 0 <=> h[q].last = 0
            /\ h[q].first # 0 => h[h[q].first].parent = q /\ h[h[q].first].prev = 0
            /\ h[q].last # 0 => h[h[q].last].parent = q /\ h[h[q].last].next = 0
  BY DEF Forest, WellLinked, HI_NULL_INDEX
<1>12. ASSUME NEW i \in U
       PROVE  /\ g[i].parent \in U \cup {r} /\ g[i].next \in U \cup {0} /\ g[i].prev \in U \cup {0}
              /\ g[i].next = 0 => g[g[i].parent].last = i
              /\ g[i].next # 0 => g[g[i].next].prev = i /\ g[g[i].next].parent = g[i].parent
              /\ g[i].prev = 0 => g[g[i].parent].first = i
              /\ g[i].prev # 0 => g[g[i].prev].next = i
  <2>1. CASE i = x
    BY <1>9, <2>1
  <2>2. CASE i # x
    <3>1. h[i].parent \in U /\ h[i].next # x /\ h[i].prev # x
      BY <1>5, <1>11, <2>2
    <3> QED BY <1>9, <1>11, <2>2, <3>1
  <2> QED BY <2>1, <2>2
<1>13. ASSUME NEW q \in U \cup {r}
       PROVE  /\ g[q].first \in U \cup {0} /\ g[q].last \in U \cup {0}
              /\ g[q].first = 0 <=> g[q].last = 0
              /\ g[q].first # 0 => g[g[q].first].parent = q /\ g[g[q].first].prev = 0
              /\ g[q].last # 0 => g[g[q].last].parent = q /\ g[g[q].last].next = 0
  <2>1. CASE q = r
    BY <1>9, <2>1
  <2>2. CASE q # r
    <3>1. h[q].first # x /\ h[q].last # x
      BY <1>5, <1>11, <2>2
    <3> QED BY <1>9, <1>11, <2>2, <3>1
  <2> QED BY <2>1, <2>2
<1>14. WellLinked(g, U, r)
  BY <1>12, <1>13 DEF WellLinked, HI_NULL_INDEX
<1>15. Rooted(g, U)
  <2> SUFFICES ASSUME NEW T \in SUBSET U, T # {}, \A i \in T : Ref(g, i) \in T PROVE FALSE
    BY DEF Rooted
  <2>1. \A i \in U \ {x} : Ref(g, i) = Ref(h, i)
    BY <1>9 DEF Ref
  <2>2. Ref(g, x) = r
    BY <1>9 DEF Ref, HI_NULL_INDEX
  <2>3. x \notin T
    BY <2>2
  <2>4. \A i \in T : Ref(h, i) \in T
    BY <2>1, <2>3
  <2> QED BY <2>4 DEF Forest, Rooted
<1>16. \A i \in U : g[i].first = h[i].first /\ g[i].next = h[i].next
  BY <1>5, <1>9
<1> QED BY <1>9, <1>10, <1>14, <1>15, <1>16 DEF Forest, AdoptNode, g, e, k

\* No two links of a forest lead to the same node.
LEMMA ForestFoundOnce ==
    ASSUME NEW D, IsFiniteSet(D), 0 \in D, NEW h \in [D -> LinksIn(D)], NEW r \in D \ {0},
           NEW S \in SUBSET (D \ {0, r}), Forest(h, S, r)
    PROVE  FoundOnce(h, r)
<1>1. Below(h, r) = S
  BY BelowForest
<1>2. /\ \A i \in S : h[i].next # 0 => h[i].next \in S /\ h[h[i].next].prev = i
      /\ \A i \in S \cup {r} : h[i].first # 0 => h[h[i].first].parent = i /\ h[h[i].first].prev = 0
  BY DEF Forest, WellLinked, HI_NULL_INDEX
<1> DEFINE B == Below(h, r)
<1> HIDE DEF B
<1>3. /\ \A i, j \in B \cup {r} : h[i].first = h[j].first => i = j \/ h[i].first = 0
      /\ \A i, j \in B : h[i].next = h[j].next => i = j \/ h[i].next = 0
      /\ \A i \in B \cup {r}, j \in B : h[i].first = h[j].next => h[i].first = 0
  BY <1>1, <1>2 DEF B
<1> QED BY <1>3 DEF FoundOnce, HI_NULL_INDEX, B

-----------------------------------------------------------------------------
(* The order of children.                                                   *)

\* What is listed is the children, and the last of them is the last child.
LEMMA ListedChildren ==
    ASSUME NEW D, NEW h \in [D -> LinksIn(D)], NEW r \in D, NEW U \in SUBSET (D \ {0, r}),
           Forest(h, U, r), NEW q \in U \cup {r}, NEW s \in Seq(D), Listed(h, q, s)
    PROVE  /\ \A k \in 1..Len(s) : s[k] \in U /\ h[s[k]].parent = q
           /\ h[q].last = IF s = <<>> THEN 0 ELSE s[Len(s)]
<1> DEFINE L == Len(s)
           G == {k \in 0..L : k # 0 => s[k] \in U /\ h[s[k]].parent = q}
<1>1. L \in Nat /\ DOMAIN s = 1..L /\ (s = <<>> <=> L = 0)
  OBVIOUS
<1>2. /\ h[q].first = IF L = 0 THEN 0 ELSE s[1]
      /\ \A k \in 1..L : s[k] # 0 /\ h[s[k]].next = IF k = L THEN 0 ELSE s[k + 1]
  BY <1>1 DEF Listed, HI_NULL_INDEX
<1>3. /\ h[q].first # 0 => h[q].first \in U /\ h[h[q].first].parent = q
      /\ \A i \in U : h[i].next # 0 => h[i].next \in U /\ h[h[i].next].parent = h[i].parent
      /\ \A i \in U : h[i].next = 0 => h[h[i].parent].last = i
      /\ h[q].first = 0 => h[q].last = 0
  BY DEF Forest, WellLinked, HI_NULL_INDEX
<1> HIDE DEF L
<1>4. 0 \in G
  BY <1>1
<1>5. ASSUME NEW k \in 1..L, k - 1 \in G PROVE k \in G
  <2>1. CASE k = 1
    BY <1>1, <1>2, <1>3, <2>1
  <2>2. CASE k # 1
    <3>1. k - 1 \in 1..L /\ k - 1 # L /\ s[k - 1] \in U /\ h[s[k - 1]].parent = q
      BY <1>1, <1>5, <2>2
    <3>2. h[s[k - 1]].next = s[k] /\ s[k] # 0
      BY <1>1, <1>2, <3>1
    <3> QED BY <1>1, <1>3, <3>1, <3>2
  <2> QED BY <2>1, <2>2
<1>6. \A k \in 0..L : k \in G
  <2> HIDE DEF G
  <2> QED BY <1>1, <1>4, <1>5, UpTo
<1>7. \A k \in 1..L : s[k] \in U /\ h[s[k]].parent = q
  BY <1>1, <1>6
<1>8. h[q].last = IF L = 0 THEN 0 ELSE s[L]
  BY <1>1, <1>2, <1>3, <1>7
<1> QED BY <1>1, <1>7, <1>8 DEF L

\* A tree that grows by n lists n last below its parent, and all else as before.
LEMMA GrownListed ==
    ASSUME NEW D, 0 \in D, NEW h \in [D -> LinksIn(D)], NEW g \in [D -> LinksIn(D)],
           NEW U \in SUBSET (D \ {0}), Forest(h, U, 0), NEW n \in D \ (U \cup {0}),
           NEW p \in U \cup {0}, Grown(h, U, n, p, g),
           NEW q \in U, NEW s \in Seq(D), Listed(h, q, s)
    PROVE  Listed(g, q, IF q = p THEN Append(s, n) ELSE s)
<1> DEFINE L == Len(s)
           l == h[p].last
<1>1. L \in Nat /\ DOMAIN s = 1..L /\ (s = <<>> <=> L = 0)
  OBVIOUS
<1>2. /\ \A k \in 1..L : s[k] \in U /\ h[s[k]].parent = q
      /\ h[q].last = IF s = <<>> THEN 0 ELSE s[Len(s)]
  <2>1. U \in SUBSET (D \ {0, 0}) /\ q \in U \cup {0}
    OBVIOUS
  <2> QED BY <2>1, ListedChildren
<1>3. /\ h[q].first = IF L = 0 THEN 0 ELSE s[1]
      /\ \A k \in 1..L : s[k] \in D \ {0} /\ h[s[k]].next = IF k = L THEN 0 ELSE s[k + 1]
      /\ \A j, k \in 1..L : s[j] = s[k] => j = k
  BY <1>1 DEF Listed, HI_NULL_INDEX
<1>4. /\ g[n].next = 0
      /\ g[q].first = IF q = p /\ l = 0 THEN n ELSE h[q].first
      /\ \A k \in 1..L : g[s[k]].next = IF s[k] = l THEN n ELSE h[s[k]].next
  BY <1>2 DEF Grown
<1>5. l # 0 => h[l].parent = p
  BY DEF Forest, WellLinked, HI_NULL_INDEX
<1> HIDE DEF L, l
<1>6. CASE q # p
  <2>1. \A k \in 1..L : s[k] # l
    BY <1>2, <1>3, <1>5, <1>6
  <2>2. g[q].first = IF s = <<>> THEN 0 ELSE s[1]
    BY <1>1, <1>3, <1>4, <1>6
  <2>3. \A k \in 1..L : s[k] \in D \ {0} /\ g[s[k]].next = IF k = L THEN 0 ELSE s[k + 1]
    BY <1>3, <1>4, <2>1
  <2>4. DOMAIN g = D
    OBVIOUS
  <2>5. Listed(g, q, s)
    BY ZenonT(30), <1>1, <1>3, <2>2, <2>3, <2>4 DEF Listed, HI_NULL_INDEX, L
  <2> QED BY <1>6, <2>5
<1>7. CASE q = p
  <2> DEFINE t == Append(s, n)
  <2>1. /\ Len(t) = L + 1 /\ DOMAIN t = 1..(L + 1) /\ t # <<>>
        /\ \A k \in 1..L : t[k] = s[k]
        /\ t[L + 1] = n
    BY <1>1 DEF L
  <2>2. l = IF L = 0 THEN 0 ELSE s[L]
    BY <1>1, <1>2, <1>7 DEF l, L
  <2> HIDE DEF t
  <2>3. g[q].first = t[1]
    BY <1>1, <1>3, <1>4, <1>7, <2>1, <2>2
  <2>4. \A k \in 1..(L + 1) : t[k] \in D \ {0}
    BY <1>1, <1>3, <2>1
  <2>5. \A j, k \in 1..(L + 1) : t[j] = t[k] => j = k
    BY <1>1, <1>2, <1>3, <2>1
  <2>6. ASSUME NEW k \in 1..(L + 1) PROVE g[t[k]].next = IF k = L + 1 THEN 0 ELSE t[k + 1]
    <3>1. CASE k = L + 1
      BY <1>4, <2>1, <3>1
    <3>2. CASE k = L
      <4>1. k \in 1..L /\ t[k] = s[L] /\ s[L] = l
        BY <1>1, <2>1, <2>2, <3>2
      <4>2. g[t[k]].next = n
        BY <1>4, <3>2, <4>1
      <4> QED BY <1>1, <2>1, <3>2, <4>2
    <3>3. CASE k \in 1..(L - 1)
      <4>1. k \in 1..L /\ k + 1 \in 1..L /\ L \in 1..L /\ k # L /\ k # L + 1
        BY <1>1, <3>3
      <4>2. s[k] # l
        BY <1>3, <2>2, <4>1
      <4>3. g[s[k]].next = s[k + 1]
        BY <1>3, <1>4, <4>1, <4>2
      <4> QED BY <2>1, <4>1, <4>3
    <3> QED BY <1>1, <3>1, <3>2, <3>3
  <2>7. Listed(g, q, t)
    BY <1>1, <2>1, <2>3, <2>4, <2>5, <2>6 DEF Listed, HI_NULL_INDEX
  <2> QED BY <1>7, <2>7 DEF t
<1> QED BY <1>6, <1>7

\* It lists nothing below n.
LEMMA GrownLeaf ==
    ASSUME NEW h, NEW U, NEW n, NEW p, NEW g, Grown(h, U, n, p, g)
    PROVE  Listed(g, n, <<>>)
BY DEF Grown, Listed, HI_NULL_INDEX

-----------------------------------------------------------------------------
(* The state, with what an operator reads as parameters, so that it can be  *)
(* said of the state before a step and of the one after it.                 *)

Indices == 0..LastSlot

\* Lookup, on any map.
LookIn(m, id) == IF \E i \in Slots : <<id, i>> \in m THEN CHOOSE i \in Slots : <<id, i>> \in m ELSE NoNode

\* EnablesOK, FocusOK, Sound and EditOK with the map, the nodes and the rest as parameters.
EnableIn(c, m, nd, ph, t) ==
    LET i == LookIn(m, c.id)
    IN  /\ c.id \in Editable \ {t}
        /\ i # NoNode
        /\ nd[i].focus
        /\ c.input = InputOf(c.id, i)
        /\ ph = "build" => nd[i].age = 0 /\ nd[i].hover

EnablesIn(q, m, nd, ph, t) ==
    /\ \A j \in DOMAIN q : q[j].op = "enable" => EnableIn(q[j], m, nd, ph, t)
    /\ \A j, k \in DOMAIN q : q[j].op = "enable" /\ q[k].op = "enable" => j = k
    /\ \A j \in DOMAIN q : q[j].op = "text_op" => ph = "commands"

FocusIn(q, m, nd, mode, t) ==
    \A i \in Slots : nd[i].focus =>
        \/ mode /\ i = LookIn(m, t)
        \/ \E j \in DOMAIN q : q[j].op = "enable" /\ LookIn(m, q[j].id) = i

SoundIn(m, nd, mode, t, te) ==
    mode => LET i == LookIn(m, t.id)
            IN  i # NoNode /\ nd[i].focus /\ te = InputOf(t.id, i) /\ t.age = 0

MendingIn(q, t) ==
    \E j \in DOMAIN q :
       /\ q[j].op = "enable" \/ (q[j].op = "disable" /\ q[j].id = t)
       /\ \A k \in DOMAIN q : q[k].op = "text_op" => j < k

BuildingIn(m, nd, mode, t, te) ==
    mode => LET i == LookIn(m, t)
            IN  i # NoNode /\ te = InputOf(t, i) /\ (nd[i].age # 0 => nd[i].focus)

LEMMA Views ==
    /\ EnablesOK <=> EnablesIn(queue, map, node, phase, text_edit_id.id)
    /\ FocusOK <=> FocusIn(queue, map, node, text_edit_mode, text_edit_id.id)
    /\ EditOK <=> IF phase = "build" THEN BuildingIn(map, node, text_edit_mode, text_edit_id.id, text_edit)
                  ELSE \/ SoundIn(map, node, text_edit_mode, text_edit_id, text_edit)
                       \/ MendingIn(queue, text_edit_id.id)
<1> USE DEF Lookup, LookIn
<1>1. EnablesOK <=> EnablesIn(queue, map, node, phase, text_edit_id.id)
  BY DEF EnablesOK, EnablesIn, EnableIn
<1>2. FocusOK <=> FocusIn(queue, map, node, text_edit_mode, text_edit_id.id)
  BY DEF FocusOK, FocusIn, Edited
<1>3. Sound <=> SoundIn(map, node, text_edit_mode, text_edit_id, text_edit)
  BY DEF Sound, SoundIn, Edited, EditedInput
<1>4. EditOK <=> IF phase = "build" THEN BuildingIn(map, node, text_edit_mode, text_edit_id.id, text_edit)
                  ELSE \/ SoundIn(map, node, text_edit_mode, text_edit_id, text_edit)
                       \/ MendingIn(queue, text_edit_id.id)
  BY <1>3 DEF EditOK, BuildingIn, MendingIn, Repairs, Edited, EditedInput
<1> QED BY <1>1, <1>2, <1>4

LEMMA ViewsNext ==
    /\ EnablesOK' <=> EnablesIn(queue', map', node', phase', text_edit_id'.id)
    /\ FocusOK' <=> FocusIn(queue', map', node', text_edit_mode', text_edit_id'.id)
    /\ EditOK' <=> IF phase' = "build" THEN BuildingIn(map', node', text_edit_mode', text_edit_id'.id, text_edit')
                  ELSE \/ SoundIn(map', node', text_edit_mode', text_edit_id', text_edit')
                       \/ MendingIn(queue', text_edit_id'.id)
<1> USE DEF Lookup, LookIn
<1>1. EnablesOK' <=> EnablesIn(queue', map', node', phase', text_edit_id'.id)
  BY DEF EnablesOK, EnablesIn, EnableIn
<1>2. FocusOK' <=> FocusIn(queue', map', node', text_edit_mode', text_edit_id'.id)
  BY DEF FocusOK, FocusIn, Edited
<1>3. Sound' <=> SoundIn(map', node', text_edit_mode', text_edit_id', text_edit')
  BY DEF Sound, SoundIn, Edited, EditedInput
<1>4. EditOK' <=> IF phase' = "build" THEN BuildingIn(map', node', text_edit_mode', text_edit_id'.id, text_edit')
                  ELSE \/ SoundIn(map', node', text_edit_mode', text_edit_id', text_edit')
                       \/ MendingIn(queue', text_edit_id'.id)
  BY <1>3 DEF EditOK, BuildingIn, MendingIn, Repairs, Edited, EditedInput
<1> QED BY <1>1, <1>2, <1>4

\* What the map finds: the node of that identifier.
Finds(m, nd, u) ==
    \A id : /\ LookIn(m, id) \in u \cup {NoNode}
            /\ \A i \in Slots : LookIn(m, id) = i <=> i \in u /\ nd[i].id = id /\ id # NoId

LEMMA Found ==
    ASSUME LastSlot \in Nat, NEW nd, NEW u \in SUBSET Slots, NEW m,
           m = {<<nd[i].id, i>> : i \in {j \in u : nd[j].id # NoId}},
           \A i, j \in u : nd[i].id = nd[j].id => i = j \/ nd[i].id = NoId
    PROVE  Finds(m, nd, u)
<1> SUFFICES ASSUME NEW id
             PROVE  /\ LookIn(m, id) \in u \cup {NoNode}
                    /\ \A i \in Slots : LookIn(m, id) = i <=> i \in u /\ nd[i].id = id /\ id # NoId
  BY DEF Finds
<1>1. \A i \in Slots : <<id, i>> \in m <=> i \in u /\ nd[i].id = id /\ id # NoId
  OBVIOUS
<1>2. NoNode \notin Slots
  BY DEF NoNode, Slots
<1>3. CASE \E i \in Slots : <<id, i>> \in m
  <2>1. LookIn(m, id) \in Slots /\ <<id, LookIn(m, id)>> \in m
    BY <1>3 DEF LookIn
  <2> QED BY <1>1, <2>1
<1>4. CASE ~ \E i \in Slots : <<id, i>> \in m
  <2>1. LookIn(m, id) = NoNode
    BY <1>4 DEF LookIn
  <2> QED BY <1>1, <1>2, <1>4, <2>1
<1> QED BY <1>3, <1>4

LEMMA Bounds ==
    ASSUME budget \in Budgets
    PROVE  /\ LastSlot \in Nat /\ LastSlot >= 1
           /\ IsFiniteSet(Indices) /\ 0 \in Indices /\ 1 \in Indices \ {0}
           /\ Slots \subseteq Indices \ {0, 1} /\ Slots \subseteq Int
<1>1. LastSlot \in Nat /\ LastSlot >= 1
  BY BoundsAssumption
<1>2. IsFiniteSet(Indices)
  BY <1>1, FS_Interval DEF Indices
<1> QED BY <1>1, <1>2 DEF Indices, Slots

\* The map, read by ui_node_lookup, between the steps.
LEMMA Lookups ==
    ASSUME TypeOK, CacheOK
    PROVE  /\ Finds(map, node, InUse)
           /\ \A id : Lookup(id) = LookIn(map, id)
<1>1. LastSlot \in Nat /\ InUse \in SUBSET Slots
  BY Bounds DEF TypeOK, InUse
<1>2. Finds(map, node, InUse)
  BY <1>1, Found DEF CacheOK
<1> QED BY <1>2 DEF Lookup, LookIn

-----------------------------------------------------------------------------
(* The queue of commands.                                                   *)

Queued(q, w, x) ==
    /\ x \in Seq(Commands)
    /\ Len(q) \in Nat /\ Len(w) \in Nat /\ Len(x) = Len(q) + Len(w)
    /\ DOMAIN q = 1..Len(q) /\ DOMAIN w = 1..Len(w) /\ DOMAIN x = 1..Len(x)
    /\ \A k \in DOMAIN q : k \in DOMAIN x /\ x[k] = q[k]
    /\ \A k \in DOMAIN x : k \in DOMAIN q \/ (k - Len(q) \in DOMAIN w /\ x[k] = w[k - Len(q)])
    /\ \A k \in DOMAIN w : Len(q) + k \in DOMAIN x /\ x[Len(q) + k] = w[k]

LEMMA Queue ==
    ASSUME NEW q \in Seq(Commands), NEW w \in Seq(Commands)
    PROVE  Queued(q, w, q \o w)
<1>1. q \o w \in Seq(Commands) /\ Len(q \o w) = Len(q) + Len(w)
  OBVIOUS
<1>2. Len(q) \in Nat /\ Len(w) \in Nat /\ DOMAIN q = 1..Len(q) /\ DOMAIN w = 1..Len(w)
      /\ DOMAIN (q \o w) = 1..Len(q \o w)
  OBVIOUS
<1>3. \A k \in 1..Len(q) + Len(w) : (q \o w)[k] = IF k <= Len(q) THEN q[k] ELSE w[k - Len(q)]
  OBVIOUS
<1> DEFINE x == q \o w
<1> HIDE DEF x
<1>4. \A k \in DOMAIN q : k \in DOMAIN x /\ x[k] = q[k]
  BY <1>1, <1>2, <1>3 DEF x
<1>5. \A k \in DOMAIN x : k \in DOMAIN q \/ (k - Len(q) \in DOMAIN w /\ x[k] = w[k - Len(q)])
  BY <1>1, <1>2, <1>3 DEF x
<1>6. \A k \in DOMAIN w : Len(q) + k \in DOMAIN x /\ x[Len(q) + k] = w[k]
  BY <1>1, <1>2, <1>3 DEF x
<1> QED BY <1>1, <1>2, <1>4, <1>5, <1>6 DEF Queued, x

\* The first command is taken.
LEMMA Dequeue ==
    ASSUME NEW q \in Seq(Commands), q # <<>>, NEW x, x = Tail(q)
    PROVE  /\ Head(q) = q[1] /\ 1 \in DOMAIN q /\ q[1] \in Commands
           /\ x \in Seq(Commands)
           /\ DOMAIN q \subseteq Int
           /\ \A k \in DOMAIN x : k + 1 \in DOMAIN q /\ k \in Nat \ {0} /\ x[k] = q[k + 1]
           /\ \A k \in DOMAIN q : k = 1 \/ (k - 1 \in DOMAIN x /\ x[k - 1] = q[k])
<1>1. Len(q) \in Nat /\ DOMAIN q = 1..Len(q) /\ Len(q) # 0
  OBVIOUS
<1>2. x \in Seq(Commands) /\ Len(x) = Len(q) - 1 /\ DOMAIN x = 1..Len(x)
  OBVIOUS
<1>3. \A k \in 1..Len(q) - 1 : x[k] = q[k + 1]
  OBVIOUS
<1>4. Head(q) = q[1] /\ 1 \in DOMAIN q /\ q[1] \in Commands
  BY <1>1
<1>5. \A k \in DOMAIN x : k + 1 \in DOMAIN q /\ k \in Nat \ {0} /\ x[k] = q[k + 1]
  BY <1>1, <1>2, <1>3
<1>6. \A k \in DOMAIN q : k = 1 \/ (k - 1 \in DOMAIN x /\ x[k - 1] = q[k])
  BY <1>1, <1>2, <1>3
<1> QED BY <1>1, <1>2, <1>4, <1>5, <1>6

-----------------------------------------------------------------------------
(* Steps that leave the trees, the map and the identifiers alone.           *)

LEMMA SameNodes ==
    ASSUME IInv, links' = links, free' = free, map' = map, root' = root, list' = list,
           node_hovered' = node_hovered, node' \in [Slots -> Nodes],
           \A i \in Slots : /\ node'[i].id = node[i].id /\ node'[i].age = node[i].age
                            /\ node'[i].hover = node[i].hover
                            /\ node'[i].focus => node[i].focus,
           (phase' = "build") <=> (phase = "build")
    PROVE  TreesOK' /\ OrderOK' /\ CacheOK' /\ KeptOK'
<1> USE DEF IInv
<1>1. Built' = Built /\ InUse' = InUse
  BY DEF Built, InUse
<1>2. New' = New /\ Old' = Old
  BY <1>1 DEF New, Old
<1>3. TreesOK'
  BY <1>1, <1>2 DEF TreesOK
<1>4. OrderOK'
  BY <1>1 DEF OrderOK
<1>5. CacheOK'
  <2>1. \A i \in free' : node'[i] = Blank
    <3> SUFFICES ASSUME NEW i \in free PROVE node'[i] = Blank
      OBVIOUS
    <3>1. node[i] = Blank /\ i \in Slots
      BY DEF CacheOK, TypeOK
    <3>2. /\ node'[i] \in Nodes
          /\ node'[i].id = NoId /\ node'[i].age = 2 /\ node'[i].hover = FALSE /\ node'[i].focus = FALSE
      BY <3>1 DEF Blank, Nodes
    <3> QED BY <3>2 DEF Blank, Nodes
  <2>2. \A i \in InUse' : node'[i].age <= (IF phase' = "build" THEN 1 ELSE 0)
    BY <1>1 DEF CacheOK, InUse
  <2>3. \A i, j \in InUse' : node'[i].id = node'[j].id => i = j \/ node'[i].id = NoId
    BY <1>1 DEF CacheOK, InUse
  <2>4. map' = {<<node'[i].id, i>> : i \in {j \in InUse' : node'[j].id # NoId}}
    BY <1>1 DEF CacheOK, InUse
  <2> QED BY <2>1, <2>2, <2>3, <2>4 DEF CacheOK
<1>6. KeptOK'
  <2>1. \A i \in Slots : node'[i].hover => node'[i].id = node_hovered'.id /\ node'[i].id # NoId
    BY DEF KeptOK
  <2>2. node_hovered'.id # NoId => node_hovered'.age <= (IF phase' = "build" THEN 1 ELSE 0)
    BY DEF KeptOK
  <2>3. list'.age = 0 => <<ListId, list'.index>> \in map' /\ node'[list'.index].age = 0
    BY DEF KeptOK, TypeOK
  <2>4. phase' = "build" /\ list'.age = 1 => <<ListId, list'.index>> \in map'
    BY DEF KeptOK
  <2> QED BY <2>1, <2>2, <2>3, <2>4 DEF KeptOK
<1> QED BY <1>3, <1>4, <1>5, <1>6

\* Parts that a step between frames does not touch.
LEMMA SameOutside ==
    ASSUME IInv, treeVars' = treeVars, list' = list, node_hovered' = node_hovered,
           stack_parent' = stack_parent, (phase' = "build") <=> (phase = "build")
    PROVE  TreesOK' /\ OrderOK' /\ StackOK' /\ CacheOK' /\ KeptOK'
<1>1. /\ links' = links /\ free' = free /\ map' = map /\ root' = root /\ node' = node
      /\ node \in [Slots -> Nodes]
  BY DEF treeVars, IInv, TypeOK
<1>2. TreesOK' /\ OrderOK' /\ CacheOK' /\ KeptOK'
  BY <1>1, SameNodes
<1>3. StackOK'
  BY <1>1 DEF IInv, StackOK, Built
<1> QED BY <1>2, <1>3

\* What is queued are commands.
LEMMA CommandTypes ==
    /\ TextOp \in Commands /\ TextOp.op = "text_op"
    /\ \A id \in Ids \cup {NoId} :
          /\ Disable(id) \in Commands /\ Disable(id).op = "disable" /\ Disable(id).id = id
          /\ Flush(id) \in Commands /\ Flush(id).op = "flush"
          /\ \A x \in Inputs : /\ Enable(id, x) \in Commands
                               /\ Enable(id, x).op = "enable" /\ Enable(id, x).id = id
                               /\ Enable(id, x).input = x
BY DEF TextOp, Disable, Flush, Enable, Command, Commands, Inputs, StubInput

LEMMA ProcessEventsKeeps ==
    ASSUME IInv, NEW clicked \in BOOLEAN, NEW escaped \in BOOLEAN,
           NEW texts \in {<<>>, <<TextOp>>}, ProcessEvents(clicked, escaped, texts)
    PROVE  IInv'
<1> DEFINE ended == IF escaped /\ text_edit_mode THEN <<Disable(text_edit_id.id)>> ELSE <<>>
<1>1. /\ phase = "events" /\ phase' = "commands" /\ click' = clicked /\ escape' = escaped
      /\ links' = links /\ node' = node /\ free' = free /\ map' = map /\ root' = root
      /\ stack_parent' = stack_parent /\ node_hovered' = node_hovered /\ list' = list
      /\ text_edit_id' = text_edit_id /\ text_edit' = text_edit /\ text_edit_mode' = text_edit_mode
      /\ budget' = budget
  BY DEF ProcessEvents, treeVars, editVars
<1>2. TypeOK /\ queue \in Seq(Commands) /\ text_edit_id \in Names
  BY DEF IInv, TypeOK
<1>3. PICK w \in Seq(Commands) :
         queue' = queue \o w /\ \A k \in DOMAIN w : w[k].op \in {"disable", "text_op"}
  <2>1. ended \in Seq(Commands) /\ \A k \in DOMAIN ended : ended[k].op \in {"disable", "text_op"}
    <3>1. Disable(text_edit_id.id) \in Commands /\ Disable(text_edit_id.id).op = "disable"
      BY <1>2, CommandTypes DEF Names
    <3>2. CASE escaped /\ text_edit_mode
      <4>1. ended = <<Disable(text_edit_id.id)>>
        BY <3>2
      <4> QED BY <3>1, <4>1
    <3>3. CASE ~ (escaped /\ text_edit_mode)
      <4>1. ended = <<>>
        BY <3>3
      <4> QED BY <4>1
    <3> QED BY <3>2, <3>3
  <2>2. texts \in Seq(Commands) /\ \A k \in DOMAIN texts : texts[k].op \in {"disable", "text_op"}
    <3>1. CASE texts = <<>>
      BY <3>1
    <3>2. CASE texts = <<TextOp>>
      BY <3>2, CommandTypes
    <3> QED BY <3>1, <3>2
  <2>3. queue' \in {(queue \o ended) \o texts, (queue \o texts) \o ended}
    BY DEF ProcessEvents
  <2> HIDE DEF ended
  <2>4. queue' \in {queue \o (ended \o texts), queue \o (texts \o ended)}
    <3>1. (queue \o ended) \o texts = queue \o (ended \o texts)
      BY <1>2, <2>1, <2>2, ConcatAssociative
    <3>2. (queue \o texts) \o ended = queue \o (texts \o ended)
      BY SMTT(30), <1>2, <2>1, <2>2, ConcatAssociative
    <3> QED BY <2>3, <3>1, <3>2
  <2>5. \A a, b \in Seq(Commands) :
           (\A k \in DOMAIN a : a[k].op \in {"disable", "text_op"}) /\ (\A k \in DOMAIN b : b[k].op \in {"disable", "text_op"})
              => a \o b \in Seq(Commands) /\ \A k \in DOMAIN (a \o b) : (a \o b)[k].op \in {"disable", "text_op"}
    BY Queue DEF Queued
  <2> QED BY <2>1, <2>2, <2>4, <2>5
<1>4. Queued(queue, w, queue')
  BY <1>2, <1>3, Queue
<1>5. TypeOK'
  BY <1>1, <1>2, <1>4 DEF TypeOK, Queued
<1>6. TreesOK' /\ OrderOK' /\ StackOK' /\ CacheOK' /\ KeptOK'
  BY <1>1, SameOutside DEF treeVars
<1>7. ModeOK'
  BY <1>1 DEF IInv, ModeOK
<1>8. EnablesOK'
  <2>1. EnablesIn(queue, map, node, phase, text_edit_id.id)
    BY Views DEF IInv
  <2>2. \A j \in DOMAIN queue' : queue'[j].op = "enable" => j \in DOMAIN queue /\ queue'[j] = queue[j]
    BY <1>3, <1>4 DEF Queued
  <2>3. EnablesIn(queue', map', node', phase', text_edit_id'.id)
    BY <1>1, <2>1, <2>2 DEF EnablesIn, EnableIn
  <2> QED BY <2>3, ViewsNext
<1>9. FocusOK'
  <2>1. FocusIn(queue, map, node, text_edit_mode, text_edit_id.id)
    BY Views DEF IInv
  <2>2. FocusIn(queue', map', node', text_edit_mode', text_edit_id'.id)
    BY <1>1, <1>4, <2>1 DEF FocusIn, Queued
  <2> QED BY <2>2, ViewsNext
<1>10. EditOK'
  <2>1. SoundIn(map, node, text_edit_mode, text_edit_id, text_edit) \/ MendingIn(queue, text_edit_id.id)
    BY <1>1, Views DEF IInv
  <2>2. MendingIn(queue, text_edit_id.id) => MendingIn(queue', text_edit_id'.id)
    <3> SUFFICES ASSUME MendingIn(queue, text_edit_id.id) PROVE MendingIn(queue', text_edit_id'.id)
      OBVIOUS
    <3>1. PICK j \in DOMAIN queue : queue[j].op = "enable" \/ (queue[j].op = "disable" /\ queue[j].id = text_edit_id.id)
      BY DEF MendingIn
    <3>2. \A k \in DOMAIN queue : queue[k].op # "text_op"
      BY <1>1 DEF IInv, EnablesOK
    <3>3. j \in DOMAIN queue' /\ queue'[j] = queue[j]
      BY <1>4, <3>1 DEF Queued
    <3>4. \A k \in DOMAIN queue' : queue'[k].op = "text_op" => k \notin DOMAIN queue
      BY <1>4, <3>2 DEF Queued
    <3>5. \A k \in DOMAIN queue' : k \notin DOMAIN queue => j < k
      BY <1>4, <3>1 DEF Queued
    <3> QED BY <1>1, <3>1, <3>3, <3>4, <3>5 DEF MendingIn
  <2> QED BY <1>1, <2>1, <2>2, ViewsNext
<1> QED BY <1>5, <1>6, <1>7, <1>8, <1>9, <1>10 DEF IInv

\* What the head of the queue leaves to the rest of it.
LEMMA RestOfQueue ==
    ASSUME IInv, NEW op, NextCommand(op)
    PROVE  /\ queue \in Seq(Commands) /\ queue' \in Seq(Commands)
           /\ phase = "commands"
           /\ 1 \in DOMAIN queue /\ Head(queue) = queue[1] /\ queue[1] \in Commands /\ queue[1].op = op
           /\ \A k \in DOMAIN queue' : k + 1 \in DOMAIN queue /\ k \in Nat \ {0} /\ queue'[k] = queue[k + 1]
           /\ \A k \in DOMAIN queue : k = 1 \/ (k - 1 \in DOMAIN queue' /\ queue'[k - 1] = queue[k])
           /\ DOMAIN queue \subseteq Int
BY Dequeue DEF NextCommand, IInv, TypeOK

LEMMA UnfocusedNodes ==
    ASSUME TypeOK, NEW t \in InUse \cup {NoNode}, NEW nd, nd = Unfocused(node, t)
    PROVE  /\ nd \in [Slots -> Nodes]
           /\ \A i \in Slots : /\ nd[i].id = node[i].id /\ nd[i].age = node[i].age
                               /\ nd[i].hover = node[i].hover
                               /\ nd[i].focus <=> node[i].focus /\ i # t
<1>0. NoNode \notin Slots
  BY Bounds DEF TypeOK, NoNode
<1>1. node \in [Slots -> Nodes]
  BY DEF TypeOK
<1>2. CASE t = NoNode
  BY <1>0, <1>1, <1>2 DEF Unfocused
<1>3. CASE t # NoNode
  <2>1. t \in Slots /\ nd = [node EXCEPT ![t].focus = FALSE]
    BY <1>3 DEF InUse, Unfocused
  <2>2. ASSUME NEW i \in Slots
        PROVE  /\ nd[i] \in Nodes
               /\ nd[i].id = node[i].id /\ nd[i].age = node[i].age
               /\ nd[i].hover = node[i].hover
               /\ nd[i].focus = IF i = t THEN FALSE ELSE node[i].focus
    <3>1. CASE i # t
      BY <1>1, <2>1, <3>1 DEF Nodes
    <3>2. CASE i = t
      <4>1. nd[i] = [node[i] EXCEPT !.focus = FALSE] /\ node[i] \in Nodes
        BY <1>1, <2>1, <3>2
      <4> QED BY <3>2, <4>1 DEF Nodes
    <3> QED BY <3>1, <3>2
  <2>3. nd = [i \in Slots |-> nd[i]]
    BY <1>1, <2>1
  <2>4. nd \in [Slots -> Nodes]
    BY <2>2, <2>3
  <2>5. \A i \in Slots : nd[i].focus <=> node[i].focus /\ i # t
    BY <1>1, <2>2 DEF Nodes
  <2> QED BY <2>2, <2>4, <2>5
<1> QED BY <1>2, <1>3

\* ui_text_input_mode_enable gives the edit to the field that was submitted.
LEMMA ExecuteEnableKeeps == ASSUME IInv, ExecuteEnable PROVE IInv'
<1> DEFINE c == Head(queue)
           i == LookIn(map, c.id)
           t == LookIn(map, text_edit_id.id)
<1>1. TypeOK /\ CacheOK /\ FocusIn(queue, map, node, text_edit_mode, text_edit_id.id)
      /\ EnablesIn(queue, map, node, phase, text_edit_id.id)
  BY Views DEF IInv
<1>2. /\ Finds(map, node, InUse) /\ \A id : Lookup(id) = LookIn(map, id)
  BY <1>1, Lookups
<1>3. /\ queue' \in Seq(Commands) /\ phase = "commands"
      /\ 1 \in DOMAIN queue /\ c = queue[1] /\ c \in Commands /\ c.op = "enable"
      /\ \A k \in DOMAIN queue' : k + 1 \in DOMAIN queue /\ k \in Nat \ {0} /\ queue'[k] = queue[k + 1]
  BY RestOfQueue DEF ExecuteEnable
<1>4. /\ c.id \in Editable /\ c.id # text_edit_id.id
      /\ i # NoNode /\ node[i].focus /\ c.input = InputOf(c.id, i)
      /\ \A k \in DOMAIN queue : queue[k].op = "enable" => k = 1
  BY <1>1, <1>3 DEF EnablesIn, EnableIn
<1>5. /\ node' = Unfocused(node, t) /\ text_edit_mode' = TRUE
      /\ text_edit_id' = [id |-> c.id, age |-> 0] /\ text_edit' = c.input /\ phase' = phase
  BY <1>2, <1>4 DEF ExecuteEnable, InputOf
<1>6. /\ links' = links /\ free' = free /\ map' = map /\ root' = root /\ stack_parent' = stack_parent
      /\ node_hovered' = node_hovered /\ list' = list
      /\ click' = click /\ escape' = escape /\ budget' = budget
  BY DEF ExecuteEnable, inputVars
<1>7. /\ i \in InUse /\ t \in InUse \cup {NoNode} /\ i # t /\ InUse \subseteq Slots
  <2>1. InUse \subseteq Slots
    BY DEF InUse
  <2>2. node[i].id = c.id /\ i \in InUse
    BY <1>2, <1>4, <2>1 DEF Finds
  <2>3. t \in InUse \cup {NoNode} /\ (t # NoNode => node[t].id = text_edit_id.id)
    BY <1>2, <2>1 DEF Finds
  <2> QED BY <1>4, <2>1, <2>2, <2>3
<1> HIDE DEF c, i, t
<1>8. /\ node' \in [Slots -> Nodes]
      /\ \A k \in Slots : /\ node'[k].id = node[k].id /\ node'[k].age = node[k].age
                          /\ node'[k].hover = node[k].hover
                          /\ node'[k].focus <=> node[k].focus /\ k # t
  BY <1>1, <1>5, <1>7, UnfocusedNodes
<1>9. TypeOK'
  <2>1. text_edit_id' \in Names /\ text_edit' \in Inputs
    BY <1>3, <1>4, <1>5 DEF Names, Commands, Ids
  <2> QED BY <1>1, <1>3, <1>5, <1>6, <1>8, <2>1 DEF TypeOK
<1>10. TreesOK' /\ OrderOK' /\ CacheOK' /\ KeptOK'
  BY <1>5, <1>6, <1>8, SameNodes
<1>11. StackOK'
  BY <1>3, <1>5, <1>6 DEF IInv, StackOK
<1>12. ModeOK'
  BY <1>3, <1>4, <1>5 DEF ModeOK
<1>13. \A k \in DOMAIN queue' : queue'[k].op # "enable"
  BY <1>3, <1>4
<1>14. EnablesOK'
  BY <1>3, <1>5, <1>13, ViewsNext DEF EnablesIn
<1>15. FocusOK'
  <2>1. ASSUME NEW k \in Slots, node'[k].focus PROVE k = i
    <3>1. node[k].focus /\ k # t
      BY <1>8, <2>1
    <3>2. \E j \in DOMAIN queue : queue[j].op = "enable" /\ LookIn(map, queue[j].id) = k
      BY <1>1, <3>1 DEF FocusIn, t
    <3> QED BY <1>3, <1>4, <3>2 DEF i
  <2>2. i = LookIn(map', text_edit_id'.id)
    BY <1>5, <1>6 DEF i
  <2>3. FocusIn(queue', map', node', text_edit_mode', text_edit_id'.id)
    BY <1>5, <2>1, <2>2 DEF FocusIn
  <2> QED BY <2>3, ViewsNext
<1>16. EditOK'
  <2>1. i = LookIn(map', text_edit_id'.id) /\ text_edit_id'.id = c.id /\ text_edit_id'.age = 0
    BY <1>5, <1>6 DEF i
  <2>2. node'[i].focus
    BY <1>4, <1>7, <1>8
  <2>3. SoundIn(map', node', text_edit_mode', text_edit_id', text_edit')
    BY <1>4, <1>5, <2>1, <2>2 DEF SoundIn
  <2> QED BY <1>3, <1>5, <2>3, ViewsNext
<1> QED BY <1>9, <1>10, <1>11, <1>12, <1>14, <1>15, <1>16 DEF IInv

\* A command that changes nothing but the queue.
LEMMA OnwardKeeps ==
    ASSUME IInv, NEW op, NextCommand(op), op # "enable",
           op = "disable" => queue[1].id # text_edit_id.id,
           links' = links, node' = node, free' = free, map' = map, root' = root,
           stack_parent' = stack_parent, node_hovered' = node_hovered, list' = list,
           text_edit_id' = text_edit_id, text_edit' = text_edit, text_edit_mode' = text_edit_mode,
           phase' = phase, click' = click, escape' = escape, budget' = budget
    PROVE  IInv'
<1>1. /\ TypeOK /\ FocusIn(queue, map, node, text_edit_mode, text_edit_id.id)
      /\ EnablesIn(queue, map, node, phase, text_edit_id.id)
  BY Views DEF IInv
<1>2. /\ queue' \in Seq(Commands) /\ phase = "commands"
      /\ 1 \in DOMAIN queue /\ queue[1].op = op
      /\ \A k \in DOMAIN queue' : k + 1 \in DOMAIN queue /\ k \in Nat \ {0} /\ queue'[k] = queue[k + 1]
      /\ \A k \in DOMAIN queue : k = 1 \/ (k - 1 \in DOMAIN queue' /\ queue'[k - 1] = queue[k])
      /\ DOMAIN queue \subseteq Int
  BY RestOfQueue
<1>3. TypeOK'
  BY <1>1, <1>2 DEF TypeOK
<1>4. TreesOK' /\ OrderOK' /\ StackOK' /\ CacheOK' /\ KeptOK'
  BY SameOutside DEF treeVars
<1>5. ModeOK'
  BY DEF IInv, ModeOK
<1>6. EnablesOK'
  <2>1. \A j \in DOMAIN queue' : queue'[j].op = "enable" => EnableIn(queue'[j], map', node', phase', text_edit_id'.id)
    BY <1>1, <1>2 DEF EnablesIn
  <2>2. \A j, k \in DOMAIN queue' : queue'[j].op = "enable" /\ queue'[k].op = "enable" => j = k
    BY <1>1, <1>2 DEF EnablesIn
  <2> QED BY <1>2, <2>1, <2>2, ViewsNext DEF EnablesIn
<1>7. FocusOK'
  <2>1. ASSUME NEW k \in Slots, node'[k].focus, ~ (text_edit_mode' /\ k = LookIn(map', text_edit_id'.id))
        PROVE  \E j \in DOMAIN queue' : queue'[j].op = "enable" /\ LookIn(map', queue'[j].id) = k
    <3>1. PICK j \in DOMAIN queue : queue[j].op = "enable" /\ LookIn(map, queue[j].id) = k
      BY <1>1, <2>1 DEF FocusIn
    <3>2. j - 1 \in DOMAIN queue' /\ queue'[j - 1] = queue[j]
      BY <1>2, <3>1
    <3> QED BY <3>1, <3>2
  <2> QED BY <2>1, ViewsNext DEF FocusIn
<1>8. EditOK'
  <2>1. SoundIn(map, node, text_edit_mode, text_edit_id, text_edit) \/ MendingIn(queue, text_edit_id.id)
    BY <1>2, Views DEF IInv
  <2>2. ASSUME MendingIn(queue, text_edit_id.id) PROVE MendingIn(queue', text_edit_id'.id)
    <3>1. PICK j \in DOMAIN queue :
             /\ queue[j].op = "enable" \/ (queue[j].op = "disable" /\ queue[j].id = text_edit_id.id)
             /\ \A k \in DOMAIN queue : queue[k].op = "text_op" => j < k
      BY <2>2 DEF MendingIn
    <3>2. j - 1 \in DOMAIN queue' /\ queue'[j - 1] = queue[j]
      BY <1>2, <3>1
    <3>3. \A k \in DOMAIN queue' : queue'[k].op = "text_op" => j - 1 < k
      BY <1>2, <3>1
    <3> QED BY <3>1, <3>2, <3>3 DEF MendingIn
  <2> QED BY <1>2, <2>1, <2>2, ViewsNext
<1> QED BY <1>3, <1>4, <1>5, <1>6, <1>7, <1>8 DEF IInv

\* ui_text_input_mode_disable takes it away.
LEMMA ExecuteDisableKeeps == ASSUME IInv, ExecuteDisable PROVE IInv'
<1> DEFINE c == Head(queue)
           t == LookIn(map, text_edit_id.id)
<1>1. TypeOK /\ CacheOK /\ FocusIn(queue, map, node, text_edit_mode, text_edit_id.id)
      /\ EnablesIn(queue, map, node, phase, text_edit_id.id)
  BY Views DEF IInv
<1>2. /\ Finds(map, node, InUse) /\ \A id : Lookup(id) = LookIn(map, id)
  BY <1>1, Lookups
<1>3. /\ queue \in Seq(Commands) /\ queue' \in Seq(Commands) /\ phase = "commands"
      /\ 1 \in DOMAIN queue /\ c = queue[1] /\ c \in Commands /\ c.op = "disable"
      /\ \A k \in DOMAIN queue' : k + 1 \in DOMAIN queue /\ k \in Nat \ {0} /\ queue'[k] = queue[k + 1]
      /\ \A k \in DOMAIN queue : k = 1 \/ (k - 1 \in DOMAIN queue' /\ queue'[k - 1] = queue[k])
  BY RestOfQueue DEF ExecuteDisable
<1>4. /\ links' = links /\ free' = free /\ map' = map /\ root' = root /\ stack_parent' = stack_parent
      /\ node_hovered' = node_hovered /\ list' = list /\ phase' = phase
      /\ click' = click /\ escape' = escape /\ budget' = budget
  BY DEF ExecuteDisable, inputVars
<1>5. t \in InUse \cup {NoNode} /\ InUse \subseteq Slots /\ NoNode \notin Slots
  BY <1>1, <1>2, Bounds DEF InUse, Finds, TypeOK, NoNode
<1>6. IF c.id = text_edit_id.id
      THEN node' = Unfocused(node, t) /\ text_edit_mode' = FALSE /\ text_edit_id' = NoName /\ text_edit' = StubInput
      ELSE node' = node /\ text_edit_mode' = text_edit_mode /\ text_edit_id' = text_edit_id /\ text_edit' = text_edit
  BY <1>2 DEF ExecuteDisable, editVars
<1> HIDE DEF c, t
<1>7. CASE c.id = text_edit_id.id
  <2>1. /\ node' \in [Slots -> Nodes]
        /\ \A k \in Slots : /\ node'[k].id = node[k].id /\ node'[k].age = node[k].age
                            /\ node'[k].hover = node[k].hover
                            /\ node'[k].focus <=> node[k].focus /\ k # t
    BY <1>1, <1>5, <1>6, <1>7, UnfocusedNodes
  <2>2. TypeOK'
    <3>1. NoName \in Names /\ StubInput \in Inputs
      BY DEF Names, Inputs, NoName
    <3>2. text_edit_id' = NoName /\ text_edit' = StubInput /\ text_edit_mode' = FALSE
      BY <1>6, <1>7
    <3> QED BY <1>1, <1>3, <1>4, <2>1, <3>1, <3>2 DEF TypeOK
  <2>3. TreesOK' /\ OrderOK' /\ CacheOK' /\ KeptOK'
    BY <1>4, <2>1, SameNodes
  <2>4. StackOK'
    BY <1>3, <1>4 DEF IInv, StackOK
  <2>5. ModeOK'
    BY <1>3, <1>4, <1>6, <1>7 DEF ModeOK, NoName
  <2>6. ASSUME NEW k \in DOMAIN queue', queue'[k].op = "enable"
        PROVE  EnableIn(queue'[k], map', node', phase', text_edit_id'.id)
    <3>1. EnableIn(queue'[k], map, node, phase, text_edit_id.id)
      BY <1>1, <1>3, <2>6 DEF EnablesIn
    <3> DEFINE i == LookIn(map, queue'[k].id)
    <3>2. i \in InUse /\ node[i].id = queue'[k].id
      BY <1>2, <1>5, <3>1 DEF EnableIn, Finds
    <3>3. i # t
      BY <1>2, <1>5, <3>1, <3>2 DEF EnableIn, Finds, t
    <3>4. node'[i].focus /\ node'[i].age = node[i].age /\ node'[i].hover = node[i].hover
      BY <1>5, <2>1, <3>1, <3>2, <3>3 DEF EnableIn
    <3>5. text_edit_id'.id = NoId /\ NoId \notin Editable
      BY <1>6, <1>7, IdsAssumption DEF NoName, Ids
    <3> QED BY <1>4, <3>1, <3>4, <3>5 DEF EnableIn
  <2>7. EnablesOK'
    <3>1. \A j, k \in DOMAIN queue' : queue'[j].op = "enable" /\ queue'[k].op = "enable" => j = k
      BY <1>1, <1>3 DEF EnablesIn
    <3> QED BY <1>3, <1>4, <2>6, <3>1, ViewsNext DEF EnablesIn
  <2>8. ASSUME NEW k \in Slots, node'[k].focus
        PROVE  \E j \in DOMAIN queue' : queue'[j].op = "enable" /\ LookIn(map', queue'[j].id) = k
    <3>1. node[k].focus /\ k # t
      BY <2>1, <2>8
    <3>2. PICK j \in DOMAIN queue : queue[j].op = "enable" /\ LookIn(map, queue[j].id) = k
      BY <1>1, <3>1 DEF FocusIn, t
    <3>3. j - 1 \in DOMAIN queue' /\ queue'[j - 1] = queue[j]
      BY <1>3, <3>2
    <3> QED BY <1>4, <3>2, <3>3
  <2>9. FocusOK'
    BY <2>8, ViewsNext DEF FocusIn
  <2>10. EditOK'
    BY <1>3, <1>4, <1>6, <1>7, ViewsNext DEF SoundIn
  <2> QED BY <2>2, <2>3, <2>4, <2>5, <2>7, <2>9, <2>10 DEF IInv
<1>8. CASE c.id # text_edit_id.id
  <2>1. /\ node' = node /\ text_edit_mode' = text_edit_mode /\ text_edit_id' = text_edit_id
        /\ text_edit' = text_edit
    BY <1>6, <1>8
  <2>2. NextCommand("disable") /\ queue[1].id # text_edit_id.id
    BY <1>3, <1>8 DEF ExecuteDisable
  <2> QED BY <1>4, <2>1, <2>2, OnwardKeeps
<1> QED BY <1>7, <1>8
\* Other commands about text leave the edit alone.
LEMMA ExecuteEditKeeps == ASSUME IInv, ExecuteEdit PROVE IInv'
<1>1. /\ links' = links /\ node' = node /\ free' = free /\ map' = map /\ root' = root
      /\ stack_parent' = stack_parent /\ node_hovered' = node_hovered /\ list' = list
      /\ text_edit_id' = text_edit_id /\ text_edit' = text_edit /\ text_edit_mode' = text_edit_mode
      /\ phase' = phase /\ click' = click /\ escape' = escape /\ budget' = budget
  BY DEF ExecuteEdit, treeVars, editVars, inputVars
<1>2. NextCommand("text_op") \/ NextCommand("flush")
  BY DEF ExecuteEdit
<1>3. CASE NextCommand("text_op")
  BY <1>1, <1>3, OnwardKeeps
<1>4. CASE NextCommand("flush")
  BY <1>1, <1>4, OnwardKeeps
<1> QED BY <1>2, <1>3, <1>4

\* ui_node_pop leaves the root of the frame on the stack.
LEMMA PopKeeps == ASSUME IInv, Pop PROVE IInv'
<1>1. /\ links' = links /\ node' = node /\ free' = free /\ map' = map /\ root' = root
      /\ node_hovered' = node_hovered /\ list' = list /\ queue' = queue
      /\ text_edit_id' = text_edit_id /\ text_edit' = text_edit /\ text_edit_mode' = text_edit_mode
      /\ phase' = phase /\ click' = click /\ escape' = escape /\ budget' = budget
  BY DEF Pop, treeVars, editVars, inputVars
<1>2. /\ phase = "build" /\ Len(stack_parent) > 2 /\ stack_parent' = Front(stack_parent)
      /\ stack_parent \in Seq(Indices)
  BY DEF Pop, IInv, TypeOK, Indices
<1>3. /\ stack_parent' \in Seq(Indices)
      /\ Len(stack_parent') = Len(stack_parent) - 1
      /\ \A k \in 1..(Len(stack_parent) - 1) : stack_parent'[k] = stack_parent[k]
  BY <1>2 DEF Front
<1>4. node \in [Slots -> Nodes]
  BY DEF IInv, TypeOK
<1>5. TypeOK'
  BY <1>1, <1>3 DEF IInv, TypeOK, Indices
<1>6. TreesOK' /\ OrderOK' /\ CacheOK' /\ KeptOK'
  BY <1>1, <1>4, SameNodes
<1>7. StackOK'
  BY <1>1, <1>2, <1>3 DEF IInv, StackOK, Built
<1>8. ModeOK'
  BY <1>1 DEF IInv, ModeOK
<1>9. EnablesOK' /\ FocusOK' /\ EditOK'
  BY <1>1, Views, ViewsNext DEF IInv
<1> QED BY <1>5, <1>6, <1>7, <1>8, <1>9 DEF IInv

-----------------------------------------------------------------------------
(* ui_node_alloc.                                                           *)

\* The slot is the one the identifier has, or a free one.
LEMMA SlotTaken ==
    ASSUME TypeOK, CacheOK, NEW U \in SUBSET InUse, NEW id,
           id # NoId => \A j \in U : node[j].id # id, free # {}
    PROVE  /\ SlotFor(id) \in Slots \ U
           /\ Lookup(id) # NoNode => /\ SlotFor(id) = Lookup(id) /\ SlotFor(id) \in InUse
                                     /\ node[SlotFor(id)].id = id /\ id # NoId
           /\ Lookup(id) = NoNode => SlotFor(id) \in free
<1>1. /\ Finds(map, node, InUse) /\ Lookup(id) = LookIn(map, id) /\ InUse \subseteq Slots
      /\ free \subseteq Slots /\ Slots \subseteq Nat
  BY Lookups, Bounds DEF TypeOK, InUse, Slots
<1>2. CASE Lookup(id) # NoNode
  BY <1>1, <1>2 DEF SlotFor, Finds
<1>3. CASE Lookup(id) = NoNode
  <2>1. PICK x \in free : \A y \in free : x <= y
    BY <1>1, SmallestNumber
  <2>2. Min(free) \in free
    BY <2>1 DEF Min
  <2> QED BY <1>1, <1>3, <2>2 DEF SlotFor, InUse
<1> QED BY <1>2, <1>3

\* What becomes of the two trees when it is put below p, in the new one.
Planted(U, i, p) ==
    /\ links' \in [Indices -> LinksIn(Indices)]
    /\ Forest(links', (InUse \ U) \ {i}, 1)
    /\ Forest(links', U \cup {i}, 0)
    /\ Grown(links, U, i, p, links')

LEMMA AllocLinks ==
    ASSUME TypeOK, CacheOK, NEW U \in SUBSET InUse, NEW id,
           id # NoId => \A j \in U : node[j].id # id,
           Forest(links, InUse \ U, 1), Forest(links, U, 0), NEW p \in U \cup {0},
           NEW nodes, NEW focus, NodeAlloc(id, p, nodes, focus)
    PROVE  Planted(U, SlotFor(id), p)
<1> DEFINE i == SlotFor(id)
           S == InUse \ U
<1>1. /\ 0 \in Indices /\ 1 \in Indices \ {0} /\ Slots \subseteq Indices \ {0, 1}
      /\ links \in [Indices -> LinksIn(Indices)]
  BY Bounds DEF TypeOK, Indices
<1>2. /\ i \in Slots \ U
      /\ Lookup(id) # NoNode => i = Lookup(id) /\ i \in InUse
      /\ Lookup(id) = NoNode => i \in free
  BY SlotTaken DEF NodeAlloc
<1>3. links' = IF Lookup(id) # NoNode THEN AdoptNodeExclusive(links, i, p) ELSE HierarchyAdd(links, i, p)
  BY DEF NodeAlloc
<1>4. S \in SUBSET (Indices \ {0, 1}) /\ U \in SUBSET (Indices \ (S \cup {0, 1})) /\ InUse = Slots \ free
  BY <1>1 DEF InUse
<1>5. Forest(links, S, 1)
  OBVIOUS
<1> HIDE DEF i, S
<1>6. CASE Lookup(id) # NoNode
  <2>1. i \in S
    BY <1>2, <1>6 DEF S
  <2>2. /\ links' \in [Indices -> LinksIn(Indices)] /\ Forest(links', S \ {i}, 1)
        /\ Forest(links', U \cup {i}, 0) /\ Grown(links, U, i, p, links')
    BY <1>1, <1>3, <1>4, <1>5, <1>6, <2>1, AdoptForests
  <2> QED BY <2>2 DEF Planted, S, i
<1>7. CASE Lookup(id) = NoNode
  <2>1. i \in Indices \ (S \cup U \cup {0, 1}) /\ S \ {i} = S
    BY <1>1, <1>2, <1>4, <1>7 DEF S
  <2> DEFINE g == HierarchyAdd(links, i, p)
  <2>2. /\ g \in [Indices -> LinksIn(Indices)] /\ Forest(g, S, 1)
        /\ Forest(g, U \cup {i}, 0) /\ Grown(links, U, i, p, g)
    <3>1. 0 \in Indices /\ 1 \in Indices \ {0} /\ links \in [Indices -> LinksIn(Indices)]
      BY <1>1
    <3>2. S \in SUBSET (Indices \ {0, 1}) /\ U \in SUBSET (Indices \ (S \cup {0, 1}))
      BY <1>4
    <3>3. Forest(links, S, 1) /\ Forest(links, U, 0) /\ p \in U \cup {0}
      BY <1>5
    <3> QED BY ONLY <2>1, <3>1, <3>2, <3>3, AddForests, ZenonT(60)
  <2>3. links' = g
    BY <1>3, <1>7
  <2> HIDE DEF g
  <2> QED BY <2>1, <2>2, <2>3 DEF Planted, S, i
<1> QED BY <1>6, <1>7

\* What becomes of the nodes and of the map.
Named(id, i, nodes, focus) ==
    /\ free' = free \ {i} /\ InUse' = InUse \cup {i}
    /\ node' \in [Slots -> Nodes]
    /\ node'[i].id = id /\ node'[i].age = 0 /\ node'[i].focus = focus
    /\ node'[i].hover => Lookup(id) # NoNode /\ nodes[i].hover
    /\ Lookup(id) # NoNode /\ nodes[i].hover => node'[i].hover
    /\ \A j \in Slots \ {i} : node'[j] = nodes[j]
    /\ map' \in SUBSET (Ids \X Slots) /\ map \subseteq map'
    /\ map' = {<<node'[j].id, j>> : j \in {k \in InUse' : node'[k].id # NoId}}
    /\ \A j, k \in InUse' : node'[j].id = node'[k].id => j = k \/ node'[j].id = NoId
    /\ Finds(map', node', InUse')
    /\ id # NoId => <<id, i>> \in map' /\ LookIn(map', id) = i
    /\ \A x : x # id \/ id = NoId => LookIn(map', x) = LookIn(map, x)

LEMMA AllocNodes ==
    ASSUME TypeOK, CacheOK, NEW U \in SUBSET InUse, NEW id \in Ids \cup {NoId},
           id # NoId => \A j \in U : node[j].id # id,
           NEW nodes \in [Slots -> Nodes], \A j \in Slots : nodes[j].id = node[j].id,
           NEW focus \in BOOLEAN, NEW p, NodeAlloc(id, p, nodes, focus)
    PROVE  Named(id, SlotFor(id), nodes, focus)
<1> DEFINE i == SlotFor(id)
           found == Lookup(id) # NoNode
<1>1. /\ i \in Slots
      /\ found => i = Lookup(id) /\ i \in InUse /\ node[i].id = id /\ id # NoId
      /\ ~ found => i \in free
  BY SlotTaken DEF NodeAlloc
<1>2. /\ free' = free \ {i} /\ map' = IF found \/ id = NoId THEN map ELSE map \cup {<<id, i>>}
      /\ node' = [nodes EXCEPT ![i] = [id |-> id, age |-> 0, focus |-> focus,
                                       hover |-> found /\ nodes[i].hover]]
  BY DEF NodeAlloc
<1>3. /\ Finds(map, node, InUse) /\ Lookup(id) = LookIn(map, id) /\ LastSlot \in Nat
      /\ NoNode \notin Slots
  BY Lookups, Bounds DEF TypeOK, NoNode
<1>4. /\ free \subseteq Slots /\ InUse = Slots \ free /\ InUse' = Slots \ free' /\ map \subseteq Ids \X Slots
      /\ map = {<<node[j].id, j>> : j \in {k \in InUse : node[k].id # NoId}}
      /\ \A j, k \in InUse : node[j].id = node[k].id => j = k \/ node[j].id = NoId
  BY DEF TypeOK, CacheOK, InUse
<1> HIDE DEF i, found
<1>5. InUse' = InUse \cup {i} /\ InUse' \subseteq Slots
  BY <1>1, <1>2, <1>4
<1>6. /\ node'[i] = [id |-> id, age |-> 0, focus |-> focus, hover |-> found /\ nodes[i].hover]
      /\ \A j \in Slots \ {i} : node'[j] = nodes[j]
  BY <1>1, <1>2
<1>7. node'[i] \in Nodes
  <2>1. nodes[i].hover \in BOOLEAN /\ (found /\ nodes[i].hover) \in BOOLEAN
    BY <1>1 DEF Nodes
  <2> QED BY <1>6, <2>1 DEF Nodes
<1>8. node' \in [Slots -> Nodes]
  <2>1. \A j \in Slots : node'[j] \in Nodes
    BY <1>6, <1>7
  <2>2. node' = [j \in Slots |-> node'[j]]
    BY <1>2
  <2> QED BY <2>1, <2>2
<1>9. \A j \in Slots : node'[j].id = IF j = i THEN id ELSE node[j].id
  BY <1>6
<1>10. ~ found => \A j \in InUse : id # NoId => node[j].id # id
  BY <1>3, <1>4 DEF Finds, found
<1>11. map' = {<<node'[j].id, j>> : j \in {k \in InUse' : node'[k].id # NoId}}
  <2> DEFINE M == {<<node'[j].id, j>> : j \in {k \in InUse' : node'[k].id # NoId}}
  <2>1. \A x : x \in M <=> \E j \in InUse' : node'[j].id # NoId /\ x = <<node'[j].id, j>>
    OBVIOUS
  <2>2. \A x : x \in map <=> \E j \in InUse : node[j].id # NoId /\ x = <<node[j].id, j>>
    BY <1>4
  <2> HIDE DEF M
  <2>3. CASE found
    <3>1. InUse' = InUse /\ \A j \in InUse : node'[j].id = node[j].id
      BY <1>1, <1>4, <1>5, <1>9, <2>3
    <3>2. \A x : x \in map <=> x \in M
      BY <2>1, <2>2, <3>1
    <3>3. map = M
      BY <3>2
    <3> QED BY <1>2, <2>3, <3>3 DEF M
  <2>4. CASE ~ found
    <3>1. i \notin InUse /\ \A j \in InUse : j # i /\ node'[j].id = node[j].id
      BY <1>1, <1>4, <1>5, <1>9, <2>4
    <3>2. node'[i].id = id
      BY <1>1, <1>9
    <3>3. \A x : x \in M <=> x \in map \/ (id # NoId /\ x = <<id, i>>)
      BY <1>5, <2>1, <2>2, <3>1, <3>2
    <3>4. \A x : x \in M <=> x \in map'
      BY <1>2, <2>4, <3>3
    <3>5. map' = M
      BY <3>4
    <3> QED BY <3>5 DEF M
  <2> QED BY <2>3, <2>4
<1>12. \A j, k \in InUse' : node'[j].id = node'[k].id => j = k \/ node'[j].id = NoId
  BY <1>1, <1>4, <1>5, <1>9, <1>10
<1>13. Finds(map', node', InUse')
  BY <1>3, <1>5, <1>11, <1>12, Found
<1>14. map' \in SUBSET (Ids \X Slots) /\ map \subseteq map'
  BY <1>1, <1>2, <1>4
<1>15. id # NoId => <<id, i>> \in map' /\ LookIn(map', id) = i
  <2>1. i \in InUse' /\ node'[i].id = id
    BY <1>1, <1>5, <1>9
  <2> QED BY <1>1, <1>11, <1>13, <2>1 DEF Finds
<1>16. ASSUME NEW x, x # id \/ id = NoId PROVE LookIn(map', x) = LookIn(map, x)
  <2>1. LookIn(map', x) \in InUse' \cup {NoNode} /\ LookIn(map, x) \in InUse \cup {NoNode}
    BY <1>3, <1>13 DEF Finds
  <2>2. \A k \in Slots : (k \in InUse' /\ node'[k].id = x /\ x # NoId) <=> (k \in InUse /\ node[k].id = x /\ x # NoId)
    BY <1>1, <1>4, <1>5, <1>9, <1>16
  <2>3. \A k \in Slots : LookIn(map', x) = k <=> LookIn(map, x) = k
    BY <1>3, <1>13, <2>2 DEF Finds
  <2>4. InUse \subseteq Slots
    BY <1>4
  <2> QED BY <1>5, <2>1, <2>3, <2>4
<1>17. /\ node'[i].hover => found /\ nodes[i].hover
       /\ found /\ nodes[i].hover => node'[i].hover
  <2> DEFINE b == found /\ nodes[i].hover
  <2>1. node'[i].hover = b
    <3> HIDE DEF b
    <3> QED BY <1>6 DEF b
  <2> QED BY <2>1, Zenon
<1> QED BY <1>2, <1>5, <1>6, <1>8, <1>11, <1>12, <1>13, <1>14, <1>15, <1>16, <1>17 DEF Named, i, found

LEMMA ChildrenSeq ==
    ASSUME NEW D, IsFiniteSet(D), NEW h \in [D -> LinksIn(D)], NEW n \in D
    PROVE  Children(h, n) \in Seq(D)
<1>1. Cardinality(D) \in Nat
  BY FS_CardinalityType
<1> DEFINE C == Cardinality(D)
<1> HIDE DEF C
<1>2. PICK f \in [0..C -> Seq(D)] : Listing(h, n, C, f)
  BY <1>1, ChildrenTaken DEF C
<1> QED BY <1>1, <1>2 DEF Listing, C

LEMMA BuiltInUse ==
    ASSUME TypeOK, CacheOK
    PROVE  Built \subseteq InUse
BY DEF Built, InUse, CacheOK, Blank

\* The children of the nodes of the frame, when i is put below p.
Branched(i, p) ==
    \A q \in Built \cup {i} :
        Children(links', q) = IF q = i THEN <<>>
                              ELSE IF q = p THEN Append(Children(links, q), i)
                              ELSE Children(links, q)

LEMMA BranchedChildren ==
    ASSUME TypeOK, OrderOK, Built \subseteq Slots, Forest(links, Built, 0),
           NEW i \in Slots \ Built, NEW p \in Built, Planted(Built, i, p)
    PROVE  /\ \A q \in Built \cup {i} : Listed(links', q, Children(links', q))
           /\ Branched(i, p)
<1>1. /\ IsFiniteSet(Indices) /\ 0 \in Indices /\ Slots \subseteq Indices \ {0, 1}
      /\ links \in [Indices -> LinksIn(Indices)] /\ links' \in [Indices -> LinksIn(Indices)]
      /\ Grown(links, Built, i, p, links')
  BY Bounds DEF TypeOK, Indices, Planted
<1>2. Children(links', i) = <<>> /\ Listed(links', i, <<>>)
  <2>1. Listed(links', i, <<>>)
    BY <1>1, GrownLeaf
  <2>2. <<>> \in Seq(Indices) /\ i \in Indices
    BY <1>1
  <2> QED BY <1>1, <2>1, <2>2, ChildrenListed
<1>3. ASSUME NEW q \in Built
      PROVE  /\ Children(links', q) = IF q = p THEN Append(Children(links, q), i) ELSE Children(links, q)
             /\ Listed(links', q, Children(links', q))
  <2> DEFINE s == Children(links, q)
             t == IF q = p THEN Append(s, i) ELSE s
  <2>1. q \in Indices /\ i \in Indices /\ s \in Seq(Indices) /\ Listed(links, q, s)
    BY <1>1, ChildrenSeq DEF OrderOK
  <2> HIDE DEF s
  <2>2. t \in Seq(Indices)
    BY <2>1
  <2>3. Listed(links', q, t)
    <3>1. Built \in SUBSET (Indices \ {0}) /\ i \in Indices \ (Built \cup {0}) /\ p \in Built \cup {0}
      BY <1>1
    <3> QED BY <1>1, <2>1, <3>1, GrownListed
  <2> HIDE DEF t
  <2>4. Children(links', q) = t
    BY <1>1, <2>1, <2>2, <2>3, ChildrenListed
  <2> QED BY <2>3, <2>4 DEF t, s
<1> QED BY <1>2, <1>3 DEF Branched

\* A node built in a frame, below the one on top of the stack.
LEMMA BuildTrees ==
    ASSUME IInv, phase = "build", phase' = "build", root' = root,
           NEW id \in Ids \cup {NoId}, id # NoId => \A j \in Built : node[j].id # id,
           NEW focus \in BOOLEAN, NodeAlloc(id, Parent, node, focus)
    PROVE  /\ SlotFor(id) \in Slots \ Built /\ Parent \in Built
           /\ Built \subseteq InUse
           /\ Built' = Built \cup {SlotFor(id)}
           /\ Lookup(id) # NoNode => SlotFor(id) = Lookup(id)
           /\ links' \in [Indices -> LinksIn(Indices)]
           /\ Named(id, SlotFor(id), node, focus)
           /\ Branched(SlotFor(id), Parent)
           /\ TreesOK' /\ OrderOK' /\ CacheOK'
<1> DEFINE i == SlotFor(id)
           p == Parent
<1>1. TypeOK /\ CacheOK /\ OrderOK /\ TreesOK /\ StackOK
  BY DEF IInv
<1>2. Built \subseteq InUse /\ InUse \subseteq Slots /\ node \in [Slots -> Nodes]
  BY <1>1, BuiltInUse DEF InUse, TypeOK
<1>3. Parent \in Built
  BY <1>1 DEF StackOK, Parent, TypeOK
<1>4. /\ i \in Slots \ Built
      /\ Lookup(id) # NoNode => i = Lookup(id)
  BY <1>1, <1>2, SlotTaken DEF NodeAlloc
<1>5. Named(id, i, node, focus)
  BY <1>1, <1>2, AllocNodes
<1>6. Forest(links, InUse \ Built, 1) /\ Forest(links, Built, 0)
  BY <1>1 DEF TreesOK, Old, New, HI_ORPHAN_STUB_INDEX, HI_ROOT_STUB_INDEX
<1>7. Planted(Built, i, p)
  BY <1>1, <1>2, <1>3, <1>6, AllocLinks
<1> HIDE DEF i, p
<1>8. Built' = Built \cup {i}
  BY <1>4, <1>5 DEF Built, Named
<1>9. InUse' = InUse \cup {i}
  BY <1>5 DEF Named
<1>10. TreesOK'
  <2>1. Old' = (InUse \ Built) \ {i} /\ New' = Built \cup {i}
    BY <1>8, <1>9 DEF Old, New
  <2>2. /\ root \in Built /\ links[0].first = root /\ links[0].last = root
        /\ \A j \in Built : links[j].parent = 0 => j = root
    BY <1>1 DEF TreesOK, HI_ROOT_STUB_INDEX
  <2>3. 0 \notin Built
    BY <1>1, <1>2, Bounds DEF TypeOK
  <2>4. Grown(links, Built, i, p, links') /\ p \in Built
    BY <1>3, <1>7 DEF Planted, p
  <2>5. /\ links'[0].first = root /\ links'[0].last = root
        /\ \A j \in Built : links'[j].parent = links[j].parent
        /\ links'[i].parent # 0
    BY <2>2, <2>3, <2>4 DEF Grown
  <2> QED BY <1>7, <1>8, <2>1, <2>2, <2>5 DEF TreesOK, Planted, HI_ORPHAN_STUB_INDEX, HI_ROOT_STUB_INDEX
<1>11. (\A q \in Built \cup {i} : Listed(links', q, Children(links', q))) /\ Branched(i, p)
  BY <1>1, <1>2, <1>3, <1>4, <1>6, <1>7, BranchedChildren DEF p
<1>12. OrderOK'
  BY <1>8, <1>11 DEF OrderOK
<1>13. CacheOK'
  <2>1. \A j \in free' : node'[j] = Blank
    BY <1>1, <1>5 DEF Named, CacheOK, TypeOK
  <2>2. \A j \in InUse' : node'[j].age <= (IF phase' = "build" THEN 1 ELSE 0)
    BY <1>1, <1>2, <1>5, <1>9 DEF Named, CacheOK
  <2> QED BY <1>5, <2>1, <2>2 DEF Named, CacheOK
<1>14. links' \in [Indices -> LinksIn(Indices)]
  BY <1>7 DEF Planted
<1> QED BY <1>2, <1>3, <1>4, <1>5, <1>8, <1>10, <1>11, <1>12, <1>13, <1>14 DEF i, p

\* What a node built in slot i leaves as it is: queued edits, the edit, what is
\* hovered, and the list.
EnablesStand ==
    \A j \in DOMAIN queue : queue[j].op = "enable" =>
        /\ EnableIn(queue[j], map, node, "build", text_edit_id.id)
        /\ EnableIn(queue[j], map', node', "build", text_edit_id.id)
        /\ LookIn(map', queue[j].id) = LookIn(map, queue[j].id)
        /\ LookIn(map, queue[j].id) \in Built

EditStands(id, i) ==
    text_edit_mode =>
        LET e == LookIn(map, text_edit_id.id)
        IN  /\ e \in InUse /\ LookIn(map', text_edit_id.id) = e
            /\ text_edit = InputOf(text_edit_id.id, e)
            /\ node[e].age # 0 => node[e].focus
            /\ e # i => node'[e] = node[e]
            /\ e = i => id = text_edit_id.id

HoverStands == \A k \in Slots : node'[k].hover => node'[k].id = node_hovered.id /\ node'[k].id # NoId

ListStands ==
    /\ list.age = 0 => <<ListId, list.index>> \in map' /\ node'[list.index].age = 0
    /\ list.age = 1 => <<ListId, list.index>> \in map'

LEMMA BuildStands ==
    ASSUME IInv, phase = "build", phase' = "build", root' = root,
           NEW id \in Ids \cup {NoId}, id # NoId => \A j \in Built : node[j].id # id,
           NEW focus \in BOOLEAN, NodeAlloc(id, Parent, node, focus)
    PROVE  EnablesStand /\ EditStands(id, SlotFor(id)) /\ HoverStands /\ ListStands
<1> DEFINE i == SlotFor(id)
<1>1. /\ TypeOK /\ CacheOK /\ KeptOK
      /\ EnablesIn(queue, map, node, phase, text_edit_id.id)
      /\ BuildingIn(map, node, text_edit_mode, text_edit_id.id, text_edit)
  BY Views DEF IInv
<1>2. /\ Finds(map, node, InUse) /\ Lookup(id) = LookIn(map, id) /\ InUse \subseteq Slots
      /\ NoNode \notin Slots
  BY <1>1, Lookups, Bounds DEF InUse, TypeOK, NoNode
<1>3. /\ i \in Slots \ Built /\ Built \subseteq InUse
      /\ Lookup(id) # NoNode => i = Lookup(id)
      /\ Named(id, i, node, focus)
  BY BuildTrees
<1>4. /\ Lookup(id) # NoNode => i \in InUse /\ node[i].id = id /\ id # NoId
      /\ Lookup(id) = NoNode => i \in free
  BY <1>1, <1>3, SlotTaken DEF NodeAlloc
<1> HIDE DEF i
<1>5. /\ \A j \in Slots \ {i} : node'[j] = node[j]
      /\ node'[i].id = id /\ node'[i].age = 0
      /\ node'[i].hover => Lookup(id) # NoNode /\ node[i].hover
      /\ id # NoId => LookIn(map', id) = i
      /\ \A x : x # id \/ id = NoId => LookIn(map', x) = LookIn(map, x)
      /\ map \subseteq map'
  BY <1>3 DEF Named
<1>6. EnablesStand
  <2> SUFFICES ASSUME NEW j \in DOMAIN queue, queue[j].op = "enable"
               PROVE  /\ EnableIn(queue[j], map, node, "build", text_edit_id.id)
                      /\ EnableIn(queue[j], map', node', "build", text_edit_id.id)
                      /\ LookIn(map', queue[j].id) = LookIn(map, queue[j].id)
                      /\ LookIn(map, queue[j].id) \in Built
    BY DEF EnablesStand
  <2> DEFINE e == LookIn(map, queue[j].id)
  <2>1. EnableIn(queue[j], map, node, "build", text_edit_id.id)
    BY <1>1 DEF EnablesIn
  <2>2. e \in InUse /\ node[e].id = queue[j].id /\ node[e].age = 0
    BY <1>2, <2>1 DEF EnableIn, Finds
  <2>3. e \in Built /\ e # i
    BY <1>2, <1>3, <2>2 DEF Built
  <2>4. LookIn(map', queue[j].id) = e /\ node'[e] = node[e]
    BY <1>2, <1>5, <2>2, <2>3
  <2> HIDE DEF e
  <2>5. EnableIn(queue[j], map', node', "build", text_edit_id.id)
    BY <2>1, <2>4 DEF EnableIn, e
  <2> QED BY <2>1, <2>3, <2>4, <2>5 DEF e
<1>7. EditStands(id, i)
  <2> SUFFICES ASSUME text_edit_mode
               PROVE  LET e == LookIn(map, text_edit_id.id)
                      IN  /\ e \in InUse /\ LookIn(map', text_edit_id.id) = e
                          /\ text_edit = InputOf(text_edit_id.id, e)
                          /\ node[e].age # 0 => node[e].focus
                          /\ e # i => node'[e] = node[e]
                          /\ e = i => id = text_edit_id.id
    BY DEF EditStands
  <2> DEFINE e == LookIn(map, text_edit_id.id)
  <2>1. e # NoNode /\ text_edit = InputOf(text_edit_id.id, e) /\ (node[e].age # 0 => node[e].focus)
    BY <1>1 DEF BuildingIn
  <2>2. e \in InUse /\ node[e].id = text_edit_id.id
    BY <1>2, <2>1 DEF Finds
  <2>3. LookIn(map', text_edit_id.id) = e
    BY <1>2, <1>3, <1>5, <2>1
  <2>4. e = i => id = text_edit_id.id
    BY <1>2, <1>4, <2>2 DEF InUse
  <2> QED BY <1>2, <1>5, <2>1, <2>2, <2>3, <2>4
<1>8. HoverStands
  <2>1. \A k \in Slots : node[k].hover => node[k].id = node_hovered.id /\ node[k].id # NoId
    BY <1>1 DEF KeptOK
  <2> QED BY <1>3, <1>4, <1>5, <2>1 DEF HoverStands
<1>9. ListStands
  <2>1. /\ list.age = 0 => <<ListId, list.index>> \in map /\ node[list.index].age = 0
        /\ list.age = 1 => <<ListId, list.index>> \in map
        /\ map \subseteq Ids \X Slots
    BY <1>1 DEF KeptOK, TypeOK
  <2>2. list.age = 0 => list.index \in Built
    BY <2>1 DEF Built
  <2> QED BY <1>3, <1>5, <2>1, <2>2 DEF ListStands
<1> QED BY <1>6, <1>7, <1>8, <1>9 DEF i

LEMMA ModeStands ==
    ASSUME IInv, phase' # "stopped", text_edit_mode' = text_edit_mode, text_edit_id' = text_edit_id,
           text_edit_mode \/ text_edit' = text_edit
    PROVE  ModeOK'
BY DEF IInv, ModeOK

\* What is queued with a field that gets the focus.
LEMMA BuildFieldKeeps ==
    ASSUME IInv, NEW id \in Editable, NEW enter \in BOOLEAN, BuildField(id, enter)
    PROVE  IInv'
<1> DEFINE i == SlotFor(id)
           before == Lookup(id) # NoNode /\ node[i].focus
           now == Lookup(id) # NoNode /\ Focus(i)
           added == IF now /\ ~before THEN <<Enable(id, InputOf(id, i))>> ELSE <<>>
           entered == IF enter THEN <<Entered(id)>> ELSE <<>>
<1>1. /\ TypeOK /\ CacheOK /\ StackOK /\ KeptOK /\ ModeOK
      /\ EnablesIn(queue, map, node, phase, text_edit_id.id)
      /\ FocusIn(queue, map, node, text_edit_mode, text_edit_id.id)
      /\ phase = "build" /\ id \in Ids /\ id # NoId
      /\ \A j \in Built : node[j].id # id
  <2>1. id \in Ids /\ id # NoId
    BY IdsAssumption DEF Ids
  <2> QED BY <2>1, Views DEF IInv, BuildField, MayBuild
<1>2. /\ NodeAlloc(id, Parent, node, now)
      /\ queue' = queue \o added \o entered
      /\ text_edit' = IF now /\ before /\ id = PromptId THEN PromptInput ELSE text_edit
      /\ root' = root /\ stack_parent' = stack_parent /\ node_hovered' = node_hovered
      /\ text_edit_id' = text_edit_id /\ text_edit_mode' = text_edit_mode /\ list' = list /\ phase' = phase
      /\ click' = click /\ escape' = escape /\ budget' = budget
  BY DEF BuildField, inputVars
<1>3. now \in BOOLEAN
  OBVIOUS
<1>4. /\ i \in Slots \ Built /\ Built \subseteq InUse
      /\ Built' = Built \cup {i}
      /\ Lookup(id) # NoNode => i = Lookup(id)
      /\ links' \in [Indices -> LinksIn(Indices)]
      /\ Named(id, i, node, now)
      /\ TreesOK' /\ OrderOK' /\ CacheOK'
  <2> HIDE DEF now
  <2> QED BY <1>1, <1>2, <1>3, BuildTrees
<1>5. EnablesStand /\ EditStands(id, i) /\ HoverStands /\ ListStands
  <2> HIDE DEF now
  <2> QED BY <1>1, <1>2, <1>3, BuildStands
<1>6. /\ node' \in [Slots -> Nodes] /\ free' = free \ {i} /\ map' \in SUBSET (Ids \X Slots)
      /\ \A j \in Slots \ {i} : node'[j] = node[j]
      /\ node'[i].id = id /\ node'[i].age = 0 /\ node'[i].focus = now
      /\ Lookup(id) # NoNode /\ node[i].hover => node'[i].hover
      /\ LookIn(map', id) = i
      /\ \A x : x # id => LookIn(map', x) = LookIn(map, x)
  <2> HIDE DEF now
  <2> QED BY <1>1, <1>4 DEF Named
<1>7. InputOf(id, i) \in Inputs /\ i # NoNode
  BY <1>1, <1>4, Bounds DEF InputOf, Inputs, PromptInput, TypeOK, NoNode
<1>8. /\ Enable(id, InputOf(id, i)) \in Commands
      /\ Enable(id, InputOf(id, i)).op = "enable" /\ Enable(id, InputOf(id, i)).id = id
      /\ Enable(id, InputOf(id, i)).input = InputOf(id, i)
      /\ Entered(id) \in Commands /\ Entered(id).op \in {"disable", "flush"}
  BY <1>1, <1>7, CommandTypes DEF Entered
<1>9. /\ before => node[i].focus /\ Lookup(id) = i
      /\ now /\ ~before => node[i].hover /\ Lookup(id) = i
  BY <1>4 DEF Focus
\* A field that had the focus before is the one that is edited.
<1>10. before => text_edit_mode /\ text_edit_id.id = id /\ LookIn(map, text_edit_id.id) = i
  <2> SUFFICES ASSUME before PROVE text_edit_mode /\ text_edit_id.id = id /\ LookIn(map, text_edit_id.id) = i
    OBVIOUS
  <2>1. ~ \E j \in DOMAIN queue : queue[j].op = "enable" /\ LookIn(map, queue[j].id) = i
    BY <1>4, <1>5 DEF EnablesStand
  <2>2. text_edit_mode /\ i = LookIn(map, text_edit_id.id)
    BY <1>1, <1>4, <1>9, <2>1 DEF FocusIn
  <2> QED BY <1>5, <2>2 DEF EditStands
\* A field that gets the focus is not edited, and is the only one.
<1>11. ASSUME now, ~before
       PROVE  /\ id # text_edit_id.id
              /\ \A j \in DOMAIN queue : queue[j].op # "enable"
  <2>1. ASSUME id = text_edit_id.id PROVE FALSE
    <3>1. text_edit_mode
      BY <1>1, <2>1 DEF ModeOK
    <3>2. LookIn(map, text_edit_id.id) = i /\ node[i].age # 0
      BY <1>4, <1>5, <1>6, <2>1, <3>1 DEF EditStands, Built
    <3>3. node[i].focus
      BY <1>5, <3>1, <3>2 DEF EditStands
    <3> QED BY <1>9, <1>11, <1>7, <3>3
  <2>2. ASSUME NEW j \in DOMAIN queue, queue[j].op = "enable" PROVE FALSE
    <3> DEFINE e == LookIn(map, queue[j].id)
    <3>1. e \in Built /\ node[e].hover
      BY <1>5, <2>2 DEF EnablesStand, EnableIn
    <3>2. Finds(map, node, InUse) /\ Lookup(id) = LookIn(map, id) /\ Built \subseteq Slots
      BY <1>1, Lookups DEF Built
    <3>3. node[i].hover /\ node[i].id = id
      BY <1>4, <1>9, <1>11, <3>2 DEF Finds
    <3>4. node[e].id = node_hovered.id /\ node[i].id = node_hovered.id
      BY <1>1, <1>4, <3>1, <3>2, <3>3 DEF KeptOK
    <3> QED BY <1>1, <3>1, <3>3, <3>4
  <2> QED BY <2>1, <2>2
<1>12. PICK w \in Seq(Commands) :
          /\ queue' = queue \o w
          /\ now /\ ~before => 1 \in DOMAIN w /\ w[1] = Enable(id, InputOf(id, i))
          /\ \A k \in DOMAIN w : w[k].op = "enable" => now /\ ~before /\ k = 1
          /\ \A k \in DOMAIN w : w[k].op # "text_op"
  <2> DEFINE c == Enable(id, InputOf(id, i))
             d == Entered(id)
             w == added \o entered
  <2>1. c \in Commands /\ c.op = "enable" /\ d \in Commands /\ d.op \in {"disable", "flush"}
    BY <1>8
  <2>2. added = IF now /\ ~before THEN <<c>> ELSE <<>>
    OBVIOUS
  <2>3. entered = IF enter THEN <<d>> ELSE <<>>
    OBVIOUS
  <2> HIDE DEF c, d, now, before, added, entered
  <2>4. added \in Seq(Commands) /\ entered \in Seq(Commands)
    BY <2>1, <2>2, <2>3
  <2>5. queue \in Seq(Commands)
    BY <1>1 DEF TypeOK
  <2>6. queue' = queue \o w
    BY <1>2, <2>4, <2>5, ConcatAssociative
  <2>7. /\ now /\ ~before => 1 \in DOMAIN w /\ w[1] = c
        /\ \A k \in DOMAIN w : w[k] = d \/ (w[k] = c /\ now /\ ~before /\ k = 1)
    <3>1. CASE now /\ ~before
      <4>1. added = <<c>>
        BY <2>2, <3>1
      <4>2. CASE enter
        <5>1. w = <<c>> \o <<d>>
          BY <2>3, <4>1, <4>2
        <5>2. DOMAIN w = 1..2 /\ w[1] = c /\ w[2] = d
          BY <5>1
        <5> QED BY <3>1, <5>2
      <4>3. CASE ~enter
        <5>1. w = <<c>>
          BY <2>3, <4>1, <4>3
        <5> QED BY <3>1, <5>1
      <4> QED BY <4>2, <4>3
    <3>2. CASE ~ (now /\ ~before)
      <4>1. added = <<>>
        BY <2>2, <3>2
      <4>2. CASE enter
        <5>1. w = <<d>>
          BY <2>3, <4>1, <4>2
        <5> QED BY <3>2, <5>1
      <4>3. CASE ~enter
        <5>1. w = <<>>
          BY <2>3, <4>1, <4>3
        <5> QED BY <3>2, <5>1
      <4> QED BY <4>2, <4>3
    <3> QED BY <3>1, <3>2
  <2>8. w \in Seq(Commands)
    BY <2>4
  <2> HIDE DEF w
  <2> QED BY <2>1, <2>6, <2>7, <2>8 DEF c
<1>13. Queued(queue, w, queue')
  <2>1. queue \in Seq(Commands)
    BY <1>1 DEF TypeOK
  <2> QED BY <1>12, <2>1, Queue
<1> HIDE DEF i, before, now, added, entered
<1>14. TypeOK'
  <2>1. text_edit' \in Inputs
    BY <1>1, <1>2 DEF TypeOK, Inputs
  <2>2. queue' \in Seq(Commands)
    BY <1>13 DEF Queued
  <2> QED BY <1>1, <1>2, <1>4, <1>6, <2>1, <2>2 DEF TypeOK, Indices
<1>15. StackOK'
  BY <1>1, <1>2, <1>4 DEF StackOK
<1>16. KeptOK'
  BY <1>1, <1>2, <1>5 DEF KeptOK, HoverStands, ListStands
<1>17. ModeOK'
  BY <1>1, <1>2, <1>10, ModeStands
<1>18. EnablesOK'
  <2>1. ASSUME NEW k \in DOMAIN queue', queue'[k].op = "enable"
        PROVE  /\ EnableIn(queue'[k], map', node', "build", text_edit_id.id)
               /\ k \in DOMAIN queue \/ (now /\ ~before /\ k = Len(queue) + 1)
    <3>1. CASE k \in DOMAIN queue
      <4>1. queue'[k] = queue[k]
        BY <1>13, <3>1 DEF Queued
      <4> QED BY <1>5, <2>1, <3>1, <4>1 DEF EnablesStand
    <3>2. CASE k \notin DOMAIN queue
      <4>1. now /\ ~before /\ k - Len(queue) = 1 /\ queue'[k] = Enable(id, InputOf(id, i))
        BY <1>12, <1>13, <2>1, <3>2 DEF Queued
      <4>2. node'[i].focus /\ node'[i].hover /\ node'[i].age = 0 /\ LookIn(map', id) = i
        BY <1>6, <1>7, <1>9, <4>1
      <4>3. EnableIn(queue'[k], map', node', "build", text_edit_id.id)
        BY <1>7, <1>8, <1>11, <4>1, <4>2 DEF EnableIn
      <4>4. k = Len(queue) + 1
        BY <1>13, <4>1 DEF Queued
      <4> QED BY <4>1, <4>3, <4>4
    <3> QED BY <3>1, <3>2
  <2>2. ASSUME NEW j \in DOMAIN queue', NEW k \in DOMAIN queue',
               queue'[j].op = "enable", queue'[k].op = "enable"
        PROVE  j = k
    <3>1. CASE now /\ ~before
      <4>1. j \notin DOMAIN queue /\ k \notin DOMAIN queue
        BY <1>11, <1>13, <2>2, <3>1 DEF Queued
      <4> QED BY <2>1, <2>2, <4>1
    <3>2. CASE ~ (now /\ ~before)
      <4>1. j \in DOMAIN queue /\ k \in DOMAIN queue
        BY <2>1, <2>2, <3>2
      <4>2. queue'[j] = queue[j] /\ queue'[k] = queue[k]
        BY <1>13, <4>1 DEF Queued
      <4> QED BY <1>1, <2>2, <4>1, <4>2 DEF EnablesIn
    <3> QED BY <3>1, <3>2
  <2>3. \A k \in DOMAIN queue' : queue'[k].op # "text_op"
    BY <1>1, <1>12, <1>13 DEF Queued, EnablesIn
  <2>4. EnablesIn(queue', map', node', phase', text_edit_id'.id)
    BY <1>1, <1>2, <2>1, <2>2, <2>3 DEF EnablesIn
  <2> QED BY <2>4, ViewsNext
<1>19. FocusOK'
  <2> SUFFICES ASSUME NEW k \in Slots, node'[k].focus,
                      ~ (text_edit_mode /\ k = LookIn(map', text_edit_id.id))
               PROVE  \E j \in DOMAIN queue' : queue'[j].op = "enable" /\ LookIn(map', queue'[j].id) = k
    BY <1>2, ViewsNext DEF FocusIn
  <2>1. CASE k = i
    <3>1. now /\ ~before
      BY <1>5, <1>6, <1>10, <2>1 DEF EditStands
    <3>2. Len(queue) + 1 \in DOMAIN queue' /\ queue'[Len(queue) + 1] = Enable(id, InputOf(id, i))
      BY <1>12, <1>13, <3>1 DEF Queued
    <3> QED BY <1>6, <1>8, <2>1, <3>2
  <2>2. CASE k # i
    <3>1. node[k].focus
      BY <1>6, <2>2
    <3>2. ~ (text_edit_mode /\ k = LookIn(map, text_edit_id.id))
      BY <1>5 DEF EditStands
    <3>3. PICK j \in DOMAIN queue : queue[j].op = "enable" /\ LookIn(map, queue[j].id) = k
      BY <1>1, <3>1, <3>2 DEF FocusIn
    <3>4. j \in DOMAIN queue' /\ queue'[j] = queue[j] /\ LookIn(map', queue[j].id) = k
      BY <1>5, <1>13, <3>3 DEF Queued, EnablesStand
    <3> QED BY <3>3, <3>4
  <2> QED BY <2>1, <2>2
<1>20. EditOK'
  <2>1. ASSUME text_edit_mode
        PROVE  LET e == LookIn(map', text_edit_id.id)
               IN  e # NoNode /\ text_edit' = InputOf(text_edit_id.id, e) /\ (node'[e].age # 0 => node'[e].focus)
    <3> DEFINE e == LookIn(map, text_edit_id.id)
    <3>1. /\ e \in InUse /\ LookIn(map', text_edit_id.id) = e
          /\ text_edit = InputOf(text_edit_id.id, e)
          /\ node[e].age # 0 => node[e].focus
          /\ e # i => node'[e] = node[e]
      BY <1>5, <2>1 DEF EditStands
    <3>2. e # NoNode
      BY <1>1, <3>1, Bounds DEF InUse, TypeOK, NoNode
    <3>3. text_edit' = InputOf(text_edit_id.id, e)
      <4>1. CASE now /\ before /\ id = PromptId
        <5>1. text_edit' = PromptInput /\ text_edit_id.id = PromptId
          BY <1>2, <1>10, <4>1
        <5> QED BY <5>1, IdsAssumption DEF InputOf
      <4>2. CASE ~ (now /\ before /\ id = PromptId)
        BY <1>2, <3>1, <4>2
      <4> QED BY <4>1, <4>2
    <3>4. node'[e].age # 0 => node'[e].focus
      BY <1>6, <3>1
    <3> QED BY <3>1, <3>2, <3>3, <3>4
  <2> QED BY <1>1, <1>2, <2>1, ViewsNext DEF BuildingIn
<1> QED BY <1>4, <1>14, <1>15, <1>16, <1>17, <1>18, <1>19, <1>20 DEF IInv

\* A node that is not a field, put on the stack.
LEMMA PushKeeps ==
    ASSUME IInv, phase = "build", NEW id \in {ListId, NoId},
           id # NoId => \A j \in Built : node[j].id # id,
           NodeAlloc(id, Parent, node, FALSE),
           stack_parent' = Append(stack_parent, SlotFor(id)),
           root' = root, node_hovered' = node_hovered, queue' = queue, phase' = phase,
           text_edit_id' = text_edit_id, text_edit' = text_edit, text_edit_mode' = text_edit_mode,
           click' = click, escape' = escape, budget' = budget,
           list' = IF id = ListId THEN [index |-> SlotFor(id), age |-> 0] ELSE list
    PROVE  IInv'
<1> DEFINE i == SlotFor(id)
<1>1. /\ TypeOK /\ StackOK /\ KeptOK /\ ModeOK
      /\ EnablesIn(queue, map, node, phase, text_edit_id.id)
      /\ FocusIn(queue, map, node, text_edit_mode, text_edit_id.id)
  BY Views DEF IInv
<1>2. id \in Ids \cup {NoId} /\ id \notin Editable /\ ListId # NoId
  BY IdsAssumption DEF Ids
<1>3. /\ i \in Slots \ Built /\ Built \subseteq InUse
      /\ Built' = Built \cup {i}
      /\ links' \in [Indices -> LinksIn(Indices)]
      /\ Named(id, i, node, FALSE)
      /\ TreesOK' /\ OrderOK' /\ CacheOK'
  BY <1>2, BuildTrees
<1>4. EnablesStand /\ EditStands(id, i) /\ HoverStands /\ ListStands
  BY <1>2, BuildStands
<1>5. /\ node' \in [Slots -> Nodes] /\ free' = free \ {i} /\ map' \in SUBSET (Ids \X Slots)
      /\ \A j \in Slots \ {i} : node'[j] = node[j]
      /\ node'[i].id = id /\ node'[i].age = 0 /\ node'[i].focus = FALSE
      /\ id # NoId => <<id, i>> \in map'
  BY <1>3 DEF Named
<1> HIDE DEF i
<1>6. i \in Indices
  BY <1>1, <1>3, Bounds DEF TypeOK
<1>7. stack_parent' = Append(stack_parent, i) /\ (list' = IF id = ListId THEN [index |-> i, age |-> 0] ELSE list)
  BY DEF i
<1>8. TypeOK'
  <2>1. stack_parent' \in Seq(Indices) /\ list' \in [index : Indices, age : 0..2]
    BY <1>1, <1>6, <1>7 DEF TypeOK, Indices
  <2> QED BY <1>1, <1>3, <1>5, <2>1 DEF TypeOK, Indices
<1>9. StackOK'
  <2>1. stack_parent \in Seq(Indices) /\ Len(stack_parent) >= 2
        /\ \A k \in 2..Len(stack_parent) : stack_parent[k] \in Built
    BY <1>1 DEF StackOK, TypeOK, Indices
  <2>2. /\ Len(stack_parent') = Len(stack_parent) + 1
        /\ \A k \in 1..Len(stack_parent) : stack_parent'[k] = stack_parent[k]
        /\ stack_parent'[Len(stack_parent) + 1] = i
    BY <1>6, <1>7, <2>1
  <2>3. \A k \in 2..Len(stack_parent') : stack_parent'[k] \in Built'
    BY <1>3, <2>1, <2>2
  <2> QED BY <2>1, <2>2, <2>3 DEF StackOK
<1>10. KeptOK'
  <2>1. CASE id = ListId
    <3>1. list'.age = 0 /\ list'.index = i
      BY <1>7, <2>1
    <3>2. <<ListId, i>> \in map' /\ node'[i].age = 0
      BY <1>2, <1>5, <2>1
    <3> QED BY <1>1, <1>4, <3>1, <3>2 DEF KeptOK, HoverStands
  <2>2. CASE id # ListId
    BY <1>1, <1>4, <1>7, <2>2 DEF KeptOK, HoverStands, ListStands
  <2> QED BY <2>1, <2>2
<1>11. ModeOK'
  BY <1>1 DEF ModeOK
<1>12. EnablesOK'
  <2>1. EnablesIn(queue', map', node', phase', text_edit_id'.id)
    BY <1>1, <1>4 DEF EnablesIn, EnablesStand
  <2> QED BY <2>1, ViewsNext
<1>13. FocusOK'
  <2> SUFFICES ASSUME NEW k \in Slots, node'[k].focus,
                      ~ (text_edit_mode /\ k = LookIn(map', text_edit_id.id))
               PROVE  \E j \in DOMAIN queue' : queue'[j].op = "enable" /\ LookIn(map', queue'[j].id) = k
    BY ViewsNext DEF FocusIn
  <2>1. node[k].focus
    BY <1>5
  <2>2. ~ (text_edit_mode /\ k = LookIn(map, text_edit_id.id))
    BY <1>4 DEF EditStands
  <2>3. PICK j \in DOMAIN queue : queue[j].op = "enable" /\ LookIn(map, queue[j].id) = k
    BY <1>1, <2>1, <2>2 DEF FocusIn
  <2>4. LookIn(map', queue[j].id) = k
    BY <1>4, <2>3 DEF EnablesStand
  <2> QED BY <2>3, <2>4
<1>14. EditOK'
  <2>1. ASSUME text_edit_mode
        PROVE  LET e == LookIn(map', text_edit_id.id)
               IN  e # NoNode /\ text_edit = InputOf(text_edit_id.id, e) /\ (node'[e].age # 0 => node'[e].focus)
    <3> DEFINE e == LookIn(map, text_edit_id.id)
    <3>1. /\ e \in InUse /\ LookIn(map', text_edit_id.id) = e
          /\ text_edit = InputOf(text_edit_id.id, e)
          /\ node[e].age # 0 => node[e].focus
          /\ e # i => node'[e] = node[e]
      BY <1>4, <2>1 DEF EditStands
    <3>2. e # NoNode
      BY <1>1, <3>1, Bounds DEF InUse, TypeOK, NoNode
    <3>3. node'[e].age # 0 => node'[e].focus
      BY <1>5, <3>1
    <3> QED BY <3>1, <3>2, <3>3
  <2> QED BY <1>1, <2>1, ViewsNext DEF BuildingIn
<1> QED BY <1>3, <1>8, <1>9, <1>10, <1>11, <1>12, <1>13, <1>14 DEF IInv

\* ui_list_push.
LEMMA BuildListKeeps == ASSUME IInv, BuildList PROVE IInv'
<1>1. ListId # NoId
  BY IdsAssumption DEF Ids
<1>2. /\ phase = "build" /\ (\A j \in Built : node[j].id # ListId)
      /\ NodeAlloc(ListId, Parent, node, FALSE)
      /\ stack_parent' = Append(stack_parent, SlotFor(ListId))
      /\ root' = root /\ node_hovered' = node_hovered /\ queue' = queue /\ phase' = phase
      /\ text_edit_id' = text_edit_id /\ text_edit' = text_edit /\ text_edit_mode' = text_edit_mode
      /\ click' = click /\ escape' = escape /\ budget' = budget
      /\ list' = [index |-> SlotFor(ListId), age |-> 0]
  BY <1>1 DEF BuildList, MayBuild, editVars, inputVars
<1> QED BY <1>2, PushKeeps

\* ui_node_push of a node that is not hashed.
LEMMA BuildAnonymousKeeps == ASSUME IInv, BuildAnonymous PROVE IInv'
<1>1. ListId # NoId
  BY IdsAssumption DEF Ids
<1>2. /\ phase = "build"
      /\ NodeAlloc(NoId, Parent, node, FALSE)
      /\ stack_parent' = Append(stack_parent, SlotFor(NoId))
      /\ root' = root /\ node_hovered' = node_hovered /\ queue' = queue /\ phase' = phase
      /\ text_edit_id' = text_edit_id /\ text_edit' = text_edit /\ text_edit_mode' = text_edit_mode
      /\ click' = click /\ escape' = escape /\ budget' = budget
      /\ list' = list
  BY DEF BuildAnonymous, MayBuild, editVars, inputVars
<1> QED BY <1>1, <1>2, PushKeeps

\* ui_frame_begin: every node is one of the last frame, but the root that is built.
Aged == [j \in Slots |-> [node[j] EXCEPT !.age = Older(@)]]

LEMMA FrameBeginNodes ==
    ASSUME IInv, FrameBegin
    PROVE  /\ Aged \in [Slots -> Nodes]
           /\ \A j \in Slots : /\ Aged[j].id = node[j].id /\ Aged[j].focus = node[j].focus
                               /\ Aged[j].hover = node[j].hover /\ Aged[j].age = Older(node[j].age)
           /\ SlotFor(RootId) \in Slots
           /\ Lookup(RootId) # NoNode => /\ SlotFor(RootId) = Lookup(RootId)
                                         /\ SlotFor(RootId) \in InUse /\ node[SlotFor(RootId)].id = RootId
           /\ Lookup(RootId) = NoNode => SlotFor(RootId) \in free
           /\ Named(RootId, SlotFor(RootId), Aged, FALSE)
<1> DEFINE i == SlotFor(RootId)
<1>1. TypeOK /\ CacheOK
  BY DEF IInv
<1>2. NodeAlloc(RootId, 0, Aged, FALSE)
  BY DEF FrameBegin, Aged, HI_ROOT_STUB_INDEX
<1>3. RootId \in Ids \cup {NoId}
  BY DEF Ids
<1>4. node \in [Slots -> Nodes]
  BY <1>1 DEF TypeOK
<1>5. /\ Aged \in [Slots -> Nodes]
      /\ \A j \in Slots : /\ Aged[j].id = node[j].id /\ Aged[j].focus = node[j].focus
                          /\ Aged[j].hover = node[j].hover /\ Aged[j].age = Older(node[j].age)
  <2>1. ASSUME NEW j \in Slots
        PROVE  /\ Aged[j] \in Nodes /\ Aged[j].id = node[j].id /\ Aged[j].focus = node[j].focus
               /\ Aged[j].hover = node[j].hover /\ Aged[j].age = Older(node[j].age)
    <3>1. Aged[j] = [node[j] EXCEPT !.age = Older(@)] /\ node[j] \in Nodes
      BY <1>4 DEF Aged
    <3>2. Older(node[j].age) \in 0..2
      BY <3>1 DEF Older, Nodes
    <3> QED BY <3>1, <3>2 DEF Nodes
  <2>2. Aged = [j \in Slots |-> Aged[j]]
    BY DEF Aged
  <2> QED BY <2>1, <2>2
<1>6. {} \in SUBSET InUse /\ (\A j \in {} : node[j].id # RootId) /\ FALSE \in BOOLEAN
  OBVIOUS
<1>7. free # {}
  BY <1>2 DEF NodeAlloc
<1>8. /\ i \in Slots
      /\ Lookup(RootId) # NoNode => i = Lookup(RootId) /\ i \in InUse /\ node[i].id = RootId
      /\ Lookup(RootId) = NoNode => i \in free
  BY <1>1, <1>6, <1>7, SlotTaken
<1>9. Named(RootId, i, Aged, FALSE)
  <2>1. \A j \in Slots : Aged[j].id = node[j].id
    BY <1>5
  <2> QED BY <1>1, <1>2, <1>3, <1>5, <1>6, <2>1, AllocNodes
<1> QED BY <1>5, <1>8, <1>9

LEMMA FrameBeginKeeps == ASSUME IInv, FrameBegin PROVE IInv'
<1> DEFINE i == SlotFor(RootId)
           e == LookIn(map, text_edit_id.id)
<1>1. /\ TypeOK /\ CacheOK /\ StackOK /\ KeptOK /\ ModeOK /\ TreesOK
      /\ FocusIn(queue, map, node, text_edit_mode, text_edit_id.id)
      /\ phase = "commands" /\ queue = <<>>
      /\ SoundIn(map, node, text_edit_mode, text_edit_id, text_edit)
  <2>1. phase = "commands" /\ queue = <<>>
    BY DEF FrameBegin
  <2>2. ~ MendingIn(queue, text_edit_id.id)
    BY <2>1 DEF MendingIn
  <2> QED BY <2>1, <2>2, Views DEF IInv
<1>2. /\ NodeAlloc(RootId, 0, Aged, FALSE)
      /\ root' = i /\ stack_parent' = Append(stack_parent, i)
      /\ node_hovered' = [node_hovered EXCEPT !.age = Older(@)]
      /\ text_edit_id' = [text_edit_id EXCEPT !.age = Older(@)]
      /\ list' = [list EXCEPT !.age = Older(@)]
      /\ phase' = "build" /\ text_edit' = text_edit /\ text_edit_mode' = text_edit_mode
      /\ queue' = queue /\ click' = click /\ escape' = escape /\ budget' = budget
  BY DEF FrameBegin, Aged, inputVars, HI_ROOT_STUB_INDEX
<1>3. RootId \in Ids \cup {NoId} /\ RootId # NoId /\ RootId \notin Editable /\ NoId \notin Editable
  BY IdsAssumption DEF Ids
<1>4. node \in [Slots -> Nodes] /\ InUse \subseteq Slots /\ Slots \subseteq Indices \ {0, 1} /\ 0 \in Indices
      /\ NoNode \notin Slots /\ IsFiniteSet(Indices)
  BY <1>1, Bounds DEF TypeOK, InUse, NoNode
<1>5. /\ Aged \in [Slots -> Nodes]
      /\ \A j \in Slots : /\ Aged[j].id = node[j].id /\ Aged[j].focus = node[j].focus
                          /\ Aged[j].hover = node[j].hover /\ Aged[j].age = Older(node[j].age)
  BY FrameBeginNodes
<1>6. Forest(links, InUse, 1) /\ Forest(links, {}, 0)
  <2>1. New = {} /\ Old = InUse
    BY <1>1 DEF New, Old
  <2> QED BY <1>1, <2>1 DEF TreesOK, HI_ORPHAN_STUB_INDEX, HI_ROOT_STUB_INDEX
<1>7. /\ i \in Slots
      /\ Lookup(RootId) # NoNode => i = Lookup(RootId) /\ i \in InUse /\ node[i].id = RootId
      /\ Lookup(RootId) = NoNode => i \in free
  BY FrameBeginNodes
<1>8. Planted({}, i, 0)
  <2>1. InUse \ {} = InUse
    OBVIOUS
  <2> QED BY <1>1, <1>2, <1>6, <2>1, AllocLinks
<1>9. Named(RootId, i, Aged, FALSE)
  BY FrameBeginNodes
<1>10. /\ free' = free \ {i} /\ InUse' = InUse \cup {i} /\ node' \in [Slots -> Nodes]
       /\ node'[i].id = RootId /\ node'[i].age = 0 /\ node'[i].focus = FALSE
       /\ node'[i].hover => Lookup(RootId) # NoNode /\ node[i].hover
       /\ \A j \in Slots \ {i} : node'[j] = Aged[j]
       /\ map' \in SUBSET (Ids \X Slots) /\ map \subseteq map'
       /\ \A x : x # RootId => LookIn(map', x) = LookIn(map, x)
  BY <1>3, <1>5, <1>7, <1>9 DEF Named
<1>11. /\ links' \in [Indices -> LinksIn(Indices)]
       /\ Forest(links', InUse \ {i}, 1) /\ Forest(links', {i}, 0) /\ Grown(links, {}, i, 0, links')
  <2>1. (InUse \ {}) \ {i} = InUse \ {i} /\ {} \cup {i} = {i}
    OBVIOUS
  <2> QED BY <1>8, <2>1 DEF Planted
<1>12. /\ \A j \in free : node[j] = Blank
       /\ \A j \in InUse : node[j].age = 0
  BY <1>1, <1>4 DEF CacheOK, Nodes
<1> HIDE DEF i, e
<1>13. Built' = {i}
  <2>1. \A j \in Slots \ {i} : node'[j].age # 0
    BY <1>4, <1>5, <1>10 DEF Older, Nodes
  <2> QED BY <1>7, <1>10, <2>1 DEF Built
<1>14. TypeOK'
  <2>1. Older(node_hovered.age) \in 0..2 /\ Older(text_edit_id.age) \in 0..2 /\ Older(list.age) \in 0..2
    BY <1>1 DEF TypeOK, Names, Older
  <2>2. /\ node_hovered' \in Names /\ text_edit_id' \in Names /\ list' \in [index : Indices, age : 0..2]
    BY <1>1, <1>2, <2>1 DEF TypeOK, Names, Indices
  <2>3. stack_parent' \in Seq(Indices) /\ root' \in Indices
    BY <1>1, <1>2, <1>4, <1>7 DEF TypeOK, Indices
  <2> QED BY <1>1, <1>2, <1>4, <1>10, <1>11, <2>2, <2>3 DEF TypeOK, Indices
<1>15. TreesOK'
  <2>1. New' = {i} /\ Old' = InUse \ {i}
    BY <1>2, <1>10, <1>13 DEF New, Old
  <2>2. links[0].last = 0
    BY <1>6 DEF Forest, WellLinked, HI_NULL_INDEX
  <2>3. links'[0].first = i /\ links'[0].last = i
    BY <1>11, <2>2 DEF Grown
  <2> QED BY <1>2, <1>11, <1>13, <2>1, <2>3 DEF TreesOK, HI_ORPHAN_STUB_INDEX, HI_ROOT_STUB_INDEX
<1>16. OrderOK'
  <2>1. Listed(links', i, <<>>)
    BY <1>11, GrownLeaf
  <2>2. Children(links', i) = <<>>
    <3>1. <<>> \in Seq(Indices) /\ i \in Indices
      BY <1>4, <1>7
    <3> QED BY <1>4, <1>11, <2>1, <3>1, ChildrenListed
  <2> QED BY <1>13, <2>1, <2>2 DEF OrderOK
<1>17. StackOK'
  <2>1. stack_parent = <<0>>
    BY <1>1 DEF StackOK, HI_ROOT_STUB_INDEX
  <2>2. Len(stack_parent') = 2 /\ stack_parent'[2] = i
    BY <1>2, <2>1
  <2> QED BY <1>2, <1>13, <2>2 DEF StackOK
<1>18. CacheOK'
  <2>1. \A j \in free' : node'[j] = Blank
    <3> SUFFICES ASSUME NEW j \in free, j # i PROVE node'[j] = Blank
      BY <1>10
    <3>1. j \in Slots /\ node[j] = Blank /\ node'[j] = Aged[j]
      BY <1>1, <1>10, <1>12 DEF TypeOK
    <3>2. /\ Aged[j] \in Nodes /\ Aged[j].id = NoId /\ Aged[j].age = 2
          /\ Aged[j].focus = FALSE /\ Aged[j].hover = FALSE
      BY <1>5, <3>1 DEF Blank, Older
    <3> QED BY <3>1, <3>2 DEF Blank, Nodes
  <2>2. \A j \in InUse' : node'[j].age <= (IF phase' = "build" THEN 1 ELSE 0)
    BY <1>2, <1>4, <1>5, <1>10, <1>12 DEF Older
  <2> QED BY <1>9, <2>1, <2>2 DEF Named, CacheOK
<1>19. KeptOK'
  <2>1. node_hovered'.id = node_hovered.id /\ node_hovered'.age = Older(node_hovered.age)
    BY <1>1, <1>2 DEF TypeOK, Names
  <2>2. list'.index = list.index /\ list'.age = Older(list.age)
    BY <1>1, <1>2 DEF TypeOK
  <2>3. \A k \in Slots : node'[k].hover => node'[k].id = node_hovered.id /\ node'[k].id # NoId
    <3>1. \A k \in Slots : node[k].hover => node[k].id = node_hovered.id /\ node[k].id # NoId
      BY <1>1 DEF KeptOK
    <3> QED BY <1>5, <1>7, <1>10, <3>1
  <2>4. node_hovered.id # NoId => Older(node_hovered.age) <= 1
    BY <1>1 DEF KeptOK, Older, TypeOK, Names
  <2>5. Older(list.age) # 0 /\ (Older(list.age) = 1 => <<ListId, list.index>> \in map')
    BY <1>1, <1>10 DEF KeptOK, Older, TypeOK
  <2> QED BY <1>2, <2>1, <2>2, <2>3, <2>4, <2>5 DEF KeptOK
<1>20. text_edit_id'.id = text_edit_id.id /\ text_edit_id'.age = Older(text_edit_id.age)
  BY <1>1, <1>2 DEF TypeOK, Names
<1>21. ModeOK'
  <2>1. text_edit_mode => text_edit_id.age = 0
    BY <1>1 DEF SoundIn
  <2> QED BY <1>1, <1>2, <1>20, <2>1 DEF ModeOK, Older
<1>22. EnablesOK'
  BY <1>1, <1>2, ViewsNext DEF EnablesIn
\* The node that is edited is not the root.
<1>23. text_edit_mode =>
          /\ e \in InUse /\ e # i /\ node[e].focus /\ text_edit = InputOf(text_edit_id.id, e)
          /\ LookIn(map', text_edit_id.id) = e
  <2> SUFFICES ASSUME text_edit_mode
               PROVE  /\ e \in InUse /\ e # i /\ node[e].focus /\ text_edit = InputOf(text_edit_id.id, e)
                      /\ LookIn(map', text_edit_id.id) = e
    OBVIOUS
  <2>1. e # NoNode /\ node[e].focus /\ text_edit = InputOf(text_edit_id.id, e)
    BY <1>1 DEF SoundIn, e
  <2>2. text_edit_id.id \in Editable
    BY <1>1 DEF ModeOK
  <2>3. e \in InUse /\ node[e].id = text_edit_id.id
    BY <1>1, <1>4, <2>1, Lookups DEF Finds, e
  <2>4. e # i
    BY <1>3, <1>7, <2>2, <2>3 DEF InUse
  <2>5. LookIn(map', text_edit_id.id) = e
    BY <1>3, <1>10, <2>2 DEF e
  <2> QED BY <2>1, <2>3, <2>4, <2>5
<1>24. FocusOK'
  <2>1. ASSUME NEW k \in Slots, node'[k].focus PROVE text_edit_mode /\ k = e
    <3>1. node[k].focus
      BY <1>5, <1>10, <2>1
    <3> QED BY <1>1, <3>1 DEF FocusIn, e
  <2> QED BY <1>2, <1>20, <1>23, <2>1, ViewsNext DEF FocusIn
<1>25. EditOK'
  <2>1. text_edit_mode => node'[e].focus
    BY <1>4, <1>5, <1>10, <1>23
  <2>2. e \in InUse => e # NoNode
    BY <1>4
  <2> QED BY <1>2, <1>20, <1>23, <2>1, <2>2, ViewsNext DEF BuildingIn
<1> QED BY <1>14, <1>15, <1>16, <1>17, <1>18, <1>19, <1>21, <1>22, <1>24, <1>25 DEF IInv

-----------------------------------------------------------------------------
(* ui_frame_end.                                                            *)

\* What hangs from the orphan stub is what the frame did not build.
LEMMA PrunedNodes ==
    ASSUME IInv, phase = "build"
    PROVE  /\ Pruned = InUse \ Built /\ Built \subseteq InUse /\ InUse \subseteq Slots
           /\ Forest(links, InUse \ Built, 1) /\ Forest(links, Built, 0)
<1>1. TypeOK /\ CacheOK /\ TreesOK
  BY DEF IInv
<1>2. Forest(links, InUse \ Built, 1) /\ Forest(links, Built, 0)
  BY <1>1 DEF TreesOK, Old, New, HI_ORPHAN_STUB_INDEX, HI_ROOT_STUB_INDEX
<1>3. /\ IsFiniteSet(Indices) /\ 0 \in Indices /\ 1 \in Indices \ {0} /\ InUse \subseteq Slots
      /\ Slots \subseteq Indices \ {0, 1} /\ links \in [Indices -> LinksIn(Indices)]
  BY <1>1, Bounds DEF TypeOK, Indices, InUse
<1>4. InUse \ Built \in SUBSET (Indices \ {0, 1})
  BY <1>3
<1>5. Pruned = InUse \ Built
  BY <1>2, <1>3, <1>4, BelowForest DEF Pruned, HI_ORPHAN_STUB_INDEX
<1> QED BY <1>1, <1>2, <1>3, <1>5, BuiltInUse

SameChildren == \A q \in Built : Children(links', q) = Children(links, q)

\* The frame's nodes and their tree stay, under the orphan stub.
LEMMA PruneTrees ==
    ASSUME IInv, phase = "build", phase' # "build", root' = root, NEW nodes, Prune(nodes),
           \A j \in Built : node'[j].age = 0, \A j \in Slots \ Built : node'[j].age # 0
    PROVE  /\ links' \in [Indices -> LinksIn(Indices)]
           /\ InUse' = Built /\ Built' = Built
           /\ TreesOK' /\ OrderOK' /\ SameChildren
<1>1. TypeOK /\ CacheOK /\ TreesOK /\ OrderOK
  BY DEF IInv
<1>2. /\ Pruned = InUse \ Built /\ Built \subseteq InUse /\ InUse \subseteq Slots
      /\ Forest(links, InUse \ Built, 1) /\ Forest(links, Built, 0)
  BY PrunedNodes
<1>3. /\ IsFiniteSet(Indices) /\ 0 \in Indices /\ 1 \in Indices \ {0}
      /\ Slots \subseteq Indices \ {0, 1} /\ links \in [Indices -> LinksIn(Indices)]
  BY <1>1, Bounds DEF TypeOK, Indices
<1>4. /\ root \in Built /\ links[0].first = root /\ links[0].last = root
      /\ \A j \in Built : links[j].parent = 0 => j = root
  BY <1>1 DEF TreesOK, HI_ROOT_STUB_INDEX
<1> DEFINE S == InUse \ Built
           g == AdoptNode(RemoveBelow(links, 1), root, 1)
<1>5. links' = g /\ free' = free \cup Pruned
  BY DEF Prune, HI_ORPHAN_STUB_INDEX
<1>6. S \in SUBSET (Indices \ {0, 1}) /\ Built \in SUBSET (Indices \ (S \cup {0, 1}))
  BY <1>2, <1>3
<1>7. /\ g \in [Indices -> LinksIn(Indices)]
      /\ Forest(g, Built, 1)
      /\ Forest(g, {}, 0)
      /\ \A j \in Built : g[j].first = links[j].first /\ g[j].next = links[j].next
  <2> HIDE DEF S
  <2>1. Forest(links, S, 1) /\ Forest(links, Built, 0)
    BY <1>2 DEF S
  <2> QED BY <1>3, <1>4, <1>6, <2>1, PruneForests, SMTT(30)
<1> HIDE DEF g
<1>8. InUse' = Built
  BY <1>1, <1>2, <1>5 DEF InUse, TypeOK
<1>9. Built' = Built
  BY DEF Built
<1>10. TreesOK'
  <2>1. New' = {} /\ Old' = Built
    BY <1>8 DEF New, Old
  <2> QED BY <1>5, <1>7, <2>1 DEF TreesOK, HI_ORPHAN_STUB_INDEX, HI_ROOT_STUB_INDEX
<1>11. OrderOK' /\ SameChildren
  <2>1. ASSUME NEW q \in Built
        PROVE  Listed(links', q, Children(links', q)) /\ Children(links', q) = Children(links, q)
    <3> DEFINE s == Children(links, q)
    <3>1. q \in Indices /\ s \in Seq(Indices) /\ Listed(links, q, s)
      BY <1>1, <1>2, <1>3, ChildrenSeq DEF OrderOK
    <3>2. \A k \in 1..Len(s) : s[k] \in Built
      <4>1. Built \in SUBSET (Indices \ {0, 0}) /\ q \in Built \cup {0}
        BY <1>2, <1>3
      <4> QED BY <1>2, <1>3, <3>1, <4>1, ListedChildren
    <3> HIDE DEF s
    <3>3. Len(s) \in Nat /\ DOMAIN s = 1..Len(s)
      BY <3>1
    <3>4. g[q].first = links[q].first /\ \A k \in 1..Len(s) : g[s[k]].next = links[s[k]].next
      BY <1>7, <3>2
    <3>5. DOMAIN g = Indices /\ DOMAIN links = Indices
      BY <1>3, <1>7
    <3>6. Listed(g, q, s)
      BY <3>1, <3>3, <3>4, <3>5 DEF Listed
    <3>7. Children(g, q) = s
      BY <1>3, <1>7, <3>1, <3>6, ChildrenListed
    <3> QED BY <1>5, <3>6, <3>7 DEF s
  <2> QED BY <1>9, <2>1 DEF OrderOK, SameChildren
<1> QED BY <1>5, <1>7, <1>8, <1>9, <1>10, <1>11

\* What ui_identify_hovered_node leaves of the nodes: the one under the cursor is
\* hovered and no other.
LEMMA HoveredNodes ==
    ASSUME IInv, NEW h \in Built \cup {NoNode}, NEW nodes, nodes = Hovered(h)
    PROVE  /\ nodes \in [Slots -> Nodes]
           /\ \A j \in Slots : /\ nodes[j].id = node[j].id /\ nodes[j].focus = node[j].focus
                               /\ nodes[j].age = node[j].age
                               /\ nodes[j].hover <=> j = h
<1>1. TypeOK /\ CacheOK /\ KeptOK
  BY DEF IInv
<1>2. Finds(map, node, InUse) /\ (\A x : Lookup(x) = LookIn(map, x)) /\ node \in [Slots -> Nodes]
  BY <1>1, Lookups DEF TypeOK
<1>3. ASSUME NEW j \in Slots, node[j].hover PROVE j = Lookup(node_hovered.id)
  <2>1. node[j].id = node_hovered.id /\ node[j].id # NoId
    BY <1>1, <1>3 DEF KeptOK
  <2>2. j \in InUse
    BY <1>1, <2>1 DEF CacheOK, InUse, Blank
  <2> QED BY <1>2, <2>1, <2>2 DEF Finds
<1>4. ASSUME NEW j \in Slots
      PROVE  /\ nodes[j] \in Nodes
             /\ nodes[j].id = node[j].id /\ nodes[j].focus = node[j].focus
             /\ nodes[j].age = node[j].age
             /\ nodes[j].hover <=> j = h
  <2> DEFINE b == j = h \/ (node[j].hover /\ j # Lookup(node_hovered.id))
  <2>1. nodes[j] = [node[j] EXCEPT !.hover = b]
    BY DEF Hovered
  <2>2. b \in BOOLEAN /\ (b <=> j = h)
    BY <1>3
  <2>3. node[j] \in Nodes
    BY <1>2
  <2> HIDE DEF b
  <2> QED BY <2>1, <2>2, <2>3 DEF Nodes
<1>5. nodes = [j \in Slots |-> nodes[j]]
  BY DEF Hovered
<1> HIDE DEF Hovered
<1>6. nodes \in [Slots -> Nodes]
  BY <1>4, <1>5
<1> QED BY <1>4, <1>6

\* The nodes and the map after a frame: of those that were built.
Surviving(h) ==
    /\ node' \in [Slots -> Nodes]
    /\ \A j \in Slots \ Built : node'[j] = Blank
    /\ \A j \in Built : /\ node'[j].id = node[j].id /\ node'[j].focus = node[j].focus
                        /\ node'[j].age = 0
                        /\ node'[j].hover <=> j = h
    /\ map' \in SUBSET (Ids \X Slots)
    /\ \A m \in map : m[2] \in Built => m \in map'
    /\ Finds(map', node', Built)
    /\ \A x : LookIn(map, x) \in Built => LookIn(map', x) = LookIn(map, x)

LEMMA PruneNodes ==
    ASSUME IInv, phase = "build", phase' = "events", root' = root,
           NEW h \in Built \cup {NoNode}, Prune(Hovered(h))
    PROVE  /\ Surviving(h)
           /\ links' \in [Indices -> LinksIn(Indices)]
           /\ free' \in SUBSET Slots
           /\ InUse' = Built /\ Built' = Built
           /\ TreesOK' /\ OrderOK' /\ CacheOK' /\ SameChildren
<1> DEFINE nodes == Hovered(h)
<1>1. TypeOK /\ CacheOK
  BY DEF IInv
<1>2. /\ Pruned = InUse \ Built /\ Built \subseteq InUse /\ InUse \subseteq Slots
      /\ LastSlot \in Nat /\ NoNode \notin Slots
  BY <1>1, PrunedNodes, Bounds DEF TypeOK, NoNode
<1>3. /\ nodes \in [Slots -> Nodes]
      /\ \A j \in Slots : /\ nodes[j].id = node[j].id /\ nodes[j].focus = node[j].focus
                          /\ nodes[j].age = node[j].age
                          /\ nodes[j].hover <=> j = h
  BY HoveredNodes
<1>4. /\ node' = [j \in Slots |-> IF j \in Pruned THEN Blank ELSE nodes[j]]
      /\ map' = {m \in map : m[2] \notin Pruned}
      /\ free' = free \cup Pruned
  BY DEF Prune
<1> HIDE DEF nodes
<1>5. Blank \in Nodes
  BY DEF Blank, Nodes
<1>6. /\ node' \in [Slots -> Nodes]
      /\ \A j \in Slots : node'[j] = IF j \in Pruned THEN Blank ELSE nodes[j]
  BY <1>3, <1>4, <1>5
<1>7. ASSUME NEW j \in Slots \ Built PROVE node'[j] = Blank
  <2>1. CASE j \in InUse
    BY <1>2, <1>6, <2>1
  <2>2. CASE j \notin InUse
    <3>1. node[j] = Blank /\ node'[j] = nodes[j] /\ j # h
      BY <1>1, <1>2, <1>6, <2>2 DEF CacheOK, InUse
    <3>2. /\ nodes[j] \in Nodes /\ nodes[j].id = NoId /\ nodes[j].age = 2
          /\ nodes[j].focus = FALSE /\ nodes[j].hover = FALSE
      BY <1>3, <3>1 DEF Blank, Nodes
    <3> QED BY <3>1, <3>2 DEF Blank, Nodes
  <2> QED BY <2>1, <2>2
<1>8. ASSUME NEW j \in Built
      PROVE  /\ node'[j].id = node[j].id /\ node'[j].focus = node[j].focus
             /\ node'[j].age = 0
             /\ node'[j].hover <=> j = h
  BY <1>2, <1>3, <1>6 DEF Built
<1>9. \A j \in Slots \ Built : node'[j].age # 0
  BY <1>7 DEF Blank
<1>10. /\ links' \in [Indices -> LinksIn(Indices)]
       /\ InUse' = Built /\ Built' = Built
       /\ TreesOK' /\ OrderOK' /\ SameChildren
  BY <1>8, <1>9, PruneTrees
<1>11. map' \in SUBSET (Ids \X Slots) /\ free' \in SUBSET Slots
  BY <1>1, <1>2, <1>4 DEF TypeOK
<1>12. \A m \in map : m[2] \in Built => m \in map'
  BY <1>2, <1>4
<1>13. map' = {<<node'[j].id, j>> : j \in {k \in Built : node'[k].id # NoId}}
  <2> DEFINE M == {<<node'[j].id, j>> : j \in {k \in Built : node'[k].id # NoId}}
  <2>1. \A x : x \in M <=> \E j \in Built : node'[j].id # NoId /\ x = <<node'[j].id, j>>
    OBVIOUS
  <2>2. \A x : x \in map <=> \E j \in InUse : node[j].id # NoId /\ x = <<node[j].id, j>>
    BY <1>1 DEF CacheOK
  <2>3. \A x : x \in map' <=> x \in map /\ x[2] \notin Pruned
    BY <1>4
  <2> HIDE DEF M
  <2>4. \A x : x \in map' <=> x \in M
    BY <1>2, <1>8, <2>1, <2>2, <2>3
  <2>5. map' = M
    BY <2>4
  <2> QED BY <2>5 DEF M
<1>14. \A j, k \in Built : node'[j].id = node'[k].id => j = k \/ node'[j].id = NoId
  BY <1>1, <1>2, <1>8 DEF CacheOK
<1>15. Finds(map', node', Built)
  BY <1>2, <1>13, <1>14, Found
<1>16. ASSUME NEW x, LookIn(map, x) \in Built PROVE LookIn(map', x) = LookIn(map, x)
  <2>1. Finds(map, node, InUse)
    BY <1>1, Lookups
  <2> QED BY <1>2, <1>8, <1>15, <1>16, <2>1 DEF Finds
<1>17. CacheOK'
  <2>1. \A j \in free' : node'[j] = Blank
    BY <1>7, <1>10, <1>11 DEF InUse
  <2>2. \A j \in InUse' : node'[j].age <= (IF phase' = "build" THEN 1 ELSE 0)
    BY <1>8, <1>10
  <2> QED BY <1>10, <1>13, <1>14, <2>1, <2>2 DEF CacheOK
<1> QED BY <1>6, <1>7, <1>8, <1>10, <1>11, <1>12, <1>15, <1>16, <1>17 DEF Surviving

\* ui_frame_end keeps the edit, or queues its end.
LEMMA FrameEndKeeps ==
    ASSUME IInv, NEW h \in {i \in Built : budget.input /\ node[i].id \in Editable} \cup {NoNode}, FrameEnd(h)
    PROVE  IInv'
<1> DEFINE t == LookIn(map, text_edit_id.id)
           over == t # NoNode /\ (node[t].age # 0 \/ ~node[t].focus)
<1>1. /\ TypeOK /\ CacheOK /\ KeptOK /\ ModeOK
      /\ EnablesIn(queue, map, node, phase, text_edit_id.id)
      /\ FocusIn(queue, map, node, text_edit_mode, text_edit_id.id)
      /\ phase = "build"
      /\ BuildingIn(map, node, text_edit_mode, text_edit_id.id, text_edit)
  <2>1. phase = "build"
    BY DEF FrameEnd
  <2> QED BY <2>1, Views DEF IInv
<1>2. /\ Finds(map, node, InUse) /\ (\A x : Lookup(x) = LookIn(map, x))
      /\ Built \subseteq InUse /\ InUse \subseteq Slots /\ NoNode \notin Slots
  BY <1>1, Lookups, PrunedNodes, Bounds DEF TypeOK, NoNode
<1>3. /\ stack_parent' = <<0>>
      /\ node_hovered' = IF h = NoNode THEN NoName ELSE [id |-> node[h].id, age |-> 0]
      /\ click' = FALSE /\ escape' = FALSE /\ phase' = "events"
      /\ root' = root /\ text_edit_mode' = text_edit_mode /\ list' = list /\ budget' = budget
      /\ Prune(Hovered(h))
  BY DEF FrameEnd, HI_ROOT_STUB_INDEX
<1>4. /\ queue' = IF over THEN Append(queue, Disable(text_edit_id.id)) ELSE queue
      /\ text_edit' = IF t # NoNode /\ ~over /\ node[t].id \in Fields THEN t ELSE text_edit
      /\ text_edit_id' = IF t = NoNode THEN text_edit_id ELSE [id |-> node[t].id, age |-> node[t].age]
  BY <1>2 DEF FrameEnd, EditEnds
<1>5. /\ Surviving(h) /\ links' \in [Indices -> LinksIn(Indices)] /\ free' \in SUBSET Slots
      /\ InUse' = Built /\ Built' = Built
      /\ TreesOK' /\ OrderOK' /\ CacheOK'
  BY <1>1, <1>3, PruneNodes
<1>6. /\ node' \in [Slots -> Nodes] /\ map' \in SUBSET (Ids \X Slots)
      /\ \A j \in Slots \ Built : node'[j] = Blank
      /\ \A j \in Built : /\ node'[j].id = node[j].id /\ node'[j].focus = node[j].focus
                          /\ node'[j].age = 0
                          /\ node'[j].hover <=> j = h
      /\ \A m \in map : m[2] \in Built => m \in map'
      /\ Finds(map', node', Built)
      /\ \A x : LookIn(map, x) \in Built => LookIn(map', x) = LookIn(map, x)
  BY <1>5 DEF Surviving
<1>7. t \in InUse \cup {NoNode} /\ (t # NoNode => node[t].id = text_edit_id.id)
  BY <1>2 DEF Finds
<1>8. /\ text_edit_id'.id = text_edit_id.id /\ text_edit_id' \in Names
      /\ t # NoNode => text_edit_id'.age = node[t].age /\ node[t].age <= 1
  BY <1>1, <1>2, <1>4, <1>7 DEF TypeOK, Names, Nodes, CacheOK
<1> HIDE DEF t
<1>9. PICK w \in Seq(Commands) :
         /\ Queued(queue, w, queue')
         /\ \A k \in DOMAIN w : w[k].op = "disable"
         /\ over => \E k \in DOMAIN w : w[k].op = "disable" /\ w[k].id = text_edit_id.id
  <2> DEFINE d == Disable(text_edit_id.id)
  <2>1. d \in Commands /\ d.op = "disable" /\ d.id = text_edit_id.id /\ queue \in Seq(Commands)
    BY <1>1, CommandTypes DEF TypeOK, Names
  <2> HIDE DEF d, over
  <2>2. CASE over
    <3>1. queue' = queue \o <<d>>
      BY <1>4, <2>1, <2>2 DEF d
    <3> DEFINE w == <<d>>
    <3>2. w \in Seq(Commands) /\ 1 \in DOMAIN w /\ w[1] = d /\ \A k \in DOMAIN w : w[k] = d
      BY <2>1
    <3> HIDE DEF w
    <3>3. Queued(queue, w, queue')
      BY <2>1, <3>1, <3>2, Queue DEF w
    <3> QED BY <2>1, <3>2, <3>3
  <2>3. CASE ~over
    <3>1. queue' = queue \o <<>> /\ <<>> \in Seq(Commands) /\ DOMAIN <<>> = {}
      BY <1>4, <2>1, <2>3
    <3>2. Queued(queue, <<>>, queue')
      BY <2>1, <3>1, Queue
    <3> QED BY <2>3, <3>1, <3>2
  <2> QED BY <2>2, <2>3
<1>10. TypeOK'
  <2>1. node_hovered' \in Names
    <3>1. NoName \in Names
      BY DEF NoName, Names
    <3>2. h # NoNode => [id |-> node[h].id, age |-> 0] \in Names
      BY <1>1, <1>2 DEF TypeOK, Nodes, Names
    <3> QED BY <1>3, <3>1, <3>2
  <2>2. text_edit' \in Inputs
    BY <1>1, <1>2, <1>4, <1>7 DEF TypeOK, Inputs
  <2>3. queue' \in Seq(Commands)
    BY <1>9 DEF Queued
  <2>4. stack_parent' \in Seq(Indices)
    BY <1>1, <1>3, Bounds DEF TypeOK
  <2> QED BY <1>1, <1>3, <1>5, <1>6, <1>8, <2>1, <2>2, <2>3, <2>4 DEF TypeOK, Indices
<1>11. StackOK'
  BY <1>3 DEF StackOK, HI_ROOT_STUB_INDEX
<1>12. KeptOK'
  <2>1. ASSUME NEW j \in Slots, node'[j].hover PROVE node'[j].id = node_hovered'.id /\ node'[j].id # NoId
    <3>1. j \in Built
      BY <1>6, <2>1 DEF Blank
    <3>2. j = h /\ h # NoNode /\ node[h].id \in Editable
      BY <1>2, <1>6, <2>1, <3>1
    <3> QED BY <1>3, <1>6, <3>1, <3>2, IdsAssumption DEF Ids
  <2>2. node_hovered'.id # NoId => node_hovered'.age <= 0
    BY <1>3 DEF NoName
  <2>3. list.age = 0 => <<ListId, list.index>> \in map' /\ node'[list.index].age = 0
    <3> SUFFICES ASSUME list.age = 0 PROVE <<ListId, list.index>> \in map' /\ node'[list.index].age = 0
      OBVIOUS
    <3>1. <<ListId, list.index>> \in map /\ node[list.index].age = 0 /\ list.index \in Slots
      BY <1>1 DEF KeptOK, TypeOK
    <3>2. list.index \in Built
      BY <3>1 DEF Built
    <3> QED BY <1>6, <3>1, <3>2
  <2> QED BY <1>3, <2>1, <2>2, <2>3 DEF KeptOK
<1>13. text_edit_mode => t # NoNode /\ text_edit = InputOf(text_edit_id.id, t)
  BY <1>1 DEF BuildingIn, t
<1>14. ModeOK'
  <2>1. CASE text_edit_mode
    <3>1. text_edit_id.id \in Editable
      BY <1>1, <2>1 DEF ModeOK
    <3> QED BY <1>3, <1>8, <1>13, <2>1, <3>1 DEF ModeOK
  <2>2. CASE ~text_edit_mode
    <3>1. text_edit_id.id = NoId /\ text_edit = StubInput
      BY <1>1, <2>2 DEF ModeOK
    <3>2. t = NoNode
      BY <1>2, <1>7, <3>1 DEF Finds, t
    <3> QED BY <1>3, <1>4, <1>8, <2>2, <3>1, <3>2 DEF ModeOK
  <2> QED BY <2>1, <2>2
<1>15. \A k \in DOMAIN queue' : (k \in DOMAIN queue /\ queue'[k] = queue[k]) \/ queue'[k].op = "disable"
  BY <1>9 DEF Queued
<1>16. ASSUME NEW j \in DOMAIN queue, queue[j].op = "enable"
       PROVE  /\ EnableIn(queue[j], map', node', phase', text_edit_id'.id)
              /\ LookIn(map', queue[j].id) = LookIn(map, queue[j].id)
  <2> DEFINE e == LookIn(map, queue[j].id)
  <2>1. EnableIn(queue[j], map, node, "build", text_edit_id.id)
    BY <1>1, <1>16 DEF EnablesIn
  <2>2. e \in Built
    BY <1>2, <2>1 DEF EnableIn, Finds, Built
  <2>3. LookIn(map', queue[j].id) = e /\ node'[e].focus = node[e].focus
    BY <1>6, <2>2
  <2> HIDE DEF e
  <2>4. EnableIn(queue[j], map', node', phase', text_edit_id'.id)
    BY <1>3, <1>8, <2>1, <2>3 DEF EnableIn, e
  <2> QED BY <2>3, <2>4 DEF e
<1>17. EnablesOK'
  <2>1. \A j, k \in DOMAIN queue' : queue'[j].op = "enable" /\ queue'[k].op = "enable" => j = k
    BY <1>1, <1>15 DEF EnablesIn
  <2>2. \A k \in DOMAIN queue' : queue'[k].op # "text_op"
    BY <1>1, <1>15 DEF EnablesIn
  <2>3. EnablesIn(queue', map', node', phase', text_edit_id'.id)
    BY <1>15, <1>16, <2>1, <2>2 DEF EnablesIn
  <2> QED BY <2>3, ViewsNext
<1>18. FocusOK'
  <2> SUFFICES ASSUME NEW k \in Slots, node'[k].focus,
                      ~ (text_edit_mode /\ k = LookIn(map', text_edit_id.id))
               PROVE  \E j \in DOMAIN queue' : queue'[j].op = "enable" /\ LookIn(map', queue'[j].id) = k
    BY <1>3, <1>8, ViewsNext DEF FocusIn
  <2>1. k \in Built /\ node[k].focus
    BY <1>6 DEF Blank
  <2>2. ~ (text_edit_mode /\ k = LookIn(map, text_edit_id.id))
    BY <1>6, <2>1
  <2>3. PICK j \in DOMAIN queue : queue[j].op = "enable" /\ LookIn(map, queue[j].id) = k
    BY <1>1, <2>1, <2>2 DEF FocusIn
  <2>4. j \in DOMAIN queue' /\ queue'[j] = queue[j]
    BY <1>9 DEF Queued
  <2> QED BY <1>16, <2>3, <2>4
<1>19. EditOK'
  <2>1. CASE over
    <3>1. PICK k \in DOMAIN w : w[k].op = "disable" /\ w[k].id = text_edit_id.id
      BY <1>9, <2>1
    <3>2. Len(queue) + k \in DOMAIN queue' /\ queue'[Len(queue) + k] = w[k]
      BY <1>9, <3>1 DEF Queued
    <3>3. \A j \in DOMAIN queue' : queue'[j].op # "text_op"
      BY <1>1, <1>15 DEF EnablesIn
    <3>4. MendingIn(queue', text_edit_id'.id)
      BY <1>8, <3>1, <3>2, <3>3 DEF MendingIn
    <3> QED BY <1>3, <3>4, ViewsNext
  <2>2. CASE ~over
    <3>1. ASSUME text_edit_mode
          PROVE  LET e == LookIn(map', text_edit_id'.id)
                 IN  e # NoNode /\ node'[e].focus /\ text_edit' = InputOf(text_edit_id'.id, e) /\ text_edit_id'.age = 0
      <4>1. t # NoNode /\ node[t].age = 0 /\ node[t].focus /\ text_edit = InputOf(text_edit_id.id, t)
        BY <1>13, <2>2, <3>1
      <4>2. t \in Built
        BY <1>2, <1>7, <4>1 DEF Built
      <4>3. LookIn(map', text_edit_id'.id) = t /\ node'[t].focus
        BY <1>6, <1>8, <4>1, <4>2 DEF t
      <4>4. text_edit' = InputOf(text_edit_id'.id, t)
        BY <1>4, <1>7, <1>8, <2>2, <4>1 DEF InputOf
      <4> QED BY <1>8, <4>1, <4>3, <4>4
    <3> QED BY <1>3, <3>1, ViewsNext DEF SoundIn
  <2> QED BY <2>1, <2>2
<1> QED BY <1>5, <1>10, <1>11, <1>12, <1>14, <1>17, <1>18, <1>19 DEF IInv

-----------------------------------------------------------------------------
(* The invariant.                                                           *)

LEMMA InitIInv == Init => IInv
<1> SUFFICES ASSUME Init PROVE IInv
  OBVIOUS
<1>1. /\ LastSlot \in Nat /\ LastSlot >= 1 /\ 0 \in Indices
      /\ Slots \subseteq Indices \ {0, 1}
  BY Bounds DEF Init
<1>2. \A i \in Slots : node[i] = Blank
  BY DEF Init
<1>3. Unlinked \in LinksIn(Indices) /\ Blank \in Nodes
  BY <1>1 DEF Unlinked, LinksIn, Blank, Nodes
<1>4. TypeOK
  <2>1. links \in [Indices -> LinksIn(Indices)] /\ node \in [Slots -> Nodes]
    BY <1>3 DEF Init, Indices
  <2>2. NoName \in Names /\ stack_parent \in Seq(Indices) /\ queue \in Seq(Commands)
    BY <1>1 DEF Init, NoName, Names, HI_ROOT_STUB_INDEX
  <2>3. list \in [index : Indices, age : 0..2] /\ root \in Indices
    BY <1>1 DEF Init, HI_NULL_INDEX, HI_ROOT_STUB_INDEX
  <2>4. free \in SUBSET Slots /\ map \in SUBSET (Ids \X Slots) /\ text_edit \in Inputs
    BY DEF Init, Inputs
  <2> QED BY <2>1, <2>2, <2>3, <2>4 DEF Init, TypeOK, Indices
<1>5. Built = {} /\ InUse = {} /\ New = {} /\ Old = {}
  BY <1>2 DEF Init, Built, InUse, New, Old, Blank
<1>6. TreesOK
  <2>1. \A r \in {0, 1} : Forest(links, {}, r)
    <3> SUFFICES ASSUME NEW r \in {0, 1} PROVE Forest(links, {}, r)
      OBVIOUS
    <3>1. links[r] = Unlinked
      BY <1>1 DEF Init, Indices
    <3>2. links[r].first = 0 /\ links[r].last = 0
      BY <3>1 DEF Unlinked
    <3>3. WellLinked(links, {}, r)
      BY <3>2 DEF WellLinked, HI_NULL_INDEX
    <3> QED BY <3>3 DEF Forest, Rooted
  <2> QED BY <1>5, <2>1 DEF Init, TreesOK, HI_ORPHAN_STUB_INDEX, HI_ROOT_STUB_INDEX
<1>7. OrderOK /\ StackOK
  BY <1>5 DEF Init, OrderOK, StackOK
<1>8. CacheOK
  <2>1. map = {<<node[i].id, i>> : i \in {j \in InUse : node[j].id # NoId}}
    BY <1>5 DEF Init
  <2> QED BY <1>2, <1>5, <2>1 DEF Init, CacheOK
<1>9. KeptOK
  BY <1>2 DEF Init, KeptOK, Blank, NoName
<1>10. ModeOK
  BY DEF Init, ModeOK, NoName
<1>11. EnablesOK /\ FocusOK /\ EditOK
  BY <1>2, Views DEF Init, EnablesIn, FocusIn, SoundIn, Blank
<1> QED BY <1>4, <1>6, <1>7, <1>8, <1>9, <1>10, <1>11 DEF IInv

LEMMA StutterIInv == ASSUME IInv, UNCHANGED vars PROVE IInv'
<1>1. /\ links' = links /\ node' = node /\ free' = free /\ map' = map /\ root' = root
      /\ stack_parent' = stack_parent /\ node_hovered' = node_hovered /\ list' = list /\ queue' = queue
      /\ text_edit_id' = text_edit_id /\ text_edit' = text_edit /\ text_edit_mode' = text_edit_mode
      /\ phase' = phase /\ click' = click /\ escape' = escape /\ budget' = budget
  BY DEF vars
<1>2. TreesOK' /\ OrderOK' /\ StackOK' /\ CacheOK' /\ KeptOK'
  BY <1>1, SameOutside DEF treeVars
<1>3. EnablesOK' /\ FocusOK' /\ EditOK'
  BY <1>1, Views, ViewsNext DEF IInv
<1>4. TypeOK' /\ ModeOK'
  BY <1>1 DEF IInv, TypeOK, ModeOK
<1> QED BY <1>2, <1>3, <1>4 DEF IInv

LEMMA NextIInv == ASSUME IInv, [Next]_vars PROVE IInv'
<1>1. ASSUME NEW clicked \in BOOLEAN, NEW escaped \in BOOLEAN,
             NEW texts \in {<<>>, <<TextOp>>}, ProcessEvents(clicked, escaped, texts)
      PROVE  IInv'
  BY <1>1, ProcessEventsKeeps
<1>2. ASSUME NEW id \in Editable, NEW enter \in BOOLEAN, BuildField(id, enter) PROVE IInv'
  BY <1>2, BuildFieldKeeps
<1>3. ASSUME NEW h \in {i \in Built : budget.input /\ node[i].id \in Editable} \cup {NoNode}, FrameEnd(h)
      PROVE  IInv'
  BY <1>3, FrameEndKeeps
<1> QED BY <1>1, <1>2, <1>3, ExecuteEnableKeeps, ExecuteDisableKeeps, ExecuteEditKeeps, FrameBeginKeeps,
           BuildListKeeps, BuildAnonymousKeeps, PopKeeps, StutterIInv DEF Next

\* The invariant holds of every behaviour of the library's nodes.
THEOREM InvariantHolds == Spec => []IInv
<1>1. Init => IInv
  BY InitIInv
<1>2. IInv /\ [Next]_vars => IInv'
  BY NextIInv
<1> QED BY <1>1, <1>2, PTL DEF Spec

-----------------------------------------------------------------------------
(* Nothing is stale.                                                        *)

LEMMA IInvNothingStale == IInv => NothingStale
<1> SUFFICES ASSUME IInv PROVE NothingStale
  OBVIOUS
<1>1. TypeOK /\ CacheOK /\ KeptOK /\ ModeOK /\ EditOK
  BY DEF IInv
<1>2. /\ Finds(map, node, InUse) /\ (\A x : Lookup(x) = LookIn(map, x)) /\ InUse \subseteq Slots
  BY <1>1, Lookups DEF InUse
<1>3. \A i \in InUse : node[i].age <= (IF phase = "build" THEN 1 ELSE 0)
  BY <1>1 DEF CacheOK
<1>4. StringsLive
  <2>1. \A m \in map : m[2] \in InUse /\ node[m[2]].id = m[1]
    BY <1>1 DEF CacheOK
  <2>2. \A m \in map : node[m[2]].id = m[1] /\ node[m[2]].age < 2
    BY <1>1, <1>2, <1>3, <2>1 DEF TypeOK, Nodes
  <2>3. node_hovered.id = NoId \/ node_hovered.age < 2
    BY <1>1 DEF KeptOK, TypeOK, Names
  <2>4. text_edit_id.id = NoId \/ text_edit_id.age < 2
    BY <1>1 DEF ModeOK, TypeOK, Names
  <2> QED BY <2>2, <2>3, <2>4 DEF StringsLive
<1>5. ListLive
  BY <1>1 DEF KeptOK, ListLive
<1>6. SlotsAccounted
  <2>1. \A i \in InUse : node[i].id # NoId => <<node[i].id, i>> \in map
    BY <1>1 DEF CacheOK
  <2>2. ASSUME phase = "build"
        PROVE  FoundOnce(links, 1) /\ Pruned \cap (free \cup Built) = {}
    <3>1. /\ Pruned = InUse \ Built /\ Forest(links, InUse \ Built, 1)
      BY <2>2, PrunedNodes
    <3>2. /\ IsFiniteSet(Indices) /\ 0 \in Indices /\ 1 \in Indices \ {0}
          /\ Slots \subseteq Indices \ {0, 1} /\ links \in [Indices -> LinksIn(Indices)]
      BY <1>1, Bounds DEF TypeOK, Indices
    <3>3. InUse \ Built \in SUBSET (Indices \ {0, 1})
      BY <1>2, <3>2
    <3>4. FoundOnce(links, 1)
      BY <3>1, <3>2, <3>3, ForestFoundOnce
    <3>5. Pruned \cap (free \cup Built) = {}
      BY <3>1 DEF InUse
    <3> QED BY <3>4, <3>5
  <2> QED BY <1>3, <2>1, <2>2 DEF SlotsAccounted, HI_ORPHAN_STUB_INDEX
<1>7. EditsLand
  <2> SUFFICES ASSUME phase = "commands", queue # <<>>, Head(queue).op = "text_op"
               PROVE  text_edit = IF text_edit_mode THEN EditedInput ELSE StubInput
    BY DEF EditsLand
  <2>1. 1 \in DOMAIN queue /\ queue[1].op = "text_op" /\ \A j \in DOMAIN queue : ~ (j < 1)
    BY <1>1 DEF TypeOK
  <2>2. Sound
    BY <1>1, <2>1 DEF EditOK
  <2> QED BY <1>1, <2>2 DEF Sound, ModeOK
<1>8. phase # "stopped"
  BY <1>1 DEF ModeOK
<1> QED BY <1>4, <1>5, <1>6, <1>7, <1>8 DEF NothingStale

\* No identifier, slot, list index or input that the library keeps over frames is
\* stale when it is used, and no command meets a node that is gone.
THEOREM NothingStaleTheorem == Spec => []NothingStale
BY InvariantHolds, IInvNothingStale, PTL

LEMMA IInvFocusFollows == IInv => FocusFollows
<1> SUFFICES ASSUME IInv, phase = "commands", queue = <<>>
             PROVE  {i \in InUse : node[i].focus} = IF text_edit_mode THEN {Lookup(text_edit_id.id)} ELSE {}
  BY DEF FocusFollows
<1>1. TypeOK /\ CacheOK /\ FocusOK /\ EditOK
  BY DEF IInv
<1>2. Sound
  BY <1>1 DEF EditOK
<1>3. InUse \subseteq Slots
  BY DEF InUse
<1>4. \A i \in Slots : node[i].focus => text_edit_mode /\ i = Edited
  BY <1>1 DEF FocusOK
<1>5. text_edit_mode => Edited \in InUse /\ node[Edited].focus
  <2>1. Finds(map, node, InUse) /\ Lookup(text_edit_id.id) = LookIn(map, text_edit_id.id)
    BY <1>1, Lookups
  <2> QED BY <1>2, <2>1 DEF Sound, Edited, Finds
<1> QED BY <1>3, <1>4, <1>5 DEF Edited

\* Before a frame is built the node with the focus is the one that is edited.
THEOREM FocusFollowsTheorem == Spec => []FocusFollows
BY InvariantHolds, IInvFocusFollows, PTL

-----------------------------------------------------------------------------
(* The tree is what the frame builds (FrameTree).                           *)

\* What the refinement makes of the state.
Tree(h, built) == [i \in built |-> Children(h, i)]
NamesOf(nd, built) == [i \in built |-> nd[i].id]
LastOf(m, nd) == [id \in {x[1] : x \in {p \in m : nd[p[2]].age = 1}} |-> LookIn(m, id)]

MapOf(nd, u) == {<<nd[i].id, i>> : i \in {j \in u : nd[j].id # NoId}}

\* The identifiers of the last frame's nodes that were not built yet.
LEMMA LastNames ==
    ASSUME NEW nd, NEW u \in SUBSET Slots, NEW m, NoNode \notin Slots,
           m = MapOf(nd, u), Finds(m, nd, u)
    PROVE  \A x : x \in DOMAIN LastOf(m, nd) <=> LookIn(m, x) # NoNode /\ nd[LookIn(m, x)].age = 1
<1>1. \A p : p \in m <=> \E i \in u : nd[i].id # NoId /\ p = <<nd[i].id, i>>
  BY DEF MapOf
<1>2. ASSUME NEW x
      PROVE  x \in DOMAIN LastOf(m, nd) <=> LookIn(m, x) # NoNode /\ nd[LookIn(m, x)].age = 1
  <2>1. x \in DOMAIN LastOf(m, nd) <=> \E p \in m : nd[p[2]].age = 1 /\ x = p[1]
    BY DEF LastOf
  <2>2. x \in DOMAIN LastOf(m, nd) <=> \E i \in u : nd[i].id = x /\ x # NoId /\ nd[i].age = 1
    <3>1. ASSUME NEW i \in u, nd[i].id = x, x # NoId, nd[i].age = 1
          PROVE  \E p \in m : nd[p[2]].age = 1 /\ x = p[1]
      <4>1. <<x, i>> \in m /\ <<x, i>>[1] = x /\ <<x, i>>[2] = i
        BY <1>1, <3>1
      <4> QED BY <3>1, <4>1
    <3>2. ASSUME NEW p \in m, nd[p[2]].age = 1, x = p[1]
          PROVE  \E i \in u : nd[i].id = x /\ x # NoId /\ nd[i].age = 1
      <4>1. PICK i \in u : nd[i].id # NoId /\ p = <<nd[i].id, i>>
        BY <1>1
      <4>2. p[1] = nd[i].id /\ p[2] = i
        BY <4>1
      <4> QED BY <3>2, <4>1, <4>2
    <3> QED BY <2>1, <3>1, <3>2
  <2>3. \A i \in Slots : LookIn(m, x) = i <=> i \in u /\ nd[i].id = x /\ x # NoId
    BY DEF Finds
  <2>4. LookIn(m, x) \in u \cup {NoNode}
    BY DEF Finds
  <2> QED BY <2>2, <2>3, <2>4
<1> QED BY <1>2

LEMMA Mapped ==
    /\ Promise!vars = <<phase = "build", Tree(links, Built), NamesOf(node, Built), LastOf(map, node)>>
    /\ Promise!vars' = <<phase' = "build", Tree(links', Built'), NamesOf(node', Built'), LastOf(map', node')>>
BY DEF Promise!vars, Tree, NamesOf, LastOf, Lookup, LookIn

\* The step of a program that builds a node.
LEMMA BuildPromised ==
    ASSUME IInv, phase = "build", phase' = "build", root' = root,
           NEW id \in Ids \cup {NoId}, id # NoId => \A j \in Built : node[j].id # id,
           NEW focus \in BOOLEAN, NodeAlloc(id, Parent, node, focus)
    PROVE  Promise!Next
<1> PICK i, p : i = SlotFor(id) /\ p = Parent
  OBVIOUS
<1>1. TypeOK /\ CacheOK
  BY DEF IInv
<1>2. /\ i \in Slots \ Built /\ p \in Built /\ Built \subseteq InUse
      /\ Built' = Built \cup {i}
      /\ Lookup(id) # NoNode => i = Lookup(id)
      /\ Named(id, i, node, focus)
      /\ Branched(i, p)
      /\ CacheOK'
  BY BuildTrees
<1>3. /\ Finds(map, node, InUse) /\ Lookup(id) = LookIn(map, id) /\ InUse \subseteq Slots /\ InUse' \subseteq Slots
      /\ NoNode \notin Slots
  BY <1>1, Lookups, Bounds DEF InUse, TypeOK, NoNode
<1>4. /\ Lookup(id) # NoNode => i \in InUse /\ node[i].id = id /\ id # NoId
      /\ Lookup(id) = NoNode => i \in free
  BY <1>1, <1>2, SlotTaken DEF NodeAlloc
<1>5. /\ InUse' = InUse \cup {i}
      /\ \A j \in Slots \ {i} : node'[j] = node[j]
      /\ node'[i].id = id /\ node'[i].age = 0
      /\ Finds(map', node', InUse')
      /\ id # NoId => LookIn(map', id) = i
      /\ \A x : x # id \/ id = NoId => LookIn(map', x) = LookIn(map, x)
  BY <1>2 DEF Named
<1>6. \A x : x \in DOMAIN LastOf(map, node) <=> LookIn(map, x) # NoNode /\ node[LookIn(map, x)].age = 1
  <2>1. map = MapOf(node, InUse)
    BY <1>1 DEF CacheOK, MapOf
  <2> QED BY <1>3, <2>1, LastNames
<1>7. \A x : x \in DOMAIN LastOf(map', node') <=> LookIn(map', x) # NoNode /\ node'[LookIn(map', x)].age = 1
  <2>1. map' = MapOf(node', InUse')
    BY <1>2 DEF CacheOK, MapOf
  <2> QED BY <1>3, <1>5, <2>1, LastNames
<1> DEFINE T == Tree(links, Built)
           T2 == Tree(links', Built')
           N == NamesOf(node, Built)
           N2 == NamesOf(node', Built')
           L == LastOf(map, node)
           L2 == LastOf(map', node')
<1>8. N2 = [m \in Built \cup {i} |-> IF m = i THEN id ELSE N[m]]
  BY <1>2, <1>3, <1>5 DEF NamesOf
<1>9. id \notin {N[m] : m \in {n \in Built : N[n] # NoId}}
  BY DEF NamesOf
<1>10. IF id \in DOMAIN L THEN i = L[id]
       ELSE i \in Slots \ (Built \cup {L[x] : x \in DOMAIN L})
  <2>1. \A x \in DOMAIN L : L[x] = LookIn(map, x)
    BY DEF LastOf
  <2>2. id \in DOMAIN L => i = L[id]
    BY <1>2, <1>3, <1>6, <2>1
  <2>3. ASSUME NEW x \in DOMAIN L, L[x] = i PROVE id \in DOMAIN L
    <3>1. LookIn(map, x) = i /\ node[i].age = 1 /\ i \in InUse /\ node[i].id = x
      BY <1>2, <1>3, <1>6, <2>1, <2>3 DEF Finds
    <3>2. i \notin free
      BY <3>1 DEF InUse
    <3> QED BY <1>4, <2>3, <3>1, <3>2
  <2> QED BY <1>2, <2>2, <2>3
<1>11. T2 = [m \in Built \cup {i} |-> IF m = i THEN <<>> ELSE [T EXCEPT ![p] = Append(@, i)][m]]
  <2>1. \A m \in Built \cup {i} : Children(links', m) = IF m = i THEN <<>>
                                                        ELSE IF m = p THEN Append(Children(links, m), i)
                                                        ELSE Children(links, m)
    BY <1>2 DEF Branched
  <2>2. \A m \in Built : [T EXCEPT ![p] = Append(@, i)][m] = IF m = p THEN Append(Children(links, m), i)
                                                             ELSE Children(links, m)
    BY <1>2 DEF Tree
  <2>3. T2 = [m \in Built \cup {i} |-> Children(links', m)]
    BY <1>2 DEF Tree
  <2> HIDE DEF T, T2
  <2> QED BY <2>1, <2>2, <2>3
<1>12. L2 = [x \in DOMAIN L \ {id} |-> L[x]]
  <2>1. ASSUME NEW x PROVE x \in DOMAIN L2 <=> x \in DOMAIN L \ {id}
    <3>1. CASE x = id /\ id # NoId
      BY <1>5, <1>7, <3>1
    <3>2. CASE x = id /\ id = NoId
      BY <1>3, <1>5, <1>7, <3>2 DEF Finds
    <3>3. CASE x # id
      <4>1. LookIn(map', x) = LookIn(map, x)
        BY <1>5, <3>3
      <4>2. LookIn(map, x) \in InUse => LookIn(map, x) # i
        BY <1>3, <1>4, <3>3 DEF Finds, InUse
      <4> QED BY <1>3, <1>5, <1>6, <1>7, <3>3, <4>1, <4>2 DEF Finds
    <3> QED BY <3>1, <3>2, <3>3
  <2>2. \A x \in DOMAIN L2 : L2[x] = LookIn(map', x)
    BY DEF LastOf
  <2>3. \A x \in DOMAIN L : L[x] = LookIn(map, x)
    BY DEF LastOf
  <2>4. \A x \in DOMAIN L2 : L2[x] = L[x]
    BY <1>5, <2>1, <2>2, <2>3
  <2>5. L2 = [x \in DOMAIN L2 |-> L2[x]]
    BY DEF LastOf
  <2>6. DOMAIN L2 = DOMAIN L \ {id}
    <3> HIDE DEF L, L2
    <3> QED BY <2>1, Zenon
  <2> HIDE DEF L, L2
  <2> QED BY <2>4, <2>5, <2>6
<1>13. DOMAIN T = Built /\ DOMAIN N = Built
  BY DEF Tree, NamesOf
<1>14. Promise!Build(i, id, p)
  <2>1. Promise!Build(i, id, p) <=>
           /\ phase = "build"
           /\ N2 = [m \in DOMAIN N \cup {i} |-> IF m = i THEN id ELSE N[m]]
           /\ id \notin {N[m] : m \in {n \in DOMAIN N : N[n] # NoId}}
           /\ IF id \in DOMAIN L THEN i = L[id]
              ELSE i \in Slots \ (DOMAIN T \cup {L[x] : x \in DOMAIN L})
           /\ p \in DOMAIN T
           /\ T2 = [m \in DOMAIN [T EXCEPT ![p] = Append(@, i)] \cup {i} |->
                       IF m = i THEN <<>> ELSE [T EXCEPT ![p] = Append(@, i)][m]]
           /\ L2 = [x \in DOMAIN L \ {id} |-> L[x]]
           /\ (phase' = "build") = (phase = "build")
    BY DEF Promise!Build, Promise!Extended, Promise!Named, Promise!Is, Promise!Without,
           Tree, NamesOf, LastOf, Lookup, LookIn
  <2>2. DOMAIN [T EXCEPT ![p] = Append(@, i)] = DOMAIN T
    OBVIOUS
  <2> HIDE DEF T, T2, N, N2, L, L2
  <2> QED BY <1>2, <1>8, <1>9, <1>10, <1>11, <1>12, <1>13, <2>1, <2>2
<1>15. i \in Slots \ DOMAIN [m \in Built |-> Children(links, m)]
       /\ p \in DOMAIN [m \in Built |-> Children(links, m)]
  BY <1>2
<1> HIDE DEF T, T2, N, N2, L, L2
<1> QED BY <1>14, <1>15 DEF Promise!Next

LEMMA FrameBeginLeaf ==
    ASSUME IInv, FrameBegin
    PROVE  Children(links', SlotFor(RootId)) = <<>>
<1> DEFINE i == SlotFor(RootId)
<1>1. TypeOK /\ CacheOK /\ TreesOK /\ phase = "commands" /\ NodeAlloc(RootId, 0, Aged, FALSE)
  BY DEF IInv, FrameBegin, Aged, HI_ROOT_STUB_INDEX
<1>2. Forest(links, InUse \ {}, 1) /\ Forest(links, {}, 0)
  <2>1. New = {} /\ Old = InUse \ {}
    BY <1>1 DEF New, Old
  <2> QED BY <1>1, <2>1 DEF TreesOK, HI_ORPHAN_STUB_INDEX, HI_ROOT_STUB_INDEX
<1>3. Planted({}, i, 0)
  BY <1>1, <1>2, AllocLinks
<1>4. Listed(links', i, <<>>)
  BY <1>3, GrownLeaf DEF Planted
<1>5. IsFiniteSet(Indices) /\ i \in Indices /\ <<>> \in Seq(Indices)
  BY <1>1, FrameBeginNodes, Bounds DEF TypeOK
<1> QED BY <1>3, <1>4, <1>5, ChildrenListed DEF Planted

\* Between frames nothing of the last one is left.
LEMMA NothingLeft ==
    ASSUME TypeOK, CacheOK, phase # "build"
    PROVE  /\ Built = InUse
           /\ LastOf(map, node) = [n \in {} |-> NoId]
<1>1. /\ Finds(map, node, InUse) /\ InUse \subseteq Slots /\ NoNode \notin Slots
  BY Lookups, Bounds DEF InUse, TypeOK, NoNode
<1>2. \A j \in InUse : node[j].age = 0
  BY <1>1 DEF CacheOK, TypeOK, Nodes
<1>3. Built = InUse
  BY <1>2, BuiltInUse DEF Built, InUse
<1>4. \A x : x \in DOMAIN LastOf(map, node) <=> LookIn(map, x) # NoNode /\ node[LookIn(map, x)].age = 1
  <2>1. map = MapOf(node, InUse)
    BY DEF CacheOK, MapOf
  <2> QED BY <1>1, <2>1, LastNames
<1>5. \A x : x \notin DOMAIN LastOf(map, node)
  BY <1>1, <1>2, <1>4 DEF Finds
<1> DEFINE L == LastOf(map, node)
<1>6. L = [x \in DOMAIN L |-> L[x]]
  BY DEF LastOf
<1> HIDE DEF L
<1>7. DOMAIN L = {}
  BY <1>5 DEF L
<1>8. L = [n \in {} |-> NoId]
  BY <1>6, <1>7
<1> QED BY <1>3, <1>8 DEF L

\* The root, by the names of the frame before.
LEMMA FrameBeginPromised == ASSUME IInv, FrameBegin PROVE Promise!Next
<1> PICK i : i = SlotFor(RootId)
  OBVIOUS
<1>1. /\ TypeOK /\ CacheOK /\ TypeOK' /\ CacheOK' /\ OrderOK' /\ TreesOK'
      /\ phase = "commands" /\ phase' = "build"
  BY FrameBeginKeeps DEF IInv, FrameBegin
<1>2. /\ Finds(map, node, InUse) /\ Lookup(RootId) = LookIn(map, RootId) /\ InUse \subseteq Slots
      /\ InUse' \subseteq Slots /\ NoNode \notin Slots /\ RootId # NoId
      /\ Built = InUse /\ \A j \in InUse : node[j].age = 0
  <2>1. RootId # NoId
    BY IdsAssumption DEF Ids
  <2>2. Built = InUse
    BY <1>1, NothingLeft
  <2> QED BY <1>1, <2>1, <2>2, Lookups, Bounds DEF InUse, TypeOK, NoNode, Built
<1>3. /\ \A j \in Slots : Aged[j].id = node[j].id /\ Aged[j].age = Older(node[j].age)
      /\ i \in Slots
      /\ Lookup(RootId) # NoNode => i = Lookup(RootId) /\ i \in InUse /\ node[i].id = RootId
      /\ Lookup(RootId) = NoNode => i \in free
      /\ Named(RootId, i, Aged, FALSE)
  BY FrameBeginNodes
<1>4. /\ InUse' = InUse \cup {i}
      /\ \A j \in Slots \ {i} : node'[j] = Aged[j]
      /\ node'[i].id = RootId /\ node'[i].age = 0
      /\ Finds(map', node', InUse')
      /\ LookIn(map', RootId) = i
      /\ \A x : x # RootId => LookIn(map', x) = LookIn(map, x)
  BY <1>2, <1>3 DEF Named
<1>5. Built' = {i} /\ Children(links', i) = <<>>
  <2>1. \A j \in Slots : node[j].age \in 0..2
    BY <1>1 DEF TypeOK, Nodes
  <2>2. \A j \in Slots \ {i} : node'[j].age # 0
    BY <1>3, <1>4, <2>1 DEF Older
  <2>3. Built' = {i}
    BY <1>3, <1>4, <2>2 DEF Built
  <2> QED BY <2>3, FrameBeginLeaf
<1>6. \A x : x \in DOMAIN LastOf(map', node') <=> LookIn(map', x) # NoNode /\ node'[LookIn(map', x)].age = 1
  <2>1. map' = MapOf(node', InUse')
    BY <1>1 DEF CacheOK, MapOf
  <2> QED BY <1>2, <1>4, <2>1, LastNames
<1> DEFINE N == NamesOf(node, Built)
           I == [id \in {N[n] : n \in {m \in Built : N[m] # NoId}} |->
                    CHOOSE n \in {m \in Built : N[m] # NoId} : N[n] = id]
           T2 == Tree(links', Built')
           N2 == NamesOf(node', Built')
           L2 == LastOf(map', node')
<1>7. DOMAIN N = Built /\ \A n \in Built : N[n] = node[n].id
  BY DEF NamesOf
<1>8. /\ \A x : x \in DOMAIN I <=> LookIn(map, x) # NoNode
      /\ \A x \in DOMAIN I : I[x] = LookIn(map, x)
  <2>1. DOMAIN I = {N[n] : n \in {m \in Built : N[m] # NoId}}
    OBVIOUS
  <2>2. ASSUME NEW x PROVE x \in DOMAIN I <=> LookIn(map, x) # NoNode
    <3> HIDE DEF I, N
    <3> QED BY <1>2, <1>7, <2>1 DEF Finds
  <2>3. ASSUME NEW x \in DOMAIN I PROVE I[x] = LookIn(map, x)
    <3>1. I[x] = CHOOSE n \in {m \in Built : N[m] # NoId} : N[n] = x
      OBVIOUS
    <3> HIDE DEF I, N
    <3>2. \E n \in {m \in Built : N[m] # NoId} : N[n] = x
      BY <2>1
    <3>3. I[x] \in Built /\ N[I[x]] # NoId /\ N[I[x]] = x
      BY <3>1, <3>2
    <3> QED BY <1>2, <1>7, <3>3 DEF Finds
  <2> QED BY <2>2, <2>3
<1>9. IF RootId \in DOMAIN I THEN i = I[RootId]
      ELSE i \in Slots \ ({} \cup {I[x] : x \in DOMAIN I})
  <2> HIDE DEF I
  <2>1. \A x \in DOMAIN I : I[x] \in InUse
    BY <1>2, <1>8 DEF Finds
  <2> QED BY <1>2, <1>3, <1>8, <2>1 DEF InUse
<1>10. T2 = [m \in {i} |-> <<>>] /\ N2 = [m \in {i} |-> RootId]
  <2>1. T2 = [m \in {i} |-> Children(links', m)] /\ N2 = [m \in {i} |-> node'[m].id]
    BY <1>5 DEF Tree, NamesOf
  <2> HIDE DEF T2, N2
  <2> QED BY <1>4, <1>5, <2>1
<1>11. L2 = [x \in DOMAIN I \ {RootId} |-> I[x]]
  <2> HIDE DEF I
  <2>1. ASSUME NEW x PROVE x \in DOMAIN L2 <=> x \in DOMAIN I \ {RootId}
    <3>1. CASE x = RootId
      BY <1>4, <1>6, <3>1
    <3>2. CASE x # RootId
      <4>1. LookIn(map', x) = LookIn(map, x)
        BY <1>4, <3>2
      <4>2. LookIn(map, x) # NoNode => LookIn(map, x) \in InUse \ {i}
        BY <1>2, <1>3, <3>2 DEF Finds, InUse
      <4>3. \A j \in InUse \ {i} : node'[j].age = 1
        BY <1>2, <1>3, <1>4 DEF Older
      <4> QED BY <1>6, <1>8, <3>2, <4>1, <4>2, <4>3
    <3> QED BY <3>1, <3>2
  <2>2. \A x \in DOMAIN L2 : L2[x] = LookIn(map', x)
    BY DEF LastOf
  <2>3. \A x \in DOMAIN L2 : L2[x] = I[x]
    BY <1>4, <1>8, <2>1, <2>2
  <2>4. L2 = [x \in DOMAIN L2 |-> L2[x]]
    BY DEF LastOf
  <2> HIDE DEF L2
  <2>5. DOMAIN L2 = DOMAIN I \ {RootId}
    BY <2>1, Zenon
  <2> QED BY <2>3, <2>4, <2>5
<1>12. Promise!Begin(i)
  <2>1. Promise!Begin(i) <=>
           /\ ~ (phase = "build")
           /\ IF RootId \in DOMAIN I THEN i = I[RootId]
              ELSE i \in Slots \ ({} \cup {I[x] : x \in DOMAIN I})
           /\ (phase' = "build") = TRUE
           /\ T2 = [m \in {i} |-> <<>>]
           /\ N2 = [m \in {i} |-> RootId]
           /\ L2 = [x \in DOMAIN I \ {RootId} |-> I[x]]
    BY DEF Promise!Begin, Promise!Inverse, Promise!Named, Promise!Is, Promise!Without,
           Tree, NamesOf, LastOf, Lookup, LookIn
  <2> HIDE DEF T2, N, N2, L2, I
  <2> QED BY <1>1, <1>9, <1>10, <1>11, <2>1
<1> HIDE DEF T2, N, N2, L2, I
<1> QED BY <1>3, <1>12 DEF Promise!Next

\* Executing a command changes no more of a node than its focus.
LEMMA ExecuteEnableNodes ==
    ASSUME IInv, ExecuteEnable
    PROVE  /\ links' = links /\ map' = map /\ phase = "commands" /\ phase' # "build"
           /\ \A i \in Slots : node'[i].id = node[i].id /\ node'[i].age = node[i].age
<1>1. TypeOK /\ CacheOK
  BY DEF IInv
<1>2. Lookup(text_edit_id.id) \in InUse \cup {NoNode}
  BY <1>1, Lookups DEF Finds
<1>3. \A i \in Slots : /\ Unfocused(node, Lookup(text_edit_id.id))[i].id = node[i].id
                       /\ Unfocused(node, Lookup(text_edit_id.id))[i].age = node[i].age
  BY <1>1, <1>2, UnfocusedNodes
<1>4. node' = node \/ node' = Unfocused(node, Lookup(text_edit_id.id))
  BY DEF ExecuteEnable
<1>5. links' = links /\ map' = map /\ phase = "commands" /\ (phase' = "stopped" \/ phase' = phase)
  BY DEF ExecuteEnable, NextCommand
<1> QED BY <1>3, <1>4, <1>5

LEMMA ExecuteDisableNodes ==
    ASSUME IInv, ExecuteDisable
    PROVE  /\ links' = links /\ map' = map /\ phase' = phase
           /\ \A i \in Slots : node'[i].id = node[i].id /\ node'[i].age = node[i].age
<1>1. TypeOK /\ CacheOK
  BY DEF IInv
<1>2. Lookup(text_edit_id.id) \in InUse \cup {NoNode}
  BY <1>1, Lookups DEF Finds
<1>3. \A i \in Slots : /\ Unfocused(node, Lookup(text_edit_id.id))[i].id = node[i].id
                       /\ Unfocused(node, Lookup(text_edit_id.id))[i].age = node[i].age
  BY <1>1, <1>2, UnfocusedNodes
<1>4. node' = node \/ node' = Unfocused(node, Lookup(text_edit_id.id))
  BY DEF ExecuteDisable
<1> QED BY <1>3, <1>4 DEF ExecuteDisable

\* The end of a frame leaves the tree as it is.
LEMMA FrameEndPromised ==
    ASSUME IInv, NEW h \in {i \in Built : budget.input /\ node[i].id \in Editable} \cup {NoNode}, FrameEnd(h)
    PROVE  Promise!Next
<1>1. /\ TypeOK' /\ CacheOK'
      /\ phase = "build" /\ phase' = "events" /\ root' = root /\ Prune(Hovered(h))
  BY FrameEndKeeps DEF IInv, FrameEnd
<1>2. Surviving(h) /\ Built' = Built /\ SameChildren
  BY <1>1, PruneNodes
<1>3. LastOf(map', node') = [n \in {} |-> NoId]
  <2>1. TypeOK' /\ CacheOK' /\ phase' # "build"
    BY <1>1
  <2>2. /\ Finds(map', node', Built) /\ Built \subseteq Slots /\ NoNode \notin Slots /\ InUse' = Built
        /\ \A j \in Built : node'[j].age = 0
    <3>1. InUse' = Built
      BY <1>1, PruneNodes
    <3>2. NoNode \notin Slots
      BY Bounds DEF IInv, TypeOK, NoNode
    <3> QED BY <1>2, <3>1, <3>2 DEF Surviving, Built
  <2>3. \A x : x \in DOMAIN LastOf(map', node') <=> LookIn(map', x) # NoNode /\ node'[LookIn(map', x)].age = 1
    <3>1. map' = MapOf(node', Built)
      BY <1>1, <2>2 DEF CacheOK, MapOf
    <3> QED BY <2>2, <3>1, LastNames
  <2>4. \A x : x \notin DOMAIN LastOf(map', node')
    BY <2>2, <2>3 DEF Finds
  <2> DEFINE L == LastOf(map', node')
  <2>5. L = [x \in DOMAIN L |-> L[x]]
    BY DEF LastOf
  <2> HIDE DEF L
  <2>6. DOMAIN L = {}
    BY <2>4 DEF L
  <2>7. L = [n \in {} |-> NoId]
    BY <2>5, <2>6
  <2> QED BY <2>7 DEF L
<1>4. Tree(links', Built') = Tree(links, Built)
  BY <1>2 DEF Tree, SameChildren
<1>5. NamesOf(node', Built') = NamesOf(node, Built)
  BY <1>2 DEF NamesOf, Surviving
<1>6. Promise!End
  <2>1. Promise!End <=>
           /\ phase = "build"
           /\ (phase' = "build") = FALSE
           /\ LastOf(map', node') = [n \in {} |-> NoId]
           /\ Tree(links', Built') = Tree(links, Built) /\ NamesOf(node', Built') = NamesOf(node, Built)
    BY DEF Promise!End, Promise!None, Tree, NamesOf, LastOf, Lookup, LookIn
  <2> QED BY <1>1, <1>3, <1>4, <1>5, <2>1
<1> QED BY <1>6 DEF Promise!Next

\* Whatever leaves the links, the map and the identifiers alone.
LEMMA SamePromised ==
    ASSUME TypeOK, CacheOK, links' = links, map' = map,
           \A i \in Slots : node'[i].id = node[i].id /\ node'[i].age = node[i].age,
           (phase' = "build") <=> (phase = "build")
    PROVE  UNCHANGED Promise!vars
<1>1. Built' = Built /\ Built \subseteq Slots
  BY DEF Built
<1>2. Tree(links', Built') = Tree(links, Built)
  BY <1>1
<1>3. NamesOf(node', Built') = NamesOf(node, Built)
  BY <1>1 DEF NamesOf
<1>4. LastOf(map', node') = LastOf(map, node)
  <2>1. \A p \in map : p[2] \in Slots
    BY DEF TypeOK
  <2>2. {p \in map : node'[p[2]].age = 1} = {p \in map : node[p[2]].age = 1}
    BY <2>1
  <2> QED BY <2>2 DEF LastOf
<1>5. (phase' = "build") = (phase = "build")
  OBVIOUS
<1> QED BY <1>2, <1>3, <1>4, <1>5, Mapped

LEMMA StepPromised == ASSUME IInv, [Next]_vars PROVE [Promise!Next]_Promise!vars
<1>1. TypeOK /\ CacheOK
  BY DEF IInv
<1>2. ASSUME NEW clicked \in BOOLEAN, NEW escaped \in BOOLEAN,
             NEW texts \in {<<>>, <<TextOp>>}, ProcessEvents(clicked, escaped, texts)
      PROVE  UNCHANGED Promise!vars
  BY <1>1, <1>2, SamePromised DEF ProcessEvents, treeVars
<1>3. ASSUME ExecuteEnable PROVE UNCHANGED Promise!vars
  <2>1. /\ links' = links /\ map' = map /\ phase = "commands" /\ phase' # "build"
        /\ \A i \in Slots : node'[i].id = node[i].id /\ node'[i].age = node[i].age
    BY <1>3, ExecuteEnableNodes
  <2> QED BY <1>1, <2>1, SamePromised
<1>4. ASSUME ExecuteDisable PROVE UNCHANGED Promise!vars
  <2>1. /\ links' = links /\ map' = map /\ phase' = phase
        /\ \A i \in Slots : node'[i].id = node[i].id /\ node'[i].age = node[i].age
    BY <1>4, ExecuteDisableNodes
  <2> QED BY <1>1, <2>1, SamePromised
<1>5. ASSUME ExecuteEdit PROVE UNCHANGED Promise!vars
  BY <1>1, <1>5, SamePromised DEF ExecuteEdit, treeVars
<1>6. ASSUME Pop PROVE UNCHANGED Promise!vars
  BY <1>1, <1>6, SamePromised DEF Pop, treeVars
<1>7. ASSUME UNCHANGED vars PROVE UNCHANGED Promise!vars
  BY <1>1, <1>7, SamePromised DEF vars
<1>8. ASSUME NEW id \in Editable, NEW enter \in BOOLEAN, BuildField(id, enter) PROVE Promise!Next
  <2> DEFINE now == Lookup(id) # NoNode /\ Focus(SlotFor(id))
  <2>1. /\ phase = "build" /\ phase' = "build" /\ root' = root
        /\ id # NoId => \A j \in Built : node[j].id # id
        /\ NodeAlloc(id, Parent, node, now)
    BY <1>8 DEF BuildField, MayBuild
  <2>2. now \in BOOLEAN /\ id \in Ids \cup {NoId}
    BY DEF Ids
  <2> HIDE DEF now
  <2> QED BY <2>1, <2>2, BuildPromised
<1>9. ASSUME BuildList PROVE Promise!Next
  <2>1. /\ phase = "build" /\ phase' = "build" /\ root' = root
        /\ ListId # NoId => \A j \in Built : node[j].id # ListId
        /\ NodeAlloc(ListId, Parent, node, FALSE)
    BY <1>9 DEF BuildList, MayBuild
  <2>2. ListId \in Ids \cup {NoId}
    BY DEF Ids
  <2> QED BY <2>1, <2>2, BuildPromised
<1>10. ASSUME BuildAnonymous PROVE Promise!Next
  <2>1. /\ phase = "build" /\ phase' = "build" /\ root' = root
        /\ NodeAlloc(NoId, Parent, node, FALSE)
    BY <1>10 DEF BuildAnonymous, MayBuild
  <2>2. NoId \in Ids \cup {NoId} /\ (NoId # NoId => \A j \in Built : node[j].id # NoId)
    OBVIOUS
  <2> QED BY <2>1, <2>2, BuildPromised
<1>11. ASSUME NEW h \in {i \in Built : budget.input /\ node[i].id \in Editable} \cup {NoNode}, FrameEnd(h)
       PROVE  Promise!Next
  BY <1>11, FrameEndPromised
<1>12. ASSUME FrameBegin PROVE Promise!Next
  BY <1>12, FrameBeginPromised
<1>13. CASE Next
  BY <1>2, <1>3, <1>4, <1>5, <1>6, <1>8, <1>9, <1>10, <1>11, <1>12, <1>13 DEF Next
<1> QED BY <1>7, <1>13

LEMMA InitPromised == Init => Promise!Init
<1> SUFFICES ASSUME Init PROVE Promise!Init
  OBVIOUS
<1>1. IInv /\ InUse = {} /\ phase # "build"
  BY InitIInv DEF Init, InUse
<1>2. Built = {} /\ LastOf(map, node) = [n \in {} |-> NoId]
  BY <1>1, NothingLeft DEF IInv
<1>3. Tree(links, Built) = [n \in {} |-> NoId] /\ NamesOf(node, Built) = [n \in {} |-> NoId]
  BY <1>2 DEF Tree, NamesOf
<1>4. Promise!Init <=>
         /\ (phase = "build") = FALSE
         /\ Tree(links, Built) = [n \in {} |-> NoId]
         /\ NamesOf(node, Built) = [n \in {} |-> NoId]
         /\ LastOf(map, node) = [n \in {} |-> NoId]
  BY DEF Promise!Init, Promise!None, Tree, NamesOf, LastOf, Lookup, LookIn
<1> QED BY <1>1, <1>2, <1>3, <1>4

\* The tree of a frame is what the frame built, in that order, and a node is the
\* one its identifier had in the last frame.
THEOREM BuildsTreeTheorem == Spec => BuildsTree
<1>1. Init => Promise!Init
  BY InitPromised
<1>2. IInv /\ [Next]_vars => [Promise!Next]_Promise!vars
  BY StepPromised
<1> QED BY <1>1, <1>2, InvariantHolds, PTL DEF Spec, BuildsTree, Promise!Spec
==============================================================================
