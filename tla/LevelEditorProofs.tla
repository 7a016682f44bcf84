------------------------- MODULE LevelEditorProofs --------------------------
(***************************************************************************)
(* The level editor's counts, handles and proxies, for any names, any      *)
(* slots in the pools and any number of starts of the engine.              *)
(***************************************************************************)
EXTENDS LevelEditor, FiniteSetTheorems, TLAPS

-----------------------------------------------------------------------------
(* Counting.                                                                *)

\* Two sets that agree on all but x have sizes that differ by x.
LEMMA CountChanges ==
    ASSUME NEW A, NEW B, NEW x, IsFiniteSet(A), A \ {x} = B \ {x}
    PROVE  /\ IsFiniteSet(B)
           /\ Cardinality(A) \in Nat /\ Cardinality(B) \in Nat
           /\ Cardinality(B) + (IF x \in A THEN 1 ELSE 0) = Cardinality(A) + (IF x \in B THEN 1 ELSE 0)
<1>1. IsFiniteSet(A \ {x})
      /\ Cardinality(A \ {x}) = IF x \in A THEN Cardinality(A) - 1 ELSE Cardinality(A)
  BY FS_RemoveElement
<1>2. B = IF x \in B THEN (A \ {x}) \cup {x} ELSE A \ {x}
  OBVIOUS
<1>3. IsFiniteSet((A \ {x}) \cup {x}) /\ Cardinality((A \ {x}) \cup {x}) = Cardinality(A \ {x}) + 1
  BY <1>1, FS_AddElement, x \notin A \ {x}
<1>4. IsFiniteSet(B)
  BY <1>1, <1>2, <1>3
<1>5. Cardinality(A) \in Nat /\ Cardinality(B) \in Nat /\ Cardinality(A \ {x}) \in Nat
  BY <1>1, <1>4, FS_CardinalityType
<1>6. Cardinality(B) = IF x \in B THEN Cardinality(A \ {x}) + 1 ELSE Cardinality(A \ {x})
  BY <1>2, <1>3
<1> QED BY <1>1, <1>4, <1>5, <1>6

LEMMA CountEmpty ==
    ASSUME NEW A, IsFiniteSet(A)
    PROVE  Cardinality(A) \in Nat /\ (Cardinality(A) = 0 <=> A = {})
BY FS_CardinalityType, FS_EmptySet

\* What is left of A when the elements of M go.
LEMMA CountTaken ==
    ASSUME NEW A, NEW M, IsFiniteSet(A)
    PROVE  /\ IsFiniteSet(A \ M) /\ IsFiniteSet(A \cap M)
           /\ Cardinality(A \ M) = Cardinality(A) - Cardinality(A \cap M)
           /\ Cardinality(A \ M) \in Nat /\ Cardinality(A \cap M) \in Nat
<1>1. IsFiniteSet(A \ M) /\ IsFiniteSet(A \cap M)
  BY FS_Subset
<1>2. (A \ M) \cup (A \cap M) = A /\ (A \ M) \cap (A \cap M) = {}
  OBVIOUS
<1>3. Cardinality(A) = Cardinality(A \ M) + Cardinality(A \cap M) - Cardinality({})
  BY <1>1, <1>2, FS_Union
<1>4. Cardinality(A \ M) \in Nat /\ Cardinality(A \cap M) \in Nat /\ Cardinality({}) = 0
  BY <1>1, FS_CardinalityType, FS_EmptySet
<1> QED BY <1>1, <1>3, <1>4

-----------------------------------------------------------------------------
(* The databases.                                                           *)

LEMMA LookupFinds ==
    ASSUME NEW db, NEW i
    PROVE  /\ Lookup(db, i) # Stub => Lookup(db, i) \in Entries(db) /\ db[Lookup(db, i)].id = i
           /\ Lookup(db, i) = Stub => \A s \in Entries(db) : db[s].id # i
<1>1. CASE \E s \in Entries(db) : db[s].id = i
  <2>1. Lookup(db, i) \in Entries(db) /\ db[Lookup(db, i)].id = i
    BY <1>1 DEF Lookup
  <2> QED BY <2>1 DEF Entries
<1>2. CASE ~\E s \in Entries(db) : db[s].id = i
  BY <1>2 DEF Lookup
<1> QED BY <1>1, <1>2

LEMMA NewDatabaseSound ==
    ASSUME NEW slots, NEW ids
    PROVE  Database(NewDatabase, slots, ids) /\ DOMAIN NewDatabase = {Stub}
BY DEF Database, NewDatabase, Entries, Stub

LEMMA AddSound ==
    ASSUME NEW slots, NEW ids, NEW db, Database(db, slots, ids),
           NEW i \in ids, Lookup(db, i) = Stub, NEW s \in slots \ DOMAIN db
    PROVE  /\ Database(AddAndAlias(db, s, i), slots, ids)
           /\ DOMAIN AddAndAlias(db, s, i) = DOMAIN db \cup {s}
           /\ \A t \in DOMAIN db : AddAndAlias(db, s, i)[t] = db[t]
           /\ AddAndAlias(db, s, i)[s] = [id |-> i, refs |-> 0]
<1> DEFINE new == AddAndAlias(db, s, i)
<1>1. /\ new = [t \in DOMAIN db \cup {s} |-> IF t = s THEN [id |-> i, refs |-> 0] ELSE db[t]]
  BY DEF AddAndAlias, With
<1>2. \A t \in Entries(db) : db[t].id # i
  BY LookupFinds
<1> HIDE DEF new
<1>3. DOMAIN new = DOMAIN db \cup {s} /\ \A t \in DOMAIN new : new[t] = IF t = s THEN [id |-> i, refs |-> 0] ELSE db[t]
  BY <1>1
<1>4. Database(new, slots, ids)
  BY <1>1, <1>2 DEF Database, Entries
<1> QED BY <1>3, <1>4 DEF new

LEMMA RemoveSound ==
    ASSUME NEW slots, NEW ids, NEW db, Database(db, slots, ids), NEW i, Lookup(db, i) # Stub
    PROVE  /\ Database(RemoveEntry(db, i), slots, ids)
           /\ DOMAIN RemoveEntry(db, i) = DOMAIN db \ {Lookup(db, i)}
           /\ \A t \in DOMAIN RemoveEntry(db, i) : RemoveEntry(db, i)[t] = db[t]
<1> DEFINE new == RemoveEntry(db, i)
<1>1. new = [t \in DOMAIN db \ {Lookup(db, i)} |-> db[t]]
  BY DEF RemoveEntry, Restrict
<1>2. DOMAIN new = DOMAIN db \ {Lookup(db, i)} /\ \A t \in DOMAIN new : new[t] = db[t]
  BY <1>1
<1>3. Database(new, slots, ids)
  BY <1>1 DEF Database, Entries
<1> QED BY <1>2, <1>3

LEMMA CountSound ==
    ASSUME NEW slots, NEW ids, NEW db, Database(db, slots, ids), NEW s, NEW n \in Int
    PROVE  /\ Database(Count(db, s, n), slots, ids)
           /\ DOMAIN Count(db, s, n) = DOMAIN db
           /\ \A t \in DOMAIN db : Count(db, s, n)[t].id = db[t].id
           /\ \A t \in Entries(db) : Count(db, s, n)[t].refs = db[t].refs + (IF t = s THEN n ELSE 0)
<1> DEFINE new == Count(db, s, n)
<1>1. new = [t \in DOMAIN db |-> IF t = s /\ s # Stub THEN [db[t] EXCEPT !.refs = @ + n] ELSE db[t]]
  <2>1. db = [t \in DOMAIN db |-> db[t]]
    BY DEF Database
  <2>2. CASE s = Stub
    BY <2>1, <2>2 DEF Count
  <2>3. CASE s # Stub
    <3>1. new = [db EXCEPT ![s].refs = @ + n]
      BY <2>3 DEF Count
    <3> QED BY <2>1, <2>3, <3>1
  <2> QED BY <2>2, <2>3
<1> HIDE DEF new
<1>2. DOMAIN new = DOMAIN db
      /\ \A t \in DOMAIN db : new[t] = IF t = s /\ s # Stub THEN [db[t] EXCEPT !.refs = @ + n] ELSE db[t]
  BY <1>1
<1>3. \A t \in DOMAIN db : db[t] \in [id : ids \cup {NoId}, refs : Int]
  BY DEF Database
<1>4. \A t \in DOMAIN db : new[t].id = db[t].id /\ new[t].refs \in Int
  BY <1>2, <1>3
<1>5. \A t \in DOMAIN db : new[t] \in [id : ids \cup {NoId}, refs : Int]
  BY <1>2, <1>3
<1>6. \A t \in Entries(db) : new[t].refs = db[t].refs + (IF t = s THEN n ELSE 0)
  BY <1>2, <1>3 DEF Entries
<1>7. Database(new, slots, ids)
  BY <1>1, <1>2, <1>4, <1>5 DEF Database, Entries
<1> QED BY <1>2, <1>4, <1>6, <1>7 DEF new

LEMMA ReferenceSound ==
    ASSUME NEW slots, NEW ids, NEW db, Database(db, slots, ids), NEW i
    PROVE  /\ Database(Reference(db, i), slots, ids)
           /\ DOMAIN Reference(db, i) = DOMAIN db
           /\ \A t \in DOMAIN db : Reference(db, i)[t].id = db[t].id
           /\ \A t \in Entries(db) :
                Reference(db, i)[t].refs = db[t].refs + (IF t = Lookup(db, i) THEN 1 ELSE 0)
BY CountSound DEF Reference

LEMMA DereferenceSound ==
    ASSUME NEW slots, NEW ids, NEW db, Database(db, slots, ids), NEW s
    PROVE  /\ Database(Dereference(db, s), slots, ids)
           /\ DOMAIN Dereference(db, s) = DOMAIN db
           /\ \A t \in DOMAIN db : Dereference(db, s)[t].id = db[t].id
           /\ \A t \in Entries(db) :
                Dereference(db, s)[t].refs = db[t].refs - (IF t = s THEN 1 ELSE 0)
<1>1. -1 \in Int
  OBVIOUS
<1>2. \A t \in Entries(db) : db[t].refs \in Int
  BY DEF Database, Entries
<1> QED BY <1>1, <1>2, CountSound DEF Dereference

\* Counts that change all at once, in a frame.
LEMMA BulkSound ==
    ASSUME NEW slots, NEW ids, NEW db, Database(db, slots, ids), NEW new,
           new = [t \in DOMAIN db |-> new[t]], new[Stub] = db[Stub],
           \A t \in Entries(db) : new[t].refs \in Int /\ new[t] = [id |-> db[t].id, refs |-> new[t].refs]
    PROVE  Database(new, slots, ids)
<1>1. \A t \in DOMAIN db : db[t] \in [id : ids \cup {NoId}, refs : Int]
  BY DEF Database
<1>2. \A t \in DOMAIN db : new[t] \in [id : ids \cup {NoId}, refs : Int] /\ new[t].id = db[t].id
  BY <1>1 DEF Entries
<1>3. DOMAIN new = DOMAIN db
  OBVIOUS
<1> QED BY <1>2, <1>3 DEF Database, Entries

-----------------------------------------------------------------------------
(* Who uses what.                                                           *)

PrefabUsers(p) == {n \in DOMAIN nodes : nodes[n].prefab = p}
MeshUsers(m) == {x \in DOMAIN proxies : proxies[x] = m}
ShapePrefabs(s) == {p \in Entries(prefabs) : shape_of[p] = s}
ShapeBodies(s) == {b \in bodies : b.shape = s}

LEMMA Users ==
    ASSUME IInv
    PROVE  /\ \A p : IsFiniteSet(PrefabUsers(p)) /\ Cardinality(PrefabUsers(p)) \in Nat
           /\ \A m : IsFiniteSet(MeshUsers(m)) /\ Cardinality(MeshUsers(m)) \in Nat
           /\ \A s : IsFiniteSet(ShapePrefabs(s)) /\ Cardinality(ShapePrefabs(s)) \in Nat
           /\ \A s : IsFiniteSet(ShapeBodies(s)) /\ Cardinality(ShapeBodies(s)) \in Nat
<1> USE DEF IInv, TypeOK
<1>1. \A p : IsFiniteSet(PrefabUsers(p))
  BY FS_Subset DEF PrefabUsers
<1>2. \A m : IsFiniteSet(MeshUsers(m))
  BY FS_Subset DEF MeshUsers
<1>3. \A s : IsFiniteSet(ShapePrefabs(s))
  BY FS_Subset DEF ShapePrefabs, Entries
<1>4. \A s : IsFiniteSet(ShapeBodies(s))
  BY FS_Subset DEF ShapeBodies
<1> QED BY <1>1, <1>2, <1>3, <1>4, FS_CardinalityType

\* What is in no slot is not used.
LEMMA Unused ==
    ASSUME IInv
    PROVE  /\ \A p : p \notin DOMAIN prefabs => PrefabUsers(p) = {}
           /\ \A m : m \notin DOMAIN meshes => MeshUsers(m) = {}
           /\ \A s : s \notin DOMAIN shapes => ShapePrefabs(s) = {} /\ ShapeBodies(s) = {}
BY DEF IInv, CountedLive, PrefabUsers, MeshUsers, ShapePrefabs, ShapeBodies, Entries

LEMMA Counts ==
    CountsExact <=>
        /\ \A p \in Entries(prefabs) : prefabs[p].refs = Cardinality(PrefabUsers(p))
        /\ \A m \in Entries(meshes) : meshes[m].refs = Cardinality(MeshUsers(m))
        /\ \A s \in Entries(shapes) :
            shapes[s].refs >= Cardinality(ShapePrefabs(s)) + Cardinality(ShapeBodies(s))
BY DEF CountsExact, PrefabUsers, MeshUsers, ShapePrefabs, ShapeBodies

LEMMA CountsPrimed ==
    CountsExact' <=>
        /\ \A p \in Entries(prefabs)' : prefabs'[p].refs = Cardinality(PrefabUsers(p)')
        /\ \A m \in Entries(meshes)' : meshes'[m].refs = Cardinality(MeshUsers(m)')
        /\ \A s \in Entries(shapes)' :
            shapes'[s].refs >= Cardinality(ShapePrefabs(s)') + Cardinality(ShapeBodies(s)')
BY DEF CountsExact, PrefabUsers, MeshUsers, ShapePrefabs, ShapeBodies

\* An entry whose count is 0 has no user, so that it may be removed.
LEMMA ZeroIsUnused ==
    ASSUME IInv
    PROVE  /\ \A p \in Entries(prefabs) : prefabs[p].refs = 0 => PrefabUsers(p) = {}
           /\ \A m \in Entries(meshes) : meshes[m].refs = 0 => MeshUsers(m) = {}
           /\ \A s \in Entries(shapes) : shapes[s].refs = 0 => ShapePrefabs(s) = {} /\ ShapeBodies(s) = {}
<1>1. CountsExact
  BY DEF IInv
<1>2. \A p \in Entries(prefabs) : prefabs[p].refs = 0 => PrefabUsers(p) = {}
  BY <1>1, Counts, Users, CountEmpty
<1>3. \A m \in Entries(meshes) : meshes[m].refs = 0 => MeshUsers(m) = {}
  BY <1>1, Counts, Users, CountEmpty
<1>4. ASSUME NEW s \in Entries(shapes), shapes[s].refs = 0
      PROVE  ShapePrefabs(s) = {} /\ ShapeBodies(s) = {}
  <2>1. 0 >= Cardinality(ShapePrefabs(s)) + Cardinality(ShapeBodies(s))
    BY <1>1, <1>4, Counts
  <2>2. Cardinality(ShapePrefabs(s)) = 0 /\ Cardinality(ShapeBodies(s)) = 0
    BY <2>1, Users
  <2> QED BY <2>2, Users, CountEmpty
<1> QED BY <1>2, <1>3, <1>4

-----------------------------------------------------------------------------
(* Shapes and meshes.                                                       *)

LEMMA Parts ==
    ASSUME IInv
    PROVE  /\ Database(shapes, ShapeSlots, ShapeIds)
           /\ Database(prefabs, PrefabSlots, PrefabIds)
           /\ Database(meshes, MeshSlots, MeshIds)
           /\ TypeOK /\ StubPrefab /\ CountsExact /\ CountedLive /\ ProxiesOwned /\ EngineInv
BY DEF IInv, TypeOK

LEMMA ShapeAddInv ==
    ASSUME IInv, NEW i \in ShapeIds, ShapeAdd(i)
    PROVE  IInv'
<1>1. PICK s \in ShapeSlots \ DOMAIN shapes : shapes' = AddAndAlias(shapes, s, i)
  BY DEF ShapeAdd
<1>2. /\ Lookup(shapes, i) = Stub
      /\ UNCHANGED <<prefabs, meshes, shape_of, nodes, proxies, bodies, pending, engine, starts, corrupt>>
  BY DEF ShapeAdd, engineVars
<1>3. /\ Database(shapes', ShapeSlots, ShapeIds)
      /\ DOMAIN shapes' = DOMAIN shapes \cup {s}
      /\ \A t \in DOMAIN shapes : shapes'[t] = shapes[t]
      /\ shapes'[s] = [id |-> i, refs |-> 0]
  BY <1>1, <1>2, Parts, AddSound
<1>4. TypeOK'
  BY <1>2, <1>3, Parts DEF TypeOK
<1>5. /\ \A x : PrefabUsers(x)' = PrefabUsers(x) /\ MeshUsers(x)' = MeshUsers(x)
      /\ \A x : ShapePrefabs(x)' = ShapePrefabs(x) /\ ShapeBodies(x)' = ShapeBodies(x)
  BY <1>2 DEF PrefabUsers, MeshUsers, ShapePrefabs, ShapeBodies, Entries
<1>6. ShapePrefabs(s) = {} /\ ShapeBodies(s) = {}
  BY Unused
<1>7. \A t \in Entries(shapes)' : shapes'[t].refs >= Cardinality(ShapePrefabs(t)') + Cardinality(ShapeBodies(t)')
  <2>1. \A t \in Entries(shapes) : shapes'[t].refs >= Cardinality(ShapePrefabs(t)) + Cardinality(ShapeBodies(t))
    BY <1>3, Parts, Counts DEF Entries
  <2>2. shapes'[s].refs >= Cardinality(ShapePrefabs(s)) + Cardinality(ShapeBodies(s))
    BY <1>3, <1>6, FS_EmptySet
  <2> QED BY <1>3, <1>5, <2>1, <2>2 DEF Entries
<1>8. CountsExact'
  BY <1>2, <1>5, <1>7, Parts, Counts, CountsPrimed
<1>9. StubPrefab' /\ CountedLive' /\ ProxiesOwned' /\ EngineInv'
  BY <1>2, <1>3, Parts DEF CountedLive, ProxiesOwned, EngineInv, StubPrefab
<1> QED BY <1>4, <1>8, <1>9 DEF IInv

LEMMA ShapeRemoveInv ==
    ASSUME IInv, NEW i \in ShapeIds, ShapeRemove(i)
    PROVE  IInv'
<1> DEFINE s == Lookup(shapes, i)
<1>1. /\ s # Stub /\ shapes[s].refs = 0 /\ shapes' = RemoveEntry(shapes, i)
      /\ UNCHANGED <<prefabs, meshes, shape_of, nodes, proxies, bodies, pending, engine, starts, corrupt>>
  BY DEF ShapeRemove, engineVars
<1>2. s \in Entries(shapes)
  BY <1>1, LookupFinds
<1>3. /\ Database(shapes', ShapeSlots, ShapeIds)
      /\ DOMAIN shapes' = DOMAIN shapes \ {s}
      /\ \A t \in DOMAIN shapes' : shapes'[t] = shapes[t]
  <2>1. Database(shapes, ShapeSlots, ShapeIds)
    BY Parts
  <2>2. Lookup(shapes, i) # Stub
    BY <1>1
  <2> HIDE DEF s
  <2>3. /\ Database(RemoveEntry(shapes, i), ShapeSlots, ShapeIds)
        /\ DOMAIN RemoveEntry(shapes, i) = DOMAIN shapes \ {Lookup(shapes, i)}
        /\ \A t \in DOMAIN RemoveEntry(shapes, i) : RemoveEntry(shapes, i)[t] = shapes[t]
    BY <2>1, <2>2, RemoveSound
  <2> QED BY <1>1, <2>3 DEF s
<1>4. TypeOK'
  BY <1>1, <1>3, Parts DEF TypeOK
<1>5. /\ \A x : PrefabUsers(x)' = PrefabUsers(x) /\ MeshUsers(x)' = MeshUsers(x)
      /\ \A x : ShapePrefabs(x)' = ShapePrefabs(x) /\ ShapeBodies(x)' = ShapeBodies(x)
  BY <1>1 DEF PrefabUsers, MeshUsers, ShapePrefabs, ShapeBodies, Entries
<1>6. ShapePrefabs(s) = {} /\ ShapeBodies(s) = {}
  BY <1>1, <1>2, ZeroIsUnused
<1>7. CountsExact'
  <2>1. \A t \in Entries(shapes)' : shapes'[t].refs >= Cardinality(ShapePrefabs(t)') + Cardinality(ShapeBodies(t)')
    BY <1>3, <1>5, Parts, Counts DEF Entries
  <2> QED BY <1>1, <1>5, <2>1, Parts, Counts, CountsPrimed
<1>8. CountedLive'
  <2>1. \A p \in DOMAIN prefabs : shape_of[p] # s
    <3>1. \A p \in Entries(prefabs) : shape_of[p] # s
      BY <1>6 DEF ShapePrefabs
    <3>2. shape_of[Stub] # s
      BY <1>1, Parts DEF StubPrefab
    <3> QED BY <3>1, <3>2 DEF Entries
  <2>2. \A b \in bodies : b.shape # s
    BY <1>6 DEF ShapeBodies
  <2> QED BY <1>1, <1>3, <2>1, <2>2, Parts DEF CountedLive
<1>9. StubPrefab' /\ ProxiesOwned' /\ EngineInv'
  BY <1>1, Parts DEF ProxiesOwned, EngineInv, StubPrefab
<1> QED BY <1>4, <1>7, <1>8, <1>9 DEF IInv

LEMMA MeshAddInv ==
    ASSUME IInv, NEW i \in MeshIds, MeshAdd(i)
    PROVE  IInv'
<1>1. PICK s \in MeshSlots \ DOMAIN meshes : meshes' = AddAndAlias(meshes, s, i)
  BY DEF MeshAdd
<1>2. /\ Lookup(meshes, i) = Stub
      /\ UNCHANGED <<shapes, prefabs, shape_of, nodes, proxies, bodies, pending, engine, starts, corrupt>>
  BY DEF MeshAdd, engineVars
<1>3. /\ Database(meshes', MeshSlots, MeshIds)
      /\ DOMAIN meshes' = DOMAIN meshes \cup {s}
      /\ \A t \in DOMAIN meshes : meshes'[t] = meshes[t]
      /\ meshes'[s] = [id |-> i, refs |-> 0]
  BY <1>1, <1>2, Parts, AddSound
<1>4. TypeOK'
  BY <1>2, <1>3, Parts DEF TypeOK
<1>5. /\ \A x : PrefabUsers(x)' = PrefabUsers(x) /\ MeshUsers(x)' = MeshUsers(x)
      /\ \A x : ShapePrefabs(x)' = ShapePrefabs(x) /\ ShapeBodies(x)' = ShapeBodies(x)
  BY <1>2 DEF PrefabUsers, MeshUsers, ShapePrefabs, ShapeBodies, Entries
<1>6. MeshUsers(s) = {}
  BY Unused
<1>7. CountsExact'
  <2>1. \A t \in Entries(meshes)' : meshes'[t].refs = Cardinality(MeshUsers(t)')
    <3>1. \A t \in Entries(meshes) : meshes'[t].refs = Cardinality(MeshUsers(t))
      BY <1>3, Parts, Counts DEF Entries
    <3>2. meshes'[s].refs = Cardinality(MeshUsers(s))
      BY <1>3, <1>6, FS_EmptySet
    <3> QED BY <1>3, <1>5, <3>1, <3>2 DEF Entries
  <2> QED BY <1>2, <1>5, <2>1, Parts, Counts, CountsPrimed
<1>8. StubPrefab' /\ CountedLive' /\ ProxiesOwned' /\ EngineInv'
  BY <1>2, <1>3, Parts DEF CountedLive, ProxiesOwned, EngineInv, StubPrefab
<1> QED BY <1>4, <1>7, <1>8 DEF IInv

LEMMA MeshRemoveInv ==
    ASSUME IInv, NEW i \in MeshIds, MeshRemove(i)
    PROVE  IInv'
<1> DEFINE s == Lookup(meshes, i)
<1>1. /\ s # Stub /\ meshes[s].refs = 0 /\ meshes' = RemoveEntry(meshes, i)
      /\ UNCHANGED <<shapes, prefabs, shape_of, nodes, proxies, bodies, pending, engine, starts, corrupt>>
  BY DEF MeshRemove, engineVars
<1>2. s \in Entries(meshes)
  BY <1>1, LookupFinds
<1>3. /\ Database(meshes', MeshSlots, MeshIds)
      /\ DOMAIN meshes' = DOMAIN meshes \ {s}
      /\ \A t \in DOMAIN meshes' : meshes'[t] = meshes[t]
  <2>1. Database(meshes, MeshSlots, MeshIds)
    BY Parts
  <2>2. Lookup(meshes, i) # Stub
    BY <1>1
  <2> HIDE DEF s
  <2>3. /\ Database(RemoveEntry(meshes, i), MeshSlots, MeshIds)
        /\ DOMAIN RemoveEntry(meshes, i) = DOMAIN meshes \ {Lookup(meshes, i)}
        /\ \A t \in DOMAIN RemoveEntry(meshes, i) : RemoveEntry(meshes, i)[t] = meshes[t]
    BY <2>1, <2>2, RemoveSound
  <2> QED BY <1>1, <2>3 DEF s
<1>4. TypeOK'
  BY <1>1, <1>3, Parts DEF TypeOK
<1>5. /\ \A x : PrefabUsers(x)' = PrefabUsers(x) /\ MeshUsers(x)' = MeshUsers(x)
      /\ \A x : ShapePrefabs(x)' = ShapePrefabs(x) /\ ShapeBodies(x)' = ShapeBodies(x)
  BY <1>1 DEF PrefabUsers, MeshUsers, ShapePrefabs, ShapeBodies, Entries
<1>6. MeshUsers(s) = {}
  BY <1>1, <1>2, ZeroIsUnused
<1>7. CountsExact'
  <2>1. \A t \in Entries(meshes)' : meshes'[t].refs = Cardinality(MeshUsers(t)')
    BY <1>3, <1>5, Parts, Counts DEF Entries
  <2> QED BY <1>1, <1>5, <2>1, Parts, Counts, CountsPrimed
<1>8. CountedLive'
  <2>1. \A x \in DOMAIN proxies : proxies[x] # s
    BY <1>6 DEF MeshUsers
  <2> QED BY <1>1, <1>3, <2>1, Parts DEF CountedLive, StubPrefab
<1>9. StubPrefab' /\ ProxiesOwned' /\ EngineInv'
  BY <1>1, Parts DEF ProxiesOwned, EngineInv, StubPrefab
<1> QED BY <1>4, <1>7, <1>8, <1>9 DEF IInv

-----------------------------------------------------------------------------
(* Prefabs.                                                                 *)

LEMMA PrefabAddInv ==
    ASSUME IInv, NEW i \in PrefabIds, NEW shape \in ShapeIds, PrefabAdd(i, shape)
    PROVE  IInv'
<1> DEFINE l == Lookup(shapes, shape)
<1>1. PICK p \in PrefabSlots \ DOMAIN prefabs :
        prefabs' = AddAndAlias(prefabs, p, i) /\ shape_of' = With(shape_of, p, l)
  BY DEF PrefabAdd
<1>2. /\ Lookup(prefabs, i) = Stub /\ shapes' = Reference(shapes, shape)
      /\ UNCHANGED <<meshes, nodes, proxies, bodies, pending, engine, starts, corrupt>>
  BY DEF PrefabAdd, engineVars
<1>3. /\ Database(prefabs', PrefabSlots, PrefabIds)
      /\ DOMAIN prefabs' = DOMAIN prefabs \cup {p}
      /\ \A t \in DOMAIN prefabs : prefabs'[t] = prefabs[t]
      /\ prefabs'[p] = [id |-> i, refs |-> 0]
  <2>0. Database(prefabs, PrefabSlots, PrefabIds)
    BY Parts
  <2>1. prefabs' = AddAndAlias(prefabs, p, i)
    BY <1>1
  <2>2. /\ Database(AddAndAlias(prefabs, p, i), PrefabSlots, PrefabIds)
        /\ DOMAIN AddAndAlias(prefabs, p, i) = DOMAIN prefabs \cup {p}
        /\ \A t \in DOMAIN prefabs : AddAndAlias(prefabs, p, i)[t] = prefabs[t]
        /\ AddAndAlias(prefabs, p, i)[p] = [id |-> i, refs |-> 0]
    BY ONLY <1>2, <2>0, AddSound
  <2> QED BY <2>1, <2>2
<1>4. /\ Database(shapes', ShapeSlots, ShapeIds)
      /\ DOMAIN shapes' = DOMAIN shapes
      /\ \A t \in Entries(shapes) : shapes'[t].refs = shapes[t].refs + (IF t = l THEN 1 ELSE 0)
  BY <1>2, Parts, ReferenceSound
<1>5. l \in DOMAIN shapes /\ DOMAIN shapes \subseteq ShapeSlots \cup {Stub}
  BY Parts, LookupFinds DEF Database, Entries
<1> HIDE DEF l
<1>6. /\ DOMAIN shape_of' = DOMAIN prefabs' /\ shape_of'[p] = l
      /\ \A q \in DOMAIN prefabs : shape_of'[q] = shape_of[q]
      /\ shape_of' = [q \in DOMAIN prefabs' |-> shape_of'[q]]
  BY <1>1, <1>3, Parts DEF With, TypeOK
<1>7. p # Stub /\ p \notin DOMAIN prefabs /\ Stub \in DOMAIN prefabs
  BY SlotsAssumption, Parts DEF Database
<1>8. TypeOK'
  <2>1. shape_of' \in [DOMAIN prefabs' -> ShapeSlots \cup {Stub}]
    BY <1>3, <1>5, <1>6, Parts DEF TypeOK
  <2>2. IsFiniteSet(DOMAIN prefabs')
    BY <1>3, Parts, FS_AddElement DEF TypeOK
  <2> QED BY <1>2, <1>3, <1>4, <2>1, <2>2, Parts DEF TypeOK
<1>9. CountsExact'
  <2>1. \A x : PrefabUsers(x)' = PrefabUsers(x) /\ MeshUsers(x)' = MeshUsers(x) /\ ShapeBodies(x)' = ShapeBodies(x)
    BY <1>2 DEF PrefabUsers, MeshUsers, ShapeBodies
  <2>2. \A q \in Entries(prefabs)' : prefabs'[q].refs = Cardinality(PrefabUsers(q)')
    <3>1. \A q \in Entries(prefabs) : prefabs'[q].refs = Cardinality(PrefabUsers(q))
      BY <1>3, Parts, Counts DEF Entries
    <3>2. prefabs'[p].refs = Cardinality(PrefabUsers(p))
      BY <1>3, <1>7, Unused, FS_EmptySet
    <3> QED BY <1>3, <2>1, <3>1, <3>2 DEF Entries
  <2>3. ASSUME NEW t \in Entries(shapes)
        PROVE  Cardinality(ShapePrefabs(t)') = Cardinality(ShapePrefabs(t)) + (IF t = l THEN 1 ELSE 0)
    <3>1. ShapePrefabs(t)' \ {p} = ShapePrefabs(t) \ {p} /\ p \notin ShapePrefabs(t)
      BY <1>3, <1>6, <1>7 DEF ShapePrefabs, Entries
    <3>2. p \in ShapePrefabs(t)' <=> t = l
      BY <1>3, <1>6, <1>7 DEF ShapePrefabs, Entries
    <3> QED BY <3>1, <3>2, Users, CountChanges
  <2>4. ASSUME NEW t \in Entries(shapes)
        PROVE  shapes'[t].refs >= Cardinality(ShapePrefabs(t)') + Cardinality(ShapeBodies(t)')
    <3>1. shapes[t].refs >= Cardinality(ShapePrefabs(t)) + Cardinality(ShapeBodies(t)) /\ shapes[t].refs \in Int
      BY Parts, Counts DEF Database, Entries
    <3> QED BY <1>4, <2>1, <2>3, <3>1, Users
  <2>5. Entries(meshes)' = Entries(meshes) /\ Entries(shapes)' = Entries(shapes)
    BY <1>2, <1>4 DEF Entries
  <2> QED BY <1>2, <2>1, <2>2, <2>4, <2>5, Parts, Counts, CountsPrimed
<1>10. CountedLive' /\ StubPrefab'
  BY <1>2, <1>3, <1>4, <1>5, <1>6, <1>7, Parts DEF CountedLive, StubPrefab
<1>11. ProxiesOwned' /\ EngineInv'
  BY <1>2, Parts DEF ProxiesOwned, EngineInv
<1> QED BY <1>8, <1>9, <1>10, <1>11 DEF IInv

LEMMA PrefabRemoveInv ==
    ASSUME IInv, NEW i \in PrefabIds, PrefabRemove(i)
    PROVE  IInv'
<1> DEFINE p == Lookup(prefabs, i)
           l == shape_of[p]
<1>1. /\ p # Stub /\ prefabs[p].refs = 0
      /\ shapes' = Dereference(shapes, l) /\ prefabs' = RemoveEntry(prefabs, i)
      /\ shape_of' = [q \in DOMAIN shape_of \ {p} |-> shape_of[q]]
      /\ UNCHANGED <<meshes, nodes, proxies, bodies, pending, engine, starts, corrupt>>
  BY DEF PrefabRemove, engineVars, Restrict
<1>2. p \in Entries(prefabs) /\ p \in DOMAIN prefabs
  BY <1>1, LookupFinds DEF Entries
<1>3. /\ Database(prefabs', PrefabSlots, PrefabIds)
      /\ DOMAIN prefabs' = DOMAIN prefabs \ {p}
      /\ \A t \in DOMAIN prefabs' : prefabs'[t] = prefabs[t]
  <2>1. Database(prefabs, PrefabSlots, PrefabIds)
    BY Parts
  <2>2. Lookup(prefabs, i) # Stub
    BY <1>1
  <2> HIDE DEF p
  <2>3. /\ Database(RemoveEntry(prefabs, i), PrefabSlots, PrefabIds)
        /\ DOMAIN RemoveEntry(prefabs, i) = DOMAIN prefabs \ {Lookup(prefabs, i)}
        /\ \A t \in DOMAIN RemoveEntry(prefabs, i) : RemoveEntry(prefabs, i)[t] = prefabs[t]
    BY <2>1, <2>2, RemoveSound
  <2> QED BY <1>1, <2>3 DEF p
<1> HIDE DEF p, l
<1>4. /\ Database(shapes', ShapeSlots, ShapeIds)
      /\ DOMAIN shapes' = DOMAIN shapes
      /\ \A t \in Entries(shapes) : shapes'[t].refs = shapes[t].refs - (IF t = l THEN 1 ELSE 0)
  BY <1>1, Parts, DereferenceSound
<1>5. /\ DOMAIN shape_of' = DOMAIN prefabs' /\ DOMAIN shape_of = DOMAIN prefabs
      /\ \A q \in DOMAIN prefabs' : shape_of'[q] = shape_of[q]
  BY <1>1, <1>3, Parts DEF TypeOK
<1>6. TypeOK'
  <2>1. shape_of' \in [DOMAIN prefabs' -> ShapeSlots \cup {Stub}]
    BY <1>1, <1>3, <1>5, Parts DEF TypeOK
  <2>2. IsFiniteSet(DOMAIN prefabs')
    <3>1. IsFiniteSet(DOMAIN prefabs)
      BY Parts DEF TypeOK
    <3> QED BY <1>3, <3>1, FS_RemoveElement
  <2> QED BY <1>1, <1>3, <1>4, <2>1, <2>2, Parts DEF TypeOK
<1>7. PrefabUsers(p) = {}
  BY <1>1, <1>2, ZeroIsUnused
<1>8. CountsExact'
  <2>1. \A x : PrefabUsers(x)' = PrefabUsers(x) /\ MeshUsers(x)' = MeshUsers(x) /\ ShapeBodies(x)' = ShapeBodies(x)
    BY <1>1 DEF PrefabUsers, MeshUsers, ShapeBodies
  <2>2. \A q \in Entries(prefabs)' : prefabs'[q].refs = Cardinality(PrefabUsers(q)')
    BY <1>3, <2>1, Parts, Counts DEF Entries
  <2>3. ASSUME NEW t \in Entries(shapes)
        PROVE  Cardinality(ShapePrefabs(t)') = Cardinality(ShapePrefabs(t)) - (IF t = l THEN 1 ELSE 0)
    <3>1. ShapePrefabs(t)' \ {p} = ShapePrefabs(t) \ {p} /\ p \notin ShapePrefabs(t)'
      BY <1>3, <1>5 DEF ShapePrefabs, Entries
    <3>2. p \in ShapePrefabs(t) <=> t = l
      BY <1>2 DEF ShapePrefabs, l
    <3> QED BY <3>1, <3>2, Users, CountChanges
  <2>4. ASSUME NEW t \in Entries(shapes)
        PROVE  shapes'[t].refs >= Cardinality(ShapePrefabs(t)') + Cardinality(ShapeBodies(t)')
    <3>1. shapes[t].refs >= Cardinality(ShapePrefabs(t)) + Cardinality(ShapeBodies(t)) /\ shapes[t].refs \in Int
      BY Parts, Counts DEF Database, Entries
    <3> QED BY <1>4, <2>1, <2>3, <3>1, Users
  <2>5. Entries(meshes)' = Entries(meshes) /\ Entries(shapes)' = Entries(shapes)
    BY <1>1, <1>4 DEF Entries
  <2> QED BY <1>1, <2>1, <2>2, <2>4, <2>5, Parts, Counts, CountsPrimed
<1>9. CountedLive' /\ StubPrefab'
  <2>1. \A n \in DOMAIN nodes : nodes[n].prefab # p
    BY <1>7 DEF PrefabUsers
  <2>2. Stub \in DOMAIN prefabs'
    BY <1>3 DEF Database
  <2> QED BY <1>1, <1>3, <1>4, <1>5, <2>1, <2>2, Parts DEF CountedLive, StubPrefab
<1>10. ProxiesOwned' /\ EngineInv'
  BY <1>1, Parts DEF ProxiesOwned, EngineInv
<1> QED BY <1>6, <1>8, <1>9, <1>10 DEF IInv

LEMMA PrefabSetShapeInv ==
    ASSUME IInv, NEW p \in Entries(prefabs), NEW s \in Entries(shapes), PrefabSetShape(p, s)
    PROVE  IInv'
<1> DEFINE l == shape_of[p]
           m == Dereference(shapes, l)
<1>1. /\ shapes' = Reference(m, shapes[s].id) /\ shape_of' = [shape_of EXCEPT ![p] = s]
      /\ UNCHANGED <<prefabs, meshes, nodes, proxies, bodies, pending, engine, starts, corrupt>>
  BY DEF PrefabSetShape, engineVars
<1> HIDE DEF l
<1>2. /\ Database(m, ShapeSlots, ShapeIds) /\ DOMAIN m = DOMAIN shapes
      /\ \A t \in DOMAIN shapes : m[t].id = shapes[t].id
      /\ \A t \in Entries(shapes) : m[t].refs = shapes[t].refs - (IF t = l THEN 1 ELSE 0)
  BY Parts, DereferenceSound
<1> HIDE DEF m
<1>3. Lookup(m, shapes[s].id) = s
  <2>1. s \in Entries(m) /\ m[s].id = shapes[s].id
    BY <1>2 DEF Entries
  <2> QED BY <1>2, <2>1, LookupFinds DEF Database
<1>4. /\ Database(shapes', ShapeSlots, ShapeIds) /\ DOMAIN shapes' = DOMAIN shapes
      /\ \A t \in Entries(m) : shapes'[t].refs = m[t].refs + (IF t = s THEN 1 ELSE 0)
  BY <1>1, <1>2, <1>3, ReferenceSound
<1>5. /\ DOMAIN shape_of' = DOMAIN prefabs /\ DOMAIN shape_of = DOMAIN prefabs /\ p \in DOMAIN prefabs
      /\ shape_of'[p] = s /\ \A q \in DOMAIN prefabs \ {p} : shape_of'[q] = shape_of[q]
  BY <1>1, Parts DEF TypeOK, Entries
<1>6. TypeOK'
  <2>1. s \in ShapeSlots \cup {Stub} /\ shape_of \in [DOMAIN prefabs -> ShapeSlots \cup {Stub}]
    BY Parts DEF Database, Entries, TypeOK
  <2>2. shape_of' \in [DOMAIN prefabs' -> ShapeSlots \cup {Stub}]
    BY <1>1, <2>1
  <2> QED BY <1>1, <1>4, <2>2, Parts DEF TypeOK
<1>7. CountsExact'
  <2>1. \A x : PrefabUsers(x)' = PrefabUsers(x) /\ MeshUsers(x)' = MeshUsers(x) /\ ShapeBodies(x)' = ShapeBodies(x)
    BY <1>1 DEF PrefabUsers, MeshUsers, ShapeBodies
  <2>2. ASSUME NEW t \in Entries(shapes)
        PROVE  Cardinality(ShapePrefabs(t)') + (IF t = l THEN 1 ELSE 0)
               = Cardinality(ShapePrefabs(t)) + (IF t = s THEN 1 ELSE 0)
    <3>1. ShapePrefabs(t)' \ {p} = ShapePrefabs(t) \ {p}
      BY <1>1, <1>5 DEF ShapePrefabs, Entries
    <3>2. (p \in ShapePrefabs(t) <=> t = l) /\ (p \in ShapePrefabs(t)' <=> t = s)
      BY <1>1, <1>5 DEF ShapePrefabs, l, Entries
    <3> QED BY <3>1, <3>2, Users, CountChanges
  <2>3. ASSUME NEW t \in Entries(shapes)
        PROVE  shapes'[t].refs >= Cardinality(ShapePrefabs(t)') + Cardinality(ShapeBodies(t)')
    <3>1. shapes[t].refs >= Cardinality(ShapePrefabs(t)) + Cardinality(ShapeBodies(t)) /\ shapes[t].refs \in Int
      BY Parts, Counts DEF Database, Entries
    <3>2. shapes'[t].refs = shapes[t].refs - (IF t = l THEN 1 ELSE 0) + (IF t = s THEN 1 ELSE 0)
      BY <1>2, <1>4 DEF Entries
    <3>3. IsFiniteSet(ShapePrefabs(t)') /\ Cardinality(ShapePrefabs(t)') \in Nat
      <4>1. ShapePrefabs(t)' \subseteq DOMAIN prefabs
        BY <1>1 DEF ShapePrefabs, Entries
      <4> QED BY <4>1, Parts, FS_Subset, FS_CardinalityType DEF TypeOK
    <3> QED BY <2>1, <2>2, <3>1, <3>2, <3>3, Users
  <2>4. Entries(meshes)' = Entries(meshes) /\ Entries(shapes)' = Entries(shapes) /\ Entries(prefabs)' = Entries(prefabs)
    BY <1>1, <1>4 DEF Entries
  <2> QED BY <1>1, <2>1, <2>3, <2>4, Parts, Counts, CountsPrimed
<1>8. CountedLive' /\ StubPrefab'
  BY <1>1, <1>4, <1>5, Parts DEF CountedLive, StubPrefab, Entries
<1>9. ProxiesOwned' /\ EngineInv'
  BY <1>1, Parts DEF ProxiesOwned, EngineInv
<1> QED BY <1>6, <1>7, <1>8, <1>9 DEF IInv

-----------------------------------------------------------------------------
(* Nodes.                                                                   *)

Node == [id : NodeIds, prefab : PrefabSlots \cup {Stub}, proxy : ProxySlots \cup {Stub},
         physics : BOOLEAN, marked : BOOLEAN]

LEMMA NodeAddInv ==
    ASSUME IInv, NEW i \in NodeIds, NodeAdd(i)
    PROVE  IInv'
<1> DEFINE fresh == [id |-> i, prefab |-> Stub, proxy |-> Stub, physics |-> FALSE, marked |-> FALSE]
<1>1. PICK n \in NodeSlots \ DOMAIN nodes : nodes' = With(nodes, n, fresh)
  BY DEF NodeAdd
<1>2. UNCHANGED <<shapes, prefabs, meshes, shape_of, proxies, bodies, pending, engine, starts, corrupt>>
  BY DEF NodeAdd, engineVars, dbVars
<1>3. fresh \in Node /\ fresh.prefab = Stub /\ fresh.proxy = Stub
  BY DEF Node
<1> HIDE DEF fresh
<1>4. /\ DOMAIN nodes' = DOMAIN nodes \cup {n} /\ nodes'[n] = fresh
      /\ \A k \in DOMAIN nodes : nodes'[k] = nodes[k]
      /\ nodes' = [k \in DOMAIN nodes' |-> nodes'[k]]
  BY <1>1 DEF With
<1>5. TypeOK'
  <2>1. nodes \in [DOMAIN nodes -> Node] /\ IsFiniteSet(DOMAIN nodes)
    BY Parts DEF TypeOK, Node
  <2>2. nodes' \in [DOMAIN nodes' -> Node]
    BY <1>3, <1>4, <2>1
  <2>3. IsFiniteSet(DOMAIN nodes')
    BY <1>4, <2>1, FS_AddElement
  <2> QED BY <1>2, <1>4, <2>2, <2>3, Parts DEF TypeOK, Node
<1>6. CountsExact'
  <2>1. \A x : MeshUsers(x)' = MeshUsers(x) /\ ShapePrefabs(x)' = ShapePrefabs(x) /\ ShapeBodies(x)' = ShapeBodies(x)
    BY <1>2 DEF MeshUsers, ShapePrefabs, ShapeBodies, Entries
  <2>2. \A p \in Entries(prefabs) : PrefabUsers(p)' = PrefabUsers(p)
    BY <1>3, <1>4 DEF PrefabUsers, Entries
  <2>3. \A db : Entries(db) = DOMAIN db \ {Stub}
    BY DEF Entries
  <2> QED BY <1>2, <2>1, <2>2, <2>3, Parts, Counts, CountsPrimed
<1>7. CountedLive' /\ StubPrefab'
  BY <1>2, <1>3, <1>4, Parts DEF CountedLive, StubPrefab, Database
<1>8. ProxiesOwned'
  <2>1. {nodes'[k].proxy : k \in DOMAIN nodes'} \ {Stub} = {nodes[k].proxy : k \in DOMAIN nodes} \ {Stub}
    BY <1>3, <1>4
  <2> QED BY <1>2, <1>3, <1>4, <2>1, Parts DEF ProxiesOwned
<1>9. EngineInv'
  BY <1>2, Parts DEF EngineInv
<1> QED BY <1>5, <1>6, <1>7, <1>8, <1>9 DEF IInv

LEMMA NodeRemoveInv ==
    ASSUME IInv, NEW n \in DOMAIN nodes, NodeRemove(n)
    PROVE  IInv'
<1>1. /\ UNCHANGED <<shapes, prefabs, meshes, shape_of, proxies, bodies, pending, engine, starts>>
      /\ corrupt' \in BOOLEAN
  BY Parts DEF NodeRemove, engineVars, dbVars, TypeOK
<1>2. nodes \in [DOMAIN nodes -> Node]
  BY Parts DEF TypeOK, Node
<1>3. /\ nodes' \in [DOMAIN nodes -> Node] /\ DOMAIN nodes' = DOMAIN nodes
      /\ \A k \in DOMAIN nodes : nodes'[k].prefab = nodes[k].prefab /\ nodes'[k].proxy = nodes[k].proxy
  <2>1. CASE nodes[n].marked
    BY <1>2, <2>1 DEF NodeRemove
  <2>2. CASE ~nodes[n].marked
    <3>1. nodes' = [nodes EXCEPT ![n].marked = TRUE]
      BY <2>2 DEF NodeRemove
    <3>2. \A k \in DOMAIN nodes : nodes[k] \in Node
      BY <1>2
    <3>3. DOMAIN nodes' = DOMAIN nodes /\ \A k \in DOMAIN nodes \ {n} : nodes'[k] = nodes[k]
      BY <1>2, <3>1
    <3>4. nodes'[n] = [nodes[n] EXCEPT !.marked = TRUE]
      BY <1>2, <3>1
    <3>5. nodes'[n] \in Node /\ nodes'[n].prefab = nodes[n].prefab /\ nodes'[n].proxy = nodes[n].proxy
      BY <3>2, <3>4 DEF Node
    <3>6. nodes' = [k \in DOMAIN nodes |-> nodes'[k]]
      BY <1>2, <3>1
    <3> QED BY <3>2, <3>3, <3>5, <3>6
  <2> QED BY <2>1, <2>2
<1>4. TypeOK'
  BY <1>1, <1>3, Parts DEF TypeOK, Node
<1>5. CountsExact'
  <2>1. \A x : MeshUsers(x)' = MeshUsers(x) /\ ShapePrefabs(x)' = ShapePrefabs(x) /\ ShapeBodies(x)' = ShapeBodies(x)
    BY <1>1 DEF MeshUsers, ShapePrefabs, ShapeBodies, Entries
  <2>2. \A p : PrefabUsers(p)' = PrefabUsers(p)
    BY <1>3 DEF PrefabUsers
  <2>3. \A db : Entries(db) = DOMAIN db \ {Stub}
    BY DEF Entries
  <2> QED BY <1>1, <2>1, <2>2, <2>3, Parts, Counts, CountsPrimed
<1>6. CountedLive' /\ StubPrefab'
  BY <1>1, <1>3, Parts DEF CountedLive, StubPrefab
<1>7. ProxiesOwned'
  <2>1. {nodes'[k].proxy : k \in DOMAIN nodes'} = {nodes[k].proxy : k \in DOMAIN nodes}
    BY <1>3
  <2> QED BY <1>1, <1>3, <2>1, Parts DEF ProxiesOwned
<1>8. EngineInv'
  BY <1>1, Parts DEF EngineInv
<1> QED BY <1>4, <1>5, <1>6, <1>7, <1>8 DEF IInv

LEMMA NodeSetPrefabInv ==
    ASSUME IInv, NEW n \in DOMAIN nodes, NEW prefab \in PrefabIds, NodeSetPrefab(n, prefab)
    PROVE  IInv'
<1> DEFINE p == Lookup(prefabs, prefab)
           o == nodes[n].prefab
           m == Reference(prefabs, prefab)
<1>1. /\ p # Stub /\ prefabs' = Dereference(m, o)
      /\ nodes' = [nodes EXCEPT ![n].prefab = p, ![n].physics = TRUE]
      /\ UNCHANGED <<shapes, meshes, shape_of, proxies, bodies, pending, engine, starts, corrupt>>
  BY DEF NodeSetPrefab, engineVars
<1>2. p \in Entries(prefabs) /\ p \in DOMAIN prefabs /\ p \in PrefabSlots
  BY <1>1, LookupFinds, Parts DEF Entries, Database
<1>3. /\ Database(m, PrefabSlots, PrefabIds) /\ DOMAIN m = DOMAIN prefabs
      /\ \A t \in Entries(prefabs) : m[t].refs = prefabs[t].refs + (IF t = p THEN 1 ELSE 0)
  BY Parts, ReferenceSound
<1> HIDE DEF p, o, m
<1>4. /\ Database(prefabs', PrefabSlots, PrefabIds) /\ DOMAIN prefabs' = DOMAIN prefabs
      /\ \A t \in Entries(m) : prefabs'[t].refs = m[t].refs - (IF t = o THEN 1 ELSE 0)
  BY <1>1, <1>3, DereferenceSound
<1>5. nodes \in [DOMAIN nodes -> Node]
  BY Parts DEF TypeOK, Node
<1>6. /\ nodes' \in [DOMAIN nodes -> Node] /\ DOMAIN nodes' = DOMAIN nodes
      /\ nodes'[n].prefab = p /\ \A k \in DOMAIN nodes \ {n} : nodes'[k].prefab = nodes[k].prefab
      /\ \A k \in DOMAIN nodes : nodes'[k].proxy = nodes[k].proxy
  BY <1>1, <1>2, <1>5 DEF Node
<1>7. TypeOK'
  BY <1>1, <1>4, <1>6, Parts DEF TypeOK, Node
<1>8. CountsExact'
  <2>1. \A x : MeshUsers(x)' = MeshUsers(x) /\ ShapeBodies(x)' = ShapeBodies(x)
    BY <1>1 DEF MeshUsers, ShapeBodies
  <2>2. \A x : ShapePrefabs(x)' = ShapePrefabs(x)
    BY <1>1, <1>4 DEF ShapePrefabs, Entries
  <2>3. ASSUME NEW t \in Entries(prefabs)
        PROVE  prefabs'[t].refs = Cardinality(PrefabUsers(t)')
    <3>1. PrefabUsers(t) \ {n} = PrefabUsers(t)' \ {n}
      BY <1>6 DEF PrefabUsers
    <3>2. (n \in PrefabUsers(t) <=> t = o) /\ (n \in PrefabUsers(t)' <=> t = p)
      BY <1>6 DEF PrefabUsers, o
    <3>3. /\ Cardinality(PrefabUsers(t)') + (IF t = o THEN 1 ELSE 0)
             = Cardinality(PrefabUsers(t)) + (IF t = p THEN 1 ELSE 0)
          /\ Cardinality(PrefabUsers(t)') \in Nat /\ Cardinality(PrefabUsers(t)) \in Nat
      BY <3>1, <3>2, Users, CountChanges
    <3>4. prefabs[t].refs = Cardinality(PrefabUsers(t))
      BY Parts, Counts
    <3>5. prefabs'[t].refs = prefabs[t].refs + (IF t = p THEN 1 ELSE 0) - (IF t = o THEN 1 ELSE 0)
      <4>1. t \in Entries(m)
        BY <1>3 DEF Entries
      <4>2. prefabs[t].refs \in Int
        BY <3>3, <3>4
      <4> QED BY <1>3, <1>4, <4>1, <4>2
    <3> QED BY <3>3, <3>4, <3>5
  <2>4. Entries(prefabs)' = Entries(prefabs) /\ Entries(meshes)' = Entries(meshes) /\ Entries(shapes)' = Entries(shapes)
    BY <1>1, <1>4 DEF Entries
  <2> QED BY <1>1, <2>1, <2>2, <2>3, <2>4, Parts, Counts, CountsPrimed
<1>9. CountedLive' /\ StubPrefab'
  BY <1>1, <1>2, <1>4, <1>6, Parts DEF CountedLive, StubPrefab
<1>10. ProxiesOwned'
  <2>1. {nodes'[k].proxy : k \in DOMAIN nodes'} = {nodes[k].proxy : k \in DOMAIN nodes}
    BY <1>6
  <2> QED BY <1>1, <1>6, <2>1, Parts DEF ProxiesOwned
<1>11. EngineInv'
  BY <1>1, Parts DEF EngineInv
<1> QED BY <1>7, <1>8, <1>9, <1>10, <1>11 DEF IInv

LEMMA NodeSetProxyInv ==
    ASSUME IInv, NEW n \in DOMAIN nodes, NEW mesh \in MeshIds, NodeSetProxy(n, mesh)
    PROVE  IInv'
<1> DEFINE o == nodes[n].proxy
           old == ProxyDealloc(proxies, meshes, o)
           q == old.q
           m == old.m
           l == Lookup(m, mesh)
<1>1. PICK x \in ProxySlots \ DOMAIN q :
        /\ proxies' = With(q, x, l) /\ meshes' = Reference(m, mesh)
        /\ nodes' = [nodes EXCEPT ![n].proxy = x]
        /\ UNCHANGED <<shapes, prefabs, shape_of, bodies, pending, engine, starts, corrupt>>
  BY DEF NodeSetProxy, ProxyAlloc, engineVars
<1>2. /\ nodes \in [DOMAIN nodes -> Node] /\ Stub \notin DOMAIN proxies
      /\ proxies \in [DOMAIN proxies -> MeshSlots \cup {Stub}] /\ IsFiniteSet(DOMAIN proxies)
      /\ DOMAIN proxies \subseteq ProxySlots
  BY Parts, SlotsAssumption DEF TypeOK, Node
<1>3. o # Stub => o \in DOMAIN proxies
  BY Parts DEF ProxiesOwned
<1>4. /\ q = [y \in DOMAIN proxies \ {o} |-> proxies[y]]
      /\ Database(m, MeshSlots, MeshIds) /\ DOMAIN m = DOMAIN meshes
      /\ \A t \in Entries(meshes) :
            m[t].refs = meshes[t].refs - (IF o # Stub /\ proxies[o] = t THEN 1 ELSE 0)
  <2>1. CASE o = Stub
    <3>1. q = proxies /\ m = meshes
      BY <2>1 DEF ProxyDealloc
    <3>2. proxies = [y \in DOMAIN proxies \ {o} |-> proxies[y]]
      BY <1>2, <2>1
    <3>3. \A t \in Entries(meshes) : meshes[t].refs \in Int
      BY Parts DEF Database, Entries
    <3> QED BY <2>1, <3>1, <3>2, <3>3, Parts
  <2>2. CASE o # Stub
    <3>1. q = [y \in DOMAIN proxies \ {o} |-> proxies[y]] /\ m = Dereference(meshes, proxies[o])
      BY <2>2 DEF ProxyDealloc, Restrict
    <3>2. /\ Database(Dereference(meshes, proxies[o]), MeshSlots, MeshIds)
          /\ DOMAIN Dereference(meshes, proxies[o]) = DOMAIN meshes
          /\ \A t \in Entries(meshes) : Dereference(meshes, proxies[o])[t].refs
                                        = meshes[t].refs - (IF t = proxies[o] THEN 1 ELSE 0)
      BY Parts, DereferenceSound
    <3> QED BY <2>2, <3>1, <3>2
  <2> QED BY <2>1, <2>2
<1> HIDE DEF q, m, old
<1>5. DOMAIN q = DOMAIN proxies \ {o} /\ \A y \in DOMAIN q : q[y] = proxies[y]
  BY <1>4
<1>6. /\ Database(meshes', MeshSlots, MeshIds) /\ DOMAIN meshes' = DOMAIN meshes
      /\ \A t \in Entries(m) : meshes'[t].refs = m[t].refs + (IF t = l THEN 1 ELSE 0)
  BY <1>1, <1>4, ReferenceSound
<1>7. l \in DOMAIN meshes
  BY <1>4, LookupFinds DEF Entries, Database
<1> HIDE DEF l, o
<1>8. /\ DOMAIN proxies' = DOMAIN q \cup {x} /\ proxies'[x] = l /\ x \notin DOMAIN q
      /\ \A y \in DOMAIN q : proxies'[y] = proxies[y]
      /\ proxies' = [y \in DOMAIN proxies' |-> proxies'[y]]
  BY <1>1, <1>5 DEF With
<1>9. /\ nodes' \in [DOMAIN nodes -> Node] /\ DOMAIN nodes' = DOMAIN nodes
      /\ nodes'[n].proxy = x /\ \A k \in DOMAIN nodes \ {n} : nodes'[k].proxy = nodes[k].proxy
      /\ \A k \in DOMAIN nodes : nodes'[k].prefab = nodes[k].prefab
  BY <1>1, <1>2 DEF Node
<1>10. TypeOK'
  <2>1. proxies' \in [DOMAIN proxies' -> MeshSlots \cup {Stub}] /\ DOMAIN proxies' \subseteq ProxySlots
    BY <1>2, <1>5, <1>7, <1>8, Parts DEF Database
  <2>2. IsFiniteSet(DOMAIN q)
    BY <1>2, <1>5, FS_RemoveElement
  <2>3. IsFiniteSet(DOMAIN proxies')
    BY <1>8, <2>2, FS_AddElement
  <2> QED BY <1>1, <1>6, <1>9, <2>1, <2>3, Parts DEF TypeOK, Node
<1>11. CountsExact'
  <2>1. \A t : ShapePrefabs(t)' = ShapePrefabs(t) /\ ShapeBodies(t)' = ShapeBodies(t)
    BY <1>1 DEF ShapePrefabs, ShapeBodies, Entries
  <2>2. \A t : PrefabUsers(t)' = PrefabUsers(t)
    BY <1>9 DEF PrefabUsers
  <2>3. ASSUME NEW t \in Entries(meshes)
        PROVE  meshes'[t].refs = Cardinality(MeshUsers(t)')
    <3> DEFINE U == {y \in DOMAIN q : q[y] = t}
    <3>1. U \ {o} = MeshUsers(t) \ {o} /\ o \notin U
      BY <1>5 DEF MeshUsers
    <3>2. o \in MeshUsers(t) <=> o # Stub /\ proxies[o] = t
      BY <1>2, <1>3 DEF MeshUsers
    <3>3. MeshUsers(t)' \ {x} = U \ {x} /\ x \notin U /\ (x \in MeshUsers(t)' <=> t = l)
      BY <1>5, <1>8 DEF MeshUsers
    <3> HIDE DEF U
    <3>4. /\ Cardinality(U) + (IF o # Stub /\ proxies[o] = t THEN 1 ELSE 0) = Cardinality(MeshUsers(t))
          /\ IsFiniteSet(U) /\ Cardinality(U) \in Nat
      BY <3>1, <3>2, Users, CountChanges
    <3>5. Cardinality(MeshUsers(t)') = Cardinality(U) + (IF t = l THEN 1 ELSE 0)
      BY <3>3, <3>4, CountChanges
    <3>6. meshes[t].refs = Cardinality(MeshUsers(t)) /\ Cardinality(MeshUsers(t)) \in Nat
      BY Parts, Counts, Users
    <3>7. m[t].refs = Cardinality(U)
      BY <1>4, <3>4, <3>6
    <3> QED BY <1>4, <1>6, <3>4, <3>5, <3>7 DEF Entries
  <2>4. Entries(prefabs)' = Entries(prefabs) /\ Entries(meshes)' = Entries(meshes) /\ Entries(shapes)' = Entries(shapes)
    BY <1>1, <1>6 DEF Entries
  <2> QED BY <1>1, <2>1, <2>2, <2>3, <2>4, Parts, Counts, CountsPrimed
<1>12. CountedLive' /\ StubPrefab'
  BY <1>1, <1>5, <1>6, <1>7, <1>8, <1>9, Parts DEF CountedLive, StubPrefab
<1>13. ProxiesOwned'
  <2>1. /\ DOMAIN proxies = {nodes[k].proxy : k \in DOMAIN nodes} \ {Stub}
        /\ \A j, k \in DOMAIN nodes : j # k /\ nodes[j].proxy # Stub => nodes[j].proxy # nodes[k].proxy
    BY Parts DEF ProxiesOwned
  <2>2. x # Stub
    BY <1>1, SlotsAssumption
  <2>3. \A k \in DOMAIN nodes \ {n} : nodes[k].proxy # Stub => nodes[k].proxy \in DOMAIN q
    BY <1>5, <2>1 DEF o
  <2>4. \A y \in DOMAIN q : \E k \in DOMAIN nodes \ {n} : nodes[k].proxy = y
    BY <1>5, <2>1 DEF o
  <2>5. DOMAIN proxies' \subseteq {nodes'[k].proxy : k \in DOMAIN nodes'} \ {Stub}
    BY <1>2, <1>5, <1>8, <1>9, <2>2, <2>4
  <2>6. {nodes'[k].proxy : k \in DOMAIN nodes'} \ {Stub} \subseteq DOMAIN proxies'
    BY <1>8, <1>9, <2>3
  <2>7. \A j, k \in DOMAIN nodes' : j # k /\ nodes'[j].proxy # Stub => nodes'[j].proxy # nodes'[k].proxy
    BY <1>8, <1>9, <2>1, <2>2, <2>3
  <2> QED BY <2>5, <2>6, <2>7 DEF ProxiesOwned
<1>14. EngineInv'
  BY <1>1, Parts DEF EngineInv
<1> QED BY <1>10, <1>11, <1>12, <1>13, <1>14 DEF IInv

-----------------------------------------------------------------------------
(* The engine and the frame.                                                *)

LEMMA EngineInvKept ==
    ASSUME IInv, Engine
    PROVE  IInv'
<1>1. UNCHANGED <<shapes, prefabs, meshes, shape_of, nodes, proxies, bodies, engine, starts, corrupt>>
  BY DEF Engine, dbVars
<1>2. pending' \in EngineState /\ (pending'.running => pending'.initialised)
  <2>1. pending \in EngineState /\ (pending.running => pending.initialised)
    BY Parts DEF TypeOK, EngineInv
  <2>2. CASE Run
    BY <2>2 DEF Run, EngineState
  <2>3. CASE Pause
    BY <2>1, <2>3 DEF Pause, EngineState
  <2>4. CASE Stop
    BY <2>4 DEF Stop, Idle, EngineState
  <2> QED BY <2>2, <2>3, <2>4 DEF Engine
<1>3. TypeOK'
  BY <1>1, <1>2, Parts DEF TypeOK
<1>4. CountsExact'
  BY <1>1, Parts DEF CountsExact, Entries
<1>5. CountedLive' /\ StubPrefab' /\ ProxiesOwned' /\ EngineInv'
  BY <1>1, <1>2, Parts DEF CountedLive, StubPrefab, ProxiesOwned, EngineInv
<1> QED BY <1>3, <1>4, <1>5 DEF IInv

\* The proxies of the marked nodes with mesh t are as many as those nodes, since each
\* proxy is of one node.
LEMMA MarkedProxies ==
    ASSUME IInv, NEW t \in Entries(meshes)
    PROVE  MeshUses[t] = Cardinality(MeshUsers(t) \cap {nodes[n].proxy : n \in Marked})
<1> DEFINE W == {n \in Marked : nodes[n].proxy # Stub /\ proxies[nodes[n].proxy] = t}
           T == MeshUsers(t) \cap {nodes[n].proxy : n \in Marked}
           f == [n \in W |-> nodes[n].proxy]
<1>1. MeshUses[t] = Cardinality(W)
  BY DEF MeshUses, Entries
<1>2. /\ DOMAIN proxies = {nodes[n].proxy : n \in DOMAIN nodes} \ {Stub}
      /\ \A j, k \in DOMAIN nodes : j # k /\ nodes[j].proxy # Stub => nodes[j].proxy # nodes[k].proxy
  BY Parts DEF ProxiesOwned
<1>3. Marked \subseteq DOMAIN nodes /\ IsFiniteSet(W)
  BY Parts, FS_Subset DEF Marked, TypeOK
<1>4. f \in [W -> T]
  BY <1>2, <1>3 DEF MeshUsers
<1>5. \A j, k \in W : f[j] = f[k] => j = k
  BY <1>2, <1>3
<1>6. \A x \in T : \E n \in W : f[n] = x
  BY <1>2, <1>3 DEF MeshUsers
<1> HIDE DEF W, T, f
<1>7. f \in Bijection(W, T)
  BY <1>4, <1>5, <1>6 DEF Bijection, Injection, Surjection, IsInjective
<1>8. Cardinality(T) = Cardinality(W)
  BY <1>3, <1>7, FS_Bijection DEF ExistsBijection
<1> QED BY <1>1, <1>8 DEF T

LEMMA NewBodiesSound ==
    ASSUME IInv
    PROVE  /\ NewBodies \subseteq [entity : NodeSlots, shape : ShapeSlots \cup {Stub}]
           /\ \A b \in NewBodies : b.shape \in DOMAIN shapes
           /\ IsFiniteSet(NewBodies)
<1> DEFINE S == {m \in Unmarked : nodes[m].physics}
           f == [n \in S |-> [entity |-> n, shape |-> shape_of[nodes[n].prefab]]]
<1>1. S \subseteq DOMAIN nodes /\ NewBodies = {f[n] : n \in S}
  BY DEF NewBodies, Unmarked
<1>2. \A n \in S : shape_of[nodes[n].prefab] \in DOMAIN shapes
  BY <1>1, Parts DEF CountedLive
<1>3. \A n \in S : f[n] \in [entity : NodeSlots, shape : ShapeSlots \cup {Stub}] /\ f[n].shape \in DOMAIN shapes
  BY <1>1, <1>2, Parts DEF TypeOK, Database
<1>4. IsFiniteSet(S)
  BY <1>1, Parts, FS_Subset DEF TypeOK
<1> HIDE DEF S
<1>5. f \in Surjection(S, {f[n] : n \in S})
  BY DEF Surjection
<1> HIDE DEF f
<1>6. IsFiniteSet(NewBodies)
  BY <1>1, <1>4, <1>5, FS_Surjection
<1> QED BY <1>1, <1>3, <1>6

LEMMA FrameInv ==
    ASSUME IInv, Frame
    PROVE  IInv'
<1> DEFINE R == {nodes[n].proxy : n \in Marked}
<1>1. /\ nodes' = [n \in Unmarked |-> nodes[n]]
      /\ proxies' = [x \in DOMAIN proxies \ R |-> proxies[x]]
      /\ prefabs' = LetGo(prefabs, PrefabUses) /\ meshes' = LetGo(meshes, MeshUses)
      /\ bodies' = BodiesAfter /\ shapes' = ShapesAfter
      /\ engine' = pending /\ UNCHANGED <<shape_of, pending, corrupt>>
      /\ starts' = IF EngineStarts THEN starts + 1 ELSE starts
      /\ EngineStarts => starts < MaxStarts
  BY DEF Frame, RemoveMarked, Restrict
<1> HIDE DEF R
<1>2. /\ DOMAIN nodes' = DOMAIN nodes \ Marked /\ \A n \in DOMAIN nodes' : nodes'[n] = nodes[n]
      /\ DOMAIN proxies' = DOMAIN proxies \ R /\ \A x \in DOMAIN proxies' : proxies'[x] = proxies[x]
  BY <1>1 DEF Unmarked
<1>3. /\ DOMAIN prefabs' = DOMAIN prefabs /\ DOMAIN meshes' = DOMAIN meshes /\ DOMAIN shapes' = DOMAIN shapes
      /\ Entries(prefabs)' = Entries(prefabs) /\ Entries(meshes)' = Entries(meshes)
      /\ Entries(shapes)' = Entries(shapes)
  BY <1>1 DEF LetGo, ShapesAfter, Entries
<1>4. /\ \A t \in Entries(prefabs) : prefabs[t].refs = Cardinality(PrefabUsers(t)) /\ prefabs[t].refs \in Int
      /\ \A t \in Entries(meshes) : meshes[t].refs = Cardinality(MeshUsers(t)) /\ meshes[t].refs \in Int
      /\ \A t \in Entries(shapes) : shapes[t].refs \in Int
            /\ shapes[t].refs >= Cardinality(ShapePrefabs(t)) + Cardinality(ShapeBodies(t))
  BY Parts, Counts DEF Database, Entries
<1>5. ASSUME NEW t \in Entries(prefabs)
      PROVE  /\ prefabs'[t].refs = Cardinality(PrefabUsers(t)') /\ Cardinality(PrefabUsers(t)') \in Nat
             /\ prefabs'[t] = [id |-> prefabs[t].id, refs |-> prefabs'[t].refs]
  <2>1. /\ prefabs'[t].refs = prefabs[t].refs - PrefabUses[t]
        /\ prefabs'[t] = [id |-> prefabs[t].id, refs |-> prefabs'[t].refs]
    <3>1. prefabs'[t] = [prefabs[t] EXCEPT !.refs = @ - PrefabUses[t]]
      BY <1>1 DEF LetGo, Entries
    <3>2. prefabs[t] \in [id : PrefabIds \cup {NoId}, refs : Int]
      BY Parts DEF Database, Entries
    <3> QED BY <3>1, <3>2
  <2>2. PrefabUses[t] = Cardinality(PrefabUsers(t) \cap Marked)
    <3>1. {n \in Marked : nodes[n].prefab = t} = PrefabUsers(t) \cap Marked
      BY DEF PrefabUsers, Marked
    <3> QED BY <3>1 DEF PrefabUses, Entries
  <2>3. PrefabUsers(t)' = PrefabUsers(t) \ Marked
    BY <1>2 DEF PrefabUsers
  <2>4. /\ Cardinality(PrefabUsers(t)') = Cardinality(PrefabUsers(t)) - Cardinality(PrefabUsers(t) \cap Marked)
        /\ Cardinality(PrefabUsers(t)') \in Nat
    BY <2>3, Users, CountTaken
  <2> QED BY <1>4, <2>1, <2>2, <2>4
<1>6. ASSUME NEW t \in Entries(meshes)
      PROVE  /\ meshes'[t].refs = Cardinality(MeshUsers(t)') /\ Cardinality(MeshUsers(t)') \in Nat
             /\ meshes'[t] = [id |-> meshes[t].id, refs |-> meshes'[t].refs]
  <2>1. /\ meshes'[t].refs = meshes[t].refs - MeshUses[t]
        /\ meshes'[t] = [id |-> meshes[t].id, refs |-> meshes'[t].refs]
    <3>1. meshes'[t] = [meshes[t] EXCEPT !.refs = @ - MeshUses[t]]
      BY <1>1 DEF LetGo, Entries
    <3>2. meshes[t] \in [id : MeshIds \cup {NoId}, refs : Int]
      BY Parts DEF Database, Entries
    <3> QED BY <3>1, <3>2
  <2>2. MeshUses[t] = Cardinality(MeshUsers(t) \cap R)
    BY MarkedProxies DEF R
  <2>3. MeshUsers(t)' = MeshUsers(t) \ R
    BY <1>2 DEF MeshUsers
  <2>4. /\ Cardinality(MeshUsers(t)') = Cardinality(MeshUsers(t)) - Cardinality(MeshUsers(t) \cap R)
        /\ Cardinality(MeshUsers(t)') \in Nat
    BY <2>3, Users, CountTaken
  <2> QED BY <1>4, <2>1, <2>2, <2>4
<1>7. \A t \in Entries(shapes) : NewUses[t] = IF EngineStarts THEN Cardinality({b \in NewBodies : b.shape = t}) ELSE 0
  BY DEF NewUses, Entries
<1>8. \A t : IsFiniteSet({b \in NewBodies : b.shape = t}) /\ Cardinality({b \in NewBodies : b.shape = t}) \in Nat
  BY NewBodiesSound, FS_Subset, FS_CardinalityType
<1>9. ASSUME NEW t \in Entries(shapes)
      PROVE  /\ shapes'[t].refs \in Int /\ shapes'[t] = [id |-> shapes[t].id, refs |-> shapes'[t].refs]
             /\ shapes'[t].refs >= Cardinality(ShapePrefabs(t)') + Cardinality(ShapeBodies(t)')
  <2>1. /\ shapes'[t].refs = shapes[t].refs + NewUses[t]
        /\ shapes'[t] = [id |-> shapes[t].id, refs |-> shapes'[t].refs]
    <3>1. shapes'[t] = [shapes[t] EXCEPT !.refs = @ + NewUses[t]]
      BY <1>1 DEF ShapesAfter, Entries
    <3>2. shapes[t] \in [id : ShapeIds \cup {NoId}, refs : Int]
      BY Parts DEF Database, Entries
    <3> QED BY <3>1, <3>2
  <2>2. ShapePrefabs(t)' = ShapePrefabs(t)
    BY <1>1, <1>3 DEF ShapePrefabs
  <2>3. CASE EngineStarts
    <3>1. bodies = {} /\ ShapeBodies(t)' = {b \in NewBodies : b.shape = t}
      BY <1>1, <2>3, Parts DEF EngineStarts, EngineInv, BodiesAfter, ShapeBodies
    <3>2. Cardinality(ShapeBodies(t)') = NewUses[t] /\ NewUses[t] \in Nat
      BY <1>7, <1>8, <2>3, <3>1
    <3>3. Cardinality(ShapePrefabs(t)) \in Nat /\ Cardinality(ShapeBodies(t)) \in Nat
      BY Users
    <3> QED BY <1>4, <2>1, <2>2, <3>2, <3>3
  <2>4. CASE ~EngineStarts
    <3>1. ShapeBodies(t)' = {} \/ ShapeBodies(t)' = ShapeBodies(t)
      BY <1>1, <2>4 DEF BodiesAfter, ShapeBodies
    <3>2. Cardinality(ShapeBodies(t)') \in Nat /\ Cardinality(ShapeBodies(t)') <= Cardinality(ShapeBodies(t))
      BY <3>1, Users, FS_EmptySet
    <3> QED BY <1>4, <1>7, <2>1, <2>2, <2>4, <3>2, Users
  <2> QED BY <2>3, <2>4
<1>10. CountsExact'
  BY <1>3, <1>5, <1>6, <1>9, CountsPrimed
<1>11. TypeOK'
  <2>1. Database(prefabs', PrefabSlots, PrefabIds)
    <3>1. prefabs' = [t \in DOMAIN prefabs |-> prefabs'[t]] /\ prefabs'[Stub] = prefabs[Stub]
      BY <1>1, Parts DEF LetGo, Database
    <3> QED BY <1>5, <3>1, Parts, BulkSound
  <2>2. Database(meshes', MeshSlots, MeshIds)
    <3>1. meshes' = [t \in DOMAIN meshes |-> meshes'[t]] /\ meshes'[Stub] = meshes[Stub]
      BY <1>1, Parts DEF LetGo, Database
    <3> QED BY <1>6, <3>1, Parts, BulkSound
  <2>3. Database(shapes', ShapeSlots, ShapeIds)
    <3>1. shapes' = [t \in DOMAIN shapes |-> shapes'[t]] /\ shapes'[Stub] = shapes[Stub]
      BY <1>1, Parts DEF ShapesAfter, Database
    <3> QED BY <1>9, <3>1, Parts, BulkSound
  <2>4. nodes' \in [DOMAIN nodes' -> Node] /\ DOMAIN nodes' \subseteq NodeSlots /\ IsFiniteSet(DOMAIN nodes')
    <3>1. nodes \in [DOMAIN nodes -> Node] /\ DOMAIN nodes \subseteq NodeSlots /\ IsFiniteSet(DOMAIN nodes)
      BY Parts DEF TypeOK, Node
    <3>2. DOMAIN nodes' = Unmarked /\ Unmarked \subseteq DOMAIN nodes
      BY <1>1 DEF Unmarked
    <3> QED BY <1>1, <3>1, <3>2, FS_Subset
  <2>5. /\ proxies' \in [DOMAIN proxies' -> MeshSlots \cup {Stub}] /\ DOMAIN proxies' \subseteq ProxySlots
        /\ IsFiniteSet(DOMAIN proxies')
    <3>1. /\ proxies \in [DOMAIN proxies -> MeshSlots \cup {Stub}] /\ DOMAIN proxies \subseteq ProxySlots
          /\ IsFiniteSet(DOMAIN proxies)
      BY Parts DEF TypeOK
    <3> QED BY <1>1, <1>2, <3>1, FS_Subset
  <2>6. bodies' \subseteq [entity : NodeSlots, shape : ShapeSlots \cup {Stub}] /\ IsFiniteSet(bodies')
    BY <1>1, Parts, NewBodiesSound, FS_EmptySet DEF TypeOK, BodiesAfter
  <2>7. starts' \in 0..MaxStarts
    BY <1>1, Parts, MaxStartsAssumption DEF TypeOK
  <2> QED BY <1>1, <1>3, <2>1, <2>2, <2>3, <2>4, <2>5, <2>6, <2>7, Parts DEF TypeOK, Node
<1>12. CountedLive' /\ StubPrefab'
  <2>1. \A b \in bodies' : b.shape \in DOMAIN shapes
    BY <1>1, NewBodiesSound, Parts DEF BodiesAfter, CountedLive
  <2> QED BY <1>1, <1>2, <1>3, <2>1, Parts DEF CountedLive, StubPrefab
<1>13. ProxiesOwned'
  <2>1. /\ DOMAIN proxies = {nodes[n].proxy : n \in DOMAIN nodes} \ {Stub}
        /\ \A j, k \in DOMAIN nodes : j # k /\ nodes[j].proxy # Stub => nodes[j].proxy # nodes[k].proxy
    BY Parts DEF ProxiesOwned
  <2>2. Marked \subseteq DOMAIN nodes
    BY DEF Marked
  <2>3. DOMAIN proxies' = {nodes'[n].proxy : n \in DOMAIN nodes'} \ {Stub}
    BY <1>2, <2>1, <2>2 DEF R
  <2> QED BY <1>2, <2>1, <2>3 DEF ProxiesOwned
<1>14. EngineInv'
  BY <1>1, Parts DEF EngineInv, BodiesAfter, EngineStarts, EngineStops
<1> QED BY <1>10, <1>11, <1>12, <1>13, <1>14 DEF IInv

-----------------------------------------------------------------------------
(* The theorems.                                                            *)

LEMMA InitInv == Init => IInv
<1> SUFFICES ASSUME Init PROVE IInv
  OBVIOUS
<1>1. /\ shapes = NewDatabase /\ prefabs = NewDatabase /\ meshes = NewDatabase
      /\ shape_of = [p \in {Stub} |-> Stub] /\ DOMAIN nodes = {} /\ nodes = [n \in {} |-> Stub]
      /\ DOMAIN proxies = {} /\ proxies = [x \in {} |-> Stub]
      /\ bodies = {} /\ pending = Idle /\ engine = Idle /\ starts = 0 /\ corrupt = FALSE
  BY DEF Init
<1>2. /\ Database(shapes, ShapeSlots, ShapeIds) /\ Database(prefabs, PrefabSlots, PrefabIds)
      /\ Database(meshes, MeshSlots, MeshIds)
      /\ DOMAIN shapes = {Stub} /\ DOMAIN prefabs = {Stub} /\ DOMAIN meshes = {Stub}
  BY <1>1, NewDatabaseSound
<1>3. IsFiniteSet({}) /\ IsFiniteSet({Stub})
  BY FS_EmptySet, FS_Singleton
<1>4. Idle \in EngineState /\ ~Idle.initialised /\ ~Idle.running
  BY DEF Idle, EngineState
<1>5. TypeOK
  <2>1. nodes \in [DOMAIN nodes -> Node] /\ proxies \in [DOMAIN proxies -> MeshSlots \cup {Stub}]
    BY <1>1
  <2>2. shape_of \in [DOMAIN prefabs -> ShapeSlots \cup {Stub}]
    BY <1>1, <1>2
  <2>3. IsFiniteSet(DOMAIN prefabs) /\ IsFiniteSet(DOMAIN nodes) /\ IsFiniteSet(DOMAIN proxies) /\ IsFiniteSet(bodies)
    BY <1>1, <1>2, <1>3
  <2>4. /\ DOMAIN nodes \subseteq NodeSlots /\ DOMAIN proxies \subseteq ProxySlots
        /\ bodies \subseteq [entity : NodeSlots, shape : ShapeSlots \cup {Stub}]
    BY <1>1
  <2>5. starts \in 0..MaxStarts
    <3>1. starts = 0
      BY <1>1
    <3> QED BY <3>1, MaxStartsAssumption
  <2>6. corrupt \in BOOLEAN
    BY <1>1
  <2> QED BY <1>1, <1>2, <1>4, <2>1, <2>2, <2>3, <2>4, <2>5, <2>6 DEF TypeOK, Node
<1>6. Entries(shapes) = {} /\ Entries(prefabs) = {} /\ Entries(meshes) = {}
  BY <1>2 DEF Entries
<1>7. CountsExact
  BY <1>6 DEF CountsExact
<1>8. CountedLive /\ StubPrefab /\ ProxiesOwned
  BY <1>1, <1>2 DEF CountedLive, StubPrefab, ProxiesOwned
<1>9. EngineInv
  BY <1>1, <1>4 DEF EngineInv
<1> QED BY <1>5, <1>7, <1>8, <1>9 DEF IInv

LEMMA StutterInv ==
    ASSUME IInv, UNCHANGED vars
    PROVE  IInv'
<1>1. UNCHANGED <<shapes, prefabs, meshes, shape_of, nodes, proxies, bodies, pending, engine, starts, corrupt>>
  BY DEF vars, dbVars, engineVars
<1>2. TypeOK'
  BY <1>1, Parts DEF TypeOK
<1>3. CountsExact'
  BY <1>1, Parts DEF CountsExact, Entries
<1>4. CountedLive' /\ StubPrefab' /\ ProxiesOwned' /\ EngineInv'
  BY <1>1, Parts DEF CountedLive, StubPrefab, ProxiesOwned, EngineInv
<1> QED BY <1>2, <1>3, <1>4 DEF IInv

LEMMA StepInv ==
    ASSUME IInv, [Next]_vars
    PROVE  IInv'
<1>1. ASSUME NEW i \in ShapeIds, ShapeAdd(i) \/ ShapeRemove(i)
      PROVE  IInv'
  BY <1>1, ShapeAddInv, ShapeRemoveInv
<1>2. ASSUME NEW i \in MeshIds, MeshAdd(i) \/ MeshRemove(i)
      PROVE  IInv'
  BY <1>2, MeshAddInv, MeshRemoveInv
<1>3. ASSUME NEW i \in PrefabIds, PrefabRemove(i) \/ \E shape \in ShapeIds : PrefabAdd(i, shape)
      PROVE  IInv'
  BY <1>3, PrefabRemoveInv, PrefabAddInv
<1>4. ASSUME NEW p \in Entries(prefabs), NEW s \in Entries(shapes), PrefabSetShape(p, s)
      PROVE  IInv'
  BY <1>4, PrefabSetShapeInv
<1>5. ASSUME NEW i \in NodeIds, NodeAdd(i)
      PROVE  IInv'
  BY <1>5, NodeAddInv
<1>6. ASSUME NEW n \in DOMAIN nodes,
             \/ NodeRemove(n)
             \/ \E prefab \in PrefabIds : NodeSetPrefab(n, prefab)
             \/ \E mesh \in MeshIds : NodeSetProxy(n, mesh)
      PROVE  IInv'
  BY <1>6, NodeRemoveInv, NodeSetPrefabInv, NodeSetProxyInv
<1>7. CASE Engine
  BY <1>7, EngineInvKept
<1>8. CASE Frame
  BY <1>8, FrameInv
<1>9. CASE UNCHANGED vars
  BY <1>9, StutterInv
<1>10. ASSUME Command
       PROVE  IInv'
  BY <1>1, <1>2, <1>3, <1>4, <1>5, <1>6, <1>7, <1>10 DEF Command
<1> QED BY <1>8, <1>9, <1>10 DEF Next

\* The invariant behind the others, for any names, slots and number of starts.
THEOREM InvariantHolds == Spec => []IInv
<1>1. Init => IInv
  BY InitInv
<1>2. IInv /\ [Next]_vars => IInv'
  BY StepInv
<1> QED BY <1>1, <1>2, PTL DEF Spec

\* Reference counts are what the handles add up to, whatever is added, removed and
\* replaced between the frames that remove marked nodes and start or stop the engine.
THEOREM CountsExactTheorem == Spec => []CountsExact
<1>1. IInv => CountsExact
  BY DEF IInv
<1> QED BY <1>1, InvariantHolds, PTL

\* Every proxy belongs to one node and is given back with it.
THEOREM ProxiesOwnedTheorem == Spec => []ProxiesOwned
<1>1. IInv => ProxiesOwned
  BY DEF IInv
<1> QED BY <1>1, InvariantHolds, PTL

-----------------------------------------------------------------------------
(* The bodies of the pipeline.                                              *)

BodiesStep ==
    /\ ~engine'.initialised => bodies' = {} /\ ~engine'.running
    /\ bodies' # bodies => engine'.initialised # engine.initialised
    /\ bodies = {} /\ bodies' # {} => {b.entity : b \in bodies'} = {n \in DOMAIN nodes' : nodes'[n].physics}

LEMMA FrameBodies ==
    ASSUME IInv, Frame
    PROVE  BodiesStep
<1>1. bodies' = BodiesAfter /\ engine' = pending /\ nodes' = [n \in Unmarked |-> nodes[n]]
  BY DEF Frame, RemoveMarked, Restrict
<1>2. EngineInv
  BY Parts
<1>3. bodies' # bodies => engine'.initialised # engine.initialised
  <2>1. pending.initialised \in BOOLEAN /\ engine.initialised \in BOOLEAN
    BY Parts DEF TypeOK, EngineState
  <2> QED BY <1>1, <2>1 DEF BodiesAfter, EngineStarts, EngineStops
<1>4. ~engine'.initialised => bodies' = {} /\ ~engine'.running
  BY <1>1, <1>2 DEF EngineInv, BodiesAfter, EngineStarts, EngineStops
<1>5. ASSUME bodies = {}, bodies' # {}
      PROVE  {b.entity : b \in bodies'} = {n \in DOMAIN nodes' : nodes'[n].physics}
  <2>1. bodies' = NewBodies
    BY <1>1, <1>5 DEF BodiesAfter
  <2>2. DOMAIN nodes' = Unmarked /\ \A n \in Unmarked : nodes'[n] = nodes[n]
    BY <1>1
  <2>3. {b.entity : b \in NewBodies} = {n \in Unmarked : nodes[n].physics}
    <3>1. \A n : [entity |-> n, shape |-> shape_of[nodes[n].prefab]].entity = n
      OBVIOUS
    <3>2. ASSUME NEW b \in NewBodies PROVE b.entity \in {n \in Unmarked : nodes[n].physics}
      BY <3>1 DEF NewBodies
    <3>3. ASSUME NEW n \in Unmarked, nodes[n].physics PROVE \E b \in NewBodies : b.entity = n
      <4>1. [entity |-> n, shape |-> shape_of[nodes[n].prefab]] \in NewBodies
        BY <3>3 DEF NewBodies
      <4> QED BY <3>1, <4>1
    <3> QED BY <3>2, <3>3
  <2> QED BY <2>1, <2>2, <2>3
<1> QED BY <1>3, <1>4, <1>5 DEF BodiesStep

LEMMA CommandBodies ==
    ASSUME Command
    PROVE  UNCHANGED <<bodies, engine>>
BY DEF Command, ShapeAdd, ShapeRemove, MeshAdd, MeshRemove, PrefabAdd, PrefabRemove, PrefabSetShape,
       NodeAdd, NodeRemove, NodeSetPrefab, NodeSetProxy, Engine, engineVars

\* The bodies change only in a frame that starts or stops the engine, and are then those
\* of the nodes with a prefab, or none.
THEOREM BodiesFollowEngineTheorem == Spec => BodiesFollowEngine
<1>1. IInv /\ [Next]_vars => [BodiesStep]_vars
  <2> SUFFICES ASSUME IInv, [Next]_vars PROVE [BodiesStep]_vars
    OBVIOUS
  <2>1. CASE Command
    BY <2>1, CommandBodies, Parts DEF BodiesStep, EngineInv
  <2>2. CASE Frame
    BY <2>2, FrameBodies
  <2> QED BY <2>1, <2>2 DEF Next
<1>2. BodiesFollowEngine <=> [][BodiesStep]_vars
  BY DEF BodiesFollowEngine, BodiesStep
<1> QED BY <1>1, <1>2, InvariantHolds, PTL DEF Spec

-----------------------------------------------------------------------------
(* The handles.                                                             *)

HandlesStep == CountedLive' /\ \A b \in bodies' : EntityKept(b)

\* No command takes the node of a body away: a removal only marks it, and a node that is
\* added is none of those there are.
LEMMA CommandEntity ==
    ASSUME IInv, Command, NEW b \in bodies
    PROVE  EntityKept(b)
<1> SUFFICES ASSUME EntityLive(b) PROVE EntityLive(b)'
  BY DEF EntityKept
<1> DEFINE e == b.entity
<1>1. e \in DOMAIN nodes /\ nodes[e].physics
  BY DEF EntityLive
<1>2. CASE UNCHANGED nodes
  BY <1>1, <1>2 DEF EntityLive
<1>3. ASSUME NEW i \in NodeIds, NodeAdd(i)
      PROVE  EntityLive(b)'
  <2>1. PICK n \in NodeSlots \ DOMAIN nodes :
          nodes' = With(nodes, n, [id |-> i, prefab |-> Stub, proxy |-> Stub, physics |-> FALSE, marked |-> FALSE])
    BY <1>3 DEF NodeAdd
  <2>2. e \in DOMAIN nodes' /\ nodes'[e] = nodes[e]
    BY <1>1, <2>1 DEF With
  <2> QED BY <1>1, <2>2 DEF EntityLive
<1>4. ASSUME NEW n \in DOMAIN nodes, NodeRemove(n)
      PROVE  EntityLive(b)'
  <2>1. nodes' = nodes \/ nodes' = [nodes EXCEPT ![n].marked = TRUE]
    BY <1>4 DEF NodeRemove
  <2>2. nodes[n] \in Node
    BY Parts DEF TypeOK, Node
  <2>3. e \in DOMAIN nodes' /\ nodes'[e].physics
    BY <1>1, <2>1, <2>2 DEF Node
  <2> QED BY <2>3 DEF EntityLive
<1>5. ASSUME NEW n \in DOMAIN nodes, NEW prefab \in PrefabIds, NodeSetPrefab(n, prefab)
      PROVE  EntityLive(b)'
  <2>1. PICK p : nodes' = [nodes EXCEPT ![n].prefab = p, ![n].physics = TRUE]
    BY <1>5 DEF NodeSetPrefab
  <2>2. nodes[n] \in Node
    BY Parts DEF TypeOK, Node
  <2>3. e \in DOMAIN nodes' /\ nodes'[e].physics
    BY <1>1, <2>1, <2>2 DEF Node
  <2> QED BY <2>3 DEF EntityLive
<1>6. ASSUME NEW n \in DOMAIN nodes, NEW mesh \in MeshIds, NodeSetProxy(n, mesh)
      PROVE  EntityLive(b)'
  <2>1. PICK x : nodes' = [nodes EXCEPT ![n].proxy = x]
    BY <1>6 DEF NodeSetProxy
  <2>2. nodes[n] \in Node
    BY Parts DEF TypeOK, Node
  <2>3. e \in DOMAIN nodes' /\ nodes'[e].physics
    BY <1>1, <2>1, <2>2 DEF Node
  <2> QED BY <2>3 DEF EntityLive
<1>7. \/ UNCHANGED nodes
      \/ \E i \in NodeIds : NodeAdd(i)
      \/ \E n \in DOMAIN nodes :
          \/ NodeRemove(n)
          \/ \E prefab \in PrefabIds : NodeSetPrefab(n, prefab)
          \/ \E mesh \in MeshIds : NodeSetProxy(n, mesh)
  BY DEF Command, ShapeAdd, ShapeRemove, MeshAdd, MeshRemove, PrefabAdd, PrefabRemove, PrefabSetShape, Engine
<1> QED BY <1>2, <1>3, <1>4, <1>5, <1>6, <1>7

\* A frame removes marked nodes only, and does so before it makes bodies.
LEMMA FrameEntity ==
    ASSUME IInv, Frame, NEW b \in bodies'
    PROVE  EntityKept(b)
<1>1. bodies' = BodiesAfter /\ nodes' = [n \in Unmarked |-> nodes[n]]
  BY DEF Frame, RemoveMarked, Restrict
<1>2. CASE EngineStarts
  <2>1. PICK n \in Unmarked : nodes[n].physics /\ b = [entity |-> n, shape |-> shape_of[nodes[n].prefab]]
    BY <1>1, <1>2 DEF BodiesAfter, NewBodies
  <2>2. b.entity = n
    BY <2>1
  <2>3. EntityLive(b)'
    BY <1>1, <2>1, <2>2 DEF EntityLive
  <2> QED BY <2>3 DEF EntityKept
<1>3. CASE ~EngineStarts
  <2>1. b \in bodies
    BY <1>1, <1>3 DEF BodiesAfter
  <2>2. ASSUME EntityLive(b), ~nodes[b.entity].marked PROVE EntityLive(b)'
    BY <1>1, <2>2 DEF EntityLive, Unmarked, Marked
  <2> QED BY <2>1, <2>2 DEF EntityKept
<1> QED BY <1>2, <1>3

\* No prefab, node, proxy or body names the slot of a shape, a prefab or a mesh that was
\* given back.  A body is made for a node that is there and loses it only when that node
\* was marked for removal, for any names, slots and order of commands and frames.
THEOREM HandlesLiveTheorem == Spec => HandlesLive
<1>1. IInv /\ [Next]_vars => [HandlesStep]_vars
  <2> SUFFICES ASSUME IInv, [Next]_vars, vars' # vars PROVE HandlesStep
    OBVIOUS
  <2>1. CountedLive'
    BY StepInv DEF IInv
  <2>2. CASE Command
    BY <2>1, <2>2, CommandBodies, CommandEntity DEF HandlesStep
  <2>3. CASE Frame
    BY <2>1, <2>3, FrameEntity DEF HandlesStep
  <2> QED BY <2>2, <2>3 DEF Next
<1>2. HandlesLive <=> [][HandlesStep]_vars
  BY DEF HandlesLive, HandlesStep
<1> QED BY <1>1, <1>2, InvariantHolds, PTL DEF Spec
=============================================================================
