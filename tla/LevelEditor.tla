---------------------------- MODULE LevelEditor -----------------------------
(***************************************************************************)
(* The level editor (led/led_core.c): nodes, the prefabs, shapes and       *)
(* render meshes they use, and the physics engine the editor starts,       *)
(* pauses and stops.  A command (typed into the console, or chosen in a    *)
(* menu) is one step, a frame of led_core is one step: both run on the     *)
(* main thread, in any order.                                              *)
(*                                                                         *)
(* A node names its prefab and its proxy, a prefab its shape, a proxy its  *)
(* mesh and a body its shape and its node, by slot.  Positions, colours    *)
(* and the simulation itself are left out; no code adds a csg brush, so    *)
(* that led_node_set_csg_brush finds none and changes nothing.             *)
(***************************************************************************)
EXTENDS StringDatabase

CONSTANTS
    ShapeIds, PrefabIds, MeshIds, NodeIds,
    ShapeSlots, PrefabSlots, MeshSlots, NodeSlots, ProxySlots,  \* the slots of each pool
    MaxStarts       \* bound: how often the engine is started

ASSUME SlotsAssumption == Stub \notin ShapeSlots \cup PrefabSlots \cup MeshSlots \cup NodeSlots \cup ProxySlots
ASSUME MaxStartsAssumption == MaxStarts \in Nat

VARIABLES
    shapes, prefabs, meshes,    \* the string databases cs_db, rb_prefab_db, render_mesh_db
    shape_of,                   \* prefab -> the slot of its shape
    nodes,                      \* node_pool: slot -> node
    proxies,                    \* the render proxies: slot -> the slot of the mesh
    bodies,                     \* the bodies in the physics pipeline
    pending, engine,            \* initialised, running, paused: as asked for and as they are
    starts,                     \* how often the engine was started
    corrupt                     \* the lists of nodes were damaged

dbVars == <<shapes, prefabs, meshes, shape_of>>
engineVars == <<bodies, pending, engine, starts>>
vars == <<dbVars, nodes, proxies, engineVars, corrupt>>

Idle == [initialised |-> FALSE, running |-> FALSE, paused |-> FALSE]

Init ==
    /\ shapes = NewDatabase /\ prefabs = NewDatabase /\ meshes = NewDatabase
    /\ shape_of = [p \in {Stub} |-> Stub]
    /\ nodes = <<>> /\ proxies = <<>> /\ bodies = {}
    /\ pending = Idle /\ engine = Idle
    /\ starts = 0 /\ corrupt = FALSE

-----------------------------------------------------------------------------
(* Shapes, meshes and prefabs.                                              *)

\* led_collision_shape_add: another shape of the same name is refused.
ShapeAdd(i) ==
    /\ Lookup(shapes, i) = Stub
    /\ \E s \in ShapeSlots \ DOMAIN shapes : shapes' = AddAndAlias(shapes, s, i)
    /\ UNCHANGED <<prefabs, meshes, shape_of, nodes, proxies, engineVars, corrupt>>

\* led_collision_shape_remove: only what is not referenced.
ShapeRemove(i) ==
    /\ Lookup(shapes, i) # Stub
    /\ shapes[Lookup(shapes, i)].refs = 0
    /\ shapes' = RemoveEntry(shapes, i)
    /\ UNCHANGED <<prefabs, meshes, shape_of, nodes, proxies, engineVars, corrupt>>

\* led_render_mesh_add: the mesh copies what it needs of a shape.
MeshAdd(i) ==
    /\ Lookup(meshes, i) = Stub
    /\ \E s \in MeshSlots \ DOMAIN meshes : meshes' = AddAndAlias(meshes, s, i)
    /\ UNCHANGED <<shapes, prefabs, shape_of, nodes, proxies, engineVars, corrupt>>

\* led_render_mesh_remove.
MeshRemove(i) ==
    /\ Lookup(meshes, i) # Stub
    /\ meshes[Lookup(meshes, i)].refs = 0
    /\ meshes' = RemoveEntry(meshes, i)
    /\ UNCHANGED <<shapes, prefabs, shape_of, nodes, proxies, engineVars, corrupt>>

\* led_rigid_body_prefab_add: a shape that is not found is the stub.
PrefabAdd(i, shape) ==
    /\ Lookup(prefabs, i) = Stub
    /\ \E p \in PrefabSlots \ DOMAIN prefabs :
        /\ prefabs' = AddAndAlias(prefabs, p, i)
        /\ shape_of' = With(shape_of, p, Lookup(shapes, shape))
    /\ shapes' = Reference(shapes, shape)
    /\ UNCHANGED <<meshes, nodes, proxies, engineVars, corrupt>>

\* led_rigid_body_prefab_remove: only what is not referenced.
PrefabRemove(i) ==
    LET p == Lookup(prefabs, i) IN
    /\ p # Stub
    /\ prefabs[p].refs = 0
    /\ shapes' = Dereference(shapes, shape_of[p])
    /\ prefabs' = RemoveEntry(prefabs, i)
    /\ shape_of' = Restrict(shape_of, DOMAIN shape_of \ {p})
    /\ UNCHANGED <<meshes, nodes, proxies, engineVars, corrupt>>

\* The menu of shapes beside a prefab (led_ui.c): another shape, or the same.
PrefabSetShape(p, s) ==
    /\ shapes' = Reference(Dereference(shapes, shape_of[p]), shapes[s].id)
    /\ shape_of' = [shape_of EXCEPT ![p] = s]
    /\ UNCHANGED <<prefabs, meshes, nodes, proxies, engineVars, corrupt>>

-----------------------------------------------------------------------------
(* Nodes.  A node that is marked for removal is found by its name until the *)
(* next frame removes it.                                                   *)

NodeLookup(i) == {n \in DOMAIN nodes : nodes[n].id = i}

\* led_node_add.
NodeAdd(i) ==
    /\ NodeLookup(i) = {}
    /\ \E n \in NodeSlots \ DOMAIN nodes :
        nodes' = With(nodes, n, [id |-> i, prefab |-> Stub, proxy |-> Stub, physics |-> FALSE, marked |-> FALSE])
    /\ UNCHANGED <<dbVars, proxies, engineVars, corrupt>>

(* led_node_remove moves the node to the list of marked nodes.  It does not *)
(* ask whether the node is there already: then both lists are damaged, and  *)
(* the model goes no further.                                               *)
NodeRemove(n) ==
    /\ IF nodes[n].marked
       THEN corrupt' = TRUE /\ nodes' = nodes
       ELSE corrupt' = corrupt /\ nodes' = [nodes EXCEPT ![n].marked = TRUE]
    /\ UNCHANGED <<dbVars, proxies, engineVars>>

\* led_node_set_rb_prefab that forgets the prefab the node had.
NodeSetPrefabKeepsOld(n, prefab) ==
    LET p == Lookup(prefabs, prefab) IN
    /\ p # Stub
    /\ prefabs' = Reference(prefabs, prefab)
    /\ nodes' = [nodes EXCEPT ![n].prefab = p, ![n].physics = TRUE]
    /\ UNCHANGED <<shapes, meshes, shape_of, proxies, engineVars, corrupt>>

\* led_node_set_rb_prefab: the new prefab is referenced before the old one,
\* which may be the same, is let go.
NodeSetPrefab(n, prefab) ==
    LET p == Lookup(prefabs, prefab) IN
    /\ p # Stub
    /\ prefabs' = Dereference(Reference(prefabs, prefab), nodes[n].prefab)
    /\ nodes' = [nodes EXCEPT ![n].prefab = p, ![n].physics = TRUE]
    /\ UNCHANGED <<shapes, meshes, shape_of, proxies, engineVars, corrupt>>

\* r_proxy3d_alloc and r_proxy3d_dealloc, on the proxies and the meshes.
ProxyDealloc(q, m, x) ==
    IF x = Stub THEN [q |-> q, m |-> m]
    ELSE [q |-> Restrict(q, DOMAIN q \ {x}), m |-> Dereference(m, q[x])]

ProxyAlloc(q, m, x, mesh) == [q |-> With(q, x, Lookup(m, mesh)), m |-> Reference(m, mesh)]

\* led_node_set_proxy3d that keeps the proxy the node had.
NodeSetProxyLeaks(n, mesh) ==
    \E x \in ProxySlots \ DOMAIN proxies :
        /\ proxies' = ProxyAlloc(proxies, meshes, x, mesh).q
        /\ meshes' = ProxyAlloc(proxies, meshes, x, mesh).m
        /\ nodes' = [nodes EXCEPT ![n].proxy = x]
        /\ UNCHANGED <<shapes, prefabs, shape_of, engineVars, corrupt>>

\* led_node_set_proxy3d: the old proxy goes, a new one comes.
NodeSetProxy(n, mesh) ==
    LET old == ProxyDealloc(proxies, meshes, nodes[n].proxy) IN
    \E x \in ProxySlots \ DOMAIN old.q :
        /\ proxies' = ProxyAlloc(old.q, old.m, x, mesh).q
        /\ meshes' = ProxyAlloc(old.q, old.m, x, mesh).m
        /\ nodes' = [nodes EXCEPT ![n].proxy = x]
        /\ UNCHANGED <<shapes, prefabs, shape_of, engineVars, corrupt>>

-----------------------------------------------------------------------------
(* The engine.                                                              *)

\* led_run, led_pause and led_stop only say what the next frame is to do.
Run == pending' = [initialised |-> TRUE, running |-> TRUE, paused |-> FALSE]
Pause == pending' = [pending EXCEPT !.running = FALSE, !.paused = TRUE]
Stop == pending' = Idle

Engine ==
    /\ Run \/ Pause \/ Stop
    /\ UNCHANGED <<dbVars, nodes, proxies, bodies, engine, starts, corrupt>>

-----------------------------------------------------------------------------
(* A frame: marked nodes are removed, the engine is stopped or started if    *)
(* that was asked for, and the simulation goes on, which leaves the bodies   *)
(* as they are: no code removes a body but the flush of the pipeline.        *)

Marked == {n \in DOMAIN nodes : nodes[n].marked}

Unmarked == DOMAIN nodes \ Marked

\* Every entry s of the database is let go uses[s] times.
LetGo(db, uses) == [s \in DOMAIN db |-> IF s = Stub THEN db[s] ELSE [db[s] EXCEPT !.refs = @ - uses[s]]]

PrefabUses == [s \in DOMAIN prefabs |-> Cardinality({n \in Marked : nodes[n].prefab = s})]

MeshUses ==
    [s \in DOMAIN meshes |-> Cardinality({n \in Marked : nodes[n].proxy # Stub /\ proxies[nodes[n].proxy] = s})]

\* led_remove_marked_structs.
RemoveMarked ==
    /\ nodes' = Restrict(nodes, Unmarked)
    /\ proxies' = Restrict(proxies, DOMAIN proxies \ {nodes[n].proxy : n \in Marked})
    /\ prefabs' = LetGo(prefabs, PrefabUses)
    /\ meshes' = LetGo(meshes, MeshUses)

EngineStarts == ~engine.initialised /\ pending.initialised

EngineStops == engine.initialised /\ ~pending.initialised

\* NewBodies when the engine starts before the marked nodes are removed.
NewBodiesFirst == {[entity |-> n, shape |-> shape_of[nodes[n].prefab]] : n \in {m \in DOMAIN nodes : nodes[m].physics}}

\* physics_pipeline_rigid_body_alloc for each node left that has a prefab.
NewBodies == {[entity |-> n, shape |-> shape_of[nodes[n].prefab]] : n \in {m \in Unmarked : nodes[m].physics}}

\* The bodies after a frame that does not flush a pipeline that is stopped.
BodiesAfterNoFlush == IF EngineStarts THEN NewBodies ELSE bodies

\* led_engine_init and led_engine_flush.
BodiesAfter == IF EngineStarts THEN NewBodies ELSE IF EngineStops THEN {} ELSE bodies

NewUses == [s \in DOMAIN shapes |-> IF EngineStarts THEN Cardinality({b \in NewBodies : b.shape = s}) ELSE 0]

\* Each new body counts its shape; the flush gives no count back.
ShapesAfter == [s \in DOMAIN shapes |-> IF s = Stub THEN shapes[s] ELSE [shapes[s] EXCEPT !.refs = @ + NewUses[s]]]

\* led_core.
Frame ==
    /\ EngineStarts => starts < MaxStarts
    /\ starts' = IF EngineStarts THEN starts + 1 ELSE starts
    /\ RemoveMarked
    /\ bodies' = BodiesAfter
    /\ shapes' = ShapesAfter
    /\ engine' = pending
    /\ UNCHANGED <<shape_of, pending, corrupt>>

Command ==
    \/ \E i \in ShapeIds : ShapeAdd(i) \/ ShapeRemove(i)
    \/ \E i \in MeshIds : MeshAdd(i) \/ MeshRemove(i)
    \/ \E i \in PrefabIds : PrefabRemove(i) \/ \E shape \in ShapeIds : PrefabAdd(i, shape)
    \/ \E p \in Entries(prefabs), s \in Entries(shapes) : PrefabSetShape(p, s)
    \/ \E i \in NodeIds : NodeAdd(i)
    \/ \E n \in DOMAIN nodes :
        \/ NodeRemove(n)
        \/ \E prefab \in PrefabIds : NodeSetPrefab(n, prefab)
        \/ \E mesh \in MeshIds : NodeSetProxy(n, mesh)
    \/ Engine

Next == ~corrupt /\ (Command \/ Frame)

Spec == Init /\ [][Next]_vars

-----------------------------------------------------------------------------
(* Properties.                                                              *)

(* Each counter of references is the number of handles there are: nodes for *)
(* a prefab, proxies for a mesh.  A shape counts at least its prefabs and   *)
(* the bodies made from it; the flush of the pipeline leaves more.          *)
CountsExact ==
    /\ \A p \in Entries(prefabs) : prefabs[p].refs = Cardinality({n \in DOMAIN nodes : nodes[n].prefab = p})
    /\ \A m \in Entries(meshes) : meshes[m].refs = Cardinality({x \in DOMAIN proxies : proxies[x] = m})
    /\ \A s \in Entries(shapes) :
        shapes[s].refs >= Cardinality({p \in Entries(prefabs) : shape_of[p] = s}) + Cardinality({b \in bodies : b.shape = s})

(* The handles that are counted, or owned, name what is there: the shape of  *)
(* a body too, while its prefab is given another shape or removed.          *)
CountedLive ==
    /\ \A p \in DOMAIN prefabs : shape_of[p] \in DOMAIN shapes
    /\ \A b \in bodies : b.shape \in DOMAIN shapes
    /\ \A n \in DOMAIN nodes : nodes[n].prefab \in DOMAIN prefabs
    /\ \A x \in DOMAIN proxies : proxies[x] \in DOMAIN meshes

\* The slot that b names holds a node that has a body.
EntityLive(b) == b.entity \in DOMAIN nodes /\ nodes[b.entity].physics

\* It still holds it after the step, unless b is no new body and the node was marked.
EntityKept(b) == EntityLive(b)' \/ (b \in bodies /\ (EntityLive(b) => nodes[b.entity].marked))

(* No counted handle outlives what it names.  The node of a body is not      *)
(* counted: nothing keeps the node, and nothing takes the body away, when    *)
(* the node is removed while the engine is initialised (led_core.c:590), and *)
(* the editor goes on reading and moving what is in the slot (1479, 1716).   *)
(* That is the one way to lose it: a body is made for a node that is there,  *)
(* and as long as the node is not removed by command no step takes it away.  *)
HandlesLive == [][CountedLive' /\ \A b \in bodies' : EntityKept(b)]_vars

(* A proxy is drawn for one node, and none is left behind by a node that    *)
(* got another proxy or is gone.                                            *)
ProxiesOwned ==
    /\ DOMAIN proxies = {nodes[n].proxy : n \in DOMAIN nodes} \ {Stub}
    /\ \A m, n \in DOMAIN nodes : m # n /\ nodes[m].proxy # Stub => nodes[m].proxy # nodes[n].proxy

(* The pipeline holds bodies only between a frame that starts the engine    *)
(* and one that stops it, and in between they are the ones it was started   *)
(* with, whatever is paused, edited or removed meanwhile.                   *)
BodiesFollowEngine ==
    [][/\ ~engine'.initialised => bodies' = {} /\ ~engine'.running
       /\ bodies' # bodies => engine'.initialised # engine.initialised
       /\ bodies = {} /\ bodies' # {} => {b.entity : b \in bodies'} = {n \in DOMAIN nodes' : nodes'[n].physics}]_vars

-----------------------------------------------------------------------------
(* The inductive invariant behind the properties.                           *)

\* A database has the stub, entries in the slots of its pool, and one per name.
Database(db, slots, ids) ==
    /\ db \in [DOMAIN db -> [id : ids \cup {NoId}, refs : Int]]
    /\ Stub \in DOMAIN db /\ DOMAIN db \subseteq slots \cup {Stub}
    /\ \A s, t \in Entries(db) : db[s].id = db[t].id => s = t

EngineState == [initialised : BOOLEAN, running : BOOLEAN, paused : BOOLEAN]

TypeOK ==
    /\ Database(shapes, ShapeSlots, ShapeIds)
    /\ Database(prefabs, PrefabSlots, PrefabIds) /\ IsFiniteSet(DOMAIN prefabs)
    /\ Database(meshes, MeshSlots, MeshIds)
    /\ shape_of \in [DOMAIN prefabs -> ShapeSlots \cup {Stub}]
    /\ nodes \in [DOMAIN nodes -> [id : NodeIds, prefab : PrefabSlots \cup {Stub},
            proxy : ProxySlots \cup {Stub}, physics : BOOLEAN, marked : BOOLEAN]]
    /\ DOMAIN nodes \subseteq NodeSlots /\ IsFiniteSet(DOMAIN nodes)
    /\ proxies \in [DOMAIN proxies -> MeshSlots \cup {Stub}]
    /\ DOMAIN proxies \subseteq ProxySlots /\ IsFiniteSet(DOMAIN proxies)
    /\ bodies \subseteq [entity : NodeSlots, shape : ShapeSlots \cup {Stub}] /\ IsFiniteSet(bodies)
    /\ pending \in EngineState /\ engine \in EngineState
    /\ starts \in 0..MaxStarts /\ corrupt \in BOOLEAN

\* An engine that is not initialised simulates nothing.
EngineInv ==
    /\ engine.running => engine.initialised
    /\ pending.running => pending.initialised
    /\ ~engine.initialised => bodies = {}

\* The stub has no shape.
StubPrefab == shape_of[Stub] = Stub

IInv == TypeOK /\ StubPrefab /\ CountsExact /\ CountedLive /\ ProxiesOwned /\ EngineInv

=============================================================================
