SPECIFICATION Spec
CONSTANTS
    i1 = i1
    i2 = i2
    k1 = k1
    k2 = k2
    h1 = h1
    n1 = n1
    n2 = n2
    s1 = s1
    s2 = s2
    p1 = p1
    p2 = p2
    m1 = m1
    e1 = e1
    e2 = e2
    x1 = x1
    x2 = x2
    ShapeIds = {i1, i2}
    PrefabIds = {k1, k2}
    MeshIds = {h1}
    NodeIds = {n1, n2}
    ShapeSlots = {s1, s2}
    PrefabSlots = {p1, p2}
    MeshSlots = {m1}
    NodeSlots = {e1, e2}
    ProxySlots = {x1, x2}
    MaxStarts = 1
SYMMETRY MCSymmetry
INVARIANTS
    CountsExact
    ProxiesOwned
PROPERTIES
    HandlesLive
    BodiesFollowEngine
CHECK_DEADLOCK FALSE
