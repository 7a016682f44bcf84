--------------------------- MODULE MCLevelEditor ---------------------------
EXTENDS LevelEditor, TLC

CONSTANTS i1, i2, k1, k2, h1, n1, n2, s1, s2, p1, p2, m1, e1, e2, x1, x2

MCSymmetry ==
    UNION {Permutations(S) : S \in {ShapeIds, PrefabIds, NodeIds, ShapeSlots, PrefabSlots, NodeSlots, ProxySlots}}

=============================================================================
