SPECIFICATION Spec
CONSTANTS
    Rows = {r1}
    Changes = {k1, k2}
    Networks = {n1}
    Ranges = {v1, v2}
    Policies = {p1}
    None = None
INVARIANTS TypeOK NothingResurrected RestoreFaithful
SYMMETRY Symmetry
