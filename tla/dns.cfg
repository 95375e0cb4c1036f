SPECIFICATION Spec
CONSTANTS
    Clients = {c1, c2}
    ZoneNames = {z1}
    Labels = {l1}
    RRsets = {a, b}
    Datas = {d1, d2}
    Missing = Missing
    MaxOps = 2
    Isolated = TRUE
INVARIANTS TypeOK ChangeAtomic
PROPERTIES ImplementsAtomicDns
SYMMETRY Symmetry
