SPECIFICATION Spec
CONSTANTS
    Clients = {c1, c2}
    ZoneNames = {z1}
    Labels = {l1}
    RRsets = {a, b}
    Datas = {d1}
    Missing = Missing
    MaxOps = 1
    Isolated = FALSE
PROPERTIES ZoneDeletedEmpty
