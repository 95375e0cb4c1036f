SPECIFICATION Spec
CONSTANTS
    Clients = {c1, c2}
    Ids <- MCIds
    Labels <- MCLabels
    Bodies <- MCBodies
    NoRow = NoRow
    NoId = NoId
    MaxRows = 3
INVARIANTS TypeOK
PROPERTIES ImplementsStore
SYMMETRY Symmetry
