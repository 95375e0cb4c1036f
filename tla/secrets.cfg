SPECIFICATION Spec
CONSTANTS
    Clients = {c1, c2}
    SecretNames = {s1, s2}
    Payloads = {p1, p2}
    NoPayload = NoPayload
    Labels = {l1}
    MaxRowid = 3
    DeletesOverlap = FALSE
INVARIANTS TypeOK VersionsIncrease NextVersionFree PayloadMatchesState
PROPERTIES PayloadNeverReplaced DestroyedStays
SYMMETRY Symmetry
