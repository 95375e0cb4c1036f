SPECIFICATION Spec
CONSTANTS
    Clients = {c1, c2}
    SecretNames = {s1}
    Payloads = {p1}
    NoPayload = NoPayload
    Labels = {l1}
    MaxRowid = 3
    DeletesOverlap = FALSE
PROPERTIES DestroyedIsTerminal
