---------------------------- MODULE Collections ----------------------------
(***************************************************************************)
(* The handlers of the document collections, one action per SQL statement: *)
(* a body's references are looked up one by one, a PATCH then reads the    *)
(* row, merges and writes all of it back. Between two statements of a      *)
(* request other requests run. A reply changes nothing and is left out, as *)
(* are requests refused before their first statement.                      *)
(***************************************************************************)
EXTENDS Documents, Sequences

CONSTANTS
    Clients,    \* concurrent HTTP clients
    NoId,       \* a request that names nothing
    MaxRows     \* bound: no create starts with this many rows

VARIABLES
    rows,   \* [Ids -> the row's document, or NoRow]
    req,    \* [Clients -> the request the client's goroutine is serving]
    seen    \* history: [Clients -> what has been true since the request began]

vars == <<rows, req, seen>>

ASSUME MaxRowsAssumption == MaxRows \in Nat
ASSUME NoIdAssumption == NoId \notin Ids

---------------------------------------------------------------------------
(* Requests *)

Idle == [pc |-> "idle", op |-> "none", id |-> NoId, body |-> NoBody,
         todo |-> {}, doc |-> NoRow]

At(c, pc) == req[c].pc = pc

\* Each step ends with this, when rows' is known.
Become(c, r) ==
    /\ req' = [req EXCEPT ![c] = r]
    /\ seen' = [d \in Clients |->
                    IF req'[d] = Idle THEN Nothing ELSE Look(seen[d], req'[d], rows')]
Answer(c) == Become(c, Idle)

\* The references still to be looked up, with their field's position.
Todo(id, body) ==
    UNION {{<<i, ref>> : ref \in body.refs[Fields(id)[i]]} : i \in 1..Len(Fields(id))}

\* Mutant: an update is an upsert.
CheckedUpsert(op) == "insert"

\* Where a request goes when its references are all found.
Checked(op) == IF op = "create" THEN "insert" ELSE "read"

Request(op, id, body) ==
    LET todo == Todo(id, body)
    IN  [pc |-> IF todo = {} THEN Checked(op) ELSE "check", op |-> op, id |-> id,
         body |-> body, todo |-> todo, doc |-> NoRow]
DeleteRequest(id) == [Idle EXCEPT !.pc = "delete", !.op = "delete", !.id = id]

Start(c, r) == At(c, "idle") /\ UNCHANGED rows /\ Become(c, r)

Present == {id \in Ids : Exists(rows, id)}

Create(c) ==
    /\ Cardinality(Present) < MaxRows
    /\ \E id \in Ids : \E body \in Bodies[id] :
        body.keys = Keys(id) /\ Start(c, Request("create", id, body))

\* Mutant: an update does not check the references of its body.
UpdateUnchecked(c) ==
    \E id \in Ids : \E body \in Bodies[id] :
        /\ Schema[id[1]].patch
        /\ Start(c, [Request("update", id, body) EXCEPT !.pc = "read", !.todo = {}])

Update(c) ==
    \E id \in Ids : \E body \in Bodies[id] :
        Schema[id[1]].patch /\ Start(c, Request("update", id, body))

\* Delete, first statement: the row is read. (Buckets, Redis instances: the two
\* statements are one.) Nothing asks whether another resource refers to it.
Delete(c) == \E id \in Present : Start(c, DeleteRequest(id))

---------------------------------------------------------------------------
(* Statements *)

\* validateScalarFK, validateListFK, validateForwardingRuleTarget and
\* validateForwardingRuleIPAddress: the next reference is looked up; one that
\* is malformed or not found ends the request.
Check(c) ==
    /\ At(c, "check")
    /\ UNCHANGED rows
    /\ \E t \in req[c].todo :
        /\ \A u \in req[c].todo : t[1] <= u[1]
        /\ LET rest == req[c].todo \ {t}
           IN  IF Resolves(rows, t[2])
                 THEN Become(c, [req[c] EXCEPT !.todo = rest,
                          !.pc = IF rest = {} THEN Checked(req[c].op) ELSE "check"])
                 ELSE Answer(c)

\* INSERT; a duplicate is an error. The read that follows has no effect.
Insert(c) ==
    LET id == req[c].id
    IN  /\ At(c, "insert")
        /\ IF Exists(rows, id)
             THEN UNCHANGED rows
             ELSE rows' = [rows EXCEPT ![id] = NewDocument(req[c].body)]
        /\ Answer(c)

\* UpdateBackendService and the other updates, first statement.
Read(c) ==
    LET id == req[c].id
    IN  /\ At(c, "read")
        /\ UNCHANGED rows
        /\ IF Exists(rows, id)
             THEN Become(c, [req[c] EXCEPT !.pc = "write",
                                           !.doc = PatchMerge(rows[id], req[c].body)])
             ELSE Answer(c)

\* Second statement: UPDATE of the whole document, which may match no row.
Write(c) ==
    LET id == req[c].id
    IN  /\ At(c, "write")
        /\ IF Exists(rows, id)
             THEN rows' = [rows EXCEPT ![id] = req[c].doc]
             ELSE UNCHANGED rows
        /\ Answer(c)

\* Delete, second statement; a row that is gone by now is ErrNotFound.
DeleteWithResult(c) ==
    /\ At(c, "delete")
    /\ rows' = [rows EXCEPT ![req[c].id] = NoRow]
    /\ Answer(c)

\* The process dies and New() opens the same file: requests are gone.
Restart ==
    /\ UNCHANGED rows
    /\ req' = [c \in Clients |-> Idle]
    /\ seen' = [c \in Clients |-> Nothing]

---------------------------------------------------------------------------
(* Specification *)

Init ==
    /\ rows = [id \in Ids |-> NoRow]
    /\ req = [c \in Clients |-> Idle]
    /\ seen = [c \in Clients |-> Nothing]

Next ==
    \/ \E c \in Clients :
        \/ Create(c) \/ Update(c) \/ Delete(c)
        \/ Check(c) \/ Insert(c) \/ Read(c) \/ Write(c) \/ DeleteWithResult(c)
    \/ Restart

Spec == Init /\ [][Next]_vars

---------------------------------------------------------------------------
(* Properties *)

RequestOK(r) ==
    r = Idle \/
    /\ r.pc \in {"check", "insert", "read", "write", "delete"}
    /\ r.id \in Ids
    /\ (r.pc = "check" => r.op \in {"create", "update"}) /\ (r.pc = "insert" => r.op = "create")
    /\ (r.pc \in {"read", "write"} => r.op = "update") /\ (r.pc = "delete" => r.op = "delete")
    /\ (r.op # "delete" => r.body \in Body(r.id)) /\ (r.op = "delete" => r.body = NoBody)
    /\ r.pc = "check" <=> r.todo # {}
    /\ r.pc = "write" => r.doc \in Document(r.id)

\* Rows and requests are well formed.
TypeOK ==
    /\ rows = [id \in Ids |-> rows[id]]
    /\ \A id \in Ids : rows[id] \in Document(id) \cup {NoRow}
    /\ DOMAIN req = Clients
    /\ \A c \in Clients : RequestOK(req[c])

\* A request as its client sees it: what it asks for, until it is answered.
Call(r) == [op |-> r.op, id |-> r.id, body |-> r.body]

calls == [c \in Clients |-> Call(req[c])]

Overlapping == INSTANCE Store WITH calls <- calls

\* Many statements look like one, whichever requests run between them: nothing
\* is stored but what the body and the moments of its own request account for.
\* A reference was found by this very request ("so a PATCH can't introduce a
\* dangling reference that the Create gate would have caught"); a PATCH never
\* writes back anything older than itself, nor a row that is gone; a delete takes
\* its own row; and no request is refused without a reason.
ImplementsStore == Overlapping!Spec
=============================================================================
