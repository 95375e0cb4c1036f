------------------------------- MODULE Store -------------------------------
(***************************************************************************)
(* What the document collections promise to calls that overlap. A call     *)
(* takes effect in one step, if at all, and may rely on what has been true *)
(* at some moment since it began, never on anything older:                 *)
(*   - what it stores refers only to rows that were there since;           *)
(*   - a PATCH changes the keys it names of a document the row had since,  *)
(*     so what it may undo is the work of calls beside it and no other;    *)
(*   - a create takes a key that is free and a PATCH or delete a row that  *)
(*     exists at that very moment, and neither touches another row;        *)
(*   - a call that ends without effect has a reason at that moment.        *)
(***************************************************************************)
EXTENDS Documents

CONSTANTS
    Clients,   \* those who call
    NoId       \* a call that names nothing

VARIABLES
    rows,      \* [Ids -> the row's document, or NoRow]
    calls,     \* [Clients -> the call that is being served, or NoCall]
    seen       \* [Clients -> what has been true since the call began]

vars == <<rows, calls, seen>>

NoCall == [op |-> "none", id |-> NoId, body |-> NoBody]

Become(c, call) ==
    /\ calls' = [calls EXCEPT ![c] = call]
    /\ seen' = [d \in Clients |->
                    IF calls'[d] = NoCall THEN Nothing ELSE Look(seen[d], calls'[d], rows')]

---------------------------------------------------------------------------
(* A call begins, and ends with or without effect *)

Begin(c) ==
    /\ calls[c] = NoCall
    /\ UNCHANGED rows
    /\ \E id \in Ids :
        \/ \E body \in Bodies[id], op \in {"create", "update"} :
            /\ IF op = "create" THEN body.keys = Keys(id) ELSE Schema[id[1]].patch
            /\ Become(c, [op |-> op, id |-> id, body |-> body])
        \/ Become(c, [op |-> "delete", id |-> id, body |-> NoBody])

Accepts(c) == References(calls[c].body) \subseteq seen[c].found

Create(c) ==
    LET call == calls[c]
    IN  /\ call.op = "create"
        /\ ~Exists(rows, call.id)
        /\ Accepts(c)
        /\ rows' = [rows EXCEPT ![call.id] = NewDocument(call.body)]
        /\ Become(c, NoCall)

Patch(c) ==
    LET call == calls[c]
    IN  /\ call.op = "update"
        /\ Exists(rows, call.id)
        /\ Accepts(c)
        /\ \E doc \in seen[c].was :
            rows' = [rows EXCEPT ![call.id] = PatchMerge(doc, call.body)]
        /\ Become(c, NoCall)

Delete(c) ==
    LET call == calls[c]
    IN  /\ call.op = "delete"
        /\ Exists(rows, call.id)
        /\ rows' = [rows EXCEPT ![call.id] = NoRow]
        /\ Become(c, NoCall)

Refuse(c) ==
    LET call == calls[c]
    IN  /\ \/ \E ref \in References(call.body) : ~Resolves(rows, ref)
           \/ call.op = "create" /\ Exists(rows, call.id)
           \/ call.op \in {"update", "delete"} /\ ~Exists(rows, call.id)
        /\ UNCHANGED rows
        /\ Become(c, NoCall)

\* The calls are lost, the rows are not.
Crash ==
    /\ UNCHANGED rows
    /\ calls' = [c \in Clients |-> NoCall]
    /\ seen' = [c \in Clients |-> Nothing]

---------------------------------------------------------------------------
(* Specification *)

Init ==
    /\ rows = [id \in Ids |-> NoRow]
    /\ calls = [c \in Clients |-> NoCall]
    /\ seen = [c \in Clients |-> Nothing]

Next ==
    \/ \E c \in Clients :
        Begin(c) \/ Create(c) \/ Patch(c) \/ Delete(c) \/ Refuse(c)
    \/ Crash

Spec == Init /\ [][Next]_vars
=============================================================================
