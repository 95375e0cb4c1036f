----------------------------- MODULE AtomicDns -----------------------------
(***************************************************************************)
(* What the Cloud DNS API promises: a request on a zone or a record set    *)
(* takes effect at once, and so does a change with all its deletions and   *)
(* additions. A change is applied exactly when it fits the record sets as  *)
(* they are, and leaves no trace when it does not. Only a crash may tear   *)
(* the changes under way: some of what they delete is gone, some of what   *)
(* they add is there, and nothing else is touched.                         *)
(***************************************************************************)
EXTENDS Naturals, Sequences, SequencesExt

CONSTANTS
    Clients, ZoneNames, Labels, RRsets, Datas,
    MaxOps    \* bound: deletions, and additions, of one change

VARIABLES
    zones,     \* rows of the zones
    records,   \* rows of the record sets
    pending    \* changes that were submitted and not yet decided

vars == <<zones, records, pending>>

HasZone(z) == \E r \in zones : r.name = z
HasRecord(z, k) == \E r \in records : r.zone = z /\ r.key = k
Row(z, a) == [zone |-> z, key |-> a.key, data |-> a.data]

---------------------------------------------------------------------------
(* Zones and single record sets *)

CreateZone(z, l) ==
    /\ ~HasZone(z)
    /\ zones' = zones \cup {[name |-> z, label |-> l]}
    /\ UNCHANGED <<records, pending>>

UpdateZone(z, l) ==
    /\ zones' = {IF r.name = z THEN [r EXCEPT !.label = l] ELSE r : r \in zones}
    /\ UNCHANGED <<records, pending>>

DeleteZone(z) ==
    /\ \A r \in records : r.zone # z
    /\ zones' = {r \in zones : r.name # z}
    /\ UNCHANGED <<records, pending>>

CreateRecordSet(z, a) ==
    /\ HasZone(z) /\ ~HasRecord(z, a.key)
    /\ records' = records \cup {Row(z, a)}
    /\ UNCHANGED <<zones, pending>>

DeleteRecordSet(z, k) ==
    /\ records' = {r \in records : ~(r.zone = z /\ r.key = k)}
    /\ UNCHANGED <<zones, pending>>

---------------------------------------------------------------------------
(* Changes *)

Submit(c) ==
    /\ \A p \in pending : p.client # c
    /\ \E z \in ZoneNames, dels \in BoundedSeq(RRsets, MaxOps),
          adds \in BoundedSeq([key : RRsets, data : Datas], MaxOps) :
        pending' = pending \cup {[client |-> c, zone |-> z, dels |-> dels, adds |-> adds]}
    /\ UNCHANGED <<zones, records>>

Deletes(p, r) == r.zone = p.zone /\ \E i \in 1..Len(p.dels) : r.key = p.dels[i]
Additions(p) == {Row(p.zone, p.adds[i]) : i \in 1..Len(p.adds)}

\* Every deletion finds a record set of its own, and every addition a key that
\* nothing else holds.
Fits(p) ==
    /\ p.adds # <<>> => HasZone(p.zone)
    /\ \A i \in 1..Len(p.dels) :
        /\ HasRecord(p.zone, p.dels[i])
        /\ \A j \in 1..Len(p.dels) : p.dels[i] = p.dels[j] => i = j
    /\ \A i \in 1..Len(p.adds) :
        /\ \A r \in records :
            r.zone = p.zone /\ r.key = p.adds[i].key => Deletes(p, r)
        /\ \A j \in 1..Len(p.adds) : p.adds[i].key = p.adds[j].key => i = j

Commit(p) ==
    /\ Fits(p)
    /\ records' = {r \in records : ~Deletes(p, r)} \cup Additions(p)
    /\ pending' = pending \ {p}
    /\ UNCHANGED zones

Abort(p) ==
    /\ ~Fits(p)
    /\ pending' = pending \ {p}
    /\ UNCHANGED <<zones, records>>

\* At most one row is left under each key.
Crash ==
    /\ \E gone \in SUBSET {r \in records : \E p \in pending : Deletes(p, r)},
          new \in SUBSET UNION {Additions(p) : p \in pending} :
        LET rest == (records \ gone) \cup new
        IN  /\ \A r, s \in rest : r.zone = s.zone /\ r.key = s.key => r = s
            /\ records' = rest
    /\ pending' = {}
    /\ UNCHANGED zones

---------------------------------------------------------------------------
(* Specification *)

Init == zones = {} /\ records = {} /\ pending = {}

Next ==
    \/ \E z \in ZoneNames :
        \/ \E l \in Labels : CreateZone(z, l) \/ UpdateZone(z, l)
        \/ DeleteZone(z)
        \/ \E a \in [key : RRsets, data : Datas] : CreateRecordSet(z, a)
        \/ \E k \in RRsets : DeleteRecordSet(z, k)
    \/ \E c \in Clients : Submit(c)
    \/ \E p \in pending : Commit(p) \/ Abort(p)
    \/ Crash

Spec == Init /\ [][Next]_vars
=============================================================================
