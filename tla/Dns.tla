-------------------------------- MODULE Dns --------------------------------
(***************************************************************************)
(* Cloud DNS: managed zones, their record sets, and the changes API that   *)
(* deletes and adds several record sets at once. A change is a long run of *)
(* separate statements: it reads every record set it will delete, deletes  *)
(* them one by one, inserts the additions one by one, and on the first     *)
(* error deletes what it inserted and inserts what it had read.            *)
(*                                                                         *)
(* One project is modelled; a record set's key stands for (name, type).    *)
(* The cache of finished changes is not part of this module.               *)
(***************************************************************************)
EXTENDS Naturals, Sequences, SequencesExt

CONSTANTS
    Clients,      \* concurrent HTTP clients
    ZoneNames,
    Labels,       \* values of a zone's JSON
    RRsets,       \* keys of record sets
    Datas,        \* values of a record set's JSON
    Missing,      \* "no such row" in the snapshot of a deletion
    MaxOps,       \* bound: deletions, and additions, of one change
    Isolated      \* TRUE: requests in flight share no record set, and a zone is
                  \* not deleted under a request

VARIABLES
    zones,    \* rows of dns_managed_zones
    records,  \* rows of dns_record_sets
    req       \* [Clients -> the request the client's goroutine is serving]

vars == <<zones, records, req>>

ASSUME NamesAssumption == ZoneNames # {} /\ Labels # {}
ASSUME MissingAssumption == Missing \notin Datas
ASSUME MaxOpsAssumption == MaxOps \in Nat
ASSUME IsolatedAssumption == Isolated \in BOOLEAN

Zone == [name : ZoneNames, label : Labels]
Record == [zone : ZoneNames, key : RRsets, data : Datas]
Addition == [key : RRsets, data : Datas]

---------------------------------------------------------------------------
(* Statements *)

HasZone(zs, z) == \E r \in zs : r.name = z
RecordsOf(rs, z) == {r \in rs : r.zone = z}
HasRecord(z, k) == \E r \in RecordsOf(records, z) : r.key = k

\* GetDNSRecordSet, with a miss that is no error.
DataOf(z, k) ==
    IF HasRecord(z, k) THEN (CHOOSE r \in RecordsOf(records, z) : r.key = k).data
    ELSE Missing

\* INSERT INTO dns_record_sets succeeds: no such key, and the zone exists.
Insertable(z, k) == ~HasRecord(z, k) /\ HasZone(zones, z)
With(z, k, d) == records \cup {[zone |-> z, key |-> k, data |-> d]}
Without(z, k) == {r \in records : ~(r.zone = z /\ r.key = k)}

---------------------------------------------------------------------------
(* Requests *)

Default(S) == CHOOSE x \in S : TRUE

Idle == [pc |-> "idle", change |-> FALSE, zone |-> Default(ZoneNames),
         label |-> Default(Labels), touched |-> {}, dels |-> <<>>, snap |-> <<>>,
         adds |-> <<>>, i |-> 1, done |-> 0, added |-> 0, before |-> {}, resp |-> "none"]

At(c, pc) == req[c].pc = pc
Become(c, r) == req' = [req EXCEPT ![c] = r]

\* The next loop of the handler starts at its first element.
Goto(c, pc) == Become(c, [req[c] EXCEPT !.pc = pc, !.i = 1])
Fail(c) == Goto(c, "undoAdditions")  \* rollback
Answer(c, code) == Become(c, [req[c] EXCEPT !.pc = "reply", !.resp = code])

\* Requests of z that share a record set; deleting a zone touches them all.
Disjoint(z, keys) ==
    \A d \in Clients : At(d, "idle") \/ req[d].zone # z \/ req[d].touched \cap keys = {}

Start(c, z, keys) == At(c, "idle") /\ (Isolated => Disjoint(z, keys))

\* CreateDNSZone: INSERT. (The read that follows has no effect.)
CreateDNSZone(c) ==
    /\ At(c, "idle")
    /\ \E z \in ZoneNames, l \in Labels :
        ~HasZone(zones, z) /\ zones' = zones \cup {[name |-> z, label |-> l]}
    /\ UNCHANGED <<records, req>>

\* UpdateDNSZone: read and merge, then UPDATE of a row that may be gone.
UpdateDNSZone(c) ==
    /\ At(c, "idle")
    /\ \E z \in ZoneNames, l \in Labels :
        HasZone(zones, z) /\ Become(c, [Idle EXCEPT !.pc = "writeZone", !.zone = z,
                                                    !.label = l])
    /\ UNCHANGED <<zones, records>>

WriteZone(c) ==
    /\ At(c, "writeZone")
    /\ zones' = {IF r.name = req[c].zone THEN [r EXCEPT !.label = req[c].label] ELSE r :
                    r \in zones}
    /\ Answer(c, "ok")
    /\ UNCHANGED records

\* DeleteDNSZone, first statement: COUNT. (A zone with record sets is ErrInUse.)
DeleteDNSZone(c) ==
    \E z \in ZoneNames :
        /\ Start(c, z, RRsets)
        /\ RecordsOf(records, z) = {}
        /\ Become(c, [Idle EXCEPT !.pc = "deleteZone", !.zone = z, !.touched = RRsets])
        /\ UNCHANGED <<zones, records>>

\* Second statement: DELETE; record sets go by ON DELETE CASCADE.
FinishDeleteZone(c) ==
    /\ At(c, "deleteZone")
    /\ zones' = {r \in zones : r.name # req[c].zone}
    /\ records' = records \ RecordsOf(records, req[c].zone)
    /\ Answer(c, IF HasZone(zones, req[c].zone) THEN "ok" ELSE "error")

\* CreateDNSRecordSet and DeleteDNSRecordSet: requireDNSZone, then one statement.
CreateDNSRecordSet(c) ==
    \E z \in ZoneNames, a \in Addition :
        /\ Start(c, z, {a.key})
        /\ HasZone(zones, z)
        /\ Become(c, [Idle EXCEPT !.pc = "insert", !.zone = z, !.touched = {a.key},
                                  !.adds = <<a>>])
        /\ UNCHANGED <<zones, records>>

InsertRecordSet(c) ==
    LET r == req[c]
        a == r.adds[1]
    IN  /\ At(c, "insert")
        /\ \/ Insertable(r.zone, a.key) /\ records' = With(r.zone, a.key, a.data)
                                        /\ Answer(c, "ok")
           \/ ~Insertable(r.zone, a.key) /\ Answer(c, "error") /\ UNCHANGED records
        /\ UNCHANGED zones

DeleteDNSRecordSet(c) ==
    \E z \in ZoneNames, k \in RRsets :
        /\ Start(c, z, {k})
        /\ HasZone(zones, z)
        /\ Become(c, [Idle EXCEPT !.pc = "remove", !.zone = z, !.touched = {k},
                                  !.dels = <<k>>])
        /\ UNCHANGED <<zones, records>>

RemoveRecordSet(c) ==
    LET k == req[c].dels[1]
    IN  /\ At(c, "remove")
        /\ Answer(c, IF HasRecord(req[c].zone, k) THEN "ok" ELSE "error")
        /\ records' = Without(req[c].zone, k)
        /\ UNCHANGED zones

Reply(c) == At(c, "reply") /\ Become(c, Idle) /\ UNCHANGED <<zones, records>>

---------------------------------------------------------------------------
(* Changes *)

Touched(dels, adds) == ToSet(dels) \cup {a.key : a \in ToSet(adds)}

\* CreateDNSChange: requireDNSZone. `before` is not in the code: it remembers
\* what the change found under the keys it touches.
CreateDNSChange(c) ==
    \E z \in ZoneNames, dels \in BoundedSeq(RRsets, MaxOps),
       adds \in BoundedSeq(Addition, MaxOps) :
        LET keys == Touched(dels, adds)
        IN  /\ Start(c, z, keys)
            /\ HasZone(zones, z)
            /\ Become(c, [Idle EXCEPT !.pc = "snapshot", !.change = TRUE, !.zone = z,
                          !.touched = keys, !.dels = dels, !.adds = adds,
                          !.before = {r \in RecordsOf(records, z) : r.key \in keys}])
            /\ UNCHANGED <<zones, records>>

\* One turn of the loop over the deletions that fills pendingDeletions.
SnapshotDeletion(c) ==
    LET r == req[c]
    IN  /\ At(c, "snapshot") /\ r.i <= Len(r.dels)
        /\ Become(c, [r EXCEPT !.snap = Append(@, DataOf(r.zone, r.dels[r.i])),
                               !.i = @ + 1])
        /\ UNCHANGED <<zones, records>>

\* Mutant: a deletion that finds nothing is skipped.
ApplyDeletionSkipsMissing(c) ==
    LET r == req[c]
    IN  /\ At(c, "delete") /\ r.i <= Len(r.dels)
        /\ Become(c, [r EXCEPT !.done = r.i, !.i = @ + 1])
        /\ records' = Without(r.zone, r.dels[r.i])
        /\ UNCHANGED zones

\* One turn of the loop that deletes: a record set that is not there fails the
\* change.
ApplyDeletion(c) ==
    LET r == req[c]
    IN  /\ At(c, "delete") /\ r.i <= Len(r.dels)
        /\ IF HasRecord(r.zone, r.dels[r.i])
             THEN Become(c, [r EXCEPT !.done = r.i, !.i = @ + 1])
             ELSE Fail(c)
        /\ records' = Without(r.zone, r.dels[r.i])
        /\ UNCHANGED zones

\* One turn of the loop that adds. CreateDNSRecordSet is an INSERT and a read;
\* an error of either fails the change, and that addition does not count.
ApplyAddition(c) ==
    LET r == req[c]
        a == r.adds[r.i]
    IN  /\ At(c, "add") /\ r.i <= Len(r.adds)
        /\ \/ /\ Insertable(r.zone, a.key)
              /\ records' = With(r.zone, a.key, a.data)
              /\ Become(c, [r EXCEPT !.pc = "readBack"])
           \/ /\ ~Insertable(r.zone, a.key)
              /\ Fail(c)
              /\ UNCHANGED records
        /\ UNCHANGED zones

\* Mutant: the completed additions are counted one too far.
ReadBackCountsNext(c) ==
    LET r == req[c]
    IN  /\ At(c, "readBack")
        /\ IF HasRecord(r.zone, r.adds[r.i].key)
             THEN Become(c, [r EXCEPT !.pc = "add", !.added = r.i + 1, !.i = @ + 1])
             ELSE Fail(c)
        /\ UNCHANGED <<zones, records>>

ReadBack(c) ==
    LET r == req[c]
    IN  /\ At(c, "readBack")
        /\ IF HasRecord(r.zone, r.adds[r.i].key)
             THEN Become(c, [r EXCEPT !.pc = "add", !.added = r.i, !.i = @ + 1])
             ELSE Fail(c)
        /\ UNCHANGED <<zones, records>>

\* rollback, first loop: the completed additions are deleted, errors ignored.
UndoAddition(c) ==
    LET r == req[c]
    IN  /\ At(c, "undoAdditions") /\ r.i <= r.added
        /\ records' = Without(r.zone, r.adds[r.i].key)
        /\ Become(c, [r EXCEPT !.i = @ + 1])
        /\ UNCHANGED zones

\* rollback, second loop: the completed deletions are inserted again from the
\* snapshot, errors ignored.
UndoDeletion(c) ==
    LET r == req[c]
        k == r.dels[r.i]
    IN  /\ At(c, "undoDeletions") /\ r.i <= r.done
        /\ records' = IF r.snap[r.i] # Missing /\ Insertable(r.zone, k)
                        THEN With(r.zone, k, r.snap[r.i]) ELSE records
        /\ Become(c, [r EXCEPT !.i = @ + 1])
        /\ UNCHANGED zones

\* Mutant: rollback is not told of the additions that succeeded.
NextPhaseKeepsAdditions(c) ==
    LET r == req[c]
    IN  /\ \/ At(c, "snapshot") /\ r.i > Len(r.dels) /\ Goto(c, "delete")
           \/ At(c, "delete") /\ r.i > Len(r.dels) /\ Goto(c, "add")
           \/ At(c, "add") /\ r.i > Len(r.adds) /\ Answer(c, "ok")
           \/ At(c, "undoAdditions") /\ Goto(c, "undoDeletions")
           \/ At(c, "undoDeletions") /\ r.i > r.done /\ Answer(c, "error")
        /\ UNCHANGED <<zones, records>>

\* A loop is over; after the last addition the change is recorded and answered.
NextPhase(c) ==
    LET r == req[c]
    IN  /\ \/ At(c, "snapshot") /\ r.i > Len(r.dels) /\ Goto(c, "delete")
           \/ At(c, "delete") /\ r.i > Len(r.dels) /\ Goto(c, "add")
           \/ At(c, "add") /\ r.i > Len(r.adds) /\ Answer(c, "ok")
           \/ At(c, "undoAdditions") /\ r.i > r.added /\ Goto(c, "undoDeletions")
           \/ At(c, "undoDeletions") /\ r.i > r.done /\ Answer(c, "error")
        /\ UNCHANGED <<zones, records>>

\* The process dies and New() opens the same file: requests are gone.
Restart == req' = [c \in Clients |-> Idle] /\ UNCHANGED <<zones, records>>

---------------------------------------------------------------------------
(* Specification *)

Init ==
    /\ zones = {}
    /\ records = {}
    /\ req = [c \in Clients |-> Idle]

Next ==
    \/ \E c \in Clients :
        \/ CreateDNSZone(c) \/ UpdateDNSZone(c) \/ WriteZone(c)
        \/ DeleteDNSZone(c) \/ FinishDeleteZone(c)
        \/ CreateDNSRecordSet(c) \/ InsertRecordSet(c)
        \/ DeleteDNSRecordSet(c) \/ RemoveRecordSet(c)
        \/ CreateDNSChange(c) \/ SnapshotDeletion(c) \/ ApplyDeletion(c)
        \/ ApplyAddition(c) \/ ReadBack(c)
        \/ UndoAddition(c) \/ UndoDeletion(c) \/ NextPhase(c)
        \/ Reply(c)
    \/ Restart

Spec == Init /\ [][Next]_vars

---------------------------------------------------------------------------
(* Properties *)

Request ==
    [pc : {"idle", "writeZone", "deleteZone", "insert", "remove", "snapshot", "delete",
           "add", "readBack", "undoAdditions", "undoDeletions", "reply"},
     change : BOOLEAN, zone : ZoneNames, label : Labels, touched : SUBSET RRsets,
     dels : Seq(RRsets), snap : Seq(Datas \cup {Missing}), adds : Seq(Addition),
     i : Nat, done : Nat, added : Nat, before : SUBSET Record,
     resp : {"none", "ok", "error"}]

\* Rows and requests are well formed, every record set has its zone, and a
\* change never undoes more than it did.
TypeOK ==
    /\ zones \subseteq Zone
    /\ records \subseteq Record
    /\ \A r \in records : HasZone(zones, r.zone)
    /\ req = [c \in Clients |-> req[c]]
    /\ \A c \in Clients :
        /\ req[c] \in Request
        /\ req[c].done <= Len(req[c].snap) /\ req[c].added <= Len(req[c].adds)

\* What the change of client c wants to see under the keys it touches.
Applied(r) ==
    {x \in r.before : x.key \notin ToSet(r.dels)}
        \cup {[zone |-> r.zone, key |-> a.key, data |-> a.data] : a \in ToSet(r.adds)}

\* A change applies in full or not at all: when it is answered, its keys hold
\* either all of its deletions and additions or exactly what they held before,
\* whichever of its steps failed, also when it names a key several times.
ChangeAtomic ==
    \A c \in Clients :
        LET r == req[c]
        IN  At(c, "reply") /\ r.change =>
                {x \in RecordsOf(records, r.zone) : x.key \in r.touched}
                    = IF r.resp = "ok" THEN Applied(r) ELSE r.before

\* Only an empty zone is deleted: "we want the same "must be empty" contract
\* real Cloud DNS enforces, so we count rrsets first and refuse the delete if any
\* exist". The count and the DELETE, which cascades, are two statements.
ZoneDeletedEmpty ==
    [][\A z \in ZoneNames :
        HasZone(zones, z) /\ ~HasZone(zones', z) => RecordsOf(records, z) = {}]_vars

---------------------------------------------------------------------------
(* Refinement *)

\* The request of c is a change that is not decided yet.
Undecided(c) == req[c].change /\ ~At(c, "reply")

\* The record sets without the traces of undecided changes: under the keys that
\* one touches, what it found there.
Committed ==
    {x \in records : \A c \in Clients :
        Undecided(c) => ~(x.zone = req[c].zone /\ x.key \in req[c].touched)}
        \cup UNION {req[c].before : c \in {d \in Clients : Undecided(d)}}

Submitted ==
    {[client |-> c, zone |-> req[c].zone, dels |-> req[c].dels, adds |-> req[c].adds] :
        c \in {d \in Clients : Undecided(d)}}

Atomic == INSTANCE AtomicDns WITH records <- Committed, pending <- Submitted

\* The long run of statements of a change looks like one step to every other
\* writer, it succeeds exactly when the change fits what is there ("a change
\* either applies in full or doesn't apply at all"), and a restart in the middle
\* leaves at worst a part of it.
ImplementsAtomicDns == Atomic!Spec
=============================================================================
