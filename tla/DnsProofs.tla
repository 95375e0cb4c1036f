----------------------------- MODULE DnsProofs -----------------------------
(***************************************************************************)
(* Zones, record sets and changes of Dns, for any clients, keys, data and  *)
(* lists: a change applies in full or not at all, as long as requests in   *)
(* flight share no record set.                                             *)
(***************************************************************************)
EXTENDS Dns, SequenceTheorems, TLAPS

---------------------------------------------------------------------------
(* Lists *)

LEMMA BoundedIsSeq ==
    ASSUME NEW S, NEW s \in BoundedSeq(S, MaxOps)
    PROVE  s \in Seq(S)
<1>1. PICK n \in 0..MaxOps : s \in [1..n -> S]
  BY DEF BoundedSeq, SeqOf
<1>2. n \in Nat
  BY MaxOpsAssumption
<1> QED
  BY <1>1, <1>2, SeqDef

---------------------------------------------------------------------------
(* Types *)

Changing == {"snapshot", "delete", "add", "readBack", "undoAdditions", "undoDeletions"}

\* How far a change is: what each phase has read, deleted, added and undone.
Counted(r) ==
    /\ r.i >= 1
    /\ r.pc = "snapshot" =>
        /\ r.i = Len(r.snap) + 1 /\ Len(r.snap) <= Len(r.dels)
        /\ r.done = 0 /\ r.added = 0
    /\ r.pc \in Changing \ {"snapshot"} => Len(r.snap) = Len(r.dels)
    /\ r.pc = "delete" => r.i = r.done + 1 /\ r.added = 0
    /\ r.pc \in {"add", "readBack"} => r.done = Len(r.dels) /\ r.i = r.added + 1
    /\ r.pc = "readBack" => r.i <= Len(r.adds)
    /\ r.pc = "undoAdditions" => r.i <= r.added + 1
    /\ r.pc = "undoDeletions" => r.i <= r.done + 1

\* A request about record sets declares the keys it touches.
Declared(r) ==
    /\ r.pc = "idle" => r.touched = {}
    /\ r.pc = "insert" => Len(r.adds) = 1
    /\ r.pc = "remove" => Len(r.dels) = 1
    /\ r.pc = "deleteZone" => r.touched = RRsets
    /\ r.pc \in {"insert", "remove"} \/ r.change => r.touched = Touched(r.dels, r.adds)
    /\ r.pc \in Changing => r.change
    /\ r.change => r.pc \in Changing \cup {"reply"}

RequestTyped(r) ==
    /\ r \in Request
    /\ r.done <= Len(r.snap) /\ r.added <= Len(r.adds)
    /\ Counted(r) /\ Declared(r)

Typed == TypeOK /\ \A c \in Clients : Counted(req[c]) /\ Declared(req[c])

LEMMA IdleTyped ==
    RequestTyped(Idle) /\ Idle.pc = "idle" /\ Idle.touched = {} /\ ~Idle.change
<1>1. Default(ZoneNames) \in ZoneNames /\ Default(Labels) \in Labels
  BY NamesAssumption DEF Default
<1>2. Idle \in Request
  BY <1>1 DEF Idle, Request
<1> QED
  BY <1>2 DEF RequestTyped, Counted, Declared, Idle, Changing

LEMMA TouchedKeys ==
    ASSUME NEW dels \in Seq(RRsets), NEW adds \in Seq(Addition)
    PROVE  /\ Touched(dels, adds) \subseteq RRsets
           /\ \A j \in 1..Len(dels) : dels[j] \in RRsets /\ dels[j] \in Touched(dels, adds)
           /\ \A j \in 1..Len(adds) : adds[j] \in Addition /\ adds[j].key \in Touched(dels, adds)
<1>1. DOMAIN dels = 1..Len(dels) /\ DOMAIN adds = 1..Len(adds)
  OBVIOUS
<1>2. ToSet(dels) \subseteq RRsets /\ ToSet(adds) \subseteq Addition
  BY DEF ToSet
<1> QED
  BY <1>1, <1>2 DEF Touched, ToSet, Addition

\* One request changes; the rows keep their shape and their zones.
LEMMA BecomeTyped ==
    ASSUME Typed, NEW c \in Clients, NEW r, RequestTyped(r), Become(c, r),
           zones' \subseteq Zone, records' \subseteq Record,
           \A x \in records' : HasZone(zones', x.zone)
    PROVE  Typed'
<1>1. req' = [d \in Clients |-> req'[d]]
      /\ \A d \in Clients : req'[d] = IF d = c THEN r ELSE req[d]
  BY DEF Typed, TypeOK, Become
<1>2. \A d \in Clients : RequestTyped(req'[d])
  BY <1>1 DEF Typed, TypeOK, RequestTyped
<1> QED
  BY <1>1, <1>2 DEF Typed, TypeOK, RequestTyped

LEMMA KeepsRows ==
    ASSUME Typed, NEW c \in Clients, NEW r, RequestTyped(r), Become(c, r),
           UNCHANGED <<zones, records>>
    PROVE  Typed'
  BY BecomeTyped DEF Typed, TypeOK

LEMMA OwnTyped == ASSUME Typed, NEW c \in Clients PROVE RequestTyped(req[c])
  BY DEF Typed, TypeOK, RequestTyped

\* An answered request keeps nothing but what it touched.
LEMMA AnswerTyped ==
    ASSUME NEW r, RequestTyped(r), NEW code \in {"ok", "error"}
    PROVE  RequestTyped([r EXCEPT !.pc = "reply", !.resp = code])
<1> DEFINE s == [r EXCEPT !.pc = "reply", !.resp = code]
<1>1. s \in Request /\ s.pc = "reply"
  BY DEF RequestTyped, Request
<1>2. /\ s.done = r.done /\ s.added = r.added /\ s.i = r.i /\ s.dels = r.dels
      /\ s.adds = r.adds /\ s.snap = r.snap /\ s.touched = r.touched
  BY DEF RequestTyped, Request
<1>3. s.change = r.change
  BY DEF RequestTyped, Request
<1> HIDE DEF s
<1>4. Counted(s)
  BY <1>1, <1>2 DEF RequestTyped, Counted, Changing
<1>5. Declared(s)
  BY <1>1, <1>2, <1>3 DEF RequestTyped, Declared, Changing
<1>6. RequestTyped(s)
  BY <1>1, <1>2, <1>4, <1>5 DEF RequestTyped
<1> QED
  BY <1>6 DEF s

LEMMA ZonesTyped ==
    ASSUME Typed, NEW c \in Clients,
           CreateDNSZone(c) \/ UpdateDNSZone(c) \/ WriteZone(c)
           \/ DeleteDNSZone(c) \/ FinishDeleteZone(c)
    PROVE  Typed'
<1>0. RequestTyped(req[c])
  BY OwnTyped
<1>1. CASE CreateDNSZone(c)
  BY <1>1 DEF CreateDNSZone, Typed, TypeOK, Zone, HasZone
<1>2. CASE UpdateDNSZone(c)
  <2>1. PICK z \in ZoneNames, l \in Labels :
            Become(c, [Idle EXCEPT !.pc = "writeZone", !.zone = z, !.label = l])
    BY <1>2 DEF UpdateDNSZone
  <2>2. RequestTyped([Idle EXCEPT !.pc = "writeZone", !.zone = z, !.label = l])
    BY IdleTyped DEF RequestTyped, Request, Counted, Declared, Changing
  <2> QED
    BY <1>2, <2>1, <2>2, KeepsRows DEF UpdateDNSZone
<1>3. CASE WriteZone(c)
  <2>1. zones' \subseteq Zone /\ \A z : HasZone(zones, z) => HasZone(zones', z)
    <3> DEFINE W(x) == IF x.name = req[c].zone THEN [x EXCEPT !.label = req[c].label] ELSE x
    <3>1. \A x \in zones : W(x) \in Zone /\ W(x).name = x.name
      BY <1>0 DEF Typed, TypeOK, Zone, RequestTyped, Request
    <3>2. zones' = {W(x) : x \in zones}
      BY <1>3 DEF WriteZone
    <3> QED
      BY <3>1, <3>2 DEF HasZone
  <2> QED
    BY <1>0, <1>3, <2>1, BecomeTyped, AnswerTyped DEF WriteZone, Answer, Typed, TypeOK
<1>4. CASE DeleteDNSZone(c)
  <2>1. PICK z \in ZoneNames :
            Become(c, [Idle EXCEPT !.pc = "deleteZone", !.zone = z, !.touched = RRsets])
    BY <1>4 DEF DeleteDNSZone
  <2>2. RequestTyped([Idle EXCEPT !.pc = "deleteZone", !.zone = z, !.touched = RRsets])
    BY IdleTyped DEF RequestTyped, Request, Counted, Declared, Changing
  <2> QED
    BY <1>4, <2>1, <2>2, KeepsRows DEF DeleteDNSZone
<1>5. CASE FinishDeleteZone(c)
  <2>1. \A x \in records' : HasZone(zones', x.zone)
    BY <1>5 DEF FinishDeleteZone, RecordsOf, HasZone, Typed, TypeOK
  <2> QED
    BY <1>0, <1>5, <2>1, BecomeTyped, AnswerTyped
    DEF FinishDeleteZone, Answer, Typed, TypeOK
<1> QED
  BY <1>1, <1>2, <1>3, <1>4, <1>5
LEMMA RecordSetsTyped ==
    ASSUME Typed, NEW c \in Clients,
           \/ CreateDNSRecordSet(c) \/ InsertRecordSet(c)
           \/ DeleteDNSRecordSet(c) \/ RemoveRecordSet(c)
    PROVE  Typed'
<1>0. RequestTyped(req[c])
  BY OwnTyped
<1>1. CASE CreateDNSRecordSet(c)
  <2>1. PICK z \in ZoneNames, a \in Addition :
            Become(c, [Idle EXCEPT !.pc = "insert", !.zone = z, !.touched = {a.key},
                                   !.adds = <<a>>])
    BY <1>1 DEF CreateDNSRecordSet
  <2> DEFINE r == [Idle EXCEPT !.pc = "insert", !.zone = z, !.touched = {a.key},
                               !.adds = <<a>>]
  <2>2. <<a>> \in Seq(Addition) /\ Len(<<a>>) = 1 /\ a.key \in RRsets
    BY DEF Addition
  <2>3. r \in Request
    BY <2>2, IdleTyped DEF RequestTyped, Request
  <2>4. /\ r.pc = "insert" /\ r.touched = {a.key} /\ r.adds = <<a>> /\ r.dels = <<>>
        /\ ~r.change /\ r.i = 1 /\ r.done = 0 /\ r.added = 0 /\ r.snap = <<>>
    BY DEF Idle
  <2>5. Touched(<<>>, <<a>>) = {a.key}
    BY DEF Touched, ToSet
  <2> HIDE DEF r
  <2>6. RequestTyped(r)
    BY <2>2, <2>3, <2>4, <2>5 DEF RequestTyped, Counted, Declared, Changing
  <2> QED
    BY <1>1, <2>1, <2>6, KeepsRows DEF CreateDNSRecordSet, r
<1>2. CASE InsertRecordSet(c)
  <2> DEFINE r == req[c]
             a == r.adds[1]
  <2>1. a \in Addition /\ r.zone \in ZoneNames
    BY <1>0, <1>2 DEF InsertRecordSet, At, RequestTyped, Request, Declared
  <2>2. [zone |-> r.zone, key |-> a.key, data |-> a.data] \in Record
    BY <2>1 DEF Record, Addition
  <2>3. \/ Insertable(r.zone, a.key) /\ records' = With(r.zone, a.key, a.data)
        \/ records' = records
    BY <1>2 DEF InsertRecordSet
  <2>4. records' \subseteq Record /\ \A x \in records' : HasZone(zones, x.zone)
    BY <2>2, <2>3 DEF With, Insertable, Typed, TypeOK
  <2>5. zones' = zones /\ \E code \in {"ok", "error"} : Answer(c, code)
    BY <1>2 DEF InsertRecordSet
  <2> QED
    BY <1>0, <2>4, <2>5, BecomeTyped, AnswerTyped DEF Answer, Typed, TypeOK
<1>3. CASE DeleteDNSRecordSet(c)
  <2>1. PICK z \in ZoneNames, k \in RRsets :
            Become(c, [Idle EXCEPT !.pc = "remove", !.zone = z, !.touched = {k},
                                   !.dels = <<k>>])
    BY <1>3 DEF DeleteDNSRecordSet
  <2> DEFINE r == [Idle EXCEPT !.pc = "remove", !.zone = z, !.touched = {k},
                               !.dels = <<k>>]
  <2>2. <<k>> \in Seq(RRsets) /\ Len(<<k>>) = 1
    OBVIOUS
  <2>3. r \in Request
    BY <2>2, IdleTyped DEF RequestTyped, Request
  <2>4. /\ r.pc = "remove" /\ r.touched = {k} /\ r.adds = <<>> /\ r.dels = <<k>>
        /\ ~r.change /\ r.i = 1 /\ r.done = 0 /\ r.added = 0 /\ r.snap = <<>>
    BY DEF Idle
  <2>5. Touched(<<k>>, <<>>) = {k}
    BY DEF Touched, ToSet
  <2> HIDE DEF r
  <2>6. RequestTyped(r)
    BY <2>2, <2>3, <2>4, <2>5 DEF RequestTyped, Counted, Declared, Changing
  <2> QED
    BY <1>3, <2>1, <2>6, KeepsRows DEF DeleteDNSRecordSet, r
<1>4. CASE RemoveRecordSet(c)
  <2>1. records' \subseteq records /\ zones' = zones
        /\ \E code \in {"ok", "error"} : Answer(c, code)
    BY <1>4 DEF RemoveRecordSet, Without
  <2> QED
    BY <1>0, <2>1, BecomeTyped, AnswerTyped DEF Answer, Typed, TypeOK
<1> QED
  BY <1>1, <1>2, <1>3, <1>4

LEMMA StartChangeTyped ==
    ASSUME Typed, NEW c \in Clients, CreateDNSChange(c)
    PROVE  Typed'
<1>1. PICK z \in ZoneNames, dels \in BoundedSeq(RRsets, MaxOps),
           adds \in BoundedSeq(Addition, MaxOps) :
        Become(c, [Idle EXCEPT !.pc = "snapshot", !.change = TRUE, !.zone = z,
                   !.touched = Touched(dels, adds), !.dels = dels, !.adds = adds,
                   !.before = {x \in RecordsOf(records, z) : x.key \in Touched(dels, adds)}])
  BY DEF CreateDNSChange
<1> DEFINE keys == Touched(dels, adds)
           before == {x \in RecordsOf(records, z) : x.key \in keys}
           r == [Idle EXCEPT !.pc = "snapshot", !.change = TRUE, !.zone = z,
                   !.touched = keys, !.dels = dels, !.adds = adds, !.before = before]
<1>2. dels \in Seq(RRsets) /\ adds \in Seq(Addition)
  BY BoundedIsSeq
<1>3. keys \subseteq RRsets /\ before \subseteq Record
  BY <1>2, TouchedKeys DEF Typed, TypeOK, RecordsOf
<1> HIDE DEF keys, before
<1>4. r \in Request
  BY <1>2, <1>3, IdleTyped DEF RequestTyped, Request
<1>5. /\ r.pc = "snapshot" /\ r.touched = keys /\ r.adds = adds /\ r.dels = dels
      /\ r.change /\ r.i = 1 /\ r.done = 0 /\ r.added = 0 /\ r.snap = <<>>
  BY DEF Idle
<1> HIDE DEF r
<1>6. Counted(r) /\ r.done <= Len(r.snap) /\ r.added <= Len(r.adds)
  BY <1>2, <1>5, LenProperties DEF Counted, Changing
<1>7. Declared(r)
  BY <1>5 DEF Declared, Changing, keys
<1>8. RequestTyped(r)
  BY <1>4, <1>6, <1>7 DEF RequestTyped
<1> QED
  BY <1>1, <1>8, KeepsRows DEF CreateDNSChange, r, keys, before
\* What no step of a change alters.
SameChange(r, s) ==
    /\ s.change = r.change /\ s.zone = r.zone /\ s.touched = r.touched
    /\ s.dels = r.dels /\ s.adds = r.adds /\ s.before = r.before

Moves(r, s, pc, i, snap, done, added) ==
    /\ SameChange(r, s)
    /\ s.pc = pc /\ s.i = i /\ s.snap = snap /\ s.done = done /\ s.added = added

\* The forms in which the steps change a request: one more deletion is in the snapshot,
LEMMA ShapeSnapped ==
    ASSUME NEW r \in Request, NEW snap \in Seq(Datas \cup {Missing}), NEW i \in Nat
    PROVE  LET s == [r EXCEPT !.snap = snap, !.i = i]
           IN  s \in Request /\ Moves(r, s, r.pc, i, snap, r.done, r.added)
<1>1. [r EXCEPT !.snap = snap, !.i = i] \in Request
  BY DEF Request, Changing
<1>2. Moves(r, [r EXCEPT !.snap = snap, !.i = i], r.pc, i, snap, r.done, r.added)
  BY DEF Request, Moves, SameChange
<1> QED
  BY <1>1, <1>2

\* one more is done,
LEMMA ShapeDone ==
    ASSUME NEW r \in Request, NEW n \in Nat, NEW i \in Nat
    PROVE  LET s == [r EXCEPT !.done = n, !.i = i]
           IN  s \in Request /\ Moves(r, s, r.pc, i, r.snap, n, r.added)
<1>1. [r EXCEPT !.done = n, !.i = i] \in Request
  BY DEF Request, Changing
<1>2. Moves(r, [r EXCEPT !.done = n, !.i = i], r.pc, i, r.snap, n, r.added)
  BY DEF Request, Moves, SameChange
<1> QED
  BY <1>1, <1>2

\* one more addition is,
LEMMA ShapeAdded ==
    ASSUME NEW r \in Request, NEW pc \in Changing, NEW n \in Nat, NEW i \in Nat
    PROVE  LET s == [r EXCEPT !.pc = pc, !.added = n, !.i = i]
           IN  s \in Request /\ Moves(r, s, pc, i, r.snap, r.done, n)
<1>1. [r EXCEPT !.pc = pc, !.added = n, !.i = i] \in Request
  BY DEF Request, Changing
<1>2. Moves(r, [r EXCEPT !.pc = pc, !.added = n, !.i = i], pc, i, r.snap, r.done, n)
  BY DEF Request, Moves, SameChange
<1> QED
  BY <1>1, <1>2

\* the next loop starts,
LEMMA ShapePhase ==
    ASSUME NEW r \in Request, NEW pc \in Changing, NEW i \in Nat
    PROVE  LET s == [r EXCEPT !.pc = pc, !.i = i]
           IN  s \in Request /\ Moves(r, s, pc, i, r.snap, r.done, r.added)
<1>1. [r EXCEPT !.pc = pc, !.i = i] \in Request
  BY DEF Request, Changing
<1>2. Moves(r, [r EXCEPT !.pc = pc, !.i = i], pc, i, r.snap, r.done, r.added)
  BY DEF Request, Moves, SameChange
<1> QED
  BY <1>1, <1>2

\* the next statement of a loop's body is due,
LEMMA ShapePc ==
    ASSUME NEW r \in Request, NEW pc \in Changing
    PROVE  LET s == [r EXCEPT !.pc = pc]
           IN  s \in Request /\ Moves(r, s, pc, r.i, r.snap, r.done, r.added)
<1>1. [r EXCEPT !.pc = pc] \in Request
  BY DEF Request, Changing
<1>2. Moves(r, [r EXCEPT !.pc = pc], pc, r.i, r.snap, r.done, r.added)
  BY DEF Request, Moves, SameChange
<1> QED
  BY <1>1, <1>2

\* or the loop goes on.
LEMMA ShapeIndex ==
    ASSUME NEW r \in Request, NEW i \in Nat
    PROVE  LET s == [r EXCEPT !.i = i]
           IN  s \in Request /\ Moves(r, s, r.pc, i, r.snap, r.done, r.added)
<1>1. [r EXCEPT !.i = i] \in Request
  BY DEF Request, Changing
<1>2. Moves(r, [r EXCEPT !.i = i], r.pc, i, r.snap, r.done, r.added)
  BY DEF Request, Moves, SameChange
<1> QED
  BY <1>1, <1>2

LEMMA MovedDeclared ==
    ASSUME NEW r, RequestTyped(r), NEW s, SameChange(r, s), r.pc \in Changing,
           s.pc \in Changing \cup {"reply"}
    PROVE  Declared(s)
  BY DEF RequestTyped, Declared, SameChange, Changing

LEMMA Own ==
    ASSUME Typed, NEW c \in Clients, NEW r, Become(c, r)
    PROVE  req'[c] = r
  BY DEF Become, Typed, TypeOK

LEMMA DataOfTyped ==
    ASSUME Typed, NEW z, NEW k
    PROVE  DataOf(z, k) \in Datas \cup {Missing}
<1>1. CASE HasRecord(z, k)
  <2> DEFINE x == CHOOSE y \in RecordsOf(records, z) : y.key = k
  <2>1. x \in RecordsOf(records, z)
    BY <1>1 DEF HasRecord
  <2>2. x \in Record
    BY <2>1 DEF RecordsOf, Typed, TypeOK
  <2> QED
    BY <1>1, <2>2 DEF DataOf, Record
<1> QED
  BY <1>1 DEF DataOf

\* Each step of a change, as what it does to its request.
LEMMA SnapshotStep ==
    ASSUME Typed, NEW c \in Clients, SnapshotDeletion(c)
    PROVE  LET r == req[c]
           IN  /\ r.pc = "snapshot" /\ r.i <= Len(r.dels) /\ UNCHANGED <<zones, records>>
               /\ Become(c, req'[c]) /\ RequestTyped(req'[c])
               /\ Moves(r, req'[c], "snapshot", r.i + 1,
                        Append(r.snap, DataOf(r.zone, r.dels[r.i])), r.done, r.added)
<1> DEFINE r == req[c]
           s == req'[c]
           snap == Append(r.snap, DataOf(r.zone, r.dels[r.i]))
<1>1. RequestTyped(r) /\ r.pc = "snapshot" /\ r.i <= Len(r.dels) /\ UNCHANGED <<zones, records>>
  BY OwnTyped DEF SnapshotDeletion, At
<1>2. r \in Request
  BY <1>1 DEF RequestTyped
<1>3. snap \in Seq(Datas \cup {Missing}) /\ Len(snap) = Len(r.snap) + 1
  BY <1>2, DataOfTyped DEF Request
<1>4. Become(c, s) /\ s = [r EXCEPT !.snap = snap, !.i = @ + 1]
  BY Own DEF SnapshotDeletion
<1> HIDE DEF snap, s
<1>5. s \in Request /\ Moves(r, s, "snapshot", r.i + 1, snap, r.done, r.added)
  <2>1. r.i + 1 \in Nat /\ r.pc \in Changing
    BY <1>1, <1>2 DEF Request, Changing
  <2>2. s \in Request /\ Moves(r, s, r.pc, r.i + 1, snap, r.done, r.added)
    BY <1>2, <1>3, <1>4, <2>1, ShapeSnapped
  <2> QED
    BY <1>1, <2>2
<1>6. Declared(s)
  BY <1>1, <1>5, MovedDeclared DEF Moves, Changing
<1>7. Counted(s) /\ s.done <= Len(s.snap) /\ s.added <= Len(s.adds)
  BY <1>1, <1>2, <1>3, <1>5 DEF RequestTyped, Request, Counted, Moves, SameChange, Changing
<1> QED
  BY <1>1, <1>4, <1>5, <1>6, <1>7 DEF RequestTyped, snap, s

LEMMA DeletionStep ==
    ASSUME Typed, NEW c \in Clients, ApplyDeletion(c)
    PROVE  LET r == req[c]
               s == req'[c]
           IN  /\ r.pc = "delete" /\ r.i <= Len(r.dels)
               /\ zones' = zones /\ Become(c, s) /\ RequestTyped(s)
               /\ records' = Without(r.zone, r.dels[r.i])
               /\ \/ /\ HasRecord(r.zone, r.dels[r.i])
                     /\ Moves(r, s, "delete", r.i + 1, r.snap, r.i, r.added)
                  \/ /\ ~HasRecord(r.zone, r.dels[r.i])
                     /\ Moves(r, s, "undoAdditions", 1, r.snap, r.done, r.added)
<1> DEFINE r == req[c]
           s == req'[c]
<1>1. /\ RequestTyped(r) /\ r.pc = "delete" /\ r.i <= Len(r.dels)
      /\ zones' = zones /\ records' = Without(r.zone, r.dels[r.i])
  BY OwnTyped DEF ApplyDeletion, At
<1>2. /\ r \in Request /\ r.i \in Nat /\ r.i + 1 \in Nat
      /\ r.done \in Nat /\ r.added \in Nat
      /\ r.dels \in Seq(RRsets) /\ r.adds \in Seq(Addition)
      /\ r.snap \in Seq(Datas \cup {Missing})
  BY <1>1 DEF RequestTyped, Request
<1>3. CASE /\ HasRecord(r.zone, r.dels[r.i])
           /\ Become(c, [r EXCEPT !.done = r.i, !.i = r.i + 1])
  <2>1. Become(c, s) /\ s = [r EXCEPT !.done = r.i, !.i = r.i + 1]
    BY <1>3, Own
  <2> HIDE DEF s
  <2>2. r.pc \in Changing
    BY <1>1 DEF Changing
  <2>3. s \in Request /\ Moves(r, s, r.pc, r.i + 1, r.snap, r.i, r.added)
    BY <1>2, <2>1, <2>2, ShapeDone
  <2>4. Moves(r, s, "delete", r.i + 1, r.snap, r.i, r.added)
    BY <1>1, <2>3
  <2>5. Counted(s) /\ s.done <= Len(s.snap) /\ s.added <= Len(s.adds)
    BY <1>1, <1>2, <2>4 DEF RequestTyped, Counted, Moves, SameChange, Changing
  <2>6. Declared(s)
    BY <1>1, <2>4, MovedDeclared DEF Moves, Changing
  <2> QED
    BY <1>1, <1>3, <2>1, <2>3, <2>4, <2>5, <2>6 DEF RequestTyped, s
<1>4. CASE /\ ~HasRecord(r.zone, r.dels[r.i])
           /\ Become(c, [r EXCEPT !.pc = "undoAdditions", !.i = 1])
  <2>1. Become(c, s) /\ s = [r EXCEPT !.pc = "undoAdditions", !.i = 1]
    BY <1>4, Own
  <2> HIDE DEF s
  <2>2. s \in Request /\ Moves(r, s, "undoAdditions", 1, r.snap, r.done, r.added)
    BY <1>1, <1>2, <2>1, ShapePhase DEF Changing
  <2>3. Counted(s) /\ s.done <= Len(s.snap) /\ s.added <= Len(s.adds)
    BY <1>1, <1>2, <2>2 DEF RequestTyped, Counted, Moves, SameChange, Changing
  <2>4. Declared(s)
    BY <1>1, <2>2, MovedDeclared DEF Moves, Changing
  <2> QED
    BY <1>1, <1>4, <2>1, <2>2, <2>3, <2>4 DEF RequestTyped, s
<1> QED
  BY <1>3, <1>4 DEF ApplyDeletion, Goto, Fail

LEMMA AdditionStep ==
    ASSUME Typed, NEW c \in Clients, ApplyAddition(c)
    PROVE  LET r == req[c]
               s == req'[c]
           IN  /\ r.pc = "add" /\ r.i <= Len(r.adds)
               /\ zones' = zones /\ Become(c, s) /\ RequestTyped(s)
               /\ \/ /\ Insertable(r.zone, r.adds[r.i].key)
                     /\ records' = With(r.zone, r.adds[r.i].key, r.adds[r.i].data)
                     /\ Moves(r, s, "readBack", r.i, r.snap, r.done, r.added)
                  \/ /\ ~Insertable(r.zone, r.adds[r.i].key) /\ records' = records
                     /\ Moves(r, s, "undoAdditions", 1, r.snap, r.done, r.added)
<1> DEFINE r == req[c]
           s == req'[c]
<1>1. /\ RequestTyped(r) /\ r.pc = "add" /\ r.i <= Len(r.adds)
      /\ zones' = zones
  BY OwnTyped DEF ApplyAddition, At
<1>2. /\ r \in Request /\ r.i \in Nat /\ r.i + 1 \in Nat
      /\ r.done \in Nat /\ r.added \in Nat
      /\ r.dels \in Seq(RRsets) /\ r.adds \in Seq(Addition)
      /\ r.snap \in Seq(Datas \cup {Missing})
  BY <1>1 DEF RequestTyped, Request
<1>3. CASE /\ Insertable(r.zone, r.adds[r.i].key)
           /\ records' = With(r.zone, r.adds[r.i].key, r.adds[r.i].data)
           /\ Become(c, [r EXCEPT !.pc = "readBack"])
  <2>1. Become(c, s) /\ s = [r EXCEPT !.pc = "readBack"]
    BY <1>3, Own
  <2> HIDE DEF s
  <2>2. s \in Request /\ Moves(r, s, "readBack", r.i, r.snap, r.done, r.added)
    BY <1>1, <1>2, <2>1, ShapePc DEF Changing
  <2>3. Counted(s) /\ s.done <= Len(s.snap) /\ s.added <= Len(s.adds)
    BY <1>1, <1>2, <2>2 DEF RequestTyped, Counted, Moves, SameChange, Changing
  <2>4. Declared(s)
    BY <1>1, <2>2, MovedDeclared DEF Moves, Changing
  <2> QED
    BY <1>1, <1>3, <2>1, <2>2, <2>3, <2>4 DEF RequestTyped, s
<1>4. CASE /\ ~Insertable(r.zone, r.adds[r.i].key) /\ records' = records
           /\ Become(c, [r EXCEPT !.pc = "undoAdditions", !.i = 1])
  <2>1. Become(c, s) /\ s = [r EXCEPT !.pc = "undoAdditions", !.i = 1]
    BY <1>4, Own
  <2> HIDE DEF s
  <2>2. s \in Request /\ Moves(r, s, "undoAdditions", 1, r.snap, r.done, r.added)
    BY <1>1, <1>2, <2>1, ShapePhase DEF Changing
  <2>3. Counted(s) /\ s.done <= Len(s.snap) /\ s.added <= Len(s.adds)
    BY <1>1, <1>2, <2>2 DEF RequestTyped, Counted, Moves, SameChange, Changing
  <2>4. Declared(s)
    BY <1>1, <2>2, MovedDeclared DEF Moves, Changing
  <2> QED
    BY <1>1, <1>4, <2>1, <2>2, <2>3, <2>4 DEF RequestTyped, s
<1> QED
  BY <1>3, <1>4 DEF ApplyAddition, Goto, Fail

LEMMA ReadBackStep ==
    ASSUME Typed, NEW c \in Clients, ReadBack(c)
    PROVE  LET r == req[c]
               s == req'[c]
           IN  /\ r.pc = "readBack"
               /\ zones' = zones /\ Become(c, s) /\ RequestTyped(s)
               /\ records' = records
               /\ \/ /\ HasRecord(r.zone, r.adds[r.i].key)
                     /\ Moves(r, s, "add", r.i + 1, r.snap, r.done, r.i)
                  \/ /\ ~HasRecord(r.zone, r.adds[r.i].key)
                     /\ Moves(r, s, "undoAdditions", 1, r.snap, r.done, r.added)
<1> DEFINE r == req[c]
           s == req'[c]
<1>1. /\ RequestTyped(r) /\ r.pc = "readBack"
      /\ zones' = zones /\ records' = records
  BY OwnTyped DEF ReadBack, At
<1>2. /\ r \in Request /\ r.i \in Nat /\ r.i + 1 \in Nat
      /\ r.done \in Nat /\ r.added \in Nat
      /\ r.dels \in Seq(RRsets) /\ r.adds \in Seq(Addition)
      /\ r.snap \in Seq(Datas \cup {Missing})
  BY <1>1 DEF RequestTyped, Request
<1>3. CASE /\ HasRecord(r.zone, r.adds[r.i].key)
           /\ Become(c, [r EXCEPT !.pc = "add", !.added = r.i, !.i = r.i + 1])
  <2>1. Become(c, s) /\ s = [r EXCEPT !.pc = "add", !.added = r.i, !.i = r.i + 1]
    BY <1>3, Own
  <2> HIDE DEF s
  <2>2. s \in Request /\ Moves(r, s, "add", r.i + 1, r.snap, r.done, r.i)
    BY <1>1, <1>2, <2>1, ShapeAdded DEF Changing
  <2>3. Counted(s) /\ s.done <= Len(s.snap) /\ s.added <= Len(s.adds)
    BY <1>1, <1>2, <2>2 DEF RequestTyped, Counted, Moves, SameChange, Changing
  <2>4. Declared(s)
    BY <1>1, <2>2, MovedDeclared DEF Moves, Changing
  <2> QED
    BY <1>1, <1>3, <2>1, <2>2, <2>3, <2>4 DEF RequestTyped, s
<1>4. CASE /\ ~HasRecord(r.zone, r.adds[r.i].key)
           /\ Become(c, [r EXCEPT !.pc = "undoAdditions", !.i = 1])
  <2>1. Become(c, s) /\ s = [r EXCEPT !.pc = "undoAdditions", !.i = 1]
    BY <1>4, Own
  <2> HIDE DEF s
  <2>2. s \in Request /\ Moves(r, s, "undoAdditions", 1, r.snap, r.done, r.added)
    BY <1>1, <1>2, <2>1, ShapePhase DEF Changing
  <2>3. Counted(s) /\ s.done <= Len(s.snap) /\ s.added <= Len(s.adds)
    BY <1>1, <1>2, <2>2 DEF RequestTyped, Counted, Moves, SameChange, Changing
  <2>4. Declared(s)
    BY <1>1, <2>2, MovedDeclared DEF Moves, Changing
  <2> QED
    BY <1>1, <1>4, <2>1, <2>2, <2>3, <2>4 DEF RequestTyped, s
<1> QED
  BY <1>3, <1>4 DEF ReadBack, Goto, Fail

LEMMA UndoAdditionStep ==
    ASSUME Typed, NEW c \in Clients, UndoAddition(c)
    PROVE  LET r == req[c]
               s == req'[c]
           IN  /\ r.pc = "undoAdditions" /\ r.i <= r.added
               /\ zones' = zones /\ Become(c, s) /\ RequestTyped(s)
               /\ records' = Without(r.zone, r.adds[r.i].key)
               /\ Moves(r, s, "undoAdditions", r.i + 1, r.snap, r.done, r.added)
<1> DEFINE r == req[c]
           s == req'[c]
<1>1. /\ RequestTyped(r) /\ r.pc = "undoAdditions" /\ r.i <= r.added
      /\ zones' = zones /\ records' = Without(r.zone, r.adds[r.i].key)
  BY OwnTyped DEF UndoAddition, At
<1>2. /\ r \in Request /\ r.i \in Nat /\ r.i + 1 \in Nat
      /\ r.done \in Nat /\ r.added \in Nat
      /\ r.dels \in Seq(RRsets) /\ r.adds \in Seq(Addition)
      /\ r.snap \in Seq(Datas \cup {Missing})
  BY <1>1 DEF RequestTyped, Request
<1>3. CASE Become(c, [r EXCEPT !.i = r.i + 1])
  <2>1. Become(c, s) /\ s = [r EXCEPT !.i = r.i + 1]
    BY <1>3, Own
  <2> HIDE DEF s
  <2>2. s \in Request /\ Moves(r, s, "undoAdditions", r.i + 1, r.snap, r.done, r.added)
    BY <1>1, <1>2, <2>1, ShapeIndex DEF Changing
  <2>3. Counted(s) /\ s.done <= Len(s.snap) /\ s.added <= Len(s.adds)
    BY <1>1, <1>2, <2>2 DEF RequestTyped, Counted, Moves, SameChange, Changing
  <2>4. Declared(s)
    BY <1>1, <2>2, MovedDeclared DEF Moves, Changing
  <2> QED
    BY <1>1, <1>3, <2>1, <2>2, <2>3, <2>4 DEF RequestTyped, s
<1> QED
  BY <1>3 DEF UndoAddition, Goto, Fail

LEMMA UndoDeletionStep ==
    ASSUME Typed, NEW c \in Clients, UndoDeletion(c)
    PROVE  LET r == req[c]
               s == req'[c]
           IN  /\ r.pc = "undoDeletions" /\ r.i <= r.done
               /\ zones' = zones /\ Become(c, s) /\ RequestTyped(s)
               /\ records' = IF r.snap[r.i] # Missing /\ Insertable(r.zone, r.dels[r.i])
                                THEN With(r.zone, r.dels[r.i], r.snap[r.i]) ELSE records
               /\ Moves(r, s, "undoDeletions", r.i + 1, r.snap, r.done, r.added)
<1> DEFINE r == req[c]
           s == req'[c]
<1>1. /\ RequestTyped(r) /\ r.pc = "undoDeletions" /\ r.i <= r.done
      /\ zones' = zones
      /\ records' = IF r.snap[r.i] # Missing /\ Insertable(r.zone, r.dels[r.i])
                                THEN With(r.zone, r.dels[r.i], r.snap[r.i]) ELSE records
  BY OwnTyped DEF UndoDeletion, At
<1>2. /\ r \in Request /\ r.i \in Nat /\ r.i + 1 \in Nat
      /\ r.done \in Nat /\ r.added \in Nat
      /\ r.dels \in Seq(RRsets) /\ r.adds \in Seq(Addition)
      /\ r.snap \in Seq(Datas \cup {Missing})
  BY <1>1 DEF RequestTyped, Request
<1>3. CASE Become(c, [r EXCEPT !.i = r.i + 1])
  <2>1. Become(c, s) /\ s = [r EXCEPT !.i = r.i + 1]
    BY <1>3, Own
  <2> HIDE DEF s
  <2>2. s \in Request /\ Moves(r, s, "undoDeletions", r.i + 1, r.snap, r.done, r.added)
    BY <1>1, <1>2, <2>1, ShapeIndex DEF Changing
  <2>3. Counted(s) /\ s.done <= Len(s.snap) /\ s.added <= Len(s.adds)
    BY <1>1, <1>2, <2>2 DEF RequestTyped, Counted, Moves, SameChange, Changing
  <2>4. Declared(s)
    BY <1>1, <2>2, MovedDeclared DEF Moves, Changing
  <2> QED
    BY <1>1, <1>3, <2>1, <2>2, <2>3, <2>4 DEF RequestTyped, s
<1> QED
  BY <1>3 DEF UndoDeletion, Goto, Fail
LEMMA NextPhaseStep ==
    ASSUME Typed, NEW c \in Clients, NextPhase(c)
    PROVE  LET r == req[c]
               s == req'[c]
           IN  /\ r.pc \in Changing /\ UNCHANGED <<zones, records>>
               /\ Become(c, s) /\ RequestTyped(s)
               /\ \/ /\ r.pc = "snapshot" /\ r.i > Len(r.dels)
                     /\ Moves(r, s, "delete", 1, r.snap, r.done, r.added)
                  \/ /\ r.pc = "delete" /\ r.i > Len(r.dels)
                     /\ Moves(r, s, "add", 1, r.snap, r.done, r.added)
                  \/ /\ r.pc = "undoAdditions" /\ r.i > r.added
                     /\ Moves(r, s, "undoDeletions", 1, r.snap, r.done, r.added)
                  \/ /\ r.pc = "add" /\ r.i > Len(r.adds)
                     /\ SameChange(r, s) /\ s.pc = "reply" /\ s.resp = "ok"
                  \/ /\ r.pc = "undoDeletions" /\ r.i > r.done
                     /\ SameChange(r, s) /\ s.pc = "reply" /\ s.resp = "error"
<1> DEFINE r == req[c]
           s == req'[c]
<1>1. RequestTyped(r) /\ r.pc \in Changing /\ UNCHANGED <<zones, records>>
  BY OwnTyped DEF NextPhase, At, Changing
<1>2. /\ r \in Request /\ r.i \in Nat /\ r.done \in Nat /\ r.added \in Nat
      /\ r.dels \in Seq(RRsets) /\ r.adds \in Seq(Addition)
      /\ r.snap \in Seq(Datas \cup {Missing})
  BY <1>1 DEF RequestTyped, Request
<1>3. ASSUME NEW pc \in {"delete", "add", "undoDeletions"}, Goto(c, pc),
             \/ r.pc = "snapshot" /\ r.i > Len(r.dels) /\ pc = "delete"
             \/ r.pc = "delete" /\ r.i > Len(r.dels) /\ pc = "add"
             \/ r.pc = "undoAdditions" /\ r.i > r.added /\ pc = "undoDeletions"
      PROVE  Become(c, s) /\ RequestTyped(s) /\ Moves(r, s, pc, 1, r.snap, r.done, r.added)
  <2>1. Become(c, s) /\ s = [r EXCEPT !.pc = pc, !.i = 1]
    BY <1>3, Own DEF Goto
  <2> HIDE DEF s
  <2>2. s \in Request /\ Moves(r, s, pc, 1, r.snap, r.done, r.added)
    BY <1>2, <2>1, ShapePhase DEF Changing
  <2>3. Counted(s) /\ s.done <= Len(s.snap) /\ s.added <= Len(s.adds)
    BY <1>1, <1>2, <1>3, <2>2 DEF RequestTyped, Counted, Moves, SameChange, Changing
  <2>4. Declared(s)
    BY <1>1, <2>2, MovedDeclared DEF Moves, Changing
  <2> QED
    BY <2>1, <2>2, <2>3, <2>4 DEF RequestTyped, s
<1>4. ASSUME NEW code \in {"ok", "error"}, Answer(c, code)
      PROVE  /\ Become(c, s) /\ RequestTyped(s)
             /\ SameChange(r, s) /\ s.pc = "reply" /\ s.resp = code
  <2>1. Become(c, s) /\ s = [r EXCEPT !.pc = "reply", !.resp = code]
    BY <1>4, Own DEF Answer
  <2>2. RequestTyped(s)
    <3>1. RequestTyped([r EXCEPT !.pc = "reply", !.resp = code])
      BY <1>1, AnswerTyped
    <3> QED
      BY <2>1, <3>1
  <2>3. SameChange(r, s) /\ s.pc = "reply" /\ s.resp = code
    BY <1>2, <2>1 DEF Request, SameChange
  <2> QED
    BY <2>1, <2>2, <2>3
<1> QED
  BY <1>1, <1>3, <1>4 DEF NextPhase, At

LEMMA ChangesTyped ==
    ASSUME Typed, NEW c \in Clients,
           \/ SnapshotDeletion(c) \/ ApplyDeletion(c) \/ ApplyAddition(c) \/ ReadBack(c)
           \/ UndoAddition(c) \/ UndoDeletion(c) \/ NextPhase(c) \/ Reply(c)
    PROVE  Typed'
<1> DEFINE r == req[c]
<1>0. RequestTyped(r)
  BY OwnTyped
<1>1. ASSUME NEW k \in RRsets, NEW d \in Datas, Insertable(r.zone, k)
      PROVE  /\ With(r.zone, k, d) \subseteq Record
             /\ \A x \in With(r.zone, k, d) : HasZone(zones, x.zone)
  <2>1. [zone |-> r.zone, key |-> k, data |-> d] \in Record
    BY <1>0 DEF Record, RequestTyped, Request
  <2> QED
    BY <1>1, <2>1 DEF With, Insertable, Typed, TypeOK
<1>2. Become(c, req'[c]) /\ RequestTyped(req'[c]) /\ zones' = zones
  <2>1. CASE Reply(c)
    BY <2>1, Own, IdleTyped DEF Reply
  <2> QED
    BY <2>1, SnapshotStep, DeletionStep, AdditionStep, ReadBackStep, UndoAdditionStep,
       UndoDeletionStep, NextPhaseStep
<1>3. records' \subseteq Record /\ \A x \in records' : HasZone(zones, x.zone)
  <2>1. CASE records' \subseteq records
    BY <2>1 DEF Typed, TypeOK
  <2>2. CASE ApplyAddition(c)
    <3>1. r.adds[r.i] \in Addition
      BY <1>0, <2>2, AdditionStep DEF RequestTyped, Request, Counted
    <3>2. r.adds[r.i].key \in RRsets /\ r.adds[r.i].data \in Datas
      BY <3>1 DEF Addition
    <3> QED
      BY <1>1, <2>1, <2>2, <3>2, AdditionStep
  <2>3. CASE UndoDeletion(c)
    <3>1. r.dels[r.i] \in RRsets /\ r.snap[r.i] \in Datas \cup {Missing}
      BY <1>0, <2>3, UndoDeletionStep DEF RequestTyped, Request, Counted, Changing
    <3> QED
      BY <1>1, <2>1, <2>3, <3>1, UndoDeletionStep
  <2> QED
    BY <2>1, <2>2, <2>3, DeletionStep, UndoAdditionStep
    DEF SnapshotDeletion, ReadBack, NextPhase, Reply, Without
<1> QED
  BY <1>2, <1>3, BecomeTyped DEF Typed, TypeOK

LEMMA TypedStep == Typed /\ [Next]_vars => Typed'
<1> SUFFICES ASSUME Typed, [Next]_vars PROVE Typed'
  OBVIOUS
<1>1. CASE Restart
  <2>1. req' = [c \in Clients |-> req'[c]] /\ \A c \in Clients : req'[c] = Idle
    BY <1>1 DEF Restart
  <2> QED
    BY <1>1, <2>1, IdleTyped DEF Restart, Typed, TypeOK, RequestTyped
<1>2. CASE UNCHANGED vars
  BY <1>2 DEF vars, Typed, TypeOK
<1> QED
  BY <1>1, <1>2, ZonesTyped, RecordSetsTyped, StartChangeTyped, ChangesTyped DEF Next

LEMMA InitTyped == Init => Typed
  BY IdleTyped DEF Init, Typed, TypeOK, RequestTyped

\* In every reachable state rows and requests are well formed, every record set has
\* its zone, and no change undoes more than it did.
THEOREM TypeCorrect == Spec => []TypeOK
<1>1. Typed => TypeOK
  BY DEF Typed
<1> QED
  BY <1>1, InitTyped, TypedStep, PTL DEF Spec
---------------------------------------------------------------------------
(* The state of a change *)

\* What a request finds under the keys it touches.
View(rs, r) == {x \in rs : x.zone = r.zone /\ x.key \in r.touched}

\* The first n deletions, what they leave, and the rows of the first n additions.
DelKeys(r, n) == {r.dels[j] : j \in 1..n}
Kept(r, n) == {x \in r.before : x.key \notin DelKeys(r, n)}
AddKeys(r, n) == {r.adds[j].key : j \in 1..n}
AddRow(r, j) == [zone |-> r.zone, key |-> r.adds[j].key, data |-> r.adds[j].data]
AddRows(r, n) == {AddRow(r, j) : j \in 1..n}

\* The snapshot holds what was there before.
Recalls(r) ==
    \A j \in 1..Len(r.snap) :
        /\ \A x \in r.before : x.key = r.dels[j] => r.snap[j] = x.data
        /\ r.snap[j] = Missing \/ \E x \in r.before : x.key = r.dels[j]

\* One row at most under each key.
Unique(rs) == \A x, y \in rs : x.zone = y.zone /\ x.key = y.key => x = y

BeforeOK(r) ==
    Unique(r.before) /\ \A x \in r.before : x.zone = r.zone /\ x.key \in r.touched

\* No addition took a key that the deletions had left in use.
Free(r, n) == \A j \in 1..n : \A x \in Kept(r, r.done) : x.key # r.adds[j].key

\* What the keys of a change hold, phase by phase, rollback included; and a zone
\* about to be deleted is empty.
Phase(r, V) ==
    /\ r.pc = "deleteZone" => V = {}
    /\ r.change => BeforeOK(r)
    /\ r.pc \in Changing => Recalls(r)
    /\ r.pc = "snapshot" => V = r.before
    /\ r.pc = "delete" => V = Kept(r, r.done)
    /\ r.pc = "add" => V = Kept(r, r.done) \cup AddRows(r, r.added) /\ Free(r, r.added)
    /\ r.pc = "readBack" => V = Kept(r, r.done) \cup AddRows(r, r.i) /\ Free(r, r.i)
    /\ r.pc = "undoAdditions" =>
        /\ V = Kept(r, r.done)
                \cup {x \in AddRows(r, r.added) : x.key \notin AddKeys(r, r.i - 1)}
        /\ Free(r, r.added)
    /\ r.pc = "undoDeletions" =>
        V = Kept(r, r.done) \cup {x \in r.before : x.key \in DelKeys(r, r.i - 1)}
    /\ r.pc = "reply" /\ r.change =>
        V = IF r.resp = "ok" THEN Applied(r) ELSE r.before

\* Requests in flight share no record set.
Separate ==
    \A c, d \in Clients :
        c # d /\ req[c].zone = req[d].zone => req[c].touched \cap req[d].touched = {}

\* The zone of a change stays while the change is applied.
ZoneKept ==
    \A c \in Clients :
        req[c].pc \in Changing /\ req[c].touched # {} => HasZone(zones, req[c].zone)

IInv ==
    /\ Typed
    /\ Unique(records)
    /\ Separate
    /\ ZoneKept
    /\ \A c \in Clients : Phase(req[c], View(records, req[c]))

\* A step that changes rows under the keys of its own request only, and takes no
\* zone away.
LEMMA OwnKeysStep ==
    ASSUME IInv, NEW c \in Clients, NEW r, Become(c, r), Typed', Unique(records'),
           \A x \in Record :
               \/ x.zone = req[c].zone /\ x.key \in req[c].touched
               \/ x \in records' <=> x \in records,
           \A z : HasZone(zones, z) => HasZone(zones', z),
           \A d \in Clients \ {c} :
               req[d].zone = r.zone => req[d].touched \cap r.touched = {},
           r.pc \in Changing /\ r.touched # {} => HasZone(zones, r.zone),
           Phase(r, View(records', r))
    PROVE  IInv'
<1>1. \A d \in Clients : req'[d] = IF d = c THEN r ELSE req[d]
  BY DEF IInv, Typed, TypeOK, Become
<1>2. Separate'
  BY <1>1 DEF IInv, Separate
<1>3. ZoneKept'
  BY <1>1 DEF IInv, ZoneKept
<1>4. ASSUME NEW d \in Clients
      PROVE  Phase(req'[d], View(records', req'[d]))
  <2>1. CASE d = c
    BY <1>1, <2>1
  <2>2. CASE d # c
    <3>1. records \subseteq Record /\ records' \subseteq Record
      BY DEF IInv, Typed, TypeOK
    <3>2. View(records', req[d]) = View(records, req[d])
      BY <2>2, <3>1 DEF View, IInv, Separate
    <3> QED
      BY <1>1, <2>2, <3>2 DEF IInv
  <2> QED
    BY <2>1, <2>2
<1> QED
  BY <1>2, <1>3, <1>4 DEF IInv

\* A request that starts: no row changes.
LEMMA StartStep ==
    ASSUME IInv, NEW c \in Clients, NEW r, Become(c, r), Typed', records' = records,
           \A z : HasZone(zones, z) => HasZone(zones', z),
           \A d \in Clients \ {c} :
               req[d].zone = r.zone => req[d].touched \cap r.touched = {},
           r.pc \in Changing /\ r.touched # {} => HasZone(zones, r.zone),
           Phase(r, View(records, r))
    PROVE  IInv'
<1>1. Unique(records')
  BY DEF IInv
<1> QED
  BY <1>1, OwnKeysStep

\* A request that goes on with what it touches.
LEMMA GoesOn ==
    ASSUME IInv, NEW c \in Clients, Become(c, req'[c]), Typed', zones' = zones,
           req[c].pc \in Changing, SameChange(req[c], req'[c]), Unique(records'),
           \A x \in Record :
               \/ x.zone = req[c].zone /\ x.key \in req[c].touched
               \/ x \in records' <=> x \in records,
           Phase(req'[c], View(records', req[c]))
    PROVE  IInv'
<1> DEFINE r == req'[c]
<1>1. r.zone = req[c].zone /\ r.touched = req[c].touched
  BY DEF SameChange
<1>2. View(records', r) = View(records', req[c])
  BY <1>1 DEF View
<1>3. \A d \in Clients \ {c} :
          req[d].zone = r.zone => req[d].touched \cap r.touched = {}
  BY <1>1 DEF IInv, Separate
<1>4. r.touched # {} => HasZone(zones, r.zone)
  BY <1>1 DEF IInv, ZoneKept
<1> HIDE DEF r
<1> QED
  BY <1>2, <1>3, <1>4, OwnKeysStep DEF r

LEMMA QuietPhase ==
    ASSUME NEW r, ~r.change, r.pc \notin Changing, r.pc # "deleteZone", NEW V
    PROVE  Phase(r, V)
  BY DEF Phase, Changing

\* The answer of a request that is no change.
LEMMA AnswerKeeps ==
    ASSUME NEW r, RequestTyped(r), r.pc \notin Changing \cup {"reply"}, NEW code, NEW V
    PROVE  LET s == [r EXCEPT !.pc = "reply", !.resp = code]
           IN  s.zone = r.zone /\ s.touched = r.touched /\ s.pc = "reply" /\ Phase(s, V)
<1> DEFINE s == [r EXCEPT !.pc = "reply", !.resp = code]
<1>1. s.zone = r.zone /\ s.touched = r.touched /\ s.pc = "reply"
  BY DEF RequestTyped, Request
<1>2. ~r.change
  BY DEF RequestTyped, Declared
<1>3. ~s.change
  BY <1>2 DEF RequestTyped, Request
<1> HIDE DEF s
<1>4. Phase(s, V)
  BY <1>1, <1>3, QuietPhase DEF Changing
<1> QED
  BY <1>1, <1>4 DEF s

\* What Start gives: the other requests of the zone touch other keys.
LEMMA StartedApart ==
    ASSUME IInv, Isolated, NEW c \in Clients, NEW z, NEW keys, Start(c, z, keys)
    PROVE  \A d \in Clients \ {c} : req[d].zone = z => req[d].touched \cap keys = {}
  BY DEF IInv, Typed, Declared, Start, Disjoint, At

LEMMA ZonesKeep ==
    ASSUME IInv, Isolated, NEW c \in Clients,
           CreateDNSZone(c) \/ UpdateDNSZone(c) \/ WriteZone(c) \/ DeleteDNSZone(c)
    PROVE  IInv'
<1>0. Typed' /\ RequestTyped(req[c]) /\ records' = records
  BY ZonesTyped, OwnTyped DEF IInv, CreateDNSZone, UpdateDNSZone, WriteZone, DeleteDNSZone
<1>1. CASE CreateDNSZone(c)
  <2>1. Become(c, req[c]) /\ \A z : HasZone(zones, z) => HasZone(zones', z)
    BY <1>1 DEF CreateDNSZone, Become, HasZone, IInv, Typed, TypeOK
  <2> QED
    BY <1>0, <2>1, StartStep DEF IInv, Separate, ZoneKept
<1>2. CASE UpdateDNSZone(c)
  <2>1. PICK z \in ZoneNames, l \in Labels :
            Become(c, [Idle EXCEPT !.pc = "writeZone", !.zone = z, !.label = l])
    BY <1>2 DEF UpdateDNSZone
  <2> DEFINE r == [Idle EXCEPT !.pc = "writeZone", !.zone = z, !.label = l]
  <2>2. r.pc = "writeZone" /\ r.touched = {} /\ ~r.change /\ Become(c, r) /\ zones' = zones
    BY <1>2, <2>1 DEF Idle, UpdateDNSZone
  <2> HIDE DEF r
  <2>3. Phase(r, View(records, r)) /\ r.pc \notin Changing
    BY <2>2, QuietPhase DEF Changing
  <2> QED
    BY <1>0, <2>2, <2>3, StartStep
<1>3. CASE WriteZone(c)
  <2> DEFINE r == [req[c] EXCEPT !.pc = "reply", !.resp = "ok"]
             W(x) == IF x.name = req[c].zone THEN [x EXCEPT !.label = req[c].label] ELSE x
  <2>1. Become(c, r) /\ req[c].pc = "writeZone" /\ zones' = {W(x) : x \in zones}
    BY <1>3 DEF WriteZone, Answer, At
  <2>2. \A x \in zones : W(x).name = x.name
    BY DEF IInv, Typed, TypeOK, Zone
  <2>3. \A z : HasZone(zones, z) => HasZone(zones', z)
    BY <2>1, <2>2 DEF HasZone
  <2>4. r.zone = req[c].zone /\ r.touched = req[c].touched /\ r.pc = "reply"
        /\ Phase(r, View(records, r))
    BY <1>0, <2>1, AnswerKeeps DEF Changing
  <2> HIDE DEF r, W
  <2>5. \A d \in Clients \ {c} : req[d].zone = r.zone => req[d].touched \cap r.touched = {}
    BY <2>4 DEF IInv, Separate
  <2> QED
    BY <1>0, <2>1, <2>3, <2>4, <2>5, StartStep DEF Changing
<1>4. CASE DeleteDNSZone(c)
  <2>1. PICK z \in ZoneNames :
            /\ Start(c, z, RRsets)
            /\ RecordsOf(records, z) = {}
            /\ Become(c, [Idle EXCEPT !.pc = "deleteZone", !.zone = z, !.touched = RRsets])
    BY <1>4 DEF DeleteDNSZone
  <2> DEFINE r == [Idle EXCEPT !.pc = "deleteZone", !.zone = z, !.touched = RRsets]
  <2>2. /\ r.pc = "deleteZone" /\ r.zone = z /\ r.touched = RRsets /\ ~r.change
        /\ Become(c, r) /\ zones' = zones
    BY <1>4, <2>1 DEF Idle, DeleteDNSZone
  <2> HIDE DEF r
  <2>3. View(records, r) = {}
    BY <2>1, <2>2 DEF View, RecordsOf
  <2>4. Phase(r, View(records, r)) /\ r.pc \notin Changing
    BY <2>2, <2>3 DEF Phase, Changing
  <2>5. \A d \in Clients \ {c} : req[d].zone = r.zone => req[d].touched \cap r.touched = {}
    BY <2>1, <2>2, StartedApart
  <2> QED
    BY <1>0, <2>2, <2>4, <2>5, StartStep
<1> QED
  BY <1>1, <1>2, <1>3, <1>4

\* No record set is lost with a zone.
LEMMA ZoneIsEmpty ==
    ASSUME IInv, NEW c \in Clients, At(c, "deleteZone")
    PROVE  RecordsOf(records, req[c].zone) = {}
<1>1. View(records, req[c]) = {} /\ req[c].touched = RRsets
  BY DEF IInv, Phase, Typed, Declared, At
<1> QED
  BY <1>1 DEF View, RecordsOf, IInv, Typed, TypeOK, Record

LEMMA FinishDeleteKeeps ==
    ASSUME IInv, NEW c \in Clients, FinishDeleteZone(c)
    PROVE  IInv'
<1>1. Typed' /\ RequestTyped(req[c])
  BY ZonesTyped, OwnTyped DEF IInv
<1>2. records' = records /\ zones' = {x \in zones : x.name # req[c].zone}
      /\ req[c].pc = "deleteZone" /\ req[c].touched = RRsets
  BY <1>1, ZoneIsEmpty DEF FinishDeleteZone, At, RequestTyped, Declared
<1>3. PICK r : /\ Become(c, r) /\ r.zone = req[c].zone /\ r.touched = req[c].touched
               /\ r.pc = "reply" /\ \A V : Phase(r, V)
  <2>1. PICK code : Answer(c, code)
    BY DEF FinishDeleteZone
  <2> QED
    BY <1>1, <1>2, <2>1, AnswerKeeps DEF Answer, Changing
<1>4. \A d \in Clients : req'[d] = IF d = c THEN r ELSE req[d]
  BY <1>3 DEF IInv, Typed, TypeOK, Become
<1>5. Separate' /\ Unique(records)'
  BY <1>2, <1>3, <1>4 DEF IInv, Separate, Unique
<1>6. ZoneKept'
  <2> SUFFICES ASSUME NEW d \in Clients, req'[d].pc \in Changing, req'[d].touched # {}
               PROVE  HasZone(zones', req'[d].zone)
    BY DEF ZoneKept
  <2>1. d # c /\ req'[d] = req[d]
    BY <1>3, <1>4 DEF Changing
  <2>2. req[d].touched \subseteq RRsets
    BY DEF IInv, Typed, TypeOK, Request
  <2>3. req[d].zone # req[c].zone
    BY <1>2, <2>1, <2>2 DEF IInv, Separate
  <2>4. HasZone(zones, req[d].zone)
    BY <2>1 DEF IInv, ZoneKept
  <2> QED
    BY <1>2, <2>1, <2>3, <2>4 DEF HasZone
<1>7. \A d \in Clients : Phase(req'[d], View(records', req'[d]))
  BY <1>2, <1>3, <1>4 DEF IInv
<1> QED
  BY <1>1, <1>5, <1>6, <1>7 DEF IInv

\* INSERT and DELETE of one row leave the others alone.
LEMMA WithRows ==
    ASSUME Unique(records), NEW z, NEW k, NEW d, Insertable(z, k)
    PROVE  /\ Unique(With(z, k, d))
           /\ \A x : (x.zone = z /\ x.key = k) \/ (x \in With(z, k, d) <=> x \in records)
  BY DEF With, Insertable, HasRecord, RecordsOf, Unique

LEMMA WithoutRows ==
    ASSUME Unique(records), NEW z, NEW k
    PROVE  /\ Unique(Without(z, k))
           /\ \A x : (x.zone = z /\ x.key = k) \/ (x \in Without(z, k) <=> x \in records)
  BY DEF Without, Unique

LEMMA RecordSetsKeep ==
    ASSUME IInv, Isolated, NEW c \in Clients,
           \/ CreateDNSRecordSet(c) \/ InsertRecordSet(c)
           \/ DeleteDNSRecordSet(c) \/ RemoveRecordSet(c) \/ Reply(c)
    PROVE  IInv'
<1>0. Typed' /\ RequestTyped(req[c]) /\ zones' = zones
  BY RecordSetsTyped, ChangesTyped, OwnTyped DEF IInv, CreateDNSRecordSet, InsertRecordSet,
     DeleteDNSRecordSet, RemoveRecordSet, Reply
<1>1. CASE CreateDNSRecordSet(c)
  <2>1. PICK z \in ZoneNames, a \in Addition :
            /\ Start(c, z, {a.key}) /\ records' = records
            /\ Become(c, [Idle EXCEPT !.pc = "insert", !.zone = z, !.touched = {a.key},
                                      !.adds = <<a>>])
    BY <1>1 DEF CreateDNSRecordSet
  <2> DEFINE r == [Idle EXCEPT !.pc = "insert", !.zone = z, !.touched = {a.key},
                               !.adds = <<a>>]
  <2>2. r.pc = "insert" /\ r.zone = z /\ r.touched = {a.key} /\ ~r.change /\ Become(c, r)
    BY <2>1 DEF Idle
  <2> HIDE DEF r
  <2>3. Phase(r, View(records, r)) /\ r.pc \notin Changing
    BY <2>2, QuietPhase DEF Changing
  <2>4. \A d \in Clients \ {c} : req[d].zone = r.zone => req[d].touched \cap r.touched = {}
    BY <2>1, <2>2, StartedApart
  <2> QED
    BY <1>0, <2>1, <2>2, <2>3, <2>4, StartStep
<1>2. CASE DeleteDNSRecordSet(c)
  <2>1. PICK z \in ZoneNames, k \in RRsets :
            /\ Start(c, z, {k}) /\ records' = records
            /\ Become(c, [Idle EXCEPT !.pc = "remove", !.zone = z, !.touched = {k},
                                      !.dels = <<k>>])
    BY <1>2 DEF DeleteDNSRecordSet
  <2> DEFINE r == [Idle EXCEPT !.pc = "remove", !.zone = z, !.touched = {k}, !.dels = <<k>>]
  <2>2. r.pc = "remove" /\ r.zone = z /\ r.touched = {k} /\ ~r.change /\ Become(c, r)
    BY <2>1 DEF Idle
  <2> HIDE DEF r
  <2>3. Phase(r, View(records, r)) /\ r.pc \notin Changing
    BY <2>2, QuietPhase DEF Changing
  <2>4. \A d \in Clients \ {c} : req[d].zone = r.zone => req[d].touched \cap r.touched = {}
    BY <2>1, <2>2, StartedApart
  <2> QED
    BY <1>0, <2>1, <2>2, <2>3, <2>4, StartStep
<1>3. ASSUME NEW k \in req[c].touched, NEW code, Answer(c, code),
             req[c].pc \notin Changing \cup {"reply"}, Unique(records'),
             \A x : (x.zone = req[c].zone /\ x.key = k) \/ (x \in records' <=> x \in records)
      PROVE  IInv'
  <2> DEFINE r == [req[c] EXCEPT !.pc = "reply", !.resp = code]
  <2>1. /\ r.zone = req[c].zone /\ r.touched = req[c].touched /\ r.pc = "reply"
        /\ Phase(r, View(records', r)) /\ Become(c, r)
    BY <1>0, <1>3, AnswerKeeps DEF Answer
  <2> HIDE DEF r
  <2>2. \A d \in Clients \ {c} : req[d].zone = r.zone => req[d].touched \cap r.touched = {}
    BY <2>1 DEF IInv, Separate
  <2> QED
    BY <1>0, <1>3, <2>1, <2>2, OwnKeysStep DEF Changing
<1>4. CASE InsertRecordSet(c)
  <2> DEFINE a == req[c].adds[1]
  <2>1. req[c].pc = "insert" /\ a.key \in req[c].touched
    <3>1. req[c].pc = "insert"
      BY <1>4 DEF InsertRecordSet, At
    <3>2. /\ req[c].adds \in Seq(Addition) /\ req[c].dels \in Seq(RRsets)
          /\ Len(req[c].adds) = 1 /\ req[c].touched = Touched(req[c].dels, req[c].adds)
      BY <1>0, <3>1 DEF RequestTyped, Request, Declared
    <3> QED
      BY <3>1, <3>2, TouchedKeys
  <2>2. \/ Insertable(req[c].zone, a.key) /\ records' = With(req[c].zone, a.key, a.data)
        \/ records' = records
    BY <1>4 DEF InsertRecordSet
  <2>3. Unique(records)
    BY DEF IInv
  <2>4. /\ Unique(records')
        /\ \A x : (x.zone = req[c].zone /\ x.key = a.key) \/ (x \in records' <=> x \in records)
    BY <2>2, <2>3, WithRows
  <2>5. PICK code : Answer(c, code)
    BY <1>4 DEF InsertRecordSet
  <2> QED
    BY <1>3, <2>1, <2>4, <2>5 DEF Changing
<1>5. CASE RemoveRecordSet(c)
  <2> DEFINE k == req[c].dels[1]
  <2>1. req[c].pc = "remove" /\ k \in req[c].touched
    <3>1. req[c].pc = "remove"
      BY <1>5 DEF RemoveRecordSet, At
    <3>2. /\ req[c].adds \in Seq(Addition) /\ req[c].dels \in Seq(RRsets)
          /\ Len(req[c].dels) = 1 /\ req[c].touched = Touched(req[c].dels, req[c].adds)
      BY <1>0, <3>1 DEF RequestTyped, Request, Declared
    <3> QED
      BY <3>1, <3>2, TouchedKeys
  <2>2. records' = Without(req[c].zone, k) /\ \E code : Answer(c, code)
    BY <1>5 DEF RemoveRecordSet
  <2>3. Unique(records)
    BY DEF IInv
  <2>4. /\ Unique(records')
        /\ \A x : (x.zone = req[c].zone /\ x.key = k) \/ (x \in records' <=> x \in records)
    BY <2>2, <2>3, WithoutRows
  <2> QED
    BY <1>3, <2>1, <2>2, <2>4 DEF Changing
<1>6. CASE Reply(c)
  <2>1. Become(c, Idle) /\ records' = records
    BY <1>6 DEF Reply
  <2>2. Phase(Idle, View(records, Idle)) /\ Idle.pc \notin Changing
    BY IdleTyped, QuietPhase DEF Changing
  <2> QED
    BY <1>0, <2>1, <2>2, IdleTyped, StartStep
<1> QED
  BY <1>1, <1>2, <1>4, <1>5, <1>6

\* A change begins with what it finds.
LEMMA StartChangeKeeps ==
    ASSUME IInv, Isolated, NEW c \in Clients, CreateDNSChange(c)
    PROVE  IInv'
<1>0. Typed'
  BY StartChangeTyped DEF IInv
<1>1. PICK z \in ZoneNames, dels \in BoundedSeq(RRsets, MaxOps),
           adds \in BoundedSeq(Addition, MaxOps) :
        /\ Start(c, z, Touched(dels, adds)) /\ HasZone(zones, z)
        /\ UNCHANGED <<zones, records>>
        /\ Become(c, [Idle EXCEPT !.pc = "snapshot", !.change = TRUE, !.zone = z,
                   !.touched = Touched(dels, adds), !.dels = dels, !.adds = adds,
                   !.before = {x \in RecordsOf(records, z) : x.key \in Touched(dels, adds)}])
  BY DEF CreateDNSChange
<1> DEFINE keys == Touched(dels, adds)
           before == {x \in RecordsOf(records, z) : x.key \in keys}
           r == [Idle EXCEPT !.pc = "snapshot", !.change = TRUE, !.zone = z,
                   !.touched = keys, !.dels = dels, !.adds = adds, !.before = before]
<1>2. Become(c, r)
  BY <1>1
<1> HIDE DEF keys
<1>3. before = {x \in records : x.zone = z /\ x.key \in keys}
  BY DEF RecordsOf
<1> HIDE DEF before
<1>4. /\ r.pc = "snapshot" /\ r.zone = z /\ r.touched = keys /\ r.before = before
      /\ r.snap = <<>>
  BY DEF Idle
<1> HIDE DEF r
<1>5. View(records, r) = r.before /\ BeforeOK(r)
  BY <1>3, <1>4 DEF View, BeforeOK, Unique, IInv
<1>6. Recalls(r)
  BY <1>4 DEF Recalls
<1>7. Phase(r, View(records, r))
  BY <1>4, <1>5, <1>6 DEF Phase
<1>8. \A d \in Clients \ {c} : req[d].zone = r.zone => req[d].touched \cap r.touched = {}
  BY <1>1, <1>4, StartedApart DEF keys
<1> QED
  BY <1>0, <1>1, <1>2, <1>4, <1>7, <1>8, StartStep

---------------------------------------------------------------------------
(* The steps of a change *)

LEMMA ChangeFacts ==
    ASSUME IInv, NEW c \in Clients, req[c].pc \in Changing
    PROVE  LET r == req[c]
           IN  /\ r.i \in Nat /\ r.i >= 1 /\ r.done \in Nat /\ r.added \in Nat
               /\ r.dels \in Seq(RRsets) /\ r.adds \in Seq(Addition)
               /\ r.snap \in Seq(Datas \cup {Missing})
               /\ r.done <= Len(r.snap) /\ r.added <= Len(r.adds)
               /\ \A j \in 1..Len(r.dels) : r.dels[j] \in r.touched
               /\ \A j \in 1..Len(r.adds) : r.adds[j].key \in r.touched
               /\ r.before \subseteq Record /\ BeforeOK(r) /\ Recalls(r) /\ r.change
               /\ Unique(records) /\ Counted(r)
               /\ r.touched # {} => HasZone(zones, r.zone)
               /\ Phase(r, View(records, r))
<1> DEFINE r == req[c]
<1>1. RequestTyped(r) /\ Phase(r, View(records, r))
  BY OwnTyped DEF IInv
<1>2. /\ r.i \in Nat /\ r.i >= 1 /\ r.done \in Nat /\ r.added \in Nat
      /\ r.dels \in Seq(RRsets) /\ r.adds \in Seq(Addition)
      /\ r.snap \in Seq(Datas \cup {Missing}) /\ r.before \subseteq Record
      /\ r.done <= Len(r.snap) /\ r.added <= Len(r.adds) /\ Counted(r)
  BY <1>1 DEF RequestTyped, Request, Counted
<1>3. r.change /\ r.touched = Touched(r.dels, r.adds)
  BY <1>1 DEF RequestTyped, Declared
<1>4. BeforeOK(r) /\ Recalls(r)
  BY <1>1, <1>3 DEF Phase
<1>5. r.touched # {} => HasZone(zones, r.zone)
  BY DEF IInv, ZoneKept
<1> QED
  BY <1>1, <1>2, <1>3, <1>4, <1>5, TouchedKeys DEF IInv

LEMMA SameView ==
    ASSUME NEW r, NEW s, SameChange(r, s)
    PROVE  /\ \A n : /\ Kept(s, n) = Kept(r, n) /\ DelKeys(s, n) = DelKeys(r, n)
                     /\ AddRows(s, n) = AddRows(r, n) /\ AddKeys(s, n) = AddKeys(r, n)
                     /\ s.done = r.done => (Free(r, n) => Free(s, n))
           /\ BeforeOK(r) => BeforeOK(s)
           /\ s.snap = r.snap => (Recalls(r) => Recalls(s))
           /\ Applied(s) = Applied(r)
<1>1. \A n : /\ Kept(s, n) = Kept(r, n) /\ DelKeys(s, n) = DelKeys(r, n)
             /\ AddRows(s, n) = AddRows(r, n) /\ AddKeys(s, n) = AddKeys(r, n)
  BY DEF SameChange, Kept, DelKeys, AddRows, AddRow, AddKeys
<1>2. \A n : s.done = r.done => (Free(r, n) => Free(s, n))
  BY <1>1 DEF Free, SameChange
<1> QED
  BY <1>1, <1>2 DEF SameChange, BeforeOK, Recalls, Applied

\* What a lookup of one of its keys tells a change.
LEMMA Looked ==
    ASSUME Unique(records), NEW r, NEW k \in r.touched
    PROVE  /\ HasRecord(r.zone, k) <=> \E x \in View(records, r) : x.key = k
           /\ \A x \in View(records, r) : x.key = k => DataOf(r.zone, k) = x.data
           /\ DataOf(r.zone, k) = Missing \/ \E x \in View(records, r) : x.key = k
<1>1. HasRecord(r.zone, k) <=> \E x \in View(records, r) : x.key = k
  BY DEF HasRecord, RecordsOf, View
<1>2. ASSUME NEW x \in View(records, r), x.key = k
      PROVE  DataOf(r.zone, k) = x.data
  <2> DEFINE y == CHOOSE y \in RecordsOf(records, r.zone) : y.key = k
  <2>1. x \in RecordsOf(records, r.zone)
    BY DEF View, RecordsOf
  <2>2. y \in RecordsOf(records, r.zone) /\ y.key = k
    BY <1>2, <2>1
  <2>3. x = y
    BY <1>2, <2>1, <2>2 DEF RecordsOf, Unique
  <2> QED
    BY <1>1, <1>2, <2>3 DEF DataOf
<1> QED
  BY <1>1, <1>2 DEF DataOf

LEMMA SnapshotKeeps ==
    ASSUME IInv, NEW c \in Clients, SnapshotDeletion(c)
    PROVE  IInv'
<1> DEFINE r == req[c]
           s == req'[c]
           k == r.dels[r.i]
<1>1. /\ r.pc = "snapshot" /\ r.i <= Len(r.dels) /\ UNCHANGED <<zones, records>>
      /\ Become(c, s) /\ RequestTyped(s)
      /\ Moves(r, s, "snapshot", r.i + 1, Append(r.snap, DataOf(r.zone, k)), r.done, r.added)
  BY SnapshotStep DEF IInv
<1>2. Typed'
  BY ChangesTyped DEF IInv
<1>3. /\ r.i \in Nat /\ r.i >= 1 /\ r.snap \in Seq(Datas \cup {Missing}) /\ k \in r.touched
      /\ BeforeOK(r) /\ Recalls(r) /\ Unique(records) /\ Phase(r, View(records, r))
      /\ r.i = Len(r.snap) + 1
  BY <1>1, ChangeFacts DEF Changing, Counted
<1>4. View(records, r) = r.before
  BY <1>1, <1>3 DEF Phase
<1>5. SameChange(r, s) /\ s.pc = "snapshot" /\ s.snap = Append(r.snap, DataOf(r.zone, k))
  BY <1>1 DEF Moves
<1> HIDE DEF s
<1>6. Recalls(s)
  <2> SUFFICES ASSUME NEW j \in 1..Len(s.snap)
               PROVE  /\ \A x \in r.before : x.key = r.dels[j] => s.snap[j] = x.data
                      /\ s.snap[j] = Missing \/ \E x \in r.before : x.key = r.dels[j]
    BY <1>5 DEF Recalls, SameChange
  <2>1. CASE j = r.i
    <3>1. s.snap[j] = DataOf(r.zone, k)
      BY <1>3, <1>5, <2>1, DataOfTyped DEF IInv
    <3> QED
      BY <1>3, <1>4, <2>1, <3>1, Looked
  <2>2. CASE j # r.i
    <3>1. j \in 1..Len(r.snap) /\ s.snap[j] = r.snap[j]
      BY <1>3, <1>5, <2>2, DataOfTyped DEF IInv
    <3> QED
      BY <1>3, <3>1 DEF Recalls
  <2> QED
    BY <2>1, <2>2
<1>7. Phase(s, View(records', r))
  BY <1>1, <1>3, <1>4, <1>5, <1>6, SameView DEF Phase, Changing, SameChange
<1> QED
  BY <1>1, <1>2, <1>3, <1>5, <1>7, GoesOn DEF s, Changing

LEMMA ViewWithout ==
    ASSUME NEW r, NEW k
    PROVE  View(Without(r.zone, k), r) = {x \in View(records, r) : x.key # k}
  BY DEF View, Without

LEMMA ViewWith ==
    ASSUME NEW r, NEW k \in r.touched, NEW d
    PROVE  View(With(r.zone, k, d), r)
               = View(records, r) \cup {[zone |-> r.zone, key |-> k, data |-> d]}
  BY DEF View, With

LEMMA NoneYet ==
    ASSUME NEW r
    PROVE  DelKeys(r, 0) = {} /\ AddKeys(r, 0) = {} /\ AddRows(r, 0) = {}
  BY DEF DelKeys, AddKeys, AddRows

LEMMA OneLonger == ASSUME NEW n \in Nat PROVE 1..(n + 1) = (1..n) \cup {n + 1}
  OBVIOUS

LEMMA OneDeletion ==
    ASSUME NEW r, NEW n \in Nat
    PROVE  DelKeys(r, n + 1) = DelKeys(r, n) \cup {r.dels[n + 1]}
  BY OneLonger DEF DelKeys

LEMMA OneAddition ==
    ASSUME NEW r, NEW n \in Nat
    PROVE  /\ AddKeys(r, n + 1) = AddKeys(r, n) \cup {r.adds[n + 1].key}
           /\ AddRows(r, n + 1) = AddRows(r, n) \cup {AddRow(r, n + 1)}
  BY OneLonger DEF AddKeys, AddRows

\* A step that leaves the rows, or rewrites one under a key of its own.
LEMMA OneRow ==
    ASSUME IInv, NEW c \in Clients, NEW k \in req[c].touched,
           \/ records' = records
           \/ records' = Without(req[c].zone, k)
           \/ \E d : Insertable(req[c].zone, k) /\ records' = With(req[c].zone, k, d)
    PROVE  /\ Unique(records')
           /\ \A x \in Record :
                  \/ x.zone = req[c].zone /\ x.key \in req[c].touched
                  \/ x \in records' <=> x \in records
<1>1. Unique(records)
  BY DEF IInv
<1> QED
  BY <1>1, WithRows, WithoutRows

LEMMA DeletionKeeps ==
    ASSUME IInv, NEW c \in Clients, ApplyDeletion(c)
    PROVE  IInv'
<1> DEFINE r == req[c]
           s == req'[c]
           k == r.dels[r.i]
           V == View(records, r)
<1>1. /\ r.pc = "delete" /\ r.i <= Len(r.dels) /\ zones' = zones /\ Become(c, s)
      /\ records' = Without(r.zone, k)
      /\ \/ HasRecord(r.zone, k) /\ Moves(r, s, "delete", r.i + 1, r.snap, r.i, r.added)
         \/ ~HasRecord(r.zone, k)
            /\ Moves(r, s, "undoAdditions", 1, r.snap, r.done, r.added)
  BY DeletionStep DEF IInv
<1>2. Typed'
  BY ChangesTyped DEF IInv
<1>3. /\ r.i \in Nat /\ r.i >= 1 /\ r.done \in Nat /\ k \in r.touched /\ r.i = r.done + 1
      /\ r.added = 0 /\ BeforeOK(r) /\ Recalls(r) /\ Unique(records) /\ Phase(r, V)
  BY <1>1, ChangeFacts DEF Changing, Counted
<1>4. V = Kept(r, r.done)
  BY <1>1, <1>3 DEF Phase
<1>5. View(records', r) = Kept(r, r.i)
  <2>1. View(Without(r.zone, k), r) = {x \in V : x.key # k}
    BY ViewWithout
  <2>2. DelKeys(r, r.done + 1) = DelKeys(r, r.done) \cup {r.dels[r.done + 1]}
    BY <1>3, OneDeletion
  <2>3. DelKeys(r, r.i) = DelKeys(r, r.done) \cup {k}
    BY <1>3, <2>2
  <2>4. View(records', r) = {x \in Kept(r, r.done) : x.key # k}
    BY <1>1, <1>4, <2>1
  <2> QED
    BY <2>3, <2>4 DEF Kept
<1>6. SameChange(r, s) /\ s.snap = r.snap
  BY <1>1 DEF Moves
<1> HIDE DEF s, V
<1>7. BeforeOK(s) /\ Recalls(s)
  BY <1>3, <1>6, SameView
<1>8. Phase(s, View(records', r))
  <2>1. CASE Moves(r, s, "delete", r.i + 1, r.snap, r.i, r.added)
    <3>1. s.pc = "delete" /\ s.done = r.i /\ Kept(s, r.i) = Kept(r, r.i)
      BY <1>6, <2>1, SameView DEF Moves
    <3> QED
      BY <1>5, <1>7, <3>1 DEF Phase, Changing
  <2>2. CASE /\ ~HasRecord(r.zone, k)
             /\ Moves(r, s, "undoAdditions", 1, r.snap, r.done, r.added)
    <3>1. s.pc = "undoAdditions" /\ s.done = r.done /\ s.added = 0
          /\ Kept(s, r.done) = Kept(r, r.done) /\ AddRows(s, 0) = {}
      BY <1>3, <1>6, <2>2, SameView, NoneYet DEF Moves
    <3>2. View(records', r) = Kept(r, r.done)
      <4>1. \A x \in Kept(r, r.done) : x.key # k
        BY <1>3, <1>4, <2>2, Looked DEF V
      <4>2. View(Without(r.zone, k), r) = {x \in View(records, r) : x.key # k}
        BY ViewWithout
      <4>3. View(records', r) = {x \in Kept(r, r.done) : x.key # k}
        BY <1>1, <1>4, <4>2 DEF V
      <4> QED
        BY <4>1, <4>3
    <3>3. Free(s, 0)
      BY DEF Free
    <3> QED
      BY <1>7, <3>1, <3>2, <3>3 DEF Phase, Changing
  <2> QED
    BY <1>1, <2>1, <2>2
<1> QED
  BY <1>1, <1>2, <1>3, <1>6, <1>8, OneRow, GoesOn DEF s, Changing

LEMMA AdditionKeeps ==
    ASSUME IInv, NEW c \in Clients, ApplyAddition(c)
    PROVE  IInv'
<1> DEFINE r == req[c]
           s == req'[c]
           a == r.adds[r.i]
           V == View(records, r)
<1>1. /\ r.pc = "add" /\ r.i <= Len(r.adds) /\ zones' = zones /\ Become(c, s)
      /\ \/ /\ Insertable(r.zone, a.key) /\ records' = With(r.zone, a.key, a.data)
            /\ Moves(r, s, "readBack", r.i, r.snap, r.done, r.added)
         \/ /\ records' = records
            /\ Moves(r, s, "undoAdditions", 1, r.snap, r.done, r.added)
  BY AdditionStep DEF IInv
<1>2. Typed'
  BY ChangesTyped DEF IInv
<1>3. /\ r.i \in Nat /\ r.i >= 1 /\ r.added \in Nat /\ a.key \in r.touched
      /\ r.i = r.added + 1 /\ BeforeOK(r) /\ Recalls(r) /\ Unique(records) /\ Phase(r, V)
  BY <1>1, ChangeFacts DEF Changing, Counted
<1>4. V = Kept(r, r.done) \cup AddRows(r, r.added) /\ Free(r, r.added)
  BY <1>1, <1>3 DEF Phase
<1>5. SameChange(r, s) /\ s.snap = r.snap /\ s.done = r.done
  BY <1>1 DEF Moves
<1> HIDE DEF s, V
<1>6. BeforeOK(s) /\ Recalls(s)
  BY <1>3, <1>5, SameView
<1>7. Phase(s, View(records', r))
  <2>1. CASE /\ Insertable(r.zone, a.key) /\ records' = With(r.zone, a.key, a.data)
             /\ Moves(r, s, "readBack", r.i, r.snap, r.done, r.added)
    <3>1. /\ s.pc = "readBack" /\ s.i = r.i /\ Kept(s, r.done) = Kept(r, r.done)
          /\ AddRows(s, r.i) = AddRows(r, r.i)
      BY <1>5, <2>1, SameView DEF Moves
    <3>2. View(records', r) = V \cup {AddRow(r, r.i)}
      BY <1>3, <2>1, ViewWith DEF AddRow, V
    <3>3. AddRows(r, r.i) = AddRows(r, r.added) \cup {AddRow(r, r.i)}
      BY <1>3, OneAddition
    <3>4. Free(r, r.i)
      <4>1. \A x \in V : x.key # a.key
        BY <1>3, <2>1, Looked DEF Insertable, V
      <4>2. \A j \in 1..r.i : j \in 1..r.added \/ j = r.i
        BY <1>3
      <4> QED
        BY <1>4, <4>1, <4>2 DEF Free
    <3>5. Free(s, r.i)
      BY <1>5, <3>4, SameView
    <3> QED
      BY <1>4, <1>5, <1>6, <3>1, <3>2, <3>3, <3>5 DEF Phase, Changing
  <2>2. CASE /\ records' = records
             /\ Moves(r, s, "undoAdditions", 1, r.snap, r.done, r.added)
    <3>1. /\ s.pc = "undoAdditions" /\ s.i = 1 /\ s.added = r.added
          /\ Kept(s, r.done) = Kept(r, r.done)
          /\ AddRows(s, r.added) = AddRows(r, r.added) /\ AddKeys(s, 0) = {}
      BY <1>5, <2>2, SameView, NoneYet DEF Moves
    <3>2. Free(s, r.added)
      BY <1>4, <1>5, SameView
    <3> QED
      BY <1>4, <1>5, <1>6, <2>2, <3>1, <3>2 DEF Phase, Changing, V
  <2> QED
    BY <1>1, <2>1, <2>2
<1> QED
  BY <1>1, <1>2, <1>3, <1>5, <1>7, OneRow, GoesOn DEF s, Changing

\* The addition is there: the failure of the read that follows it is not reached.
LEMMA ReadBackMoves ==
    ASSUME IInv, NEW c \in Clients, ReadBack(c)
    PROVE  LET r == req[c]
               s == req'[c]
           IN  /\ r.pc = "readBack" /\ UNCHANGED <<zones, records>> /\ Become(c, s)
               /\ Moves(r, s, "add", r.i + 1, r.snap, r.done, r.i)
<1> DEFINE r == req[c]
           k == r.adds[r.i].key
           V == View(records, r)
<1>1. /\ r.pc = "readBack" /\ UNCHANGED <<zones, records>> /\ Become(c, req'[c])
      /\ \/ Moves(r, req'[c], "add", r.i + 1, r.snap, r.done, r.i)
         \/ ~HasRecord(r.zone, k)
  BY ReadBackStep DEF IInv
<1>2. /\ r.i \in Nat /\ r.i >= 1 /\ r.i <= Len(r.adds) /\ k \in r.touched
      /\ Unique(records) /\ V = Kept(r, r.done) \cup AddRows(r, r.i)
  <2>1. /\ r.i \in Nat /\ r.i >= 1 /\ r.i <= Len(r.adds) /\ k \in r.touched
        /\ Unique(records) /\ Phase(r, V)
    BY <1>1, ChangeFacts DEF Changing, Counted
  <2> QED
    BY <1>1, <2>1 DEF Phase
<1>3. AddRow(r, r.i) \in V /\ AddRow(r, r.i).key = k
  BY <1>2 DEF AddRows, AddRow
<1> QED
  BY <1>1, <1>2, <1>3, Looked

LEMMA ReadBackKeeps ==
    ASSUME IInv, NEW c \in Clients, ReadBack(c)
    PROVE  IInv'
<1> DEFINE r == req[c]
           s == req'[c]
           k == r.adds[r.i].key
           V == View(records, r)
<1>1. /\ r.pc = "readBack" /\ zones' = zones /\ Become(c, s) /\ records' = records
      /\ Moves(r, s, "add", r.i + 1, r.snap, r.done, r.i)
  BY ReadBackMoves
<1>2. Typed'
  BY ChangesTyped DEF IInv
<1>3. /\ r.i \in Nat /\ r.i >= 1 /\ r.i <= Len(r.adds) /\ k \in r.touched
      /\ BeforeOK(r) /\ Recalls(r) /\ Unique(records) /\ Phase(r, V)
  BY <1>1, ChangeFacts DEF Changing, Counted
<1>4. V = Kept(r, r.done) \cup AddRows(r, r.i) /\ Free(r, r.i)
  BY <1>1, <1>3 DEF Phase
<1> HIDE DEF s, V
<1>7. SameChange(r, s) /\ s.snap = r.snap /\ s.done = r.done /\ s.pc = "add" /\ s.added = r.i
  BY <1>1 DEF Moves
<1>8. /\ Kept(s, r.done) = Kept(r, r.done) /\ AddRows(s, r.i) = AddRows(r, r.i)
      /\ Free(s, r.i) /\ BeforeOK(s) /\ Recalls(s)
  BY <1>3, <1>4, <1>7, SameView
<1>9. Phase(s, View(records', r))
  BY <1>1, <1>4, <1>7, <1>8 DEF Phase, Changing, V
<1> QED
  BY <1>1, <1>2, <1>3, <1>7, <1>9, OneRow, GoesOn DEF s, Changing

LEMMA UndoAdditionKeeps ==
    ASSUME IInv, NEW c \in Clients, UndoAddition(c)
    PROVE  IInv'
<1> DEFINE r == req[c]
           s == req'[c]
           k == r.adds[r.i].key
           V == View(records, r)
           Left(n) == {x \in AddRows(r, r.added) : x.key \notin AddKeys(r, n)}
<1>1. /\ r.pc = "undoAdditions" /\ r.i <= r.added /\ zones' = zones /\ Become(c, s)
      /\ records' = Without(r.zone, k)
      /\ Moves(r, s, "undoAdditions", r.i + 1, r.snap, r.done, r.added)
  BY UndoAdditionStep DEF IInv
<1>2. Typed'
  BY ChangesTyped DEF IInv
<1>3. /\ r.i \in Nat /\ r.i >= 1 /\ r.added \in Nat /\ k \in r.touched
      /\ BeforeOK(r) /\ Recalls(r) /\ Unique(records) /\ Phase(r, V)
  <2>1. /\ r.i \in Nat /\ r.i >= 1 /\ r.added \in Nat /\ r.added <= Len(r.adds)
        /\ r.adds \in Seq(Addition)
        /\ \A j \in 1..Len(r.adds) : r.adds[j].key \in r.touched
        /\ BeforeOK(r) /\ Recalls(r) /\ Unique(records) /\ Phase(r, V)
    BY <1>1, ChangeFacts DEF Changing
  <2>2. r.i \in 1..Len(r.adds)
    BY <1>1, <2>1
  <2> QED
    BY <2>1, <2>2
<1>4. V = Kept(r, r.done) \cup Left(r.i - 1) /\ Free(r, r.added)
  BY <1>1, <1>3 DEF Phase
<1>5. \A x \in Kept(r, r.done) : x.key # k
  BY <1>1, <1>3, <1>4 DEF Free
<1>6. AddKeys(r, r.i) = AddKeys(r, r.i - 1) \cup {k}
  <2>1. r.i - 1 \in Nat /\ (r.i - 1) + 1 = r.i
    BY <1>3
  <2>2. AddKeys(r, (r.i - 1) + 1) = AddKeys(r, r.i - 1) \cup {r.adds[(r.i - 1) + 1].key}
    BY <2>1, OneAddition
  <2> QED
    BY <2>1, <2>2
<1>7. View(records', r) = Kept(r, r.done) \cup Left(r.i)
  <2>1. View(Without(r.zone, k), r) = {x \in V : x.key # k}
    BY ViewWithout
  <2>2. View(records', r) = {x \in V : x.key # k}
    BY <1>1, <2>1
  <2> HIDE DEF V
  <2> QED
    BY <1>4, <1>5, <1>6, <2>2
<1> HIDE DEF s, V
<1>8. /\ SameChange(r, s) /\ s.snap = r.snap /\ s.done = r.done /\ s.pc = "undoAdditions"
      /\ s.added = r.added /\ s.i - 1 = r.i
  BY <1>1, <1>3 DEF Moves
<1>9. /\ Kept(s, r.done) = Kept(r, r.done) /\ AddRows(s, r.added) = AddRows(r, r.added)
      /\ AddKeys(s, r.i) = AddKeys(r, r.i) /\ Free(s, r.added) /\ BeforeOK(s) /\ Recalls(s)
  BY <1>3, <1>4, <1>8, SameView
<1>10. Phase(s, View(records', r))
  BY <1>7, <1>8, <1>9 DEF Phase, Changing
<1> QED
  BY <1>1, <1>2, <1>3, <1>8, <1>10, OneRow, GoesOn DEF s, Changing

\* A row of the change's keys is known by its key and data.
LEMMA RowOf ==
    ASSUME NEW r, r.before \subseteq Record, BeforeOK(r), NEW x \in r.before
    PROVE  x = [zone |-> r.zone, key |-> x.key, data |-> x.data]
  BY DEF Record, BeforeOK

LEMMA UndoDeletionKeeps ==
    ASSUME IInv, NEW c \in Clients, UndoDeletion(c)
    PROVE  IInv'
<1> DEFINE r == req[c]
           s == req'[c]
           k == r.dels[r.i]
           V == View(records, r)
           Back(n) == {x \in r.before : x.key \in DelKeys(r, n)}
<1>1. /\ r.pc = "undoDeletions" /\ r.i <= r.done /\ zones' = zones /\ Become(c, s)
      /\ records' = IF r.snap[r.i] # Missing /\ Insertable(r.zone, k)
                      THEN With(r.zone, k, r.snap[r.i]) ELSE records
      /\ Moves(r, s, "undoDeletions", r.i + 1, r.snap, r.done, r.added)
  BY UndoDeletionStep DEF IInv
<1>2. Typed'
  BY ChangesTyped DEF IInv
<1>3. /\ r.i \in Nat /\ r.i >= 1 /\ r.done \in Nat /\ k \in r.touched /\ r.done <= Len(r.snap)
      /\ BeforeOK(r) /\ Recalls(r) /\ Unique(records) /\ Phase(r, V)
      /\ r.before \subseteq Record /\ HasZone(zones, r.zone)
      /\ r.snap \in Seq(Datas \cup {Missing})
  <2>1. /\ r.i \in Nat /\ r.i >= 1 /\ r.done \in Nat /\ r.done <= Len(r.snap)
        /\ \A j \in 1..Len(r.dels) : r.dels[j] \in r.touched
        /\ BeforeOK(r) /\ Recalls(r) /\ Unique(records) /\ Phase(r, V)
        /\ r.before \subseteq Record /\ (r.touched # {} => HasZone(zones, r.zone))
        /\ r.snap \in Seq(Datas \cup {Missing}) /\ Counted(r) /\ r.dels \in Seq(RRsets)
    BY <1>1, ChangeFacts DEF Changing
  <2>2. Len(r.snap) = Len(r.dels)
    BY <1>1, <2>1 DEF Counted, Changing
  <2>3. r.i \in 1..Len(r.dels)
    BY <1>1, <2>1, <2>2
  <2> QED
    BY <2>1, <2>3
<1>4. V = Kept(r, r.done) \cup Back(r.i - 1)
  BY <1>1, <1>3 DEF Phase
<1>5. DelKeys(r, r.i) = DelKeys(r, r.i - 1) \cup {k} /\ k \in DelKeys(r, r.done)
  <2>1. r.i - 1 \in Nat /\ (r.i - 1) + 1 = r.i
    BY <1>3
  <2>2. DelKeys(r, (r.i - 1) + 1) = DelKeys(r, r.i - 1) \cup {r.dels[(r.i - 1) + 1]}
    BY <2>1, OneDeletion
  <2>3. k \in DelKeys(r, r.done)
    BY <1>1, <1>3 DEF DelKeys
  <2> QED
    BY <2>1, <2>2, <2>3
<1>6. /\ \A x \in r.before : x.key = k => r.snap[r.i] = x.data
      /\ r.snap[r.i] = Missing \/ \E x \in r.before : x.key = k
  BY <1>1, <1>3 DEF Recalls
<1>7. View(records', r) = Kept(r, r.done) \cup Back(r.i)
  <2>1. CASE \E x \in r.before : x.key = k
    <3>1. PICK x \in r.before : x.key = k
      BY <2>1
    <3>2. x = [zone |-> r.zone, key |-> k, data |-> r.snap[r.i]] /\ r.snap[r.i] # Missing
      BY <1>3, <1>6, <3>1, RowOf, MissingAssumption DEF Record
    <3>3. \A y \in r.before : y.key = k <=> y = x
      BY <1>3, <3>1 DEF BeforeOK, Unique
    <3>4. Back(r.i) = Back(r.i - 1) \cup {x}
      BY <1>5, <3>1, <3>3
    <3>5. CASE Insertable(r.zone, k)
      <4>1. View(With(r.zone, k, r.snap[r.i]), r)
                = V \cup {[zone |-> r.zone, key |-> k, data |-> r.snap[r.i]]}
        BY <1>3, ViewWith
      <4>2. View(records', r) = V \cup {x}
        BY <1>1, <3>2, <3>5, <4>1
      <4> HIDE DEF V, Back
      <4> QED
        BY <1>4, <3>4, <4>2
    <3>6. CASE ~Insertable(r.zone, k)
      <4>1. PICK y \in V : y.key = k
        BY <1>3, <3>6, Looked DEF Insertable
      <4>2. y \in r.before
        BY <1>4, <4>1 DEF Kept
      <4>3. x \in V
        BY <3>3, <4>1, <4>2
      <4>4. View(records', r) = V
        BY <1>1, <3>6
      <4> HIDE DEF V, Back
      <4> QED
        BY <1>4, <3>4, <4>3, <4>4
    <3> QED
      BY <3>5, <3>6
  <2>2. CASE ~\E x \in r.before : x.key = k
    <3>1. View(records', r) = V
      BY <1>1, <1>6, <2>2
    <3>2. Back(r.i) = Back(r.i - 1)
      BY <1>5, <2>2
    <3> HIDE DEF V, Back
    <3> QED
      BY <1>4, <3>1, <3>2
  <2> QED
    BY <2>1, <2>2
<1> HIDE DEF s, V
<1>8. /\ SameChange(r, s) /\ s.snap = r.snap /\ s.done = r.done /\ s.pc = "undoDeletions"
      /\ s.i - 1 = r.i /\ s.before = r.before
  BY <1>1, <1>3 DEF Moves, SameChange
<1>9. /\ Kept(s, r.done) = Kept(r, r.done) /\ DelKeys(s, r.i) = DelKeys(r, r.i)
      /\ BeforeOK(s) /\ Recalls(s)
  BY <1>3, <1>8, SameView
<1>10. Phase(s, View(records', r))
  BY <1>7, <1>8, <1>9 DEF Phase, Changing
<1>11. \/ records' = records
       \/ \E d : Insertable(r.zone, k) /\ records' = With(r.zone, k, d)
  BY <1>1
<1> QED
  BY <1>1, <1>2, <1>3, <1>8, <1>10, <1>11, OneRow, GoesOn DEF s, Changing

\* After its last addition a change shows what was asked for; after its last undone
\* deletion, what was there before.
LEMMA NextPhaseKeeps ==
    ASSUME IInv, NEW c \in Clients, NextPhase(c)
    PROVE  IInv'
<1> DEFINE r == req[c]
           s == req'[c]
           V == View(records, r)
<1>1. /\ r.pc \in Changing /\ UNCHANGED <<zones, records>> /\ Become(c, s)
      /\ \/ /\ r.pc = "snapshot" /\ r.i > Len(r.dels)
            /\ Moves(r, s, "delete", 1, r.snap, r.done, r.added)
         \/ /\ r.pc = "delete" /\ r.i > Len(r.dels)
            /\ Moves(r, s, "add", 1, r.snap, r.done, r.added)
         \/ /\ r.pc = "undoAdditions" /\ r.i > r.added
            /\ Moves(r, s, "undoDeletions", 1, r.snap, r.done, r.added)
         \/ /\ r.pc = "add" /\ r.i > Len(r.adds)
            /\ SameChange(r, s) /\ s.pc = "reply" /\ s.resp = "ok"
         \/ /\ r.pc = "undoDeletions" /\ r.i > r.done
            /\ SameChange(r, s) /\ s.pc = "reply" /\ s.resp = "error"
  BY NextPhaseStep DEF IInv
<1>2. Typed'
  BY ChangesTyped DEF IInv
<1>3. /\ r.i \in Nat /\ r.i >= 1 /\ r.done \in Nat /\ r.added \in Nat /\ r.added <= Len(r.adds)
      /\ r.dels \in Seq(RRsets) /\ r.adds \in Seq(Addition)
      /\ BeforeOK(r) /\ Recalls(r) /\ Phase(r, V) /\ Counted(r)
  BY <1>1, ChangeFacts
<1>4. SameChange(r, s)
  BY <1>1 DEF Moves
<1>5. View(records', r) = V /\ Unique(records')
  BY <1>1 DEF IInv
<1> HIDE DEF s, V
<1>6. BeforeOK(s)
  BY <1>3, <1>4, SameView
<1>7. Phase(s, V)
  <2>1. CASE /\ r.pc = "snapshot"
             /\ Moves(r, s, "delete", 1, r.snap, r.done, r.added)
    <3>1. s.pc = "delete" /\ s.done = 0 /\ s.snap = r.snap
      BY <1>3, <2>1 DEF Moves, Counted
    <3>2. V = r.before /\ Kept(r, 0) = r.before
      BY <1>3, <2>1, NoneYet DEF Phase, Kept
    <3>3. Kept(s, 0) = Kept(r, 0) /\ Recalls(s)
      BY <1>3, <1>4, <3>1, SameView
    <3> QED
      BY <1>6, <3>1, <3>2, <3>3 DEF Phase, Changing
  <2>2. CASE /\ r.pc = "delete"
             /\ Moves(r, s, "add", 1, r.snap, r.done, r.added)
    <3>1. s.pc = "add" /\ s.done = r.done /\ s.added = 0 /\ s.snap = r.snap
      BY <1>3, <2>2 DEF Moves, Counted
    <3>2. V = Kept(r, r.done) /\ AddRows(s, 0) = {} /\ Free(s, 0)
      BY <1>3, <2>2, NoneYet DEF Phase, Free
    <3>3. Kept(s, r.done) = Kept(r, r.done) /\ Recalls(s)
      BY <1>3, <1>4, <3>1, SameView
    <3> QED
      BY <1>6, <3>1, <3>2, <3>3 DEF Phase, Changing
  <2>3. CASE /\ r.pc = "undoAdditions" /\ r.i > r.added
             /\ Moves(r, s, "undoDeletions", 1, r.snap, r.done, r.added)
    <3>1. s.pc = "undoDeletions" /\ s.i = 1 /\ s.done = r.done /\ s.snap = r.snap
      BY <2>3 DEF Moves
    <3>2. V = Kept(r, r.done)
      <4>1. r.i - 1 = r.added
        BY <1>3, <2>3 DEF Counted
      <4>2. V = Kept(r, r.done)
                \cup {x \in AddRows(r, r.added) : x.key \notin AddKeys(r, r.added)}
        BY <1>3, <2>3, <4>1 DEF Phase
      <4>3. \A x \in AddRows(r, r.added) : x.key \in AddKeys(r, r.added)
        BY DEF AddRows, AddRow, AddKeys
      <4> QED
        BY <4>2, <4>3
    <3>3. Kept(s, r.done) = Kept(r, r.done) /\ DelKeys(s, 0) = {} /\ Recalls(s)
      BY <1>3, <1>4, <3>1, SameView, NoneYet
    <3> QED
      BY <1>6, <3>1, <3>2, <3>3 DEF Phase, Changing
  <2>4. CASE /\ r.pc = "add" /\ r.i > Len(r.adds)
             /\ SameChange(r, s) /\ s.pc = "reply" /\ s.resp = "ok"
    <3>1. r.added = Len(r.adds) /\ r.done = Len(r.dels)
      BY <1>3, <2>4 DEF Counted
    <3>2. V = Kept(r, Len(r.dels)) \cup AddRows(r, Len(r.adds))
      BY <1>3, <2>4, <3>1 DEF Phase
    <3>3. Kept(r, Len(r.dels)) = {x \in r.before : x.key \notin ToSet(r.dels)}
      BY <1>3 DEF Kept, DelKeys, ToSet
    <3>4. AddRows(r, Len(r.adds))
              = {[zone |-> r.zone, key |-> a.key, data |-> a.data] : a \in ToSet(r.adds)}
      BY <1>3 DEF AddRows, AddRow, ToSet
    <3>5. V = Applied(s)
      BY <1>4, <3>2, <3>3, <3>4, SameView DEF Applied
    <3> QED
      BY <1>6, <2>4, <3>5 DEF Phase, Changing
  <2>5. CASE /\ r.pc = "undoDeletions" /\ r.i > r.done
             /\ SameChange(r, s) /\ s.pc = "reply" /\ s.resp = "error"
    <3>1. r.i - 1 = r.done
      BY <1>3, <2>5 DEF Counted
    <3>2. V = Kept(r, r.done) \cup {x \in r.before : x.key \in DelKeys(r, r.done)}
      BY <1>3, <2>5, <3>1 DEF Phase
    <3>3. V = s.before
      BY <2>5, <3>2 DEF Kept, SameChange
    <3> QED
      BY <1>6, <2>5, <3>3 DEF Phase, Changing
  <2> QED
    BY <1>1, <2>1, <2>2, <2>3, <2>4, <2>5
<1>8. \A x \in Record : x \in records' <=> x \in records
  BY <1>1
<1> QED
  BY <1>1, <1>2, <1>4, <1>5, <1>7, <1>8, GoesOn DEF s

LEMMA StepKeeps == ASSUME IInv, Isolated, [Next]_vars PROVE IInv'
<1>1. Typed'
  BY TypedStep DEF IInv
<1>2. CASE Restart
  <2>1. zones' = zones /\ records' = records /\ \A c \in Clients : req'[c] = Idle
    BY <1>2 DEF Restart
  <2>2. \A V : Phase(Idle, V)
    BY IdleTyped, QuietPhase DEF Changing
  <2> QED
    BY <1>1, <2>1, <2>2, IdleTyped DEF IInv, Separate, ZoneKept, Unique, Changing
<1>3. CASE UNCHANGED vars
  <2>1. zones' = zones /\ records' = records /\ req' = req
    BY <1>3 DEF vars
  <2> QED
    BY <1>1, <2>1 DEF IInv, Separate, ZoneKept, Unique
<1> QED
  BY <1>2, <1>3, ZonesKeep, FinishDeleteKeeps, RecordSetsKeep, StartChangeKeeps,
     SnapshotKeeps, DeletionKeeps, AdditionKeeps, ReadBackKeeps, UndoAdditionKeeps,
     UndoDeletionKeeps, NextPhaseKeeps DEF Next

LEMMA InitKeeps == Init => IInv
<1> SUFFICES ASSUME Init PROVE IInv
  OBVIOUS
<1>1. Typed /\ zones = {} /\ records = {} /\ \A c \in Clients : req[c] = Idle
  BY InitTyped DEF Init
<1>2. \A V : Phase(Idle, V)
  BY IdleTyped, QuietPhase DEF Changing
<1> QED
  BY <1>1, <1>2, IdleTyped DEF IInv, Separate, ZoneKept, Unique, Changing

LEMMA Inductive == ASSUME Isolated PROVE Spec => []IInv
<1>1. IInv /\ [Next]_vars => IInv'
  BY StepKeeps
<1> QED
  BY <1>1, InitKeeps, PTL DEF Spec

---------------------------------------------------------------------------
(* The verdict on a change *)

\* The first n deletions each found a record set of their own, and no two of the
\* first n additions have the same key.
Found(r, n) ==
    \A j \in 1..n : /\ \E x \in r.before : x.key = r.dels[j]
                    /\ \A l \in 1..n : r.dels[j] = r.dels[l] => j = l
Distinct(r, n) == \A j, l \in 1..n : r.adds[j].key = r.adds[l].key => j = l

\* The change fits what it found.
Suits(r) ==
    /\ Found(r, Len(r.dels)) /\ Distinct(r, Len(r.adds))
    /\ \A j \in 1..Len(r.adds) : \A x \in Kept(r, Len(r.dels)) : x.key # r.adds[j].key

\* A change goes forward as long as it fits, and is rolled back only if it does not.
Verdict(r) ==
    /\ r.pc \in {"delete", "add", "readBack"} => Found(r, r.done)
    /\ r.pc = "add" => Distinct(r, r.added)
    /\ r.pc = "readBack" => Distinct(r, r.i)
    /\ r.pc \in {"undoAdditions", "undoDeletions"} => ~Suits(r)

Verdicts == \A c \in Clients : Verdict(req[c])

LEMMA SameVerdict ==
    ASSUME NEW r, NEW s, SameChange(r, s)
    PROVE  /\ \A n : (Found(s, n) <=> Found(r, n)) /\ (Distinct(s, n) <=> Distinct(r, n))
           /\ Suits(s) <=> Suits(r)
<1>1. \A n : (Found(s, n) <=> Found(r, n)) /\ (Distinct(s, n) <=> Distinct(r, n))
  BY DEF SameChange, Found, Distinct
<1>2. \A n : Kept(s, n) = Kept(r, n)
  BY SameView
<1> QED
  BY <1>1, <1>2 DEF Suits, SameChange

LEMMA NoVerdictYet == ASSUME NEW r, r.pc \notin Changing PROVE Verdict(r)
  BY DEF Verdict, Changing

LEMMA OneVerdict ==
    ASSUME Typed, Verdicts, NEW c \in Clients, NEW r, Become(c, r), Verdict(r)
    PROVE  Verdicts'
<1>1. \A d \in Clients : req'[d] = IF d = c THEN r ELSE req[d]
  BY DEF Typed, TypeOK, Become
<1> QED
  BY <1>1 DEF Verdicts

LEMMA DeletionVerdict ==
    ASSUME IInv, Verdicts, NEW c \in Clients, ApplyDeletion(c)
    PROVE  Verdicts'
<1> DEFINE r == req[c]
           s == req'[c]
           k == r.dels[r.i]
           V == View(records, r)
<1>1. /\ r.pc = "delete" /\ r.i <= Len(r.dels) /\ Become(c, s)
      /\ \/ HasRecord(r.zone, k) /\ Moves(r, s, "delete", r.i + 1, r.snap, r.i, r.added)
         \/ ~HasRecord(r.zone, k)
            /\ Moves(r, s, "undoAdditions", 1, r.snap, r.done, r.added)
  BY DeletionStep DEF IInv
<1>2. /\ r.done \in Nat /\ r.i = r.done + 1 /\ k \in r.touched /\ Len(r.dels) \in Nat
      /\ Unique(records) /\ Phase(r, V)
  BY <1>1, ChangeFacts DEF Changing, Counted
<1>3. V = Kept(r, r.done) /\ Found(r, r.done)
  BY <1>1, <1>2 DEF Phase, Verdicts, Verdict
<1> HIDE DEF s, V
<1>4. Verdict(s)
  <2>1. CASE HasRecord(r.zone, k) /\ Moves(r, s, "delete", r.i + 1, r.snap, r.i, r.added)
    <3>1. \E x \in Kept(r, r.done) : x.key = k
      BY <1>2, <1>3, <2>1, Looked DEF V
    <3>2. (\E x \in r.before : x.key = k) /\ \A j \in 1..r.done : r.dels[j] # k
      BY <3>1 DEF Kept, DelKeys
    <3>3. \A j \in 1..r.i : j \in 1..r.done \/ j = r.i
      BY <1>2
    <3>4. Found(r, r.i)
      BY <1>3, <3>2, <3>3 DEF Found
    <3>5. s.pc = "delete" /\ s.done = r.i /\ Found(s, r.i)
      BY <2>1, <3>4, SameVerdict DEF Moves
    <3> QED
      BY <3>5 DEF Verdict
  <2>2. CASE ~HasRecord(r.zone, k) /\ Moves(r, s, "undoAdditions", 1, r.snap, r.done, r.added)
    <3>1. \A x \in Kept(r, r.done) : x.key # k
      BY <1>2, <1>3, <2>2, Looked DEF V
    <3>2. r.i \in 1..Len(r.dels) /\ \A j \in 1..r.done : j \in 1..Len(r.dels) /\ j # r.i
      BY <1>1, <1>2
    <3>3. ~Found(r, Len(r.dels))
      BY <3>1, <3>2 DEF Found, Kept, DelKeys
    <3>4. s.pc = "undoAdditions" /\ ~Suits(s)
      BY <2>2, <3>3, SameVerdict DEF Moves, Suits
    <3> QED
      BY <3>4 DEF Verdict
  <2> QED
    BY <1>1, <2>1, <2>2
<1> QED
  BY <1>1, <1>4, OneVerdict DEF s, IInv

LEMMA AdditionVerdict ==
    ASSUME IInv, Verdicts, NEW c \in Clients, ApplyAddition(c)
    PROVE  Verdicts'
<1> DEFINE r == req[c]
           s == req'[c]
           k == r.adds[r.i].key
           V == View(records, r)
<1>1. /\ r.pc = "add" /\ r.i <= Len(r.adds) /\ Become(c, s)
      /\ \/ Insertable(r.zone, k) /\ Moves(r, s, "readBack", r.i, r.snap, r.done, r.added)
         \/ ~Insertable(r.zone, k)
            /\ Moves(r, s, "undoAdditions", 1, r.snap, r.done, r.added)
  BY AdditionStep DEF IInv
<1>2. /\ r.added \in Nat /\ r.i = r.added + 1 /\ k \in r.touched /\ Len(r.adds) \in Nat
      /\ r.done = Len(r.dels) /\ HasZone(zones, r.zone) /\ Unique(records) /\ Phase(r, V)
  BY <1>1, ChangeFacts DEF Changing, Counted
<1>3. /\ V = Kept(r, r.done) \cup AddRows(r, r.added)
      /\ Found(r, r.done) /\ Distinct(r, r.added)
  BY <1>1, <1>2 DEF Phase, Verdicts, Verdict
<1> HIDE DEF s, V
<1>4. Verdict(s)
  <2>1. CASE Insertable(r.zone, k) /\ Moves(r, s, "readBack", r.i, r.snap, r.done, r.added)
    <3>1. \A x \in AddRows(r, r.added) : x.key # k
      BY <1>2, <1>3, <2>1, Looked DEF V, Insertable
    <3>2. \A j \in 1..r.added : r.adds[j].key # k
      <4>1. \A j \in 1..r.added : AddRow(r, j) \in AddRows(r, r.added)
        BY DEF AddRows
      <4>2. \A j : AddRow(r, j).key = r.adds[j].key
        BY DEF AddRow
      <4> QED
        BY <3>1, <4>1, <4>2
    <3>3. \A j \in 1..r.i : j \in 1..r.added \/ j = r.i
      BY <1>2
    <3>4. Distinct(r, r.i)
      BY <1>3, <3>2, <3>3 DEF Distinct
    <3>5. s.pc = "readBack" /\ s.i = r.i /\ s.done = r.done /\ Distinct(s, r.i)
          /\ Found(s, r.done)
      BY <1>3, <2>1, <3>4, SameVerdict DEF Moves
    <3> QED
      BY <3>5 DEF Verdict
  <2>2. CASE ~Insertable(r.zone, k)
             /\ Moves(r, s, "undoAdditions", 1, r.snap, r.done, r.added)
    <3>1. PICK x \in V : x.key = k
      BY <1>2, <2>2, Looked DEF V, Insertable
    <3>2. r.i \in 1..Len(r.adds) /\ \A j \in 1..r.added : j \in 1..Len(r.adds) /\ j # r.i
      BY <1>1, <1>2
    <3>3. ~Suits(r)
      <4>1. CASE x \in Kept(r, r.done)
        BY <1>2, <3>1, <3>2, <4>1 DEF Suits
      <4>2. CASE x \in AddRows(r, r.added)
        BY <3>1, <3>2, <4>2 DEF Suits, Distinct, AddRows, AddRow
      <4> QED
        BY <1>3, <3>1, <4>1, <4>2
    <3>4. s.pc = "undoAdditions" /\ ~Suits(s)
      BY <2>2, <3>3, SameVerdict DEF Moves
    <3> QED
      BY <3>4 DEF Verdict
  <2> QED
    BY <1>1, <2>1, <2>2
<1> QED
  BY <1>1, <1>4, OneVerdict DEF s, IInv

LEMMA OtherVerdicts ==
    ASSUME IInv, Verdicts, NEW c \in Clients,
           \/ SnapshotDeletion(c) \/ ReadBack(c) \/ UndoAddition(c) \/ UndoDeletion(c)
           \/ NextPhase(c)
    PROVE  Verdicts'
<1> DEFINE r == req[c]
           s == req'[c]
<1>1. ASSUME SnapshotDeletion(c) PROVE Become(c, s) /\ Verdict(s)
  <2>1. Become(c, s) /\ s.pc = "snapshot"
    BY <1>1, SnapshotStep DEF IInv, Moves
  <2> QED
    BY <2>1 DEF Verdict
<1>2. ASSUME ReadBack(c) PROVE Become(c, s) /\ Verdict(s)
  <2>1. /\ Become(c, s) /\ r.pc = "readBack"
        /\ Moves(r, s, "add", r.i + 1, r.snap, r.done, r.i)
    BY <1>2, ReadBackMoves
  <2>2. Found(r, r.done) /\ Distinct(r, r.i)
    BY <2>1 DEF Verdicts, Verdict
  <2>3. s.pc = "add" /\ s.done = r.done /\ s.added = r.i /\ Found(s, r.done)
        /\ Distinct(s, r.i)
    BY <2>1, <2>2, SameVerdict DEF Moves
  <2> QED
    BY <2>1, <2>3 DEF Verdict
<1>3. ASSUME UndoAddition(c) \/ UndoDeletion(c) PROVE Become(c, s) /\ Verdict(s)
  <2>1. /\ Become(c, s) /\ SameChange(r, s) /\ s.pc = r.pc
        /\ r.pc \in {"undoAdditions", "undoDeletions"}
    BY <1>3, UndoAdditionStep, UndoDeletionStep DEF IInv, Moves
  <2>2. ~Suits(s)
    BY <2>1, SameVerdict DEF Verdicts, Verdict
  <2> QED
    BY <2>1, <2>2 DEF Verdict
<1>4. ASSUME NextPhase(c) PROVE Become(c, s) /\ Verdict(s)
  <2>1. /\ Become(c, s)
        /\ \/ /\ r.pc = "snapshot" /\ Moves(r, s, "delete", 1, r.snap, r.done, r.added)
           \/ /\ r.pc = "delete" /\ Moves(r, s, "add", 1, r.snap, r.done, r.added)
           \/ /\ r.pc = "undoAdditions"
              /\ Moves(r, s, "undoDeletions", 1, r.snap, r.done, r.added)
           \/ s.pc = "reply"
    BY <1>4, NextPhaseStep DEF IInv
  <2>2. CASE r.pc = "snapshot" /\ Moves(r, s, "delete", 1, r.snap, r.done, r.added)
    <3>1. s.pc = "delete" /\ s.done = 0
      BY <2>2, ChangeFacts DEF Changing, Counted, Moves
    <3> QED
      BY <2>1, <3>1 DEF Verdict, Found
  <2>3. CASE r.pc = "delete" /\ Moves(r, s, "add", 1, r.snap, r.done, r.added)
    <3>1. s.pc = "add" /\ s.done = r.done /\ s.added = 0
      BY <2>3, ChangeFacts DEF Changing, Counted, Moves
    <3>2. Found(r, r.done)
      BY <2>3 DEF Verdicts, Verdict
    <3>3. Found(s, r.done)
      BY <2>3, <3>2, SameVerdict DEF Moves
    <3> QED
      BY <2>1, <3>1, <3>3 DEF Verdict, Distinct
  <2>4. CASE /\ r.pc = "undoAdditions"
             /\ Moves(r, s, "undoDeletions", 1, r.snap, r.done, r.added)
    <3>1. s.pc = "undoDeletions" /\ ~Suits(s)
      BY <2>4, SameVerdict DEF Moves, Verdicts, Verdict
    <3> QED
      BY <2>1, <3>1 DEF Verdict
  <2>5. CASE s.pc = "reply"
    BY <2>1, <2>5 DEF Verdict
  <2> QED
    BY <2>1, <2>2, <2>3, <2>4, <2>5
<1> HIDE DEF s
<1>5. Become(c, s) /\ Verdict(s)
  BY <1>1, <1>2, <1>3, <1>4
<1> QED
  BY <1>5, OneVerdict DEF IInv

LEMMA VerdictsKept ==
    ASSUME IInv, Verdicts, Isolated, [Next]_vars
    PROVE  Verdicts'
<1>1. CASE Restart
  <2>1. \A c \in Clients : req'[c] = Idle
    BY <1>1 DEF Restart
  <2>2. Verdict(Idle)
    BY IdleTyped, NoVerdictYet DEF Changing
  <2> QED
    BY <2>1, <2>2 DEF Verdicts
<1>2. CASE UNCHANGED vars
  BY <1>2 DEF vars, Verdicts
<1>3. ASSUME NEW c \in Clients,
             \/ CreateDNSZone(c) \/ UpdateDNSZone(c) \/ WriteZone(c)
             \/ DeleteDNSZone(c) \/ FinishDeleteZone(c)
             \/ CreateDNSRecordSet(c) \/ InsertRecordSet(c)
             \/ DeleteDNSRecordSet(c) \/ RemoveRecordSet(c) \/ Reply(c)
      PROVE  Verdicts'
  <2>1. ASSUME NEW code, Answer(c, code) PROVE \E r : Become(c, r) /\ r.pc \notin Changing
    <3>1. [req[c] EXCEPT !.pc = "reply", !.resp = code].pc = "reply"
      BY OwnTyped DEF IInv, RequestTyped, Request
    <3> QED
      BY <2>1, <3>1 DEF Answer, Changing
  <2>2. CASE CreateDNSZone(c)
    <3>1. req' = req
      BY <2>2 DEF CreateDNSZone
    <3> QED
      BY <3>1 DEF Verdicts
  <2>3. CASE WriteZone(c) \/ FinishDeleteZone(c) \/ InsertRecordSet(c) \/ RemoveRecordSet(c)
    <3>1. \E code : Answer(c, code)
      BY <2>3 DEF WriteZone, FinishDeleteZone, InsertRecordSet, RemoveRecordSet
    <3> QED
      BY <2>1, <3>1, NoVerdictYet, OneVerdict DEF IInv
  <2>4. CASE UpdateDNSZone(c)
    <3>1. PICK z \in ZoneNames, l \in Labels :
              Become(c, [Idle EXCEPT !.pc = "writeZone", !.zone = z, !.label = l])
      BY <2>4 DEF UpdateDNSZone
    <3>2. [Idle EXCEPT !.pc = "writeZone", !.zone = z, !.label = l].pc = "writeZone"
      BY DEF Idle
    <3> QED
      BY <3>1, <3>2, NoVerdictYet, OneVerdict DEF IInv, Changing
  <2>5. CASE DeleteDNSZone(c)
    <3>1. PICK z \in ZoneNames :
              Become(c, [Idle EXCEPT !.pc = "deleteZone", !.zone = z, !.touched = RRsets])
      BY <2>5 DEF DeleteDNSZone
    <3>2. [Idle EXCEPT !.pc = "deleteZone", !.zone = z, !.touched = RRsets].pc = "deleteZone"
      BY DEF Idle
    <3> QED
      BY <3>1, <3>2, NoVerdictYet, OneVerdict DEF IInv, Changing
  <2>6. CASE CreateDNSRecordSet(c)
    <3>1. PICK z \in ZoneNames, a \in Addition :
              Become(c, [Idle EXCEPT !.pc = "insert", !.zone = z, !.touched = {a.key}, !.adds = <<a>>])
      BY <2>6 DEF CreateDNSRecordSet
    <3>2. [Idle EXCEPT !.pc = "insert", !.zone = z, !.touched = {a.key}, !.adds = <<a>>].pc = "insert"
      BY DEF Idle
    <3> QED
      BY <3>1, <3>2, NoVerdictYet, OneVerdict DEF IInv, Changing
  <2>7. CASE DeleteDNSRecordSet(c)
    <3>1. PICK z \in ZoneNames, k \in RRsets :
              Become(c, [Idle EXCEPT !.pc = "remove", !.zone = z, !.touched = {k}, !.dels = <<k>>])
      BY <2>7 DEF DeleteDNSRecordSet
    <3>2. [Idle EXCEPT !.pc = "remove", !.zone = z, !.touched = {k}, !.dels = <<k>>].pc = "remove"
      BY DEF Idle
    <3> QED
      BY <3>1, <3>2, NoVerdictYet, OneVerdict DEF IInv, Changing
  <2>8. CASE Reply(c)
    BY <2>8, IdleTyped, NoVerdictYet, OneVerdict DEF IInv, Reply, Changing
  <2> QED
    BY <1>3, <2>2, <2>3, <2>4, <2>5, <2>6, <2>7, <2>8
<1>4. ASSUME NEW c \in Clients, CreateDNSChange(c) PROVE Verdicts'
  <2>1. \E r : Become(c, r) /\ r.pc = "snapshot"
    <3>1. PICK z \in ZoneNames, dels \in BoundedSeq(RRsets, MaxOps),
               adds \in BoundedSeq(Addition, MaxOps) :
            Become(c, [Idle EXCEPT !.pc = "snapshot", !.change = TRUE, !.zone = z,
                       !.touched = Touched(dels, adds), !.dels = dels, !.adds = adds,
                       !.before = {x \in RecordsOf(records, z) : x.key \in Touched(dels, adds)}])
      BY <1>4 DEF CreateDNSChange
    <3>2. \A keys, before :
            [Idle EXCEPT !.pc = "snapshot", !.change = TRUE, !.zone = z, !.touched = keys,
                         !.dels = dels, !.adds = adds, !.before = before].pc = "snapshot"
      BY DEF Idle
    <3> QED
      BY <3>1, <3>2
  <2>2. \A r : r.pc = "snapshot" => Verdict(r)
    BY DEF Verdict
  <2> QED
    BY <2>1, <2>2, OneVerdict DEF IInv
<1> QED
  BY <1>1, <1>2, <1>3, <1>4, DeletionVerdict, AdditionVerdict, OtherVerdicts DEF Next

LEMMA InitVerdicts == Init => Verdicts
  BY IdleTyped, NoVerdictYet DEF Init, Verdicts, Changing

LEMMA InductiveVerdicts == ASSUME Isolated PROVE Spec => [](IInv /\ Verdicts)
<1>1. IInv /\ Verdicts /\ [Next]_vars => Verdicts'
  BY VerdictsKept
<1> QED
  BY <1>1, Inductive, InitVerdicts, PTL DEF Spec

---------------------------------------------------------------------------
(* The record sets without the traces of undecided changes *)

Open(r) == r.change /\ r.pc # "reply"
Covers(r, x) == x.zone = r.zone /\ x.key \in r.touched

\* Committed and Submitted, as functions of the rows and the requests.
Shown(rs, q) ==
    {x \in rs : \A c \in Clients : Open(q[c]) => ~Covers(q[c], x)}
        \cup UNION {q[c].before : c \in {d \in Clients : Open(q[d])}}
ChangeOf(c, r) == [client |-> c, zone |-> r.zone, dels |-> r.dels, adds |-> r.adds]
Sent(q) == {ChangeOf(c, q[c]) : c \in {d \in Clients : Open(q[d])}}

LEMMA Mapped ==
    /\ Committed = Shown(records, req) /\ Submitted = Sent(req)
    /\ Committed' = Shown(records', req') /\ Submitted' = Sent(req')
<1>1. Committed = Shown(records, req) /\ Submitted = Sent(req)
  BY DEF Committed, Submitted, Shown, Sent, ChangeOf, Covers, Open, Undecided, At
<1>2. Committed' = Shown(records', req') /\ Submitted' = Sent(req')
  BY DEF Committed, Submitted, Shown, Sent, ChangeOf, Covers, Open, Undecided, At
<1> QED
  BY <1>1, <1>2

\* No two changes under way cover the same row, and each remembers rows it covers.
Apart(q) ==
    /\ \A c, d \in Clients : c # d /\ q[c].zone = q[d].zone =>
            q[c].touched \cap q[d].touched = {}
    /\ \A c \in Clients : Open(q[c]) => BeforeOK(q[c])

LEMMA RequestsApart ==
    /\ IInv => Apart(req)
    /\ IInv' => Apart(req')
<1>1. IInv => Apart(req)
  BY DEF IInv, Separate, Phase, Apart, Open
<1>2. IInv' => Apart(req')
  BY DEF IInv, Separate, Phase, Apart, Open
<1> QED
  BY <1>1, <1>2

\* Under the keys of a change the rows it found are shown, elsewhere the rows there are.
LEMMA ShownRows ==
    ASSUME NEW rs, NEW q, Apart(q)
    PROVE  /\ \A c \in Clients : \A x : Open(q[c]) /\ Covers(q[c], x) =>
                  (x \in Shown(rs, q) <=> x \in q[c].before)
           /\ \A x : (\A c \in Clients : Open(q[c]) => ~Covers(q[c], x)) =>
                  (x \in Shown(rs, q) <=> x \in rs)
<1>1. \A x : x \in Shown(rs, q) <=>
          \/ x \in rs /\ \A c \in Clients : Open(q[c]) => ~Covers(q[c], x)
          \/ \E c \in Clients : Open(q[c]) /\ x \in q[c].before
  BY DEF Shown
<1>2. \A c \in Clients : Open(q[c]) => \A x \in q[c].before : Covers(q[c], x)
  BY DEF Apart, BeforeOK, Covers
<1>3. \A c, d \in Clients : \A x : Covers(q[c], x) /\ Covers(q[d], x) => c = d
  BY DEF Apart, Covers
<1> QED
  BY <1>1, <1>2, <1>3

\* A step inside a change is not seen.
LEMMA Unseen ==
    ASSUME IInv, IInv', NEW c \in Clients, NEW s, Become(c, s), Open(req[c]), Open(s),
           SameChange(req[c], s),
           \A x \in Record : Covers(req[c], x) \/ (x \in records' <=> x \in records)
    PROVE  Committed' = Committed /\ Submitted' = Submitted
<1>1. \A d \in Clients : req'[d] = IF d = c THEN s ELSE req[d]
  BY DEF IInv, Typed, TypeOK, Become
<1>2. /\ \A d \in Clients : /\ Open(req'[d]) <=> Open(req[d])
                            /\ req'[d].before = req[d].before
                            /\ ChangeOf(d, req'[d]) = ChangeOf(d, req[d])
      /\ \A d \in Clients : \A x : Covers(req'[d], x) <=> Covers(req[d], x)
  BY <1>1 DEF SameChange, ChangeOf, Covers
<1>3. Sent(req') = Sent(req)
  BY <1>2 DEF Sent
<1>4. records \subseteq Record /\ records' \subseteq Record
  BY DEF IInv, Typed, TypeOK
<1>5. Apart(req) /\ Apart(req')
  BY RequestsApart
<1>6. ASSUME NEW x PROVE x \in Shown(records', req') <=> x \in Shown(records, req)
  <2>1. CASE \E d \in Clients : Open(req[d]) /\ Covers(req[d], x)
    BY <1>2, <1>5, <2>1, ShownRows
  <2>2. CASE \A d \in Clients : Open(req[d]) => ~Covers(req[d], x)
    <3>1. x \in records' <=> x \in records
      BY <1>4, <2>2
    <3> QED
      BY <1>2, <1>5, <2>2, <3>1, ShownRows
  <2> QED
    BY <2>1, <2>2
<1> QED
  BY <1>3, <1>6, Mapped

\* A step of another request shows as what it does to the rows.
LEMMA Seen ==
    ASSUME IInv, IInv', NEW c \in Clients, NEW s, Become(c, s), ~Open(req[c]), ~Open(s)
    PROVE  /\ Submitted' = Submitted
           /\ \A x : x \in Committed' <=>
                  IF \E d \in Clients : Open(req[d]) /\ Covers(req[d], x)
                    THEN x \in Committed ELSE x \in records'
           /\ \A x : (\A d \in Clients : Open(req[d]) => ~Covers(req[d], x)) =>
                  (x \in Committed <=> x \in records)
<1>1. \A d \in Clients : req'[d] = IF d = c THEN s ELSE req[d]
  BY DEF IInv, Typed, TypeOK, Become
<1>2. \A d \in Clients : (Open(req'[d]) <=> Open(req[d]))
                         /\ (Open(req[d]) => req'[d] = req[d])
  BY <1>1
<1>3. Sent(req') = Sent(req)
  BY <1>2 DEF Sent
<1>4. Apart(req) /\ Apart(req')
  BY RequestsApart
<1> QED
  BY <1>2, <1>3, <1>4, ShownRows, Mapped

\* What a request touches that is no change is covered by no change.
LEMMA OwnRow ==
    ASSUME IInv, NEW c \in Clients, ~Open(req[c]), NEW k \in req[c].touched,
           NEW x, x.zone = req[c].zone, x.key = k
    PROVE  \A d \in Clients : Open(req[d]) => ~Covers(req[d], x)
  BY DEF IInv, Separate, Covers

LEMMA NotOpen == ASSUME NEW r, ~r.change \/ r.pc = "reply" PROVE ~Open(r)
  BY DEF Open

LEMMA OpenWhenChanging ==
    ASSUME IInv, NEW c \in Clients
    PROVE  Open(req[c]) <=> req[c].pc \in Changing
<1>1. Declared(req[c])
  BY DEF IInv, Typed
<1> QED
  BY <1>1 DEF Declared, Open, Changing

---------------------------------------------------------------------------
(* Each step, as a step of AtomicDns or none *)

LEMMA Quiet ==
    ASSUME IInv, IInv', NEW c \in Clients, NEW s, Become(c, s), ~Open(req[c]), ~Open(s),
           records' = records
    PROVE  Committed' = Committed /\ Submitted' = Submitted
<1>1. (\A x : x \in Committed' <=> x \in Committed) /\ Submitted' = Submitted
  BY Seen
<1> QED
  BY <1>1, SetExtensionality

LEMMA AnswerClosed ==
    ASSUME IInv, NEW c \in Clients, NEW code, Answer(c, code)
    PROVE  \E s : Become(c, s) /\ ~Open(s)
<1>1. [req[c] EXCEPT !.pc = "reply", !.resp = code].pc = "reply"
  BY OwnTyped DEF IInv, RequestTyped, Request
<1> QED
  BY <1>1, NotOpen DEF Answer

LEMMA ZonesImplement ==
    ASSUME IInv, IInv', NEW c \in Clients,
           CreateDNSZone(c) \/ UpdateDNSZone(c) \/ WriteZone(c)
           \/ DeleteDNSZone(c) \/ FinishDeleteZone(c)
    PROVE  Atomic!Next \/ UNCHANGED Atomic!vars
<1>0. RequestTyped(req[c])
  BY OwnTyped DEF IInv
<1>1. CASE CreateDNSZone(c)
  <2>1. Committed' = Committed /\ Submitted' = Submitted
    BY <1>1, Mapped DEF CreateDNSZone
  <2>2. \E z \in ZoneNames, l \in Labels : Atomic!CreateZone(z, l)
    BY <1>1, <2>1 DEF CreateDNSZone, HasZone, Atomic!CreateZone, Atomic!HasZone
  <2> QED
    BY <2>2 DEF Atomic!Next
<1>2. CASE UpdateDNSZone(c)
  <2>1. PICK z \in ZoneNames, l \in Labels :
            Become(c, [Idle EXCEPT !.pc = "writeZone", !.zone = z, !.label = l])
    BY <1>2 DEF UpdateDNSZone
  <2>2. ~[Idle EXCEPT !.pc = "writeZone", !.zone = z, !.label = l].change
    BY DEF Idle
  <2>3. zones' = zones /\ records' = records /\ ~Open(req[c])
    BY <1>2, OpenWhenChanging DEF UpdateDNSZone, At, Changing
  <2> QED
    BY <2>1, <2>2, <2>3, NotOpen, Quiet DEF Atomic!vars
<1>3. CASE WriteZone(c)
  <2>1. PICK s : Become(c, s) /\ ~Open(s)
    BY <1>3, AnswerClosed DEF WriteZone
  <2>2. records' = records /\ ~Open(req[c])
    BY <1>3, OpenWhenChanging DEF WriteZone, At, Changing
  <2>3. Committed' = Committed /\ Submitted' = Submitted
    BY <2>1, <2>2, Quiet
  <2>4. Atomic!UpdateZone(req[c].zone, req[c].label)
    BY <1>3, <2>3 DEF WriteZone, Atomic!UpdateZone
  <2>5. req[c].zone \in ZoneNames /\ req[c].label \in Labels
    BY <1>0 DEF RequestTyped, Request
  <2> QED
    BY <2>4, <2>5 DEF Atomic!Next
<1>4. CASE DeleteDNSZone(c)
  <2>1. PICK z \in ZoneNames :
            Become(c, [Idle EXCEPT !.pc = "deleteZone", !.zone = z, !.touched = RRsets])
    BY <1>4 DEF DeleteDNSZone
  <2>2. ~[Idle EXCEPT !.pc = "deleteZone", !.zone = z, !.touched = RRsets].change
    BY DEF Idle
  <2>3. zones' = zones /\ records' = records /\ ~Open(req[c])
    BY <1>4, OpenWhenChanging DEF DeleteDNSZone, Start, At, Changing
  <2> QED
    BY <2>1, <2>2, <2>3, NotOpen, Quiet DEF Atomic!vars
<1>5. CASE FinishDeleteZone(c)
  <2> DEFINE z == req[c].zone
  <2>1. PICK s : Become(c, s) /\ ~Open(s)
    BY <1>5, AnswerClosed DEF FinishDeleteZone
  <2>2. /\ RecordsOf(records, z) = {} /\ records' = records
        /\ zones' = {r \in zones : r.name # z} /\ req[c].pc = "deleteZone"
    BY <1>5, ZoneIsEmpty DEF FinishDeleteZone, At
  <2>3. ~Open(req[c]) /\ req[c].touched = RRsets
    BY <1>0, <2>2, OpenWhenChanging DEF Changing, RequestTyped, Declared
  <2>4. Committed' = Committed /\ Submitted' = Submitted
    BY <2>1, <2>2, <2>3, Quiet
  <2>5. ASSUME NEW x \in Committed, x.zone = z PROVE FALSE
    <3>1. x \in records \/ \E d \in Clients : x \in req[d].before
      BY Mapped DEF Shown
    <3>2. x.key \in RRsets
      BY <3>1 DEF IInv, Typed, TypeOK, Request, Record
    <3>3. \A d \in Clients : Open(req[d]) => ~Covers(req[d], x)
      BY <2>3, <2>5, <3>2, OwnRow
    <3>4. x \in records
      BY <3>3, RequestsApart, ShownRows, Mapped
    <3> QED
      BY <2>2, <2>5, <3>4 DEF RecordsOf
  <2>6. Atomic!DeleteZone(z) /\ z \in ZoneNames
    BY <1>0, <2>2, <2>4, <2>5 DEF Atomic!DeleteZone, RequestTyped, Request
  <2> QED
    BY <2>6 DEF Atomic!Next
<1> QED
  BY <1>1, <1>2, <1>3, <1>4, <1>5

LEMMA RecordSetsImplement ==
    ASSUME IInv, IInv', NEW c \in Clients,
           \/ CreateDNSRecordSet(c) \/ InsertRecordSet(c)
           \/ DeleteDNSRecordSet(c) \/ RemoveRecordSet(c) \/ Reply(c)
    PROVE  Atomic!Next \/ UNCHANGED Atomic!vars
<1>0. RequestTyped(req[c])
  BY OwnTyped DEF IInv
<1>1. CASE CreateDNSRecordSet(c)
  <2>1. PICK z \in ZoneNames, a \in Addition :
            Become(c, [Idle EXCEPT !.pc = "insert", !.zone = z, !.touched = {a.key},
                                   !.adds = <<a>>])
    BY <1>1 DEF CreateDNSRecordSet
  <2>2. ~[Idle EXCEPT !.pc = "insert", !.zone = z, !.touched = {a.key},
                      !.adds = <<a>>].change
    BY DEF Idle
  <2>3. zones' = zones /\ records' = records /\ ~Open(req[c])
    BY <1>1, OpenWhenChanging DEF CreateDNSRecordSet, Start, At, Changing
  <2> QED
    BY <2>1, <2>2, <2>3, NotOpen, Quiet DEF Atomic!vars
<1>2. CASE DeleteDNSRecordSet(c)
  <2>1. PICK z \in ZoneNames, k \in RRsets :
            Become(c, [Idle EXCEPT !.pc = "remove", !.zone = z, !.touched = {k},
                                   !.dels = <<k>>])
    BY <1>2 DEF DeleteDNSRecordSet
  <2>2. ~[Idle EXCEPT !.pc = "remove", !.zone = z, !.touched = {k}, !.dels = <<k>>].change
    BY DEF Idle
  <2>3. zones' = zones /\ records' = records /\ ~Open(req[c])
    BY <1>2, OpenWhenChanging DEF DeleteDNSRecordSet, Start, At, Changing
  <2> QED
    BY <2>1, <2>2, <2>3, NotOpen, Quiet DEF Atomic!vars
<1>3. CASE Reply(c)
  <2>1. Become(c, Idle) /\ zones' = zones /\ records' = records /\ ~Open(req[c])
    BY <1>3, NotOpen DEF Reply, At
  <2> QED
    BY <2>1, IdleTyped, NotOpen, Quiet DEF Atomic!vars
<1>4. CASE InsertRecordSet(c)
  <2> DEFINE a == req[c].adds[1]
             z == req[c].zone
             y == [zone |-> z, key |-> a.key, data |-> a.data]
  <2>1. PICK s : Become(c, s) /\ ~Open(s)
    BY <1>4, AnswerClosed DEF InsertRecordSet
  <2>2. req[c].pc = "insert" /\ zones' = zones
    BY <1>4 DEF InsertRecordSet, At
  <2>3. ~Open(req[c])
    BY <2>2, OpenWhenChanging DEF Changing
  <2>4. a \in Addition /\ a.key \in req[c].touched /\ z \in ZoneNames
    <3>1. /\ req[c].adds \in Seq(Addition) /\ req[c].dels \in Seq(RRsets)
          /\ Len(req[c].adds) = 1 /\ req[c].touched = Touched(req[c].dels, req[c].adds)
          /\ z \in ZoneNames
      BY <1>0, <2>2 DEF RequestTyped, Request, Declared
    <3> QED
      BY <3>1, TouchedKeys
  <2> HIDE DEF a, z
  <2>5. CASE Insertable(z, a.key) /\ records' = With(z, a.key, a.data)
    <3>1. \A x : x.zone = z /\ x.key = a.key =>
              \A d \in Clients : Open(req[d]) => ~Covers(req[d], x)
      BY <2>3, <2>4, OwnRow DEF z
    <3>2. y.zone = z /\ y.key = a.key
      OBVIOUS
    <3>3. records' = records \cup {y}
      BY <2>5 DEF With
    <3> HIDE DEF y
    <3>4. \A x : x \in Committed' <=> x \in Committed \cup {y}
      BY <2>1, <2>3, <3>1, <3>2, <3>3, Seen
    <3>5. Committed' = Committed \cup {y} /\ Submitted' = Submitted
      BY <2>1, <2>3, <3>4, Seen, SetExtensionality
    <3>6. ~Atomic!HasRecord(z, a.key) /\ Atomic!HasZone(z)
      <4>1. ~HasRecord(z, a.key) /\ HasZone(zones, z)
        BY <2>5 DEF Insertable
      <4>2. \A x \in Committed : x.zone = z /\ x.key = a.key => x \in records
        BY <2>1, <2>3, <3>1, Seen
      <4> QED
        BY <4>1, <4>2 DEF HasRecord, RecordsOf, HasZone, Atomic!HasRecord, Atomic!HasZone
    <3>7. Atomic!Row(z, a) = y
      BY DEF Atomic!Row, y
    <3>8. Atomic!CreateRecordSet(z, a)
      BY <2>2, <3>5, <3>6, <3>7 DEF Atomic!CreateRecordSet
    <3> QED
      BY <2>4, <3>8 DEF Atomic!Next, Addition
  <2>6. CASE records' = records
    BY <2>1, <2>2, <2>3, <2>6, Quiet DEF Atomic!vars
  <2> QED
    BY <1>4, <2>5, <2>6 DEF InsertRecordSet, a, z
<1>5. CASE RemoveRecordSet(c)
  <2> DEFINE k == req[c].dels[1]
             z == req[c].zone
  <2>1. PICK s : Become(c, s) /\ ~Open(s)
    BY <1>5, AnswerClosed DEF RemoveRecordSet
  <2>2. req[c].pc = "remove" /\ zones' = zones /\ records' = Without(z, k)
    BY <1>5 DEF RemoveRecordSet, At
  <2>3. ~Open(req[c])
    BY <2>2, OpenWhenChanging DEF Changing
  <2>4. k \in RRsets /\ k \in req[c].touched /\ z \in ZoneNames
    <3>1. /\ req[c].adds \in Seq(Addition) /\ req[c].dels \in Seq(RRsets)
          /\ Len(req[c].dels) = 1 /\ req[c].touched = Touched(req[c].dels, req[c].adds)
          /\ z \in ZoneNames
      BY <1>0, <2>2 DEF RequestTyped, Request, Declared
    <3> QED
      BY <3>1, TouchedKeys
  <2> HIDE DEF k, z
  <2>5. \A x : x.zone = z /\ x.key = k =>
            \A d \in Clients : Open(req[d]) => ~Covers(req[d], x)
    BY <2>3, <2>4, OwnRow DEF z
  <2>6. \A x : x \in records' <=> x \in records /\ ~(x.zone = z /\ x.key = k)
    BY <2>2 DEF Without
  <2>7. \A x : x \in Committed' <=> x \in Committed /\ ~(x.zone = z /\ x.key = k)
    BY <2>1, <2>3, <2>5, <2>6, Seen
  <2>8. Committed' = {x \in Committed : ~(x.zone = z /\ x.key = k)} /\ Submitted' = Submitted
    <3>1. Submitted' = Submitted
      BY <2>1, <2>3, Seen
    <3>2. \A x : x \in Committed' <=> x \in {r \in Committed : ~(r.zone = z /\ r.key = k)}
      BY <2>7
    <3> QED
      BY <3>1, <3>2, SetExtensionality
  <2>9. Atomic!DeleteRecordSet(z, k)
    BY <2>2, <2>8 DEF Atomic!DeleteRecordSet
  <2> QED
    BY <2>4, <2>9 DEF Atomic!Next
<1> QED
  BY <1>1, <1>2, <1>3, <1>4, <1>5

\* The instance has its own copy of the operator.
LEMMA SameLists == \A S : Atomic!BoundedSeq(S, MaxOps) = BoundedSeq(S, MaxOps)
  BY DEF Atomic!BoundedSeq, BoundedSeq, Atomic!SeqOf, SeqOf

\* A change that starts has not touched anything yet.
LEMMA SubmitImplements ==
    ASSUME IInv, IInv', Isolated, NEW c \in Clients, CreateDNSChange(c)
    PROVE  Atomic!Submit(c)
<1>1. PICK z \in ZoneNames, dels \in BoundedSeq(RRsets, MaxOps),
           adds \in BoundedSeq(Addition, MaxOps) :
        /\ Start(c, z, Touched(dels, adds)) /\ UNCHANGED <<zones, records>>
        /\ Become(c, [Idle EXCEPT !.pc = "snapshot", !.change = TRUE, !.zone = z,
                   !.touched = Touched(dels, adds), !.dels = dels, !.adds = adds,
                   !.before = {x \in RecordsOf(records, z) : x.key \in Touched(dels, adds)}])
  BY DEF CreateDNSChange
<1> DEFINE keys == Touched(dels, adds)
           before == {x \in RecordsOf(records, z) : x.key \in keys}
           s == [Idle EXCEPT !.pc = "snapshot", !.change = TRUE, !.zone = z,
                   !.touched = keys, !.dels = dels, !.adds = adds, !.before = before]
<1>2. Become(c, s) /\ zones' = zones /\ records' = records
  BY <1>1
<1> HIDE DEF keys
<1>3. before = View(records, [zone |-> z, touched |-> keys])
  BY DEF RecordsOf, View
<1> HIDE DEF before
<1>4. /\ Open(s) /\ s.zone = z /\ s.touched = keys /\ s.before = before
      /\ s.dels = dels /\ s.adds = adds
  BY DEF Idle, Open
<1> HIDE DEF s
<1>5. \A d \in Clients : req'[d] = IF d = c THEN s ELSE req[d]
  BY <1>2 DEF IInv, Typed, TypeOK, Become
<1>6. ~Open(req[c])
  BY <1>1, OpenWhenChanging DEF Start, At, Changing
<1>7. Apart(req) /\ Apart(req')
  BY RequestsApart
<1>8. Committed' = Committed
  <2>1. ASSUME NEW x
        PROVE  x \in Shown(records', req') <=> x \in Shown(records, req)
    <3>1. CASE Covers(s, x)
      <4>1. x \in Shown(records', req') <=> x \in before
        BY <1>4, <1>5, <1>7, <3>1, ShownRows
      <4>2. \A d \in Clients : Open(req[d]) => ~Covers(req[d], x)
        BY <1>1, <1>4, <1>6, <3>1, StartedApart DEF Covers, keys
      <4>3. x \in Shown(records, req) <=> x \in records
        BY <1>7, <4>2, ShownRows
      <4> QED
        BY <1>3, <1>4, <3>1, <4>1, <4>3 DEF View, Covers
    <3>2. CASE ~Covers(s, x)
      <4>1. CASE \E d \in Clients : Open(req[d]) /\ Covers(req[d], x)
        BY <1>5, <1>6, <1>7, <4>1, ShownRows
      <4>2. CASE \A d \in Clients : Open(req[d]) => ~Covers(req[d], x)
        <5>1. \A d \in Clients : Open(req'[d]) => ~Covers(req'[d], x)
          BY <1>5, <3>2, <4>2
        <5> QED
          BY <1>2, <1>7, <4>2, <5>1, ShownRows
      <4> QED
        BY <4>1, <4>2
    <3> QED
      BY <3>1, <3>2
  <2> QED
    BY <2>1, Mapped, SetExtensionality
<1>9. Submitted' = Submitted \cup {ChangeOf(c, s)}
  <2>1. \A d \in Clients : Open(req'[d]) <=> Open(req[d]) \/ d = c
    BY <1>4, <1>5
  <2>2. \A d \in Clients : ChangeOf(d, req'[d])
            = IF d = c THEN ChangeOf(c, s) ELSE ChangeOf(d, req[d])
    BY <1>5
  <2>3. \A p : p \in Sent(req') <=> p \in Sent(req) \cup {ChangeOf(c, s)}
    BY <1>6, <2>1, <2>2 DEF Sent
  <2>4. Sent(req') = Sent(req) \cup {ChangeOf(c, s)}
    BY <2>3, SetExtensionality
  <2> QED
    BY <2>4, Mapped
<1>10. \A p \in Submitted : p.client # c
  BY <1>6, Mapped DEF Sent, ChangeOf
<1>11. ChangeOf(c, s) = [client |-> c, zone |-> z, dels |-> dels, adds |-> adds]
  BY <1>4 DEF ChangeOf
<1>12. /\ dels \in Atomic!BoundedSeq(RRsets, MaxOps)
       /\ adds \in Atomic!BoundedSeq([key : RRsets, data : Datas], MaxOps)
  BY SameLists DEF Addition
<1> QED
  BY <1>2, <1>8, <1>9, <1>10, <1>11, <1>12 DEF Atomic!Submit

\* Until its last statement a change only rewrites what it covers.
LEMMA InsideImplements ==
    ASSUME IInv, IInv', NEW c \in Clients,
           \/ SnapshotDeletion(c) \/ ApplyDeletion(c) \/ ApplyAddition(c) \/ ReadBack(c)
           \/ UndoAddition(c) \/ UndoDeletion(c)
    PROVE  UNCHANGED Atomic!vars
<1> DEFINE r == req[c]
           s == req'[c]
<1>1. /\ Become(c, s) /\ SameChange(r, s) /\ zones' = zones
      /\ r.pc \in Changing /\ s.pc \in Changing
      /\ \A x \in Record : Covers(r, x) \/ (x \in records' <=> x \in records)
  <2>1. CASE SnapshotDeletion(c)
    BY <2>1, SnapshotStep DEF IInv, Moves, Changing
  <2>2. CASE ReadBack(c)
    BY <2>2, ReadBackMoves DEF Moves, Changing
  <2>3. CASE ApplyDeletion(c)
    <3>1. /\ r.pc = "delete" /\ r.i <= Len(r.dels) /\ Become(c, s) /\ zones' = zones
          /\ records' = Without(r.zone, r.dels[r.i]) /\ SameChange(r, s)
          /\ s.pc \in Changing
      BY <2>3, DeletionStep DEF IInv, Moves, Changing
    <3>2. r.dels[r.i] \in r.touched
      BY <3>1, ChangeFacts DEF Changing, Counted
    <3> QED
      BY <3>1, <3>2 DEF Without, Covers, Changing
  <2>4. CASE ApplyAddition(c)
    <3>1. /\ r.pc = "add" /\ r.i <= Len(r.adds) /\ Become(c, s) /\ zones' = zones
          /\ \/ records' = records
             \/ records' = With(r.zone, r.adds[r.i].key, r.adds[r.i].data)
          /\ SameChange(r, s) /\ s.pc \in Changing
      BY <2>4, AdditionStep DEF IInv, Moves, Changing
    <3>2. r.adds[r.i].key \in r.touched
      BY <3>1, ChangeFacts DEF Changing, Counted
    <3> QED
      BY <3>1, <3>2 DEF With, Covers, Changing
  <2>5. CASE UndoAddition(c)
    <3>1. /\ r.pc = "undoAdditions" /\ r.i <= r.added /\ Become(c, s) /\ zones' = zones
          /\ records' = Without(r.zone, r.adds[r.i].key) /\ SameChange(r, s)
          /\ s.pc \in Changing
      BY <2>5, UndoAdditionStep DEF IInv, Moves, Changing
    <3>2. /\ r.i \in Nat /\ r.i >= 1 /\ r.added \in Nat /\ r.added <= Len(r.adds)
          /\ Len(r.adds) \in Nat /\ \A j \in 1..Len(r.adds) : r.adds[j].key \in r.touched
      BY <3>1, ChangeFacts DEF Changing
    <3>3. r.adds[r.i].key \in r.touched
      BY <3>1, <3>2
    <3> QED
      BY <3>1, <3>3 DEF Without, Covers, Changing
  <2>6. CASE UndoDeletion(c)
    <3>1. /\ r.pc = "undoDeletions" /\ r.i <= r.done /\ Become(c, s) /\ zones' = zones
          /\ \/ records' = records
             \/ records' = With(r.zone, r.dels[r.i], r.snap[r.i])
          /\ SameChange(r, s) /\ s.pc \in Changing
      BY <2>6, UndoDeletionStep DEF IInv, Moves, Changing
    <3>2. /\ r.i \in Nat /\ r.i >= 1 /\ r.done \in Nat /\ r.done <= Len(r.snap)
          /\ Len(r.dels) \in Nat /\ \A j \in 1..Len(r.dels) : r.dels[j] \in r.touched
          /\ Len(r.snap) = Len(r.dels)
      BY <3>1, ChangeFacts DEF Changing, Counted
    <3>3. r.dels[r.i] \in r.touched
      BY <3>1, <3>2
    <3> QED
      BY <3>1, <3>3 DEF With, Covers, Changing
  <2> QED
    BY <2>1, <2>2, <2>3, <2>4, <2>5, <2>6
<1> HIDE DEF s
<1>2. Open(r) /\ Open(s)
  BY <1>1, OpenWhenChanging DEF SameChange, Open, Changing
<1>3. Committed' = Committed /\ Submitted' = Submitted
  BY <1>1, <1>2, Unseen
<1> QED
  BY <1>1, <1>3 DEF Atomic!vars

---------------------------------------------------------------------------
(* The end of a change *)

\* What Fits asks of the record sets is what Suits asks of the rows that were found.
LEMMA FitsSuits ==
    ASSUME IInv, NEW c \in Clients, Open(req[c])
    PROVE  Atomic!Fits(ChangeOf(c, req[c])) <=> Suits(req[c])
<1> DEFINE r == req[c]
           p == ChangeOf(c, r)
<1>1. p.zone = r.zone /\ p.dels = r.dels /\ p.adds = r.adds
  BY DEF ChangeOf
<1>2. /\ r.dels \in Seq(RRsets) /\ r.adds \in Seq(Addition) /\ BeforeOK(r)
      /\ \A j \in 1..Len(r.dels) : r.dels[j] \in r.touched
      /\ \A j \in 1..Len(r.adds) : r.adds[j].key \in r.touched
      /\ r.touched # {} => HasZone(zones, r.zone)
  BY OpenWhenChanging, ChangeFacts
<1>3. \A x : Covers(r, x) => (x \in Committed <=> x \in r.before)
  BY RequestsApart, ShownRows, Mapped
<1>4. \A x \in r.before : Covers(r, x)
  BY <1>2 DEF BeforeOK, Covers
<1> HIDE DEF p
<1>5. \A k \in r.touched : Atomic!HasRecord(r.zone, k) <=> \E x \in r.before : x.key = k
  BY <1>3, <1>4 DEF Atomic!HasRecord, Covers
<1>6. \A x : Atomic!Deletes(p, x) <=> x.zone = r.zone /\ x.key \in DelKeys(r, Len(r.dels))
  BY <1>1 DEF Atomic!Deletes, DelKeys
<1>7. ASSUME NEW j \in 1..Len(r.adds)
      PROVE  (\A x \in Committed : x.zone = r.zone /\ x.key = r.adds[j].key
                                        => Atomic!Deletes(p, x))
             <=> \A x \in Kept(r, Len(r.dels)) : x.key # r.adds[j].key
  <2>1. \A x : x.zone = r.zone /\ x.key = r.adds[j].key =>
            (x \in Committed <=> x \in r.before)
    BY <1>2, <1>3 DEF Covers
  <2>2. \A x \in r.before : x.zone = r.zone
    BY <1>4 DEF Covers
  <2> QED
    BY <1>6, <2>1, <2>2 DEF Kept
<1>8. r.adds # <<>> => HasZone(zones, r.zone)
  <2>1. r.adds # <<>> => 1 \in 1..Len(r.adds)
    BY <1>2
  <2> QED
    BY <1>2, <2>1
<1>9. Found(r, Len(r.dels)) <=>
        \A i \in 1..Len(p.dels) :
            /\ Atomic!HasRecord(p.zone, p.dels[i])
            /\ \A j \in 1..Len(p.dels) : p.dels[i] = p.dels[j] => i = j
  BY <1>1, <1>2, <1>5 DEF Found
<1>10. Suits(r) <=>
        /\ Found(r, Len(r.dels))
        /\ \A i \in 1..Len(p.adds) :
            /\ \A x \in Committed : x.zone = p.zone /\ x.key = p.adds[i].key
                                        => Atomic!Deletes(p, x)
            /\ \A j \in 1..Len(p.adds) : p.adds[i].key = p.adds[j].key => i = j
  BY <1>1, <1>7 DEF Suits, Distinct
<1>11. p.adds # <<>> => Atomic!HasZone(p.zone)
  BY <1>1, <1>8 DEF HasZone, Atomic!HasZone
<1>12. Atomic!Fits(p) <=> Suits(r)
  BY <1>9, <1>10, <1>11 DEF Atomic!Fits
<1> QED
  BY <1>12 DEF p

\* A change that is answered shows what its keys hold.
LEMMA Decided ==
    ASSUME IInv, IInv', NEW c \in Clients, NEW s, Become(c, s), Open(req[c]), ~Open(s),
           records' = records
    PROVE  /\ ChangeOf(c, req[c]) \in Submitted
           /\ Submitted' = Submitted \ {ChangeOf(c, req[c])}
           /\ \A x : x \in Committed' <=>
                  IF Covers(req[c], x) THEN x \in records ELSE x \in Committed
           /\ \A x : Covers(req[c], x) => (x \in Committed <=> x \in req[c].before)
<1> DEFINE r == req[c]
<1>1. \A d \in Clients : req'[d] = IF d = c THEN s ELSE req[d]
  BY DEF IInv, Typed, TypeOK, Become
<1>2. Apart(req) /\ Apart(req')
  BY RequestsApart
<1>3. \A d \in Clients : Open(req'[d]) <=> Open(req[d]) /\ d # c
  BY <1>1
<1>4. Submitted' = Submitted \ {ChangeOf(c, r)}
  <2>1. \A d, e \in Clients : ChangeOf(d, req[d]) = ChangeOf(e, req[e]) => d = e
    BY DEF ChangeOf
  <2>2. \A d \in Clients : d # c => ChangeOf(d, req'[d]) = ChangeOf(d, req[d])
    BY <1>1
  <2>3. \A p : p \in Sent(req') <=> p \in Sent(req) \ {ChangeOf(c, r)}
    BY <1>3, <2>1, <2>2 DEF Sent
  <2>4. Sent(req') = Sent(req) \ {ChangeOf(c, r)}
    BY <2>3, SetExtensionality
  <2> QED
    BY <2>4, Mapped
<1>5. \A x : Covers(r, x) => \A d \in Clients : Open(req'[d]) => ~Covers(req'[d], x)
  BY <1>1, <1>2 DEF Apart, Covers
<1>6. ASSUME NEW x
      PROVE  x \in Shown(records', req') <=>
                IF Covers(r, x) THEN x \in records ELSE x \in Shown(records, req)
  <2>1. CASE Covers(r, x)
    BY <1>2, <1>5, <2>1, ShownRows
  <2>2. CASE ~Covers(r, x) /\ \E d \in Clients : Open(req[d]) /\ Covers(req[d], x)
    <3>1. PICK d \in Clients : Open(req[d]) /\ Covers(req[d], x)
      BY <2>2
    <3>2. d # c /\ req'[d] = req[d]
      BY <1>1, <2>2, <3>1
    <3> QED
      BY <1>2, <2>2, <3>1, <3>2, ShownRows
  <2>3. CASE ~Covers(r, x) /\ \A d \in Clients : Open(req[d]) => ~Covers(req[d], x)
    <3>1. \A d \in Clients : Open(req'[d]) => ~Covers(req'[d], x)
      BY <1>1, <1>3, <2>3
    <3> QED
      BY <1>2, <2>3, <3>1, ShownRows
  <2> QED
    BY <2>1, <2>2, <2>3
<1>7. ChangeOf(c, r) \in Submitted
  BY Mapped DEF Sent
<1> QED
  BY <1>2, <1>4, <1>6, <1>7, ShownRows, Mapped

\* After its last addition a change fits, and everything it asked for shows at once.
LEMMA CommitImplements ==
    ASSUME IInv, IInv', Verdicts, NEW c \in Clients, NEW s, Become(c, s),
           UNCHANGED <<zones, records>>, s.pc = "reply",
           req[c].pc = "add", req[c].i > Len(req[c].adds)
    PROVE  Atomic!Commit(ChangeOf(c, req[c]))
<1> DEFINE r == req[c]
           p == ChangeOf(c, r)
           V == View(records, r)
<1>1. Open(r) /\ ~Open(s)
  BY OpenWhenChanging, NotOpen DEF Changing
<1>2. /\ r.adds \in Seq(Addition) /\ r.done = Len(r.dels) /\ r.added = Len(r.adds)
      /\ \A j \in 1..Len(r.dels) : r.dels[j] \in r.touched
      /\ \A j \in 1..Len(r.adds) : r.adds[j].key \in r.touched
      /\ BeforeOK(r) /\ Phase(r, V)
  BY ChangeFacts DEF Counted, Changing
<1>3. V = Kept(r, Len(r.dels)) \cup AddRows(r, Len(r.adds)) /\ Free(r, Len(r.adds))
  BY <1>2 DEF Phase
<1>4. Found(r, Len(r.dels)) /\ Distinct(r, Len(r.adds))
  BY <1>2 DEF Verdicts, Verdict
<1>5. Suits(r)
  BY <1>2, <1>3, <1>4 DEF Suits, Free
<1>6. Atomic!Fits(p)
  BY <1>1, <1>5, FitsSuits
<1>7. /\ Submitted' = Submitted \ {p}
      /\ \A x : x \in Committed' <=>
             IF Covers(r, x) THEN x \in records ELSE x \in Committed
      /\ \A x : Covers(r, x) => (x \in Committed <=> x \in r.before)
  BY <1>1, Decided
<1>8. p.zone = r.zone /\ p.dels = r.dels /\ p.adds = r.adds
  BY DEF ChangeOf
<1> HIDE DEF p, V
<1>9. \A x : Atomic!Deletes(p, x) <=> x.zone = r.zone /\ x.key \in DelKeys(r, Len(r.dels))
  BY <1>8 DEF Atomic!Deletes, DelKeys
<1>10. Atomic!Additions(p) = AddRows(r, Len(r.adds))
  BY <1>8 DEF Atomic!Additions, Atomic!Row, AddRows, AddRow
<1>11. \A x : Covers(r, x) => (x \in records <=> x \in V)
  BY DEF View, Covers, V
<1>12. \A x \in AddRows(r, Len(r.adds)) : Covers(r, x)
  BY <1>2 DEF AddRows, AddRow, Covers
<1>13. \A x : Atomic!Deletes(p, x) => Covers(r, x)
  BY <1>2, <1>9 DEF DelKeys, Covers
<1>14. ASSUME NEW x
       PROVE  x \in Committed' <=>
                 x \in {y \in Committed : ~Atomic!Deletes(p, y)} \cup Atomic!Additions(p)
  <2>1. CASE Covers(r, x)
    <3>1. x \in Committed' <=> x \in Kept(r, Len(r.dels)) \cup AddRows(r, Len(r.adds))
      BY <1>3, <1>7, <1>11, <2>1
    <3>2. x \in Kept(r, Len(r.dels)) <=> x \in Committed /\ ~Atomic!Deletes(p, x)
      BY <1>7, <1>9, <2>1 DEF Kept, Covers
    <3> QED
      BY <1>10, <3>1, <3>2
  <2>2. CASE ~Covers(r, x)
    BY <1>7, <1>10, <1>12, <1>13, <2>2
  <2> QED
    BY <2>1, <2>2
<1>15. Committed' = {y \in Committed : ~Atomic!Deletes(p, y)} \cup Atomic!Additions(p)
  BY <1>14, SetExtensionality
<1>16. Atomic!Commit(p)
  BY <1>6, <1>7, <1>15 DEF Atomic!Commit
<1> QED
  BY <1>16 DEF p

\* After the last step of its rollback a change did not fit, and nothing has changed.
LEMMA AbortImplements ==
    ASSUME IInv, IInv', Verdicts, NEW c \in Clients, NEW s, Become(c, s),
           UNCHANGED <<zones, records>>, s.pc = "reply", SameChange(req[c], s),
           s.resp = "error", req[c].pc = "undoDeletions"
    PROVE  Atomic!Abort(ChangeOf(c, req[c]))
<1> DEFINE r == req[c]
           p == ChangeOf(c, r)
<1>1. Open(r) /\ ~Open(s)
  BY OpenWhenChanging, NotOpen DEF Changing
<1>2. ~Suits(r)
  BY DEF Verdicts, Verdict
<1>3. ~Atomic!Fits(p)
  BY <1>1, <1>2, FitsSuits
<1>4. /\ Submitted' = Submitted \ {p}
      /\ \A x : x \in Committed' <=>
             IF Covers(r, x) THEN x \in records ELSE x \in Committed
      /\ \A x : Covers(r, x) => (x \in Committed <=> x \in r.before)
  BY <1>1, Decided
<1>5. View(records, r) = r.before
  <2>1. req'[c] = s /\ r.change
    BY <1>1, Own DEF IInv, Open
  <2>2. Phase(s, View(records', s))
    BY <2>1 DEF IInv
  <2>3. s.change /\ s.before = r.before /\ View(records', s) = View(records, r)
    BY <2>1 DEF SameChange, View
  <2> QED
    BY <2>2, <2>3 DEF Phase
<1>6. \A x : Covers(r, x) => (x \in records <=> x \in r.before)
  BY <1>5 DEF View, Covers
<1>7. Committed' = Committed
  BY <1>4, <1>6, SetExtensionality
<1> HIDE DEF p
<1>8. Atomic!Abort(p)
  BY <1>3, <1>4, <1>7 DEF Atomic!Abort
<1> QED
  BY <1>8 DEF p

LEMMA NextPhaseImplements ==
    ASSUME IInv, IInv', Verdicts, NEW c \in Clients, NextPhase(c)
    PROVE  Atomic!Next \/ UNCHANGED Atomic!vars
<1> DEFINE r == req[c]
           s == req'[c]
<1>1. /\ r.pc \in Changing /\ UNCHANGED <<zones, records>> /\ Become(c, s)
      /\ SameChange(r, s)
      /\ \/ s.pc \in Changing
         \/ r.pc = "add" /\ r.i > Len(r.adds) /\ s.pc = "reply"
         \/ r.pc = "undoDeletions" /\ s.pc = "reply" /\ s.resp = "error"
  BY NextPhaseStep DEF IInv, Moves, Changing
<1> HIDE DEF s
<1>2. Open(r)
  BY <1>1, OpenWhenChanging
<1>3. ChangeOf(c, r) \in Submitted
  BY <1>2, Mapped DEF Sent
<1>4. CASE s.pc \in Changing
  <2>1. Open(s)
    BY <1>1, <1>2, <1>4 DEF SameChange, Open, Changing
  <2>2. Committed' = Committed /\ Submitted' = Submitted
    BY <1>1, <1>2, <2>1, Unseen
  <2> QED
    BY <1>1, <2>2 DEF Atomic!vars
<1>5. CASE r.pc = "add" /\ r.i > Len(r.adds) /\ s.pc = "reply"
  BY <1>1, <1>3, <1>5, CommitImplements DEF Atomic!Next
<1>6. CASE r.pc = "undoDeletions" /\ s.pc = "reply" /\ s.resp = "error"
  BY <1>1, <1>3, <1>6, AbortImplements DEF Atomic!Next
<1> QED
  BY <1>1, <1>4, <1>5, <1>6

\* In every phase a change has deleted nothing but what it deletes, and added nothing
\* but what it adds.
LEMMA Torn ==
    ASSUME IInv, NEW c \in Clients, Open(req[c]), NEW x, Covers(req[c], x)
    PROVE  /\ x \in req[c].before /\ x \notin records =>
                 x.key \in DelKeys(req[c], Len(req[c].dels))
           /\ x \in records /\ x \notin req[c].before =>
                 x \in AddRows(req[c], Len(req[c].adds))
<1> DEFINE r == req[c]
           V == View(records, r)
<1>1. r.pc \in Changing
  BY OpenWhenChanging
<1>2. /\ Phase(r, V) /\ Counted(r) /\ r.done \in Nat /\ r.i \in Nat
      /\ r.added \in Nat /\ r.added <= Len(r.adds) /\ r.done <= Len(r.snap)
      /\ Len(r.adds) \in Nat /\ Len(r.dels) \in Nat /\ Len(r.snap) <= Len(r.dels)
  <2>1. /\ Phase(r, V) /\ Counted(r) /\ r.done \in Nat /\ r.i \in Nat
        /\ r.added \in Nat /\ r.added <= Len(r.adds) /\ r.done <= Len(r.snap)
        /\ r.dels \in Seq(RRsets) /\ r.adds \in Seq(Addition)
        /\ r.snap \in Seq(Datas \cup {Missing})
    BY <1>1, ChangeFacts
  <2>2. Len(r.snap) <= Len(r.dels)
    BY <1>1, <2>1 DEF Counted, Changing
  <2> QED
    BY <2>1, <2>2
<1>3. x \in V <=> x \in records
  BY DEF View, Covers
<1>4. /\ DelKeys(r, r.done) \subseteq DelKeys(r, Len(r.dels))
      /\ AddRows(r, r.added) \subseteq AddRows(r, Len(r.adds))
      /\ r.pc = "readBack" => AddRows(r, r.i) \subseteq AddRows(r, Len(r.adds))
  <2>1. \A n \in Nat : n <= Len(r.dels) => DelKeys(r, n) \subseteq DelKeys(r, Len(r.dels))
    BY <1>2 DEF DelKeys
  <2>2. \A n \in Nat : n <= Len(r.adds) => AddRows(r, n) \subseteq AddRows(r, Len(r.adds))
    BY <1>2 DEF AddRows
  <2>3. r.pc = "readBack" => r.i <= Len(r.adds)
    BY <1>2 DEF Counted
  <2> QED
    BY <1>2, <2>1, <2>2, <2>3
<1> HIDE DEF V
<1>5. \/ V = r.before
      \/ Kept(r, r.done) \subseteq V /\ V \subseteq r.before \cup AddRows(r, r.added)
      \/ /\ r.pc = "readBack"
         /\ Kept(r, r.done) \subseteq V /\ V \subseteq r.before \cup AddRows(r, r.i)
  BY <1>1, <1>2 DEF Phase, Changing, Kept
<1> QED
  BY <1>3, <1>4, <1>5 DEF Kept

LEMMA CrashImplements ==
    ASSUME IInv, IInv', Restart
    PROVE  Atomic!Crash
<1>1. zones' = zones /\ records' = records /\ \A c \in Clients : ~Open(req'[c])
  BY IdleTyped, NotOpen DEF Restart
<1>2. Apart(req) /\ Apart(req')
  BY RequestsApart
<1>3. Submitted' = {}
  BY <1>1, Mapped DEF Sent
<1>4. Committed' = records
  <2>1. \A x : x \in Shown(records', req') <=> x \in records
    BY <1>1, <1>2, ShownRows
  <2> QED
    BY <2>1, Mapped, SetExtensionality
<1> DEFINE gone == {x \in Committed : x \notin records}
           new == {x \in records : x \notin Committed}
<1>5. \A x : ~(x \in Committed <=> x \in records) =>
          \E c \in Clients : /\ Open(req[c]) /\ Covers(req[c], x)
                             /\ x \in Committed <=> x \in req[c].before
  BY <1>2, ShownRows, Mapped
<1>6. ASSUME NEW x \in gone
      PROVE  \E p \in Submitted : Atomic!Deletes(p, x)
  <2>1. PICK c \in Clients : Open(req[c]) /\ Covers(req[c], x) /\ x \in req[c].before
    BY <1>5
  <2>2. ChangeOf(c, req[c]) \in Submitted
    BY <2>1, Mapped DEF Sent
  <2>3. x.zone = req[c].zone /\ x.key \in DelKeys(req[c], Len(req[c].dels))
    BY <2>1, Torn DEF Covers
  <2>4. Atomic!Deletes(ChangeOf(c, req[c]), x)
    BY <2>3 DEF Atomic!Deletes, ChangeOf, DelKeys
  <2> QED
    BY <2>2, <2>4
<1>7. ASSUME NEW x \in new
      PROVE  \E p \in Submitted : x \in Atomic!Additions(p)
  <2>1. PICK c \in Clients : Open(req[c]) /\ Covers(req[c], x) /\ x \notin req[c].before
    BY <1>5
  <2>2. ChangeOf(c, req[c]) \in Submitted
    BY <2>1, Mapped DEF Sent
  <2>3. x \in AddRows(req[c], Len(req[c].adds))
    BY <2>1, Torn
  <2>4. Atomic!Additions(ChangeOf(c, req[c])) = AddRows(req[c], Len(req[c].adds))
    BY DEF Atomic!Additions, Atomic!Row, ChangeOf, AddRows, AddRow
  <2> QED
    BY <2>2, <2>3, <2>4
<1>8. (Committed \ gone) \cup new = records
  OBVIOUS
<1>9. \A x, y \in records : x.zone = y.zone /\ x.key = y.key => x = y
  BY DEF IInv, Unique
<1>10. gone \in SUBSET {x \in Committed : \E p \in Submitted : Atomic!Deletes(p, x)}
  BY <1>6
<1>11. new \in SUBSET UNION {Atomic!Additions(p) : p \in Submitted}
  BY <1>7
<1> HIDE DEF gone, new
<1> QED
  BY <1>1, <1>3, <1>4, <1>8, <1>9, <1>10, <1>11 DEF Atomic!Crash

LEMMA StepImplements ==
    ASSUME IInv, IInv', Verdicts, Isolated, [Next]_vars
    PROVE  Atomic!Next \/ UNCHANGED Atomic!vars
<1>1. CASE UNCHANGED vars
  BY <1>1, Mapped DEF vars, Atomic!vars
<1>2. CASE Restart
  BY <1>2, CrashImplements DEF Atomic!Next
<1>3. ASSUME NEW c \in Clients, CreateDNSChange(c)
      PROVE  Atomic!Next
  BY <1>3, SubmitImplements DEF Atomic!Next
<1> QED
  BY <1>1, <1>2, <1>3, ZonesImplement, RecordSetsImplement, InsideImplements,
     NextPhaseImplements DEF Next

---------------------------------------------------------------------------
(* The work left *)

\* No more statements than this are left of a request in phase pc, about D deletions and
\* A additions, rollback included.
Left(pc, i, done, added, D, A) ==
    CASE pc = "idle" -> 0
      [] pc = "reply" -> 1
      [] pc = "undoDeletions" -> (done + 3) - i
      [] pc = "undoAdditions" -> (added + done + 4) - i
      [] pc = "readBack" -> (D + 3 * A + 6) - 2 * i
      [] pc = "add" -> (D + 3 * A + 7) - 2 * i
      [] pc = "delete" -> (2 * D + 3 * A + 7) - i
      [] pc = "snapshot" -> (3 * D + 3 * A + 8) - i
      [] OTHER -> 2

StepsLeft(r) == Left(r.pc, r.i, r.done, r.added, Len(r.dels), Len(r.adds))

LEMMA LeftBounds ==
    ASSUME NEW pc, NEW i \in Nat, NEW done \in Nat, NEW added \in Nat,
           NEW D \in Nat, NEW A \in Nat, added <= A,
           pc \in Changing => done <= D,
           pc \in Changing => i >= 1,
           pc \in {"snapshot", "delete"} => i <= D + 1,
           pc = "add" => i <= A + 1,
           pc = "readBack" => i <= A,
           pc = "undoAdditions" => i <= added + 1,
           pc = "undoDeletions" => i <= done + 1
    PROVE  /\ Left(pc, i, done, added, D, A) \in Nat
           /\ Left(pc, i, done, added, D, A) <= 3 * (D + A) + 7
           /\ pc # "idle" => Left(pc, i, done, added, D, A) >= 1
           /\ pc \in Changing => Left(pc, i, done, added, D, A) >= 2
<1>1. CASE pc \in {"snapshot", "delete"}
  BY <1>1 DEF Left, Changing
<1>2. CASE pc \in {"add", "readBack"}
  BY <1>2 DEF Left, Changing
<1>3. CASE pc \in {"undoAdditions", "undoDeletions"}
  BY <1>3 DEF Left, Changing
<1>4. CASE pc \notin Changing
  BY <1>4 DEF Left, Changing
<1> QED
  BY <1>1, <1>2, <1>3, <1>4 DEF Changing

LEMMA StepsLeftBounds ==
    ASSUME NEW r, RequestTyped(r)
    PROVE  /\ StepsLeft(r) \in Nat
           /\ StepsLeft(r) <= 3 * (Len(r.dels) + Len(r.adds)) + 7
           /\ r.pc # "idle" => StepsLeft(r) >= 1
           /\ r.pc \in Changing => StepsLeft(r) >= 2
<1>1. /\ r.i \in Nat /\ r.done \in Nat /\ r.added \in Nat
      /\ Len(r.dels) \in Nat /\ Len(r.adds) \in Nat
  BY DEF RequestTyped, Request
<1>2. /\ r.added <= Len(r.adds)
      /\ r.pc \in Changing => r.done <= Len(r.dels)
      /\ r.pc \in Changing => r.i >= 1
      /\ r.pc \in {"snapshot", "delete"} => r.i <= Len(r.dels) + 1
      /\ r.pc = "add" => r.i <= Len(r.adds) + 1
      /\ r.pc = "readBack" => r.i <= Len(r.adds)
      /\ r.pc = "undoAdditions" => r.i <= r.added + 1
      /\ r.pc = "undoDeletions" => r.i <= r.done + 1
  BY <1>1 DEF RequestTyped, Request, Counted, Changing
<1> QED
  BY <1>1, <1>2, LeftBounds DEF StepsLeft

\* The steps of a change, as the numbers see them: onward,
LEMMA LeftOnward ==
    ASSUME NEW i \in Nat, NEW n, NEW m, NEW done, NEW added, NEW D \in Nat, NEW A \in Nat
    PROVE  /\ Left("snapshot", i + 1, n, m, D, A) < Left("snapshot", i, done, added, D, A)
           /\ Left("delete", i + 1, n, m, D, A) < Left("delete", i, done, added, D, A)
           /\ Left("readBack", i, n, m, D, A) < Left("add", i, done, added, D, A)
           /\ Left("add", i + 1, n, m, D, A) < Left("readBack", i, done, added, D, A)
           /\ i <= D + 1 =>
                /\ Left("delete", 1, n, m, D, A) < Left("snapshot", i, done, added, D, A)
                /\ Left("add", 1, n, m, D, A) < Left("delete", i, done, added, D, A)
  BY DEF Left

\* on an error,
LEMMA LeftOnError ==
    ASSUME NEW i \in Nat, NEW done \in Nat, NEW added \in Nat, NEW D \in Nat, NEW A \in Nat,
           done <= D
    PROVE  /\ added = 0 /\ i <= D =>
                Left("undoAdditions", 1, done, added, D, A)
                    < Left("delete", i, done, added, D, A)
           /\ added + 1 = i /\ i <= A =>
                /\ Left("undoAdditions", 1, done, added, D, A)
                       < Left("add", i, done, added, D, A)
                /\ Left("undoAdditions", 1, done, added, D, A)
                       < Left("readBack", i, done, added, D, A)
  BY DEF Left

\* and in the rollback.
LEMMA LeftUndoing ==
    ASSUME NEW i \in Nat, NEW done \in Nat, NEW added \in Nat, NEW m, NEW D, NEW A
    PROVE  /\ Left("undoAdditions", i + 1, done, added, D, A)
                  < Left("undoAdditions", i, done, added, D, A)
           /\ Left("undoDeletions", i + 1, done, added, D, A)
                  < Left("undoDeletions", i, done, added, D, A)
           /\ i <= added + 1 => Left("undoDeletions", 1, done, m, D, A)
                                    < Left("undoAdditions", i, done, added, D, A)
  BY DEF Left

\* Outside of a change.
LEMMA LeftAtRest ==
    ASSUME NEW r
    PROVE  /\ r.pc = "idle" => StepsLeft(r) = 0
           /\ r.pc = "reply" => StepsLeft(r) = 1
           /\ r.pc \in {"writeZone", "deleteZone", "insert", "remove"} => StepsLeft(r) = 2
<1>1. \A i, n, m, D, A : /\ Left("idle", i, n, m, D, A) = 0
                         /\ Left("reply", i, n, m, D, A) = 1
                         /\ Left("writeZone", i, n, m, D, A) = 2
                         /\ Left("deleteZone", i, n, m, D, A) = 2
                         /\ Left("insert", i, n, m, D, A) = 2
                         /\ Left("remove", i, n, m, D, A) = 2
  BY DEF Left
<1> QED
  BY <1>1 DEF StepsLeft

\* Each statement of a change leaves less work than there was.
LEMMA ChangeAdvances ==
    ASSUME Typed, NEW c \in Clients,
           \/ SnapshotDeletion(c) \/ ApplyDeletion(c) \/ ApplyAddition(c) \/ ReadBack(c)
           \/ UndoAddition(c) \/ UndoDeletion(c) \/ NextPhase(c)
    PROVE  Become(c, req'[c]) /\ StepsLeft(req'[c]) < StepsLeft(req[c])
<1> DEFINE r == req[c]
           s == req'[c]
           D == Len(r.dels)
           A == Len(r.adds)
<1>1. RequestTyped(r)
  BY OwnTyped
<1>2. /\ r.i \in Nat /\ r.done \in Nat /\ r.added \in Nat /\ D \in Nat /\ A \in Nat
  BY <1>1 DEF RequestTyped, Request
<1> HIDE DEF r, s
<1> SUFFICES Become(c, s) /\ StepsLeft(s) < StepsLeft(r)
  BY DEF r, s
<1>3. ASSUME SameChange(r, s)
      PROVE  /\ StepsLeft(r) = Left(r.pc, r.i, r.done, r.added, D, A)
             /\ StepsLeft(s) = Left(s.pc, s.i, s.done, s.added, D, A)
  BY <1>3 DEF StepsLeft, SameChange
<1> HIDE DEF D, A
<1>4. CASE SnapshotDeletion(c)
  <2>1. /\ Become(c, s) /\ r.pc = "snapshot" /\ s.pc = "snapshot" /\ s.i = r.i + 1
        /\ SameChange(r, s)
    BY <1>4, SnapshotStep DEF Moves, r, s
  <2>2. /\ StepsLeft(r) = Left("snapshot", r.i, r.done, r.added, D, A)
        /\ StepsLeft(s) = Left("snapshot", r.i + 1, s.done, s.added, D, A)
    BY <1>3, <2>1
  <2> QED
    BY <1>2, <2>1, <2>2, LeftOnward
<1>5. CASE ApplyDeletion(c)
  <2>1. /\ Become(c, s) /\ r.pc = "delete" /\ r.i <= D /\ SameChange(r, s)
        /\ \/ s.pc = "delete" /\ s.i = r.i + 1
           \/ s.pc = "undoAdditions" /\ s.i = 1 /\ s.done = r.done /\ s.added = r.added
    BY <1>5, DeletionStep DEF Moves, r, s, D
  <2>2. r.done + 1 = r.i /\ r.added = 0
    BY <1>1, <1>2, <2>1 DEF RequestTyped, Counted
  <2>3. CASE s.pc = "delete" /\ s.i = r.i + 1
    <3>1. /\ StepsLeft(r) = Left("delete", r.i, r.done, r.added, D, A)
          /\ StepsLeft(s) = Left("delete", r.i + 1, s.done, s.added, D, A)
      BY <1>3, <2>1, <2>3
    <3> QED
      BY <1>2, <2>1, <3>1, LeftOnward
  <2>4. CASE s.pc = "undoAdditions" /\ s.i = 1 /\ s.done = r.done /\ s.added = r.added
    <3>1. /\ StepsLeft(r) = Left("delete", r.i, r.done, r.added, D, A)
          /\ StepsLeft(s) = Left("undoAdditions", 1, r.done, r.added, D, A)
      BY <1>3, <2>1, <2>4
    <3>2. r.done <= D
      BY <1>2, <2>1, <2>2
    <3> QED
      BY <1>2, <2>1, <2>2, <3>1, <3>2, LeftOnError
  <2> QED
    BY <2>1, <2>3, <2>4
<1>6. CASE ApplyAddition(c) \/ ReadBack(c)
  <2>1. /\ Become(c, s) /\ SameChange(r, s) /\ r.pc \in {"add", "readBack"}
        /\ \/ r.pc = "add" /\ r.i <= A /\ s.pc = "readBack" /\ s.i = r.i
           \/ r.pc = "readBack" /\ s.pc = "add" /\ s.i = r.i + 1
           \/ /\ r.i <= A /\ s.pc = "undoAdditions" /\ s.i = 1
              /\ s.done = r.done /\ s.added = r.added
    <3>1. CASE ApplyAddition(c)
      BY <3>1, AdditionStep DEF Moves, r, s, A
    <3>2. CASE ReadBack(c)
      <4>1. r.pc = "readBack" /\ r.i <= A
        BY <1>1, <3>2, ReadBackStep DEF RequestTyped, Counted, r, A
      <4> QED
        BY <3>2, <4>1, ReadBackStep DEF Moves, r, s
    <3> QED
      BY <1>6, <3>1, <3>2
  <2>2. r.done = D /\ r.added + 1 = r.i
    BY <1>1, <1>2, <2>1 DEF RequestTyped, Counted, D
  <2>3. CASE \/ r.pc = "add" /\ s.pc = "readBack" /\ s.i = r.i
             \/ r.pc = "readBack" /\ s.pc = "add" /\ s.i = r.i + 1
    BY <1>2, <1>3, <2>1, <2>3, LeftOnward
  <2>4. CASE r.i <= A /\ s.pc = "undoAdditions" /\ s.i = 1 /\ s.done = r.done
                      /\ s.added = r.added
    <3>1. StepsLeft(s) = Left("undoAdditions", 1, r.done, r.added, D, A)
      BY <1>3, <2>1, <2>4
    <3>2. \/ StepsLeft(r) = Left("add", r.i, r.done, r.added, D, A)
          \/ StepsLeft(r) = Left("readBack", r.i, r.done, r.added, D, A)
      BY <1>3, <2>1
    <3>3. r.done <= D
      BY <1>2, <2>2
    <3> QED
      BY <1>2, <2>1, <2>2, <2>4, <3>1, <3>2, <3>3, LeftOnError
  <2> QED
    BY <2>1, <2>3, <2>4
<1>7. CASE UndoAddition(c) \/ UndoDeletion(c)
  <2>1. /\ Become(c, s) /\ r.pc \in {"undoAdditions", "undoDeletions"} /\ s.pc = r.pc
        /\ s.i = r.i + 1 /\ s.done = r.done /\ s.added = r.added /\ SameChange(r, s)
    BY <1>7, UndoAdditionStep, UndoDeletionStep DEF Moves, r, s
  <2>2. /\ StepsLeft(r) = Left(r.pc, r.i, r.done, r.added, D, A)
        /\ StepsLeft(s) = Left(r.pc, r.i + 1, r.done, r.added, D, A)
    BY <1>3, <2>1
  <2> QED
    BY <1>2, <2>1, <2>2, LeftUndoing
<1>8. CASE NextPhase(c)
  <2>1. /\ Become(c, s) /\ SameChange(r, s) /\ r.pc \in Changing
        /\ \/ r.pc = "snapshot" /\ s.pc = "delete" /\ s.i = 1
           \/ r.pc = "delete" /\ s.pc = "add" /\ s.i = 1
           \/ /\ r.pc = "undoAdditions" /\ s.pc = "undoDeletions" /\ s.i = 1
              /\ s.done = r.done
           \/ s.pc = "reply"
    BY <1>8, NextPhaseStep DEF Moves, r, s
  <2>2. /\ r.pc \in {"snapshot", "delete"} => r.i <= D + 1
        /\ r.pc = "undoAdditions" => r.i <= r.added + 1
    BY <1>1, <1>2 DEF RequestTyped, Request, Counted, Changing, D
  <2>3. CASE s.pc = "reply"
    <3>1. StepsLeft(r) \in Nat /\ StepsLeft(r) >= 2
      BY <1>1, <2>1, StepsLeftBounds
    <3>2. StepsLeft(s) = 1
      BY <2>3, LeftAtRest
    <3> QED
      BY <2>1, <3>1, <3>2
  <2>4. CASE r.pc \in {"snapshot", "delete"} /\ s.pc # "reply"
    BY <1>2, <1>3, <2>1, <2>2, <2>4, LeftOnward
  <2>5. CASE r.pc = "undoAdditions" /\ s.pc = "undoDeletions"
    <3>1. /\ StepsLeft(r) = Left("undoAdditions", r.i, r.done, r.added, D, A)
          /\ StepsLeft(s) = Left("undoDeletions", 1, r.done, s.added, D, A)
      BY <1>3, <2>1, <2>5
    <3> QED
      BY <1>2, <2>1, <2>2, <2>5, <3>1, LeftUndoing
  <2> QED
    BY <2>1, <2>3, <2>4, <2>5
<1> QED
  BY <1>4, <1>5, <1>6, <1>7, <1>8

LEMMA StepAdvances ==
    ASSUME Typed, [Next]_vars, NEW c \in Clients, ~At(c, "idle"), req'[c] # req[c]
    PROVE  StepsLeft(req'[c]) < StepsLeft(req[c])
<1>1. RequestTyped(req[c]) /\ req[c].pc # "idle"
  BY OwnTyped DEF At
<1>2. StepsLeft(req[c]) \in Nat /\ StepsLeft(req[c]) >= 1
  <2>1. Len(req[c].dels) \in Nat /\ Len(req[c].adds) \in Nat
    BY <1>1 DEF RequestTyped, Request
  <2> QED
    BY <1>1, <2>1, StepsLeftBounds
<1>3. StepsLeft(Idle) = 0
  BY IdleTyped, LeftAtRest
<1>4. CASE Restart
  BY <1>2, <1>3, <1>4 DEF Restart
<1>5. CASE Reply(c)
  BY <1>2, <1>3, <1>5, Own DEF Reply
<1>6. CASE WriteZone(c) \/ FinishDeleteZone(c) \/ InsertRecordSet(c) \/ RemoveRecordSet(c)
  <2>1. req[c].pc \in {"writeZone", "deleteZone", "insert", "remove"}
    BY <1>6 DEF WriteZone, FinishDeleteZone, InsertRecordSet, RemoveRecordSet, At
  <2>2. PICK code : Become(c, [req[c] EXCEPT !.pc = "reply", !.resp = code])
    BY <1>6 DEF WriteZone, FinishDeleteZone, InsertRecordSet, RemoveRecordSet, Answer
  <2>3. req'[c].pc = "reply"
    <3>1. req'[c] = [req[c] EXCEPT !.pc = "reply", !.resp = code]
      BY <2>2, Own
    <3> QED
      BY <1>1, <3>1 DEF RequestTyped, Request
  <2>4. StepsLeft(req'[c]) = 1
    BY <2>3, LeftAtRest
  <2>5. StepsLeft(req[c]) = 2
    BY <2>1, LeftAtRest
  <2> QED
    BY <2>4, <2>5
<1>7. CASE \/ SnapshotDeletion(c) \/ ApplyDeletion(c) \/ ApplyAddition(c) \/ ReadBack(c)
           \/ UndoAddition(c) \/ UndoDeletion(c) \/ NextPhase(c)
  BY <1>7, ChangeAdvances
<1>8. CASE \E d \in Clients : d # c /\ \E r : Become(d, r)
  BY <1>8 DEF Become, Typed, TypeOK
<1>9. CASE req' = req
  BY <1>9
<1> USE DEF At, CreateDNSZone, UpdateDNSZone, DeleteDNSZone, CreateDNSRecordSet,
            DeleteDNSRecordSet, CreateDNSChange, Start
<1>10. ASSUME NEW d \in Clients,
              \/ CreateDNSZone(d) \/ UpdateDNSZone(d) \/ DeleteDNSZone(d)
              \/ CreateDNSRecordSet(d) \/ DeleteDNSRecordSet(d) \/ CreateDNSChange(d)
       PROVE  req' = req \/ (d # c /\ \E r : Become(d, r))
  BY <1>1, <1>10
<1>11. ASSUME NEW d \in Clients, d # c,
              \/ WriteZone(d) \/ FinishDeleteZone(d) \/ InsertRecordSet(d)
              \/ RemoveRecordSet(d) \/ Reply(d)
       PROVE  \E r : Become(d, r)
  BY <1>11 DEF WriteZone, FinishDeleteZone, InsertRecordSet, RemoveRecordSet, Reply, Answer
<1>12. ASSUME NEW d \in Clients,
              \/ SnapshotDeletion(d) \/ ApplyDeletion(d) \/ ApplyAddition(d)
              \/ ReadBack(d) \/ UndoAddition(d) \/ UndoDeletion(d) \/ NextPhase(d)
       PROVE  \E r : Become(d, r)
  BY <1>12, ChangeAdvances
<1> QED
  BY <1>4, <1>5, <1>6, <1>7, <1>8, <1>9, <1>10, <1>11, <1>12 DEF Next, vars

\* No loop of the handlers runs on: whatever other requests do between its steps, a request
\* about d deletions and a additions, a failed change and its rollback included, takes at
\* most 3 (d + a) + 7 steps until the client has its answer.
THEOREM WorkIsBounded ==
    Spec => /\ [](\A c \in Clients :
                    /\ StepsLeft(req[c]) \in Nat
                    /\ StepsLeft(req[c])
                           <= 3 * (Len(req[c].dels) + Len(req[c].adds)) + 7)
            /\ [][\A c \in Clients :
                    ~At(c, "idle") /\ req'[c] # req[c] =>
                        StepsLeft(req'[c]) < StepsLeft(req[c])]_vars
<1>1. Typed => \A c \in Clients :
        /\ StepsLeft(req[c]) \in Nat
        /\ StepsLeft(req[c]) <= 3 * (Len(req[c].dels) + Len(req[c].adds)) + 7
  BY OwnTyped, StepsLeftBounds
<1>2. Typed /\ [Next]_vars =>
        [\A c \in Clients :
            ~At(c, "idle") /\ req'[c] # req[c] =>
                StepsLeft(req'[c]) < StepsLeft(req[c])]_vars
  BY StepAdvances
<1> QED
  BY <1>1, <1>2, InitTyped, TypedStep, PTL DEF Spec

---------------------------------------------------------------------------
(* What follows from it *)

\* CreateDNSChange applies all of a change or none of it, for lists of any length.
THEOREM ChangesAreAtomic ==
    ASSUME Isolated
    PROVE  Spec => []ChangeAtomic
<1>1. IInv => ChangeAtomic
  <2> SUFFICES ASSUME IInv, NEW c \in Clients, At(c, "reply"), req[c].change
               PROVE  {x \in RecordsOf(records, req[c].zone) : x.key \in req[c].touched}
                          = IF req[c].resp = "ok" THEN Applied(req[c]) ELSE req[c].before
    BY DEF ChangeAtomic
  <2>1. View(records, req[c])
            = {x \in RecordsOf(records, req[c].zone) : x.key \in req[c].touched}
    BY DEF View, RecordsOf
  <2> QED
    BY <2>1 DEF IInv, Phase, At
<1> QED
  BY <1>1, Inductive, PTL

\* The record sets without the traces of changes under way behave as if every request,
\* and every change with all its deletions and additions, took effect at once; a
\* change fails only if it does not fit. Whatever the lists and the number of clients.
THEOREM Refinement ==
    ASSUME Isolated
    PROVE  Spec => ImplementsAtomicDns
<1>1. Init => Atomic!Init
  <2> SUFFICES ASSUME Init PROVE Atomic!Init
    OBVIOUS
  <2>1. zones = {} /\ records = {} /\ \A c \in Clients : ~Open(req[c])
    BY IdleTyped, NotOpen DEF Init
  <2>2. Shown(records, req) = {} /\ Sent(req) = {}
    BY <2>1 DEF Shown, Sent
  <2> QED
    BY <2>1, <2>2, Mapped DEF Atomic!Init
<1>2. /\ IInv /\ Verdicts
      /\ (IInv /\ Verdicts)'
      /\ [Next]_vars
      => [Atomic!Next]_(Atomic!vars)
  BY StepImplements
<1> QED
  BY <1>1, <1>2, InductiveVerdicts, PTL DEF Spec, ImplementsAtomicDns, Atomic!Spec
=============================================================================
