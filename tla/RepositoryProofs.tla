-------------------------- MODULE RepositoryProofs --------------------------
(* Proofs about Repository, for every set of clients, names and references. *)
EXTENDS Repository, TLAPS

(***************************************************************************)
(* The schema.                                                             *)
(***************************************************************************)

\* Every foreign key leads to a table whose keys have an empty scope, and a
\* cascading table is never itself referenced: a cascade stops after one level.
LEMMA Schema ==
    /\ \A t \in Roots : ParentTable(t) = NoTable
    /\ \A t \in NetworkChildren : ParentTable(t) = "compute_networks"
    /\ \A t \in Cascading : ParentTable(t) \in Tables \ Cascading
    /\ \A t \in Tables : ParentTable(t) \in (Tables \ Cascading) \cup {NoTable}
    /\ NoTable \notin Tables
  BY DEF Roots, NetworkChildren, Cascading, Tables, ParentTable, NoTable

\* A database whose tables hold rows of their own type.
Typed(d) == d = [t \in Tables |-> d[t]] /\ \A t \in Tables : d[t] \subseteq Row(t)

\* Each kind of statement keeps every row in the type of its table: INSERT,
LEMMA InsertTyped ==
    ASSUME NEW d, Typed(d), NEW t \in Tables, NEW row \in Row(t)
    PROVE  Typed(Insert(d, t, row))
  BY DEF Typed, Insert

\* UPDATE of the JSON,
LEMMA SetDataTyped ==
    ASSUME NEW d, Typed(d), NEW t \in Tables, NEW k, NEW x \in Data
    PROVE  Typed(SetData(d, t, k, x))
  BY DEF Typed, SetData, Row

\* UPDATE of network_name and the JSON,
LEMMA SetParentAndDataTyped ==
    ASSUME NEW d, Typed(d), NEW t \in Tables, NEW k, NEW x \in Data,
           NEW p \in ParentNames(t)
    PROVE  Typed(SetParentAndData(d, t, k, p, x))
  BY DEF Typed, SetParentAndData, Row

\* DELETE with its cascade,
LEMMA DeleteTyped ==
    ASSUME NEW d, Typed(d), NEW e, NEW t, NEW k
    PROVE  Typed(Delete(d, e, t, k))
  BY DEF Typed, Delete

\* and DELETE of a whole table.
LEMMA TruncateTyped ==
    ASSUME NEW d, Typed(d), NEW t \in Tables
    PROVE  Typed(Truncate(d, t))
  BY DEF Typed, Truncate

(***************************************************************************)
(* Integrity of one database value, and the statements that keep it.       *)
(***************************************************************************)

Integrity(d) == \A t \in Tables : \A r \in d[t] : HasParent(d, t, r.parent)

\* An INSERT whose foreign key is satisfied makes no orphan.
LEMMA InsertIntegrity ==
    ASSUME NEW d, Typed(d), Integrity(d), NEW t \in Tables, NEW row \in Row(t),
           HasParent(d, t, row.parent)
    PROVE  Integrity(Insert(d, t, row))
<1> DEFINE e == Insert(d, t, row)
<1>1. \A u \in Tables : d[u] \subseteq e[u]
  BY DEF Insert, Typed
<1>2. \A u \in Tables : \A p : HasParent(d, u, p) => HasParent(e, u, p)
  BY <1>1, Schema DEF HasParent, Has
<1>3. \A u \in Tables : \A r \in e[u] : r \in d[u] \/ (u = t /\ r = row)
  BY DEF Insert, Typed
<1> QED
  BY <1>2, <1>3 DEF Integrity

\* An UPDATE of the JSON leaves keys and foreign keys as they are.
LEMMA SetDataIntegrity ==
    ASSUME NEW d, Typed(d), Integrity(d), NEW t \in Tables, NEW k, NEW x \in Data
    PROVE  Integrity(SetData(d, t, k, x))
<1> DEFINE e == SetData(d, t, k, x)
<1>1. \A u \in Tables : \A r \in e[u] : \E q \in d[u] : q.key = r.key /\ q.parent = r.parent
  BY DEF SetData, Typed, Row
<1>2. \A u \in Tables : \A q \in d[u] : \E r \in e[u] : q.key = r.key
  <2> SUFFICES ASSUME NEW u \in Tables, NEW q \in d[u]
               PROVE  \E r \in e[u] : q.key = r.key
    OBVIOUS
  <2> DEFINE moved == IF q.key = k THEN [q EXCEPT !.data = x] ELSE q
  <2>1. q \in Row(u)
    BY DEF Typed
  <2>2. moved.key = q.key
    BY <2>1 DEF Row
  <2>3. moved \in e[u] \/ q \in e[u]
    BY DEF SetData, Typed
  <2> QED
    BY <2>2, <2>3
<1>3. \A u \in Tables : \A p : HasParent(d, u, p) => HasParent(e, u, p)
  BY <1>2, Schema DEF HasParent, Has
<1> QED
  BY <1>1, <1>3 DEF Integrity

\* An UPDATE that rebinds a row to a network that exists makes no orphan.
LEMMA SetParentAndDataIntegrity ==
    ASSUME NEW d, Typed(d), Integrity(d), NEW t \in Tables, NEW k, NEW x \in Data,
           NEW p \in ParentNames(t), Has(d, t, k) => HasParent(d, t, p)
    PROVE  Integrity(SetParentAndData(d, t, k, p, x))
<1> DEFINE e == SetParentAndData(d, t, k, p, x)
<1>1. \A u \in Tables : \A r \in e[u] :
        \E q \in d[u] : r.parent = q.parent \/ (u = t /\ q.key = k /\ r.parent = p)
  BY DEF SetParentAndData, Typed, Row
<1>2. \A u \in Tables : \A q \in d[u] : \E r \in e[u] : q.key = r.key
  <2> SUFFICES ASSUME NEW u \in Tables, NEW q \in d[u]
               PROVE  \E r \in e[u] : q.key = r.key
    OBVIOUS
  <2> DEFINE moved == IF q.key = k THEN [q EXCEPT !.parent = p, !.data = x] ELSE q
  <2>1. q \in Row(u)
    BY DEF Typed
  <2>2. moved.key = q.key
    BY <2>1 DEF Row
  <2>3. moved \in e[u] \/ q \in e[u]
    BY DEF SetParentAndData, Typed
  <2> QED
    BY <2>2, <2>3
<1>3. \A u \in Tables : \A y : HasParent(d, u, y) => HasParent(e, u, y)
  BY <1>2, Schema DEF HasParent, Has
<1>4. \A q \in d[t] : q.key = k => HasParent(d, t, p)
  BY DEF Has
<1> QED
  BY <1>1, <1>3, <1>4 DEF Integrity

\* The row that is deleted has no referencing row, or cascades to all of them.
LEMMA DeleteIntegrity ==
    ASSUME NEW d, Typed(d), Integrity(d), NEW t \in Tables, NEW k,
           ~Referenced(d, t, k)
    PROVE  Integrity(Delete(d, TRUE, t, k))
<1> DEFINE e == Delete(d, TRUE, t, k)
<1> SUFFICES ASSUME NEW u \in Tables, NEW r \in e[u], ParentTable(u) # NoTable
             PROVE  Has(e, ParentTable(u), TopLevel(r.parent))
  BY DEF Integrity, HasParent
<1> DEFINE pt == ParentTable(u)
<1>1. pt \in Tables \ Cascading
  BY Schema
<1>2. r \in d[u] /\ ~(u \in Cascading /\ pt = t /\ TopLevel(r.parent) = k)
  BY DEF Delete
<1>3. PICK q \in d[pt] : q.key = TopLevel(r.parent)
  BY <1>2 DEF Integrity, HasParent, Has
<1>4. ~(pt = t /\ q.key = k)
  BY <1>2, <1>3 DEF Referenced
<1>5. q \in e[pt]
  BY <1>1, <1>3, <1>4 DEF Delete
<1> QED
  BY <1>3, <1>5 DEF Has

\* Emptying a table that only empty tables reference makes no orphan.
LEMMA TruncateIntegrity ==
    ASSUME NEW d, Typed(d), Integrity(d), NEW t \in Tables,
           \A u \in Tables : ParentTable(u) = t => d[u] = {}
    PROVE  Integrity(Truncate(d, t))
<1> DEFINE e == Truncate(d, t)
<1>1. \A u \in Tables : e[u] = IF u = t THEN {} ELSE d[u]
  BY DEF Truncate, Typed
<1>2. \A u \in Tables : \A r \in e[u] : r \in d[u] /\ ParentTable(u) # t
  BY <1>1
<1> QED
  BY <1>1, <1>2, Schema DEF Integrity, HasParent, Has

(***************************************************************************)
(* Requests.                                                               *)
(***************************************************************************)

Codes == {"none", "ok", "notFound", "alreadyExists", "inUse", "internal"}

\* The empty body and the empty patch are a body and a patch.
LEMMA NoDataTyped == NoData \in Data /\ NoPatch \in Patch
<1>1. NoLabel \in Labels
  BY LabelsAssumption DEF NoLabel
<1> QED
  BY <1>1 DEF NoData, NoPatch, Data, Patch, Refs

\* A client without a request, and one whose request is answered, is well formed.
LEMMA IdleOK ==
    /\ Idle \in Request
    /\ RequestOK(Idle)
    /\ \A code \in Codes : RequestOK([Idle EXCEPT !.pc = "reply", !.resp = code])
<1>1. TopLevel(NoName) \in AllNames \X AllNames /\ NoName \in AllNames
  BY DEF TopLevel, AllNames
<1>2. Idle \in Request
  BY <1>1, NoDataTyped DEF Idle, Request, PCs
<1>3. RequestOK(Idle)
  BY <1>2 DEF Idle, RequestOK
<1>4. ASSUME NEW code \in Codes
      PROVE  RequestOK([Idle EXCEPT !.pc = "reply", !.resp = code])
  BY <1>2 DEF Idle, RequestOK, Request, PCs, Codes
<1> QED
  BY <1>2, <1>3, <1>4

\* The keys and foreign keys of a table are made of names.
LEMMA KeysAreNames ==
    ASSUME NEW t \in Tables
    PROVE  Keys(t) \subseteq AllNames \X AllNames /\ ParentNames(t) \subseteq AllNames
<1>1. NoName \in AllNames /\ \A u \in Tables : Names[u] \subseteq AllNames
  BY DEF AllNames
<1>2. ParentNames(t) \subseteq AllNames
  BY <1>1, Schema DEF ParentNames
<1>3. Scopes(t) \subseteq AllNames
  BY <1>1, Schema DEF Scopes
<1> QED
  BY <1>1, <1>2, <1>3 DEF Keys

RequestsOK ==
    /\ req = [c \in Clients |-> req[c]]
    /\ \A c \in Clients : RequestOK(req[c])

\* Replacing one client's request by a well-formed one keeps all well formed.
LEMMA BecomeOK ==
    ASSUME RequestsOK, NEW c \in Clients, NEW r, RequestOK(r), Become(c, r)
    PROVE  RequestsOK'
  BY DEF RequestsOK, Become

\* Answering a request keeps all well formed.
LEMMA AnswerOK ==
    ASSUME RequestsOK, NEW c \in Clients, NEW code \in Codes, Answer(c, code)
    PROVE  RequestsOK'
  BY BecomeOK, IdleOK DEF Answer

\* A handler starts without a statement, and not during a Reset that runs alone.
Started == ReadOnly /\ (AdminOverlaps \/ reset = 0)

\* A handler that starts with a well-formed request.
LEMMA StartOK ==
    ASSUME RequestsOK, NEW c \in Clients, NEW r, RequestOK(r), Start(c, r)
    PROVE  RequestsOK' /\ Started
  BY BecomeOK DEF Start, Started

\* The request a create handler starts with is well formed.
LEMMA CreatingOK ==
    ASSUME NEW t \in Tables, NEW k \in Keys(t), NEW parent \in ParentNames(t) \cup {NoName},
           NEW data \in Data, NEW pc \in {"insert", "checkNetwork", "resolve"},
           pc = "resolve" => t \in NetworkChildren,
           pc \in {"insert", "checkNetwork"} => parent \in ParentNames(t)
    PROVE  /\ RequestOK(Creating(t, k, parent, data, pc))
           /\ \A pool \in BOOLEAN : t = "container_clusters" =>
                RequestOK([Creating(t, k, parent, data, pc) EXCEPT !.pool = pool])
<1> DEFINE r == Creating(t, k, parent, data, pc)
<1>1. k \in AllNames \X AllNames /\ parent \in AllNames
  BY KeysAreNames DEF AllNames
<1>2. /\ r \in Request /\ r.table = t /\ r.key = k /\ r.parent = parent
      /\ r.pc = pc /\ r.pool = FALSE
  BY <1>1, IdleOK DEF Creating, Request, PCs, Idle
<1> HIDE DEF r
<1>3. RequestOK(r)
  BY <1>2 DEF RequestOK
<1>4. ASSUME NEW pool \in BOOLEAN, t = "container_clusters"
      PROVE  RequestOK([r EXCEPT !.pool = pool])
  <2> DEFINE q == [r EXCEPT !.pool = pool]
  <2>1. /\ q \in Request /\ q.table = t /\ q.key = k /\ q.parent = parent
        /\ q.pc = pc
    BY <1>2 DEF Request
  <2> HIDE DEF q
  <2>2. RequestOK(q)
    BY <2>1, <1>4 DEF RequestOK
  <2> QED
    BY <2>2 DEF q
<1> QED
  BY <1>3, <1>4 DEF r

\* Creates of resources whose parent, if any, is named in the URL.
LEMMA StartPlainCreateOK ==
    ASSUME RequestsOK, NEW c \in Clients, NEW t \in {"compute_networks"} \cup Cascading,
           StartPlainCreate(c, t)
    PROVE  RequestsOK' /\ Started
<1>1. PICK k \in Keys(t), l \in Labels :
        Start(c, Creating(t, k, k[1], [NoData EXCEPT !.label = l], "insert"))
  BY DEF StartPlainCreate
<1>2. t \in Tables
  BY DEF Tables, Roots
<1>3. k[1] \in ParentNames(t)
  BY Schema DEF Keys, Scopes, ParentNames, Roots, Cascading
<1>4. [NoData EXCEPT !.label = l] \in Data
  BY NoDataTyped DEF Data
<1> QED
  BY <1>1, <1>2, <1>3, <1>4, CreatingOK, StartOK

\* Creates of subnetworks, firewalls and routers.
LEMMA StartNetworkChildCreateOK ==
    ASSUME RequestsOK, NEW c \in Clients, NEW t \in NetworkChildren,
           StartNetworkChildCreate(c, t)
    PROVE  RequestsOK' /\ Started
<1>1. PICK k \in Keys(t), ref \in NetworkRefs, n \in BodyNetworkNames, l \in Labels :
        Start(c, Creating(t, k, n, [NoData EXCEPT !.network = ref, !.label = l],
                          IF n = NoName THEN "resolve" ELSE "insert"))
  BY DEF StartNetworkChildCreate
<1>2. t \in Tables /\ ParentNames(t) = NetworkNames
  BY Schema DEF Tables, ParentNames, NetworkNames, NoTable
<1>3. n \in ParentNames(t) \cup {NoName}
  BY <1>2, RefsAssumption
<1>4. [NoData EXCEPT !.network = ref, !.label = l] \in Data
  BY NoDataTyped, RefsAssumption DEF Data
<1>5. CASE n = NoName
  BY <1>1, <1>2, <1>3, <1>4, <1>5, CreatingOK, StartOK
<1>6. CASE n # NoName
  BY <1>1, <1>2, <1>3, <1>4, <1>6, CreatingOK, StartOK
<1> QED
  BY <1>5, <1>6

\* Creates of instances, clusters and SQL instances.
LEMMA ValidatedCreateOK ==
    ASSUME RequestsOK, NEW c \in Clients,
           CreateInstance(c) \/ CreateCluster(c) \/ CreateSQLInstance(c)
    PROVE  RequestsOK' /\ Started
<1>1. \A n \in NetworkRefs :
        /\ [NoData EXCEPT !.network = n] \in Data
        /\ \A s \in SubnetworkRefs :
            [NoData EXCEPT !.network = n, !.subnetwork = s] \in Data
  BY NoDataTyped, RefsAssumption DEF Data
<1>2. \A t \in Validated : t \in Tables /\ ParentNames(t) = {NoName}
  BY Schema DEF Validated, Tables, Roots, ParentNames
<1>3. CASE CreateInstance(c)
  BY <1>1, <1>2, <1>3, CreatingOK, StartOK DEF CreateInstance, Validated
<1>4. CASE CreateCluster(c)
  BY <1>1, <1>2, <1>4, CreatingOK, StartOK DEF CreateCluster, Validated
<1>5. CASE CreateSQLInstance(c)
  BY <1>1, <1>2, <1>5, CreatingOK, StartOK DEF CreateSQLInstance, Validated
<1> QED
  BY <1>3, <1>4, <1>5

\* The PATCH handlers.
LEMMA StartUpdateOK ==
    ASSUME RequestsOK, NEW c \in Clients, NEW t \in Tables,
           NEW networks \in SUBSET (Refs(NetworkNames) \cup {Absent, Null}),
           NEW subnetworks \in SUBSET (Refs(SubnetworkNames) \cup {Absent}),
           StartUpdate(c, t, networks, subnetworks)
    PROVE  RequestsOK' /\ Started
<1>1. PICK k \in Keys(t), n \in networks, s \in subnetworks, l \in Labels \cup {Absent} :
        Start(c, [Idle EXCEPT !.pc = "read", !.verb = "update", !.table = t, !.key = k,
                  !.patch = [network |-> n, subnetwork |-> s, label |-> l]])
  BY DEF StartUpdate
<1> DEFINE patch == [network |-> n, subnetwork |-> s, label |-> l]
           r == [Idle EXCEPT !.pc = "read", !.verb = "update", !.table = t, !.key = k,
                             !.patch = patch]
<1>2. patch \in Patch
  BY DEF Patch
<1>3. k \in AllNames \X AllNames
  BY KeysAreNames
<1> HIDE DEF patch
<1>4. /\ r \in Request /\ r.table = t /\ r.key = k /\ r.pc = "read" /\ r.pool = FALSE
  BY <1>2, <1>3, IdleOK DEF Request, PCs, Idle
<1>5. Start(c, r)
  BY <1>1 DEF patch
<1> HIDE DEF r
<1>6. RequestOK(r)
  BY <1>4 DEF RequestOK
<1> QED
  BY <1>5, <1>6, StartOK

\* The DELETE handlers.
LEMMA StartDeleteOK ==
    ASSUME RequestsOK, NEW c \in Clients, NEW t \in Tables, StartDelete(c, t)
    PROVE  RequestsOK' /\ Started
<1> DEFINE pc == IF t \in ReadBeforeDelete THEN "readDelete" ELSE "delete"
           r(k) == [Idle EXCEPT !.verb = "delete", !.table = t, !.key = k, !.pc = pc]
<1>1. PICK k \in Keys(t) : Start(c, r(k))
  BY DEF StartDelete
<1>2. k \in AllNames \X AllNames
  BY KeysAreNames
<1>3. pc \in {"readDelete", "delete"}
  OBVIOUS
<1> HIDE DEF pc
<1>4. /\ r(k) \in Request /\ r(k).table = t /\ r(k).key = k /\ r(k).pc = pc
      /\ r(k).pool = FALSE
  BY <1>2, <1>3, IdleOK DEF Request, PCs, Idle
<1> HIDE DEF r
<1>5. RequestOK(r(k))
  BY <1>3, <1>4 DEF RequestOK
<1> QED
  BY <1>1, <1>5, StartOK

\* No handler touches the database before its first statement.
LEMMA HandlersOK ==
    ASSUME RequestsOK, NEW c \in Clients,
           NetworkHandlers(c) \/ ContainerHandlers(c) \/ SQLHandlers(c)
    PROVE  RequestsOK' /\ Started
<1>1. /\ {Absent} \in SUBSET (Refs(NetworkNames) \cup {Absent, Null})
      /\ PatchRefs \in SUBSET (Refs(NetworkNames) \cup {Absent, Null})
      /\ {Absent} \in SUBSET (Refs(SubnetworkNames) \cup {Absent})
      /\ SubnetworkRefs \cup {Absent} \in SUBSET (Refs(SubnetworkNames) \cup {Absent})
  BY RefsAssumption DEF PatchRefs
<1>2. CASE \E t \in {"compute_networks"} \cup Cascading : StartPlainCreate(c, t)
  BY <1>2, StartPlainCreateOK
<1>3. CASE \E t \in NetworkChildren : StartNetworkChildCreate(c, t)
  BY <1>3, StartNetworkChildCreateOK
<1>4. CASE CreateInstance(c) \/ CreateCluster(c) \/ CreateSQLInstance(c)
  BY <1>4, ValidatedCreateOK
<1>5. CASE \E t \in Tables :
             \/ StartUpdate(c, t, {Absent}, {Absent})
             \/ StartUpdate(c, t, PatchRefs, {Absent})
             \/ StartUpdate(c, t, PatchRefs, SubnetworkRefs \cup {Absent})
  BY <1>1, <1>5, StartUpdateOK
<1>6. CASE \E t \in Tables : StartDelete(c, t)
  BY <1>6, StartDeleteOK
<1> QED
  BY <1>2, <1>3, <1>4, <1>5, <1>6
  DEF NetworkHandlers, ContainerHandlers, SQLHandlers,
      Tables, Roots, NetworkChildren, Cascading,
      CreateNetwork, CreateSubnetwork, CreateFirewall, CreateRouter, CreateRouterNAT,
      CreateNodePool, CreateSQLDatabase, CreateSQLUser,
      UpdateNetwork, UpdateSubnetwork, UpdateFirewall, UpdateRouter, UpdateRouterNAT,
      UpdateCluster, UpdateSQLInstance, UpdateSQLUser,
      DeleteNetwork, DeleteSubnetwork, DeleteFirewall, DeleteRouter, DeleteRouterNAT,
      DeleteInstance, DeleteCluster, DeleteNodePool, DeleteSQLInstance,
      DeleteSQLDatabase, DeleteSQLUser

(***************************************************************************)
(* The statements of a request.                                            *)
(***************************************************************************)

\* What one statement of a request may do to the database.
DbStep ==
    \/ db' = db
    \/ \E t \in Tables : \E row \in Row(t) :
        (enforced => HasParent(db, t, row.parent)) /\ db' = Insert(db, t, row)
    \/ \E t \in Tables, x \in Data : \E k \in Keys(t) : db' = SetData(db, t, k, x)
    \/ \E t \in Tables, x \in Data : \E k \in Keys(t), p \in ParentNames(t) :
        /\ (Has(db, t, k) /\ enforced) => HasParent(db, t, p)
        /\ db' = SetParentAndData(db, t, k, p, x)
    \/ \E t \in Tables : \E k \in Keys(t) :
        ~(enforced /\ Referenced(db, t, k)) /\ db' = Delete(db, enforced, t, k)

\* The effect of one statement of client c's request: the other requests and the
\* admin state are left alone, and the request stays well formed.
StatementOK == DbStep /\ RequestsOK' /\ UNCHANGED <<enforced, reset>>

\* A request that moves to another step stays well formed if that step's
\* conditions hold.
LEMMA GotoOK ==
    ASSUME RequestsOK, NEW c \in Clients, NEW pc \in PCs, Goto(c, pc),
           ~(req[c].pc \in {"idle", "reply"}),
           pc \in {"checkNetwork", "checkSubnetwork", "insert", "write"} =>
               req[c].parent \in ParentNames(req[c].table),
           pc # "resolve",
           pc = "defaultPool" => req[c].pool
    PROVE  RequestsOK'
<1> DEFINE q == req[c]
           r == [q EXCEPT !.pc = pc]
<1>1. RequestOK(q) /\ q \in Request
  BY DEF RequestsOK, RequestOK
<1>2. /\ r \in Request /\ r.pc = pc /\ r.table = q.table /\ r.key = q.key
      /\ r.parent = q.parent /\ r.pool = q.pool
  BY <1>1 DEF Request
<1>3. Become(c, r)
  BY DEF Goto
<1> HIDE DEF r
<1>4. RequestOK(r)
  BY <1>1, <1>2 DEF RequestOK
<1> QED
  BY <1>3, <1>4, BecomeOK

\* The end of a mutation, with or without an operation to store.
LEMMA CompletedOK ==
    ASSUME RequestsOK, NEW c \in Clients, ~(req[c].pc \in {"idle", "reply"}), Completed(c)
    PROVE  RequestsOK'
<1>1. CASE req[c].table \in Compute
  <2>1. Goto(c, "operation")
    BY <1>1 DEF Completed
  <2> QED
    BY <2>1, GotoOK DEF PCs
<1>2. CASE req[c].table \notin Compute
  BY <1>2, AnswerOK DEF Completed, Codes
<1> QED
  BY <1>1, <1>2

\* A row that a SELECT finds has the type of its table.
LEMMA LookupTyped ==
    ASSUME NEW d, Typed(d), NEW t \in Tables, NEW k, Has(d, t, k)
    PROVE  Lookup(d, t, k) \in Row(t)
  BY DEF Typed, Has, Lookup

\* A name that resolveExistingNetwork finds is the name of a network.
LEMMA ExistingNetwork ==
    ASSUME NEW d, Typed(d), NEW name, Has(d, "compute_networks", TopLevel(name))
    PROVE  name \in NetworkNames
<1>1. PICK r \in d["compute_networks"] : r.key = <<NoName, name>>
  BY DEF Has, TopLevel
<1>2. "compute_networks" \in Tables
  BY DEF Tables, Roots
<1>3. r.key \in Scopes("compute_networks") \X Names["compute_networks"]
  BY <1>1, <1>2 DEF Typed, Row, Keys
<1> QED
  BY <1>1, <1>3 DEF NetworkNames

\* Merging a patch into a stored body gives a body again.
LEMMA PatchMergeTyped ==
    ASSUME NEW current \in Data, NEW patch \in Patch
    PROVE  PatchMerge(current, patch) \in Data
<1>1. PatchField(current.network, patch.network) \in Refs(NetworkNames)
  BY DEF Data, Patch, PatchField
<1>2. PatchField(current.subnetwork, patch.subnetwork) \in Refs(SubnetworkNames)
  BY DEF Data, Patch, PatchField
<1>3. PatchField(current.label, patch.label) \in Labels
  BY DEF Data, Patch, PatchField
<1> QED
  BY <1>1, <1>2, <1>3 DEF PatchMerge, Data

\* Resolving, validating and reading change no table.
LEMMA ReadsOK ==
    ASSUME Typed(db), RequestsOK, NEW c \in Clients, Reads(c)
    PROVE  StatementOK
<1> DEFINE q == req[c]
<1>1. q \in Request /\ RequestOK(q)
  BY DEF RequestsOK, RequestOK
<1>2. ~(q.pc \in {"idle", "reply"}) => q.table \in Tables /\ q.key \in Keys(q.table)
  BY <1>1 DEF RequestOK
<1>3. Mutation(c) \in {"insert", "write"}
  BY DEF Mutation
<1>4. CASE ResolveExistingNetwork(c)
  <2> DEFINE name == ResolveSameProjectName(q.data.network)
             r == [q EXCEPT !.parent = name, !.pc = Mutation(c)]
  <2>1. q.pc = "resolve" /\ ReadOnly
    BY <1>4 DEF ResolveExistingNetwork, At
  <2>2. ASSUME Has(db, "compute_networks", TopLevel(name)), Become(c, r)
        PROVE  RequestsOK'
    <3>1. name \in NetworkNames
      BY <2>2, ExistingNetwork
    <3>2. q.table \in NetworkChildren /\ q.table \in Tables
      BY <1>1, <2>1 DEF RequestOK, Tables
    <3>3. name \in ParentNames(q.table)
      BY <3>1, <3>2, Schema DEF ParentNames, NetworkNames, NoTable
    <3>4. name \in AllNames
      BY <3>2, <3>3, KeysAreNames
    <3> HIDE DEF name
    <3>5. /\ r \in Request /\ r.pc = Mutation(c) /\ r.table = q.table
          /\ r.key = q.key /\ r.parent = name /\ r.pool = q.pool
      BY <1>1, <1>3, <3>4 DEF Request, PCs
    <3> HIDE DEF r
    <3>6. RequestOK(r)
      BY <1>1, <1>3, <2>1, <3>3, <3>5 DEF RequestOK
    <3> QED
      BY <2>2, <3>6, BecomeOK
  <2>3. ASSUME Answer(c, "internal") \/ Answer(c, "notFound")
        PROVE  RequestsOK'
    BY <2>3, AnswerOK DEF Codes
  <2> QED
    BY <1>4, <2>1, <2>2, <2>3 DEF ResolveExistingNetwork, StatementOK, DbStep, ReadOnly
<1>5. CASE ValidateNetwork(c)
  <2> DEFINE pc == IF q.table = "sql_instances" THEN Mutation(c) ELSE "checkSubnetwork"
  <2>1. q.pc = "checkNetwork" /\ ReadOnly /\ (Answer(c, "notFound") \/ Goto(c, pc))
    BY <1>5 DEF ValidateNetwork, At
  <2>2. pc \in {"insert", "write", "checkSubnetwork"}
    BY <1>3
  <2>3. q.parent \in ParentNames(q.table)
    BY <1>1, <2>1 DEF RequestOK
  <2> HIDE DEF pc
  <2>4. RequestsOK'
    BY <2>1, <2>2, <2>3, AnswerOK, GotoOK DEF Codes, PCs
  <2> QED
    BY <2>1, <2>4 DEF StatementOK, DbStep, ReadOnly
<1>6. CASE ValidateSubnetwork(c)
  <2>1. /\ q.pc = "checkSubnetwork" /\ ReadOnly
        /\ Answer(c, "notFound") \/ Goto(c, Mutation(c))
    BY <1>6 DEF ValidateSubnetwork, At
  <2>2. q.parent \in ParentNames(q.table)
    BY <1>1, <2>1 DEF RequestOK
  <2>3. RequestsOK'
    BY <1>3, <2>1, <2>2, AnswerOK, GotoOK DEF Codes, PCs
  <2> QED
    BY <2>1, <2>3 DEF StatementOK, DbStep, ReadOnly
<1>7. CASE ReadBack(c)
  <2>1. /\ q.pc = "readBack" /\ ReadOnly
        /\ Answer(c, "notFound") \/ (q.pool /\ Goto(c, "defaultPool")) \/ Completed(c)
    BY <1>7 DEF ReadBack, At
  <2>2. RequestsOK'
    BY <2>1, AnswerOK, GotoOK, CompletedOK DEF Codes, PCs
  <2> QED
    BY <2>1, <2>2 DEF StatementOK, DbStep, ReadOnly
<1>8. CASE ReadCurrent(c)
  <2> DEFINE row == Lookup(db, q.table, q.key)
             data == PatchMerge(row.data, q.patch)
             r == [q EXCEPT !.data = data, !.parent = row.parent, !.patch = NoPatch,
                            !.pc = AfterMerge(q)]
  <2>1. q.pc = "read" /\ ReadOnly
    BY <1>8 DEF ReadCurrent, At
  <2>2. ASSUME Has(db, q.table, q.key), Become(c, r)
        PROVE  RequestsOK'
    <3>1. q.table \in Tables /\ row \in Row(q.table)
      BY <1>2, <2>1, <2>2, LookupTyped
    <3>2. row.parent \in ParentNames(q.table) /\ row.parent \in AllNames
      BY <3>1, KeysAreNames DEF Row
    <3>3. data \in Data
      BY <1>1, <3>1, PatchMergeTyped DEF Row, Request
    <3>4. /\ AfterMerge(q) \in {"resolve", "checkNetwork", "write"}
          /\ AfterMerge(q) = "resolve" => q.table \in NetworkChildren
      BY DEF AfterMerge
    <3> HIDE DEF row, data
    <3>5. /\ r \in Request /\ r.pc = AfterMerge(q) /\ r.table = q.table
          /\ r.key = q.key /\ r.parent = row.parent /\ r.pool = q.pool
      BY <1>1, <3>2, <3>3, <3>4, NoDataTyped DEF Request, PCs
    <3> HIDE DEF r
    <3>6. RequestOK(r)
      BY <1>1, <2>1, <3>2, <3>4, <3>5 DEF RequestOK
    <3> QED
      BY <2>2, <3>6, BecomeOK
  <2>3. ASSUME Answer(c, "notFound")
        PROVE  RequestsOK'
    BY <2>3, AnswerOK DEF Codes
  <2> QED
    BY <1>8, <2>1, <2>2, <2>3 DEF ReadCurrent, StatementOK, DbStep, ReadOnly
<1>9. CASE ReadForDelete(c)
  <2>1. /\ q.pc = "readDelete" /\ ReadOnly
        /\ Answer(c, "notFound") \/ Goto(c, "delete")
    BY <1>9 DEF ReadForDelete, At
  <2>2. RequestsOK'
    BY <2>1, AnswerOK, GotoOK DEF Codes, PCs
  <2> QED
    BY <2>1, <2>2 DEF StatementOK, DbStep, ReadOnly
<1> QED
  BY <1>4, <1>5, <1>6, <1>7, <1>8, <1>9 DEF Reads

\* An INSERT adds a row of its table, with its parent unless Reset is running.
LEMMA InsertsOK ==
    ASSUME RequestsOK, NEW c \in Clients, NEW t \in Tables, InsertRow(c, t)
    PROVE  StatementOK
<1> DEFINE q == req[c]
           row == [key |-> q.key, parent |-> q.parent, data |-> q.data]
<1>1. q \in Request /\ RequestOK(q) /\ q.pc = "insert" /\ q.table = t
  BY DEF RequestsOK, RequestOK, InsertRow, At
<1>2. row \in Row(t) /\ row.parent = q.parent
  BY <1>1 DEF RequestOK, Request, Row
<1>3. ASSUME Answer(c, "alreadyExists") \/ Answer(c, "notFound") \/ Goto(c, "readBack")
      PROVE  RequestsOK'
  BY <1>1, <1>3, AnswerOK, GotoOK DEF Codes, PCs
<1>4. CASE db' = db
  BY <1>3, <1>4 DEF InsertRow, StatementOK, DbStep
<1>5. CASE (enforced => HasParent(db, t, q.parent)) /\ db' = Insert(db, t, row)
  <2> HIDE DEF row
  <2>1. DbStep
    BY <1>2, <1>5 DEF DbStep
  <2> QED
    BY <1>3, <2>1 DEF InsertRow, StatementOK
<1> QED
  BY <1>4, <1>5 DEF InsertRow

\* The default pool is a row of its table, with its cluster unless Reset is running.
LEMMA CreateDefaultPoolOK ==
    ASSUME RequestsOK, NEW c \in Clients, CreateDefaultPool(c)
    PROVE  StatementOK
<1> DEFINE q == req[c]
           cluster == q.key[2]
           t == "container_node_pools"
           row == [key |-> <<cluster, DefaultPool>>, parent |-> cluster, data |-> NoData]
<1>1. q \in Request /\ RequestOK(q) /\ q.pc = "defaultPool"
  BY DEF RequestsOK, RequestOK, CreateDefaultPool, At
<1>2. t \in Tables /\ t \in Cascading /\ ParentTable(t) = "container_clusters"
  BY DEF Tables, Cascading, ParentTable, NetworkChildren
<1>3. cluster \in Names["container_clusters"]
  BY <1>1 DEF RequestOK, Keys
<1>4. row \in Row(t) /\ row.parent = cluster
  BY <1>2, <1>3, Schema, NoDataTyped, DefaultPoolAssumption
  DEF Row, Keys, Scopes, ParentNames, NoTable
<1>5. RequestsOK'
  BY AnswerOK DEF CreateDefaultPool, Codes
<1>6. CASE db' = db
  BY <1>5, <1>6 DEF CreateDefaultPool, StatementOK, DbStep
<1>7. CASE (enforced => HasParent(db, t, cluster)) /\ db' = Insert(db, t, row)
  <2> HIDE DEF row
  <2>1. DbStep
    BY <1>2, <1>4, <1>7 DEF DbStep
  <2> QED
    BY <1>5, <2>1 DEF CreateDefaultPool, StatementOK
<1> QED
  BY <1>6, <1>7 DEF CreateDefaultPool

\* An UPDATE changes columns of the row it names and nothing else.
LEMMA WritesOK ==
    ASSUME RequestsOK, NEW c \in Clients, NEW t \in Tables,
           WriteData(c, t) \/ WriteNetworkChild(c, t)
    PROVE  StatementOK
<1> DEFINE q == req[c]
<1>1. q \in Request /\ RequestOK(q) /\ q.pc = "write" /\ q.table = t
  BY DEF RequestsOK, RequestOK, WriteData, WriteNetworkChild, At
<1>2. q.data \in Data /\ q.key \in Keys(t) /\ q.parent \in ParentNames(t)
  BY <1>1 DEF RequestOK, Request
<1>3. ASSUME Answer(c, "notFound") \/ Completed(c)
      PROVE  RequestsOK'
  BY <1>1, <1>3, AnswerOK, CompletedOK DEF Codes
<1>4. CASE WriteData(c, t)
  BY <1>2, <1>3, <1>4 DEF WriteData, StatementOK, DbStep
<1>5. CASE WriteNetworkChild(c, t)
  <2>1. DbStep
    BY <1>2, <1>5 DEF WriteNetworkChild, DbStep
  <2> QED
    BY <1>3, <1>5, <2>1 DEF WriteNetworkChild, StatementOK
<1> QED
  BY <1>4, <1>5

\* A DELETE removes a row that nothing but cascading rows references, or Reset is
\* running.
LEMMA DeleteWithResultOK ==
    ASSUME RequestsOK, NEW c \in Clients, DeleteWithResult(c)
    PROVE  StatementOK
<1> DEFINE q == req[c]
<1>1. RequestOK(q) /\ q.pc = "delete"
  BY DEF RequestsOK, DeleteWithResult, At
<1>2. q.table \in Tables /\ q.key \in Keys(q.table)
  BY <1>1 DEF RequestOK
<1>3. RequestsOK'
  BY <1>1, AnswerOK, CompletedOK DEF DeleteWithResult, Codes
<1>4. DbStep
  BY <1>2 DEF DeleteWithResult, DbStep
<1> QED
  BY <1>3, <1>4 DEF DeleteWithResult, StatementOK

\* Every step of a request that is being served is one statement.
LEMMA ProgressOK ==
    ASSUME Typed(db), RequestsOK, NEW c \in Clients, Progress(c)
    PROVE  StatementOK
<1>1. CASE Reads(c)
  BY <1>1, ReadsOK
<1>2. CASE Inserts(c)
  BY <1>2, InsertsOK
  DEF Inserts, Tables, Roots, NetworkChildren, Cascading, InsertNetwork,
      InsertSubnetwork, InsertFirewall, InsertRouter, InsertRouterNAT, InsertInstance,
      InsertCluster, InsertNodePool, InsertSQLInstance, InsertSQLDatabase, InsertSQLUser
<1>3. CASE Writes(c)
  BY <1>3, WritesOK
  DEF Writes, Tables, Roots, NetworkChildren, Cascading, WriteNetwork,
      WriteSubnetwork, WriteFirewall, WriteRouter, WriteRouterNAT, WriteCluster,
      WriteSQLInstance, WriteSQLUser
<1>4. CASE CreateDefaultPool(c)
  BY <1>4, CreateDefaultPoolOK
<1>5. CASE DeleteWithResult(c)
  BY <1>5, DeleteWithResultOK
<1>6. CASE StoreOperation(c)
  BY <1>6, AnswerOK DEF StoreOperation, StatementOK, DbStep, ReadOnly, Codes
<1>7. CASE Reply(c)
  BY <1>7, BecomeOK, IdleOK DEF Reply, StatementOK, DbStep, ReadOnly
<1> QED
  BY <1>1, <1>2, <1>3, <1>4, <1>5, <1>6, <1>7 DEF Progress

(***************************************************************************)
(* Type correctness.                                                       *)
(***************************************************************************)

\* A statement keeps every row in the type of its table.
LEMMA DbStepTyped ==
    ASSUME Typed(db), DbStep
    PROVE  Typed(db)'
<1>1. CASE db' = db
  BY <1>1 DEF Typed
<1>2. ASSUME NEW e, Typed(e), db' = e
      PROVE  Typed(db)'
  BY <1>2 DEF Typed
<1> QED
  BY <1>1, <1>2, InsertTyped, SetDataTyped, SetParentAndDataTyped, DeleteTyped
  DEF DbStep

\* Reset empties the modelled tables, each of them once.
LEMMA ResetCovers ==
    /\ Len(ResetOrder) = 11
    /\ \A i \in 1..11 : ResetOrder[i] \in Tables
    /\ \A t \in Tables : \E i \in 1..11 : ResetOrder[i] = t
  BY DEF ResetOrder, Tables, Roots, NetworkChildren, Cascading

\* The type invariant holds initially,
LEMMA TypeInit == Init => TypeOK
<1> SUFFICES ASSUME Init PROVE TypeOK
  OBVIOUS
<1>1. Typed(db) /\ RequestsOK
  <2>1. /\ db = [t \in Tables |-> {}]
        /\ req = [c \in Clients |-> Idle]
    BY DEF Init
  <2> QED
    BY <2>1, IdleOK DEF Typed, RequestsOK
<1>2. enforced \in BOOLEAN
  BY DEF Init
<1>3. reset = 0
  BY DEF Init
<1>4. reset \in 0..(Len(ResetOrder) + 1)
  BY <1>3, ResetCovers
<1> QED
  BY <1>1, <1>2, <1>4, Zenon DEF TypeOK, Typed, RequestsOK

\* and every step preserves it.
LEMMA TypeNext == TypeOK /\ [Next]_vars => TypeOK'
<1> SUFFICES ASSUME TypeOK, [Next]_vars PROVE TypeOK'
  OBVIOUS
<1>1. Typed(db) /\ RequestsOK /\ enforced \in BOOLEAN /\ reset \in 0..12
  BY ResetCovers DEF TypeOK, Typed, RequestsOK
<1>2. SUFFICES /\ Typed(db)' /\ RequestsOK' /\ (enforced \in BOOLEAN)'
               /\ (reset \in 0..12)'
  BY ResetCovers DEF TypeOK, Typed, RequestsOK
<1>3. CASE \E c \in Clients :
             NetworkHandlers(c) \/ ContainerHandlers(c) \/ SQLHandlers(c)
  <2>1. RequestsOK' /\ ReadOnly
    BY <1>1, <1>3, HandlersOK DEF Started
  <2> QED
    BY <1>1, <2>1 DEF ReadOnly, Typed
<1>4. CASE \E c \in Clients : Progress(c)
  <2>1. StatementOK
    BY <1>1, <1>4, ProgressOK
  <2> QED
    BY <1>1, <2>1, DbStepTyped DEF StatementOK
<1>5. CASE ResetBegin
  <2>1. enforced' \in BOOLEAN
    BY <1>5 DEF ResetBegin
  <2>2. db' = db /\ req' = req /\ reset' = 1
    BY <1>5 DEF ResetBegin
  <2> QED
    BY <1>1, <2>1, <2>2 DEF Typed, RequestsOK
<1>6. CASE ResetTable
  <2>1. Typed(Truncate(db, ResetOrder[reset]))
    BY <1>1, <1>6, ResetCovers, TruncateTyped DEF ResetTable
  <2> QED
    BY <1>1, <1>6, <2>1, ResetCovers DEF ResetTable, Typed, RequestsOK
<1>7. CASE ResetEnd \/ ResetFail
  <2>1. enforced' \in BOOLEAN
    BY <1>7 DEF ResetEnd, ResetFail
  <2>2. db' = db /\ req' = req /\ reset' = 0
    BY <1>7 DEF ResetEnd, ResetFail
  <2> QED
    BY <1>1, <2>1, <2>2 DEF Typed, RequestsOK
<1>8. CASE Restart
  <2>1. enforced' \in BOOLEAN
    BY <1>8 DEF Restart
  <2>2. db' = db /\ req' = [c \in Clients |-> Idle] /\ reset' = 0
    BY <1>8 DEF Restart
  <2>3. Typed(db)'
    BY <1>1, <2>2 DEF Typed
  <2>4. RequestsOK'
    BY <2>2, IdleOK DEF RequestsOK
  <2> QED
    BY <2>1, <2>2, <2>3, <2>4
<1>9. CASE UNCHANGED vars
  BY <1>1, <1>9 DEF vars, Typed, RequestsOK
<1> QED
  BY <1>3, <1>4, <1>5, <1>6, <1>7, <1>8, <1>9 DEF Next, ResetStep

\* Every row fits its table and every request in flight is well formed, for any
\* number of clients, names and references, and also when Reset runs in between.
THEOREM TypeCorrect == Spec => []TypeOK
  BY TypeInit, TypeNext, PTL DEF Spec

(***************************************************************************)
(* Referential integrity, when no request is in flight while Reset runs.   *)
(***************************************************************************)

\* A Reset runs alone, and foreign keys are enforced whenever none runs.
ResetAlone ==
    /\ reset # 0 => \A c \in Clients : At(c, "idle")
    /\ reset = 0 => enforced

\* The tables a running Reset has passed are empty.
Emptied == \A i \in 1..11 : i < reset => db[ResetOrder[i]] = {}

\* The inductive invariant. Integrity alone is not inductive: a DELETE keeps it
\* only with enforcement on, and emptying a table only when the tables that
\* reference it are empty already.
IInv == TypeOK /\ ReferentialIntegrity /\ ResetAlone /\ Emptied

\* Reset empties a table only after every table that references it.
LEMMA ChildrenFirst ==
    \A i \in 1..11, u \in Tables :
        ParentTable(u) = ResetOrder[i] => \E j \in 1..11 : j < i /\ ResetOrder[j] = u
  BY DEF ResetOrder, Tables, Roots, NetworkChildren, Cascading, ParentTable, NoTable

\* Only a request that is being served takes a step.
LEMMA ProgressNotIdle ==
    ASSUME NEW c, Progress(c)
    PROVE  ~At(c, "idle")
  BY DEF Progress, At, Reads, ResolveExistingNetwork, ValidateNetwork,
     ValidateSubnetwork, ReadBack, ReadCurrent, ReadForDelete, Inserts, InsertRow,
     InsertNetwork, InsertSubnetwork, InsertFirewall, InsertRouter, InsertRouterNAT,
     InsertInstance, InsertCluster, InsertNodePool, InsertSQLInstance,
     InsertSQLDatabase, InsertSQLUser, Writes, WriteData, WriteNetworkChild,
     WriteNetwork, WriteSubnetwork, WriteFirewall, WriteRouter, WriteRouterNAT,
     WriteCluster, WriteSQLInstance, WriteSQLUser, CreateDefaultPool,
     DeleteWithResult, StoreOperation, Reply

\* With enforcement on, no statement of a request makes an orphan.
LEMMA DbStepIntegrity ==
    ASSUME Typed(db), Integrity(db), enforced = TRUE, DbStep
    PROVE  Integrity(db)'
<1>1. CASE db' = db
  BY <1>1 DEF Integrity, HasParent, Has
<1>2. ASSUME NEW e, Integrity(e), db' = e
      PROVE  Integrity(db)'
  BY <1>2 DEF Integrity, HasParent, Has
<1>3. CASE \E t \in Tables : \E row \in Row(t) :
             (enforced => HasParent(db, t, row.parent)) /\ db' = Insert(db, t, row)
  BY <1>2, <1>3, InsertIntegrity
<1>4. CASE \E t \in Tables, x \in Data : \E k \in Keys(t) : db' = SetData(db, t, k, x)
  BY <1>2, <1>4, SetDataIntegrity
<1>5. CASE \E t \in Tables, x \in Data : \E k \in Keys(t), p \in ParentNames(t) :
             /\ (Has(db, t, k) /\ enforced) => HasParent(db, t, p)
             /\ db' = SetParentAndData(db, t, k, p, x)
  BY <1>2, <1>5, SetParentAndDataIntegrity
<1>6. CASE \E t \in Tables : \E k \in Keys(t) :
             ~(enforced /\ Referenced(db, t, k)) /\ db' = Delete(db, enforced, t, k)
  BY <1>2, <1>6, DeleteIntegrity
<1> QED
  BY <1>1, <1>3, <1>4, <1>5, <1>6 DEF DbStep

\* The inductive invariant holds initially.
LEMMA IInvInit == Init => IInv
<1> SUFFICES ASSUME Init PROVE IInv
  OBVIOUS
<1>1. TypeOK
  BY TypeInit
<1>2. db = [t \in Tables |-> {}] /\ reset = 0
  BY DEF Init
<1>3. ReferentialIntegrity /\ Emptied
  BY <1>2 DEF ReferentialIntegrity, Emptied
<1>4. ResetAlone
  BY <1>2, Zenon DEF Init, ResetAlone
<1> QED
  BY <1>1, <1>3, <1>4 DEF IInv

\* Every step preserves the inductive invariant.
LEMMA IInvNext ==
    ASSUME AdminOverlaps = FALSE, IInv, [Next]_vars
    PROVE  IInv'
<1>1. TypeOK'
  BY TypeNext DEF IInv
<1>2. /\ Typed(db) /\ RequestsOK /\ Integrity(db) /\ reset \in 0..12
      /\ ResetAlone /\ Emptied
  BY ResetCovers DEF IInv, TypeOK, Typed, RequestsOK, ReferentialIntegrity, Integrity
<1>3. SUFFICES Integrity(db)' /\ ResetAlone' /\ Emptied'
  BY <1>1 DEF IInv, ReferentialIntegrity, Integrity
<1>4. CASE \E c \in Clients :
             NetworkHandlers(c) \/ ContainerHandlers(c) \/ SQLHandlers(c)
  <2>1. ReadOnly /\ reset = 0
    BY <1>2, <1>4, HandlersOK DEF Started
  <2>2. Integrity(db)' /\ Emptied'
    BY <1>2, <2>1 DEF ReadOnly, Integrity, HasParent, Has, Emptied
  <2>3. ResetAlone'
    BY <1>2, <2>1 DEF ReadOnly, ResetAlone
  <2> QED
    BY <2>2, <2>3
<1>5. CASE \E c \in Clients : Progress(c)
  <2>1. PICK c \in Clients : Progress(c)
    BY <1>5
  <2>2. StatementOK
    BY <1>2, <2>1, ProgressOK
  <2>3. reset = 0 /\ enforced
    BY <1>2, <2>1, ProgressNotIdle DEF ResetAlone
  <2>4. Integrity(db)'
    <3>1. enforced = TRUE
      BY <2>3, <1>1 DEF IInv, TypeOK
    <3> QED
      BY <1>2, <2>2, <3>1, DbStepIntegrity DEF StatementOK
  <2>5. ResetAlone' /\ Emptied'
    BY <2>2, <2>3, <1>2 DEF StatementOK, ResetAlone, Emptied
  <2> QED
    BY <2>4, <2>5
<1>6. CASE ResetBegin
  <2>1. db' = db /\ req' = req /\ reset' = 1 /\ \A c \in Clients : At(c, "idle")
    BY <1>6 DEF ResetBegin
  <2>2. Integrity(db)' /\ Emptied'
    BY <1>2, <2>1 DEF Integrity, HasParent, Has, Emptied
  <2>3. ResetAlone'
    BY <2>1 DEF ResetAlone, At
  <2> QED
    BY <2>2, <2>3
<1>7. CASE ResetTable
  <2> DEFINE t == ResetOrder[reset]
  <2>1. /\ reset \in 1..11 /\ t \in Tables
        /\ db' = Truncate(db, t) /\ req' = req /\ reset' = reset + 1
    BY <1>7, ResetCovers DEF ResetTable
  <2>2. \A u \in Tables : ParentTable(u) = t => db[u] = {}
    BY <1>2, <2>1, ChildrenFirst DEF Emptied
  <2>3. Integrity(Truncate(db, t))
    BY <1>2, <2>1, <2>2, TruncateIntegrity
  <2>4. Integrity(db)'
    BY <2>1, <2>3 DEF Integrity, HasParent, Has
  <2>5. \A u \in Tables : db'[u] = IF u = t THEN {} ELSE db[u]
    BY <1>2, <2>1 DEF Truncate, Typed
  <2>6. Emptied'
    BY <1>2, <2>1, <2>5, ResetCovers DEF Emptied
  <2>7. ResetAlone'
    BY <1>2, <2>1 DEF ResetAlone, At
  <2> QED
    BY <2>4, <2>6, <2>7
<1>8. CASE ResetEnd \/ ResetFail \/ Restart
  <2>1. db' = db /\ reset' = 0
    BY <1>8 DEF ResetEnd, ResetFail, Restart
  <2>2. enforced'
    BY <1>8, Zenon DEF ResetEnd, ResetFail, Restart
  <2>3. Integrity(db)' /\ Emptied'
    BY <1>2, <2>1 DEF Integrity, HasParent, Has, Emptied
  <2> QED
    BY <2>1, <2>2, <2>3 DEF ResetAlone
<1>9. CASE UNCHANGED vars
  BY <1>2, <1>9 DEF vars, Integrity, HasParent, Has, Emptied, ResetAlone, At
<1> QED
  BY <1>4, <1>5, <1>6, <1>7, <1>8, <1>9 DEF Next, ResetStep

\* The inductive invariant holds in every state.
LEMMA Invariant == ASSUME AdminOverlaps = FALSE PROVE Spec => []IInv
  BY IInvInit, IInvNext, PTL DEF Spec

\* No interleaving of creates, patches, deletes, Resets and crashes leaves a row
\* whose foreign key dangles, provided no request is in flight while Reset runs.
THEOREM NoOrphans == ASSUME AdminOverlaps = FALSE PROVE Spec => []ReferentialIntegrity
<1>1. IInv => ReferentialIntegrity
  BY DEF IInv
<1> QED
  BY <1>1, Invariant, PTL

\* Whatever way a Reset ends (success, failure at any table, crash), foreign keys
\* are enforced again, also when requests are in flight while it runs.
THEOREM EnforcementReturns == Spec => []EnforcementRestored
<1>1. Init => EnforcementRestored
  BY DEF Init, EnforcementRestored
<1>2. TypeOK /\ EnforcementRestored /\ [Next]_vars => EnforcementRestored'
  <2> SUFFICES ASSUME TypeOK, EnforcementRestored, [Next]_vars
               PROVE  EnforcementRestored'
    OBVIOUS
  <2>1. Typed(db) /\ RequestsOK
    BY DEF TypeOK, Typed, RequestsOK
  <2>2. CASE \E c \in Clients :
               NetworkHandlers(c) \/ ContainerHandlers(c) \/ SQLHandlers(c)
    <3>1. ReadOnly
      BY <2>1, <2>2, HandlersOK DEF Started
    <3> QED
      BY <3>1 DEF ReadOnly, EnforcementRestored
  <2>3. CASE \E c \in Clients : Progress(c)
    <3>1. UNCHANGED <<enforced, reset>>
      BY <2>1, <2>3, ProgressOK DEF StatementOK
    <3> QED
      BY <3>1 DEF EnforcementRestored
  <2>4. CASE ResetBegin \/ ResetTable
    <3>1. reset' # 0
      BY <2>4, ResetCovers DEF ResetBegin, ResetTable
    <3> QED
      BY <3>1 DEF EnforcementRestored
  <2>5. CASE ResetEnd \/ ResetFail \/ Restart
    BY <2>5, Zenon DEF ResetEnd, ResetFail, Restart, EnforcementRestored
  <2>6. CASE UNCHANGED vars
    BY <2>6 DEF vars, EnforcementRestored
  <2> QED
    BY <2>2, <2>3, <2>4, <2>5, <2>6 DEF Next, ResetStep
<1> QED
  BY <1>1, <1>2, TypeCorrect, PTL DEF Spec

\* A Reset that has worked through its list leaves every table empty.
THEOREM ResetEmpties == ASSUME AdminOverlaps = FALSE PROVE Spec => []ResetLeavesNothing
<1>1. IInv => ResetLeavesNothing
  <2> SUFFICES ASSUME IInv, reset > Len(ResetOrder), NEW t \in Tables
               PROVE  db[t] = {}
    BY DEF ResetLeavesNothing
  <2>1. reset = 12
    BY ResetCovers DEF IInv, TypeOK
  <2>2. PICK i \in 1..11 : ResetOrder[i] = t
    BY ResetCovers
  <2> QED
    BY <2>1, <2>2 DEF IInv, Emptied
<1> QED
  BY <1>1, Invariant, PTL

(***************************************************************************)
(* What one step may do to rows and requests.                              *)
(***************************************************************************)

\* A request is started by the client that issues it, with no statement.
LEMMA HandlerStarts ==
    ASSUME NEW c, NetworkHandlers(c) \/ ContainerHandlers(c) \/ SQLHandlers(c)
    PROVE  At(c, "idle") /\ ReadOnly /\ \E r : Become(c, r)
<1>1. CASE \E t \in Tables : StartPlainCreate(c, t)
  BY <1>1 DEF StartPlainCreate, Start
<1>2. CASE \E t \in Tables : StartNetworkChildCreate(c, t)
  BY <1>2 DEF StartNetworkChildCreate, Start
<1>3. CASE CreateInstance(c) \/ CreateCluster(c) \/ CreateSQLInstance(c)
  BY <1>3 DEF CreateInstance, CreateCluster, CreateSQLInstance, Start
<1>4. CASE \E t \in Tables : \E n, s : StartUpdate(c, t, n, s)
  BY <1>4 DEF StartUpdate, Start
<1>5. CASE \E t \in Tables : StartDelete(c, t)
  BY <1>5 DEF StartDelete, Start
<1> QED
  BY <1>1, <1>2, <1>3, <1>4, <1>5
  DEF NetworkHandlers, ContainerHandlers, SQLHandlers,
      Tables, Roots, NetworkChildren, Cascading,
      CreateNetwork, CreateSubnetwork, CreateFirewall, CreateRouter, CreateRouterNAT,
      CreateNodePool, CreateSQLDatabase, CreateSQLUser,
      UpdateNetwork, UpdateSubnetwork, UpdateFirewall, UpdateRouter, UpdateRouterNAT,
      UpdateCluster, UpdateSQLInstance, UpdateSQLUser,
      DeleteNetwork, DeleteSubnetwork, DeleteFirewall, DeleteRouter, DeleteRouterNAT,
      DeleteInstance, DeleteCluster, DeleteNodePool, DeleteSQLInstance,
      DeleteSQLDatabase, DeleteSQLUser

\* The kinds of statement of a request, the tables left out.
LEMMA Statements ==
    ASSUME NEW c, Progress(c)
    PROVE  \/ Reads(c) \/ StoreOperation(c) \/ Reply(c)
           \/ \E t \in Tables : InsertRow(c, t)
           \/ \E t \in Tables : WriteData(c, t) \/ WriteNetworkChild(c, t)
           \/ CreateDefaultPool(c) \/ DeleteWithResult(c)
  BY DEF Progress, Inserts, Writes, Tables, Roots, NetworkChildren, Cascading,
     InsertNetwork, InsertSubnetwork, InsertFirewall, InsertRouter, InsertRouterNAT,
     InsertInstance, InsertCluster, InsertNodePool, InsertSQLInstance,
     InsertSQLDatabase, InsertSQLUser, WriteNetwork, WriteSubnetwork, WriteFirewall,
     WriteRouter, WriteRouterNAT, WriteCluster, WriteSQLInstance, WriteSQLUser

\* A statement moves on the request it belongs to.
LEMMA StatementMoves ==
    ASSUME NEW c, Progress(c)
    PROVE  \E r : Become(c, r)
<1>1. ASSUME NEW code, Answer(c, code) PROVE \E r : Become(c, r)
  BY <1>1 DEF Answer
<1>2. ASSUME NEW pc, Goto(c, pc) PROVE \E r : Become(c, r)
  BY <1>2 DEF Goto
<1>3. ASSUME Completed(c) PROVE \E r : Become(c, r)
  BY <1>1, <1>2, <1>3 DEF Completed
<1>4. CASE Reads(c)
  BY <1>1, <1>2, <1>3, <1>4
  DEF Reads, ResolveExistingNetwork, ValidateNetwork, ValidateSubnetwork, ReadBack,
      ReadCurrent, ReadForDelete
<1>5. CASE \E t \in Tables : InsertRow(c, t)
  BY <1>1, <1>2, <1>5 DEF InsertRow
<1>6. CASE \E t \in Tables : WriteData(c, t) \/ WriteNetworkChild(c, t)
  BY <1>1, <1>3, <1>6 DEF WriteData, WriteNetworkChild
<1>7. CASE CreateDefaultPool(c) \/ DeleteWithResult(c) \/ StoreOperation(c) \/ Reply(c)
  BY <1>1, <1>3, <1>7 DEF CreateDefaultPool, DeleteWithResult, StoreOperation, Reply
<1> QED
  BY <1>4, <1>5, <1>6, <1>7, Statements

\* A request in flight changes only by a statement of its own or by a restart.
LEMMA RequestStep ==
    ASSUME RequestsOK, [Next]_vars, NEW c \in Clients, req'[c] # req[c], ~At(c, "idle")
    PROVE  Progress(c) \/ Restart
<1>1. ASSUME NEW d \in Clients, NEW r, Become(d, r) PROVE d = c
  BY <1>1 DEF RequestsOK, Become
<1>2. ASSUME NEW d \in Clients,
             NetworkHandlers(d) \/ ContainerHandlers(d) \/ SQLHandlers(d)
      PROVE  FALSE
  <2>1. At(d, "idle") /\ d = c
    BY <1>1, <1>2, HandlerStarts
  <2> QED
    BY <2>1
<1>3. ASSUME NEW d \in Clients, Progress(d) PROVE Progress(c)
  BY <1>1, <1>3, StatementMoves
<1>4. CASE ResetBegin \/ ResetStep \/ UNCHANGED vars
  BY <1>4 DEF ResetBegin, ResetStep, ResetTable, ResetEnd, ResetFail, vars
<1> QED
  BY <1>2, <1>3, <1>4 DEF Next

\* Each program counter below belongs to one kind of statement.
LEMMA OneStatementPerStep ==
    ASSUME NEW c, Progress(c)
    PROVE  /\ At(c, "write") =>
                \E t \in Tables : WriteData(c, t) \/ WriteNetworkChild(c, t)
           /\ At(c, "checkSubnetwork") => ValidateSubnetwork(c)
           /\ At(c, "defaultPool") => CreateDefaultPool(c)
  BY Statements
  DEF At, Reads, ResolveExistingNetwork, ValidateNetwork, ValidateSubnetwork, ReadBack,
      ReadCurrent, ReadForDelete, InsertRow, WriteData, WriteNetworkChild,
      CreateDefaultPool, DeleteWithResult, StoreOperation, Reply

\* The rows of d are still there in e, under their keys.
KeepsRows(d, e) == \A t \in Tables : \A r \in d[t] : Has(e, t, r.key)

\* An INSERT keeps every row,
LEMMA InsertKeeps ==
    ASSUME NEW d, Typed(d), NEW t \in Tables, NEW row
    PROVE  KeepsRows(d, Insert(d, t, row))
  BY DEF KeepsRows, Insert, Typed, Has

\* and an UPDATE neither removes a row nor adds one: of the JSON,
LEMMA SetDataKeeps ==
    ASSUME NEW d, Typed(d), NEW t \in Tables, NEW k, NEW x
    PROVE  KeepsRows(d, SetData(d, t, k, x)) /\ KeepsRows(SetData(d, t, k, x), d)
<1> DEFINE e == SetData(d, t, k, x)
           moved(q) == IF q.key = k THEN [q EXCEPT !.data = x] ELSE q
<1>1. \A u \in Tables : \A q \in d[u] : q \in Row(u) /\ moved(q).key = q.key
  BY DEF Typed, Row
<1>2. \A u \in Tables : e[u] = IF u = t THEN {moved(q) : q \in d[u]} ELSE d[u]
  BY DEF SetData, Typed
<1> HIDE DEF e, moved
<1>3. \A u \in Tables : \A q \in d[u] : q \in e[u] \/ moved(q) \in e[u]
  BY <1>2
<1>4. \A u \in Tables : \A r \in e[u] : \E q \in d[u] : r = q \/ r = moved(q)
  BY <1>2
<1>5. KeepsRows(d, e)
  BY <1>1, <1>3 DEF KeepsRows, Has
<1>6. KeepsRows(e, d)
  BY <1>1, <1>4 DEF KeepsRows, Has
<1> QED
  BY <1>5, <1>6 DEF e

\* and of network_name and the JSON.
LEMMA SetParentAndDataKeeps ==
    ASSUME NEW d, Typed(d), NEW t \in Tables, NEW k, NEW p, NEW x
    PROVE  /\ KeepsRows(d, SetParentAndData(d, t, k, p, x))
           /\ KeepsRows(SetParentAndData(d, t, k, p, x), d)
<1> DEFINE e == SetParentAndData(d, t, k, p, x)
           moved(q) == IF q.key = k THEN [q EXCEPT !.parent = p, !.data = x] ELSE q
<1>1. \A u \in Tables : \A q \in d[u] : q \in Row(u) /\ moved(q).key = q.key
  BY DEF Typed, Row
<1>2. \A u \in Tables : e[u] = IF u = t THEN {moved(q) : q \in d[u]} ELSE d[u]
  BY DEF SetParentAndData, Typed
<1> HIDE DEF e, moved
<1>3. \A u \in Tables : \A q \in d[u] : q \in e[u] \/ moved(q) \in e[u]
  BY <1>2
<1>4. \A u \in Tables : \A r \in e[u] : \E q \in d[u] : r = q \/ r = moved(q)
  BY <1>2
<1>5. KeepsRows(d, e)
  BY <1>1, <1>3 DEF KeepsRows, Has
<1>6. KeepsRows(e, d)
  BY <1>1, <1>4 DEF KeepsRows, Has
<1> QED
  BY <1>5, <1>6 DEF e

\* The statement that ends a PATCH neither removes a row nor adds one.
LEMMA WriteKeeps ==
    ASSUME Typed(db), NEW c, NEW t \in Tables, WriteData(c, t) \/ WriteNetworkChild(c, t)
    PROVE  KeepsRows(db, db') /\ KeepsRows(db', db)
<1>1. KeepsRows(db, db)
  BY DEF KeepsRows, Has
<1>2. \/ db' = db
      \/ \E x : db' = SetData(db, t, req[c].key, x)
      \/ \E p, x : db' = SetParentAndData(db, t, req[c].key, p, x)
  BY DEF WriteData, WriteNetworkChild
<1> QED
  BY <1>1, <1>2, SetDataKeeps, SetParentAndDataKeeps

\* A statement keeps all rows, or it is the DELETE of one of them.
LEMMA StatementKeeps ==
    ASSUME Typed(db), NEW c, Progress(c)
    PROVE  \/ KeepsRows(db, db')
           \/ /\ At(c, "delete")
              /\ db' = Delete(db, enforced, req[c].table, req[c].key)
<1>1. KeepsRows(db, db)
  BY DEF KeepsRows, Has
<1>2. CASE Reads(c) \/ StoreOperation(c) \/ Reply(c)
  BY <1>1, <1>2
  DEF Reads, ResolveExistingNetwork, ValidateNetwork, ValidateSubnetwork, ReadBack,
      ReadCurrent, ReadForDelete, StoreOperation, Reply, ReadOnly
<1>3. CASE \E t \in Tables : InsertRow(c, t)
  BY <1>1, <1>3, InsertKeeps DEF InsertRow
<1>4. CASE \E t \in Tables : WriteData(c, t) \/ WriteNetworkChild(c, t)
  BY <1>4, WriteKeeps
<1>5. CASE CreateDefaultPool(c)
  <2>1. "container_node_pools" \in Tables
    BY DEF Tables, Cascading
  <2>2. db' = db \/ \E row : db' = Insert(db, "container_node_pools", row)
    BY <1>5 DEF CreateDefaultPool
  <2> QED
    BY <1>1, <2>1, <2>2, InsertKeeps
<1>6. CASE DeleteWithResult(c)
  BY <1>1, <1>6 DEF DeleteWithResult
<1> QED
  BY <1>2, <1>3, <1>4, <1>5, <1>6, Statements

(***************************************************************************)
(* Action properties.                                                      *)
(***************************************************************************)

\* A PATCH whose row was deleted after it had read it does not bring it back.
THEOREM NothingInserted == Spec => UpdateNeverInserts
<1>1. TypeOK /\ [Next]_vars =>
        [\A c \in Clients : At(c, "write") /\ req'[c] # req[c] =>
            \A t \in Tables : \A r \in db'[t] : Has(db, t, r.key)]_vars
  <2> SUFFICES ASSUME TypeOK, [Next]_vars, NEW c \in Clients,
                      At(c, "write"), req'[c] # req[c]
               PROVE  KeepsRows(db', db)
    BY DEF KeepsRows
  <2>1. Typed(db) /\ RequestsOK
    BY DEF TypeOK, Typed, RequestsOK
  <2>2. Progress(c) \/ Restart
    BY <2>1, RequestStep DEF At
  <2>3. CASE Progress(c)
    BY <2>1, <2>3, OneStatementPerStep, WriteKeeps
  <2>4. CASE Restart
    BY <2>4 DEF Restart, KeepsRows, Has
  <2> QED
    BY <2>2, <2>3, <2>4
<1> QED
  BY <1>1, TypeCorrect, PTL DEF Spec, UpdateNeverInserts

\* A row disappears only because a DELETE names it or the parent it cascades
\* from, or in a Reset; no PATCH and no INSERT removes one.
THEOREM NothingElseDeleted == Spec => NoCollateralDelete
<1> DEFINE Named(t, r) ==
        \E c \in Clients :
            /\ At(c, "delete")
            /\ \/ req[c].table = t /\ req[c].key = r.key
               \/ /\ t \in Cascading
                  /\ req[c].table = ParentTable(t)
                  /\ req[c].key = TopLevel(r.parent)
<1>1. TypeOK /\ [Next]_vars =>
        [\A t \in Tables : \A r \in db[t] :
            Has(db', t, r.key) \/ reset # 0 \/ Named(t, r)]_vars
  <2> SUFFICES ASSUME TypeOK, [Next]_vars, reset = 0, NEW t \in Tables, NEW r \in db[t]
               PROVE  Has(db', t, r.key) \/ Named(t, r)
    OBVIOUS
  <2>1. Typed(db) /\ RequestsOK
    BY DEF TypeOK, Typed, RequestsOK
  <2>2. CASE db' = db
    BY <2>2 DEF Has
  <2>3. ASSUME NEW c \in Clients, Progress(c)
        PROVE  Has(db', t, r.key) \/ Named(t, r)
    <3>1. CASE KeepsRows(db, db')
      BY <3>1 DEF KeepsRows
    <3>2. CASE At(c, "delete") /\ db' = Delete(db, enforced, req[c].table, req[c].key)
      <4>1. r \in db'[t] \/ Named(t, r)
        BY <3>2 DEF Delete
      <4> QED
        BY <4>1 DEF Has
    <3> QED
      BY <2>1, <2>3, <3>1, <3>2, StatementKeeps
  <2>4. CASE \E c \in Clients :
               NetworkHandlers(c) \/ ContainerHandlers(c) \/ SQLHandlers(c)
    BY <2>2, <2>4, HandlerStarts DEF ReadOnly
  <2>5. CASE ResetBegin \/ ResetStep \/ Restart \/ UNCHANGED vars
    <3>1. db' = db
      BY <2>5 DEF ResetBegin, ResetStep, ResetTable, ResetEnd, ResetFail, Restart, vars
    <3> QED
      BY <2>2, <3>1
  <2> QED
    BY <2>3, <2>4, <2>5 DEF Next
<1> QED
  BY <1>1, TypeCorrect, PTL DEF Spec, NoCollateralDelete

\* CreateCluster answers only when the default pool exists or the cluster is gone,
\* although it discards the error of the second INSERT.
THEOREM PoolBeforeAnswer == Spec => AckedClusterHasPool
<1>1. TypeOK /\ [Next]_vars =>
        [\A c \in Clients : At(c, "defaultPool") /\ req'[c].pc = "reply" =>
            \/ Has(db', "container_node_pools", <<req[c].key[2], DefaultPool>>)
            \/ ~Has(db', "container_clusters", req[c].key)]_vars
  <2> DEFINE pools == "container_node_pools"
             clusters == "container_clusters"
  <2> SUFFICES ASSUME TypeOK, [Next]_vars, NEW c \in Clients,
                      At(c, "defaultPool"), req'[c].pc = "reply",
                      ~Has(db', pools, <<req[c].key[2], DefaultPool>>)
               PROVE  ~Has(db', clusters, req[c].key)
    OBVIOUS
  <2> DEFINE cluster == req[c].key[2]
             k == <<cluster, DefaultPool>>
             row == [key |-> k, parent |-> cluster, data |-> NoData]
  <2>1. Typed(db) /\ RequestsOK
    BY DEF TypeOK, Typed, RequestsOK
  <2>2. Progress(c) \/ Restart
    BY <2>1, RequestStep DEF At
  <2>3. ~Restart
    BY DEF Restart, Idle
  <2>4. CreateDefaultPool(c)
    BY <2>2, <2>3, OneStatementPerStep
  <2>5. pools \in Tables /\ ParentTable(pools) = clusters
    BY DEF Tables, Cascading, ParentTable, NetworkChildren
  <2>6. ~(db' = Insert(db, pools, row))
    <3>1. row.key = k
      OBVIOUS
    <3> HIDE DEF row
    <3>2. db' = Insert(db, pools, row) => row \in db'[pools]
      BY <2>1, <2>5 DEF Insert, Typed
    <3> QED
      BY <3>1, <3>2 DEF Has
  <2>7. db' = db /\ (Has(db, pools, k) \/ ~HasParent(db, pools, cluster))
    BY <2>4, <2>6 DEF CreateDefaultPool
  <2>8. ~Has(db, clusters, TopLevel(cluster))
    BY <2>5, <2>7 DEF HasParent
  <2>9. req[c].key = TopLevel(cluster)
    <3>1. RequestOK(req[c]) /\ req[c].pc = "defaultPool"
      BY <2>1 DEF RequestsOK, At
    <3>2. req[c].key \in Keys(clusters) /\ clusters \notin Cascading
      BY <3>1 DEF RequestOK, Cascading
    <3> QED
      BY <3>2 DEF Keys, Scopes, TopLevel
  <2> QED
    BY <2>7, <2>8, <2>9
<1> QED
  BY <1>1, TypeCorrect, PTL DEF Spec, AckedClusterHasPool

\* The network and the subnetwork that validation accepts together are, at that
\* moment, a network that exists and a subnetwork of it. Integrity carries it: the
\* network was looked up one statement earlier, and its subnetwork keeps it alive.
THEOREM PlacementHolds == ASSUME AdminOverlaps = FALSE PROVE Spec => PlacementValidated
<1> DEFINE net(c) == ResolveSameProjectName(req[c].data.network)
           sub(c) == ResolveSameProjectName(req[c].data.subnetwork)
           Placed(c) == /\ Has(db, "compute_networks", TopLevel(net(c)))
                        /\ \E r \in db["compute_subnetworks"] :
                             r.key = TopLevel(sub(c)) /\ r.parent = net(c)
<1>1. IInv /\ [Next]_vars =>
        [\A c \in Clients :
            /\ At(c, "checkSubnetwork")
            /\ req'[c].pc \in {"insert", "write"}
            /\ net(c) # NoName
            /\ sub(c) # NoName
            => Placed(c)]_vars
  <2> SUFFICES ASSUME IInv, [Next]_vars, NEW c \in Clients,
                      At(c, "checkSubnetwork"), req'[c].pc \in {"insert", "write"},
                      net(c) # NoName, sub(c) # NoName
               PROVE  Placed(c)
    OBVIOUS
  <2>1. Typed(db) /\ RequestsOK /\ ReferentialIntegrity
    BY DEF IInv, TypeOK, Typed, RequestsOK
  <2>2. Progress(c) \/ Restart
    BY <2>1, RequestStep DEF At
  <2>3. ~Restart
    BY DEF Restart, Idle
  <2>4. ValidateSubnetwork(c)
    BY <2>2, <2>3, OneStatementPerStep
  <2>5. ~Answer(c, "notFound")
    BY <2>1 DEF Answer, Become, Idle, RequestsOK
  <2>6. SubnetworkMatches(sub(c), net(c))
    BY <2>4, <2>5 DEF ValidateSubnetwork
  <2>7. PICK r \in db["compute_subnetworks"] :
            r.key = TopLevel(sub(c)) /\ r.parent = net(c)
    BY <2>6 DEF SubnetworkMatches, Has, Lookup
  <2>8. /\ "compute_subnetworks" \in Tables
        /\ ParentTable("compute_subnetworks") = "compute_networks"
        /\ NoTable # "compute_networks"
    BY DEF Tables, NetworkChildren, ParentTable, NoTable
  <2>9. Has(db, "compute_networks", TopLevel(r.parent))
    BY <2>1, <2>8 DEF ReferentialIntegrity, HasParent
  <2> QED
    BY <2>7, <2>9
<1> QED
  BY <1>1, Invariant, PTL DEF Spec, PlacementValidated
=============================================================================
