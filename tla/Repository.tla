----------------------------- MODULE Repository -----------------------------
(***************************************************************************)
(* The relational core of fakegcp: the compute-network, instance, GKE and  *)
(* Cloud SQL resources, which are stored in SQLite tables tied together by *)
(* foreign keys, and the HTTP handlers that create, patch and delete them. *)
(*                                                                         *)
(* Every request is served by its own goroutine and nothing in the         *)
(* repository is locked: a request is a sequence of separate statements    *)
(* (resolve a reference, INSERT, read back; or read, merge, UPDATE; or     *)
(* read, DELETE), and statements of different requests interleave freely.  *)
(* POST /mock/reset is one more such sequence, and it switches foreign-key *)
(* enforcement off while it runs.                                          *)
(*                                                                         *)
(* One project is modelled; a key folds zone, region or location into the  *)
(* name. Requests rejected before they reach the database (malformed JSON, *)
(* a missing name) change nothing and are left out.                        *)
(***************************************************************************)
EXTENDS Naturals, Sequences, Sqlite

CONSTANTS
    Clients,          \* concurrent HTTP clients
    Names,            \* Names[t]: the resource names requests use in table t
    NetworkRefs,      \* values of `network` in request bodies
    SubnetworkRefs,   \* values of `subnetwork` in request bodies
    BodyNetworkNames, \* values of `network_name` in create bodies ("" = absent)
    Labels,           \* values of the rest of a resource's JSON
    DefaultPool,      \* the node pool GKE creates with a cluster
    AdminOverlaps     \* TRUE: /mock/reset may run while requests are in flight

VARIABLES
    db,          \* [Tables -> set of rows]
    enforced,    \* PRAGMA foreign_keys of the only connection
    req,         \* [Clients -> the request the client's goroutine is serving]
    reset        \* 0, or the position of a running Reset in ResetOrder

vars == <<db, enforced, req, reset>>

---------------------------------------------------------------------------
(* References and JSON bodies *)

BadName == "unresolved"

NoRef == [form |-> "none", name |-> NoName]     \* absent or empty string
Absent == [form |-> "absent", name |-> NoName]  \* key missing from a patch
Null == [form |-> "null", name |-> NoName]      \* key present with JSON null

\* A reference is a bare name, a self-link into this project, or a self-link
\* into another project (or collection) that may carry a name that exists here.
Refs(S) == [form : {"bare", "link", "foreign"}, name : S] \cup {NoRef}

NetworkNames == Names["compute_networks"]
SubnetworkNames == Names["compute_subnetworks"]

\* resolveSameProjectName: bare names and same-project links give the name,
\* an empty reference gives "", anything else is ErrNotFound.
ResolveSameProjectName(ref) ==
    IF ref.form = "foreign" THEN BadName ELSE ref.name

Data == [network : Refs(NetworkNames), subnetwork : Refs(SubnetworkNames),
         label : Labels]
Patch == [network : Refs(NetworkNames) \cup {Absent, Null},
          subnetwork : Refs(SubnetworkNames) \cup {Absent},
          label : Labels \cup {Absent}]

\* patchMerge, for one key: a missing or null value keeps the current one.
PatchField(current, value) ==
    IF value \in {Absent, Null} THEN current ELSE value

PatchMerge(current, patch) ==
    [network |-> PatchField(current.network, patch.network),
     subnetwork |-> PatchField(current.subnetwork, patch.subnetwork),
     label |-> PatchField(current.label, patch.label)]

Scopes(t) == IF t \in Cascading THEN Names[ParentTable(t)] ELSE {NoName}
Keys(t) == Scopes(t) \X Names[t]

ParentNames(t) ==
    IF ParentTable(t) = NoTable THEN {NoName} ELSE Names[ParentTable(t)]

Row(t) == [key : Keys(t), parent : ParentNames(t), data : Data]

ASSUME NamesAssumption ==
    \A t \in Tables : NoName \notin Names[t] /\ BadName \notin Names[t]
ASSUME RefsAssumption ==
    /\ NetworkRefs \subseteq Refs(NetworkNames)
    /\ SubnetworkRefs \subseteq Refs(SubnetworkNames)
    /\ BodyNetworkNames \subseteq NetworkNames \cup {NoName}
ASSUME LabelsAssumption == Labels # {} /\ Labels \cap {Absent, Null} = {}
ASSUME DefaultPoolAssumption == DefaultPool \in Names["container_node_pools"]
ASSUME AdminAssumption == AdminOverlaps \in BOOLEAN
---------------------------------------------------------------------------
(* Requests *)

\* Tables whose references are checked by code and not by a foreign key.
Validated == {"compute_instances", "container_clusters", "sql_instances"}

\* Tables of the compute API, whose handlers store an operation.
Compute == {"compute_networks", "compute_subnetworks", "compute_firewalls",
            "compute_routers", "compute_router_nats", "compute_instances"}

\* Tables whose DELETE handler reads the row first.
ReadBeforeDelete == Compute \cup {"sql_instances", "sql_databases"}

NoLabel == CHOOSE l \in Labels : TRUE
NoData == [network |-> NoRef, subnetwork |-> NoRef, label |-> NoLabel]
NoPatch == [network |-> Absent, subnetwork |-> Absent, label |-> Absent]

Idle == [pc |-> "idle", verb |-> "none", table |-> NoTable, key |-> TopLevel(NoName),
         parent |-> NoName, data |-> NoData, patch |-> NoPatch,
         pool |-> FALSE, resp |-> "none"]

\* The request r of client c moves on.
Become(c, r) == req' = [req EXCEPT ![c] = r]
Goto(c, pc) == Become(c, [req[c] EXCEPT !.pc = pc])

\* The handler is done and writes status code `code`; its locals are gone.
Answer(c, code) == Become(c, [Idle EXCEPT !.pc = "reply", !.resp = code])

At(c, pc) == req[c].pc = pc

\* A statement that changes no table.
ReadOnly == UNCHANGED <<db, enforced, reset>>

\* A new request reaches its handler.
Start(c, r) ==
    /\ At(c, "idle")
    /\ AdminOverlaps \/ reset = 0
    /\ Become(c, r)
    /\ ReadOnly

\* What follows the statement that completes a mutation of table t.
Completed(c) ==
    IF req[c].table \in Compute THEN Goto(c, "operation") ELSE Answer(c, "ok")

---------------------------------------------------------------------------
(* Create: the handler builds the body, the repository resolves its         *)
(* references, INSERTs and reads the new row back.                          *)

Creating(t, k, parent, data, pc) ==
    [Idle EXCEPT !.pc = pc, !.verb = "create", !.table = t, !.key = k,
                 !.parent = parent, !.data = data]

\* A resource named in the URL of its parent, or with no parent at all.
StartPlainCreate(c, t) ==
    \E k \in Keys(t), l \in Labels :
        Start(c, Creating(t, k, k[1], [NoData EXCEPT !.label = l], "insert"))

\* A child of a network: `network_name` in the body is taken as it is, and
\* only without it is `network` resolved.
StartNetworkChildCreate(c, t) ==
    \E k \in Keys(t), ref \in NetworkRefs, n \in BodyNetworkNames, l \in Labels :
        Start(c, Creating(t, k, n, [NoData EXCEPT !.network = ref, !.label = l],
                          IF n = NoName THEN "resolve" ELSE "insert"))

CreateNetwork(c) == StartPlainCreate(c, "compute_networks")
CreateSubnetwork(c) == StartNetworkChildCreate(c, "compute_subnetworks")
CreateFirewall(c) == StartNetworkChildCreate(c, "compute_firewalls")
CreateRouter(c) == StartNetworkChildCreate(c, "compute_routers")
CreateRouterNAT(c) == StartPlainCreate(c, "compute_router_nats")
CreateNodePool(c) == StartPlainCreate(c, "container_node_pools")
CreateSQLDatabase(c) == StartPlainCreate(c, "sql_databases")
CreateSQLUser(c) == StartPlainCreate(c, "sql_users")

CreateInstance(c) ==
    \E k \in Keys("compute_instances"), n \in NetworkRefs, s \in SubnetworkRefs :
        Start(c, Creating("compute_instances", k, NoName,
                          [NoData EXCEPT !.network = n, !.subnetwork = s],
                          "checkNetwork"))

\* pool is FALSE when the body lists nodePools or has initialNodeCount = 0.
CreateCluster(c) ==
    \E k \in Keys("container_clusters"), n \in NetworkRefs, s \in SubnetworkRefs,
       pool \in BOOLEAN :
        Start(c, [Creating("container_clusters", k, NoName,
                           [NoData EXCEPT !.network = n, !.subnetwork = s],
                           "checkNetwork") EXCEPT !.pool = pool])

CreateSQLInstance(c) ==
    \E k \in Keys("sql_instances"), n \in NetworkRefs :
        Start(c, Creating("sql_instances", k, NoName,
                          [NoData EXCEPT !.network = n], "checkNetwork"))

\* The statement that ends a create or an update.
Mutation(c) == IF req[c].verb = "create" THEN "insert" ELSE "write"

\* Mutant: the callers do not reject an empty reference.
ResolveExistingNetworkOptional(c) ==
    LET name == ResolveSameProjectName(req[c].data.network)
    IN  /\ At(c, "resolve")
        /\ \/ name # NoName /\ ~Has(db, "compute_networks", TopLevel(name))
                            /\ Answer(c, "notFound")
           \/ /\ name = NoName \/ Has(db, "compute_networks", TopLevel(name))
              /\ Become(c, [req[c] EXCEPT !.parent = name, !.pc = Mutation(c)])
        /\ ReadOnly

\* resolveExistingNetwork: pure parsing, then SELECT on compute_networks.
\* Its callers turn an empty name into an error that is no sentinel (500).
ResolveExistingNetwork(c) ==
    LET name == ResolveSameProjectName(req[c].data.network)
    IN  /\ At(c, "resolve")
        /\ \/ name = NoName /\ Answer(c, "internal")
           \/ name # NoName /\ ~Has(db, "compute_networks", TopLevel(name))
                            /\ Answer(c, "notFound")
           \/ name # NoName /\ Has(db, "compute_networks", TopLevel(name))
              /\ Become(c, [req[c] EXCEPT !.parent = name, !.pc = Mutation(c)])
        /\ ReadOnly

\* First half of validateInstanceNetworkInterfaces, validateClusterNetwork and
\* all of validateSQLPrivateNetwork: the network, if one is named, exists.
\* (An instance has one interface here; the code checks each in turn.)
ValidateNetwork(c) ==
    LET name == ResolveSameProjectName(req[c].data.network)
    IN  /\ At(c, "checkNetwork")
        /\ \/ name # NoName /\ ~Has(db, "compute_networks", TopLevel(name))
                            /\ Answer(c, "notFound")
           \/ /\ name = NoName \/ Has(db, "compute_networks", TopLevel(name))
              /\ Goto(c, IF req[c].table = "sql_instances" THEN Mutation(c)
                                                           ELSE "checkSubnetwork")
        /\ ReadOnly

\* Mutant: the subnetwork's parent is not compared with the network.
SubnetworkExists(name, net) == Has(db, "compute_subnetworks", TopLevel(name))

\* Second half: the subnetwork, if one is named, exists and its network_name is
\* the network, if one is named.
SubnetworkMatches(name, net) ==
    /\ Has(db, "compute_subnetworks", TopLevel(name))
    /\ net # NoName =>
        Lookup(db, "compute_subnetworks", TopLevel(name)).parent = net

ValidateSubnetwork(c) ==
    LET net == ResolveSameProjectName(req[c].data.network)
        name == ResolveSameProjectName(req[c].data.subnetwork)
    IN  /\ At(c, "checkSubnetwork")
        /\ \/ name # NoName /\ ~SubnetworkMatches(name, net) /\ Answer(c, "notFound")
           \/ name = NoName /\ Goto(c, Mutation(c))
           \/ name # NoName /\ SubnetworkMatches(name, net) /\ Goto(c, Mutation(c))
        /\ ReadOnly

\* Mutant: no foreign key in the schema, the earlier SELECT is trusted.
InsertRowUnchecked(c, t) ==
    LET r == req[c]
    IN  /\ At(c, "insert")
        /\ r.table = t
        /\ \/ Has(db, t, r.key) /\ Answer(c, "alreadyExists") /\ UNCHANGED db
           \/ /\ ~Has(db, t, r.key)
              /\ db' = Insert(db, t, [key |-> r.key, parent |-> r.parent,
                                      data |-> r.data])
              /\ Goto(c, "readBack")
        /\ UNCHANGED <<enforced, reset>>

\* Mutant: INSERT OR REPLACE, which deletes the old row and cascades.
InsertOrReplaceRow(c, t) ==
    LET r == req[c]
    IN  /\ At(c, "insert")
        /\ r.table = t
        /\ \/ ~HasParent(db, t, r.parent) /\ Answer(c, "notFound") /\ UNCHANGED db
           \/ /\ HasParent(db, t, r.parent)
              /\ db' = Insert(Delete(db, enforced, t, r.key), t,
                              [key |-> r.key, parent |-> r.parent, data |-> r.data])
              /\ Goto(c, "readBack")
        /\ UNCHANGED <<enforced, reset>>

\* INSERT: a duplicate key is ErrAlreadyExists, an unsatisfied foreign key is
\* ErrNotFound (mapInsertError).
InsertRow(c, t) ==
    LET r == req[c]
    IN  /\ At(c, "insert")
        /\ r.table = t
        /\ \/ Has(db, t, r.key) /\ Answer(c, "alreadyExists") /\ UNCHANGED db
           \/ /\ ~Has(db, t, r.key) /\ enforced /\ ~HasParent(db, t, r.parent)
              /\ Answer(c, "notFound") /\ UNCHANGED db
           \/ /\ ~Has(db, t, r.key) /\ (enforced => HasParent(db, t, r.parent))
              /\ db' = Insert(db, t, [key |-> r.key, parent |-> r.parent,
                                      data |-> r.data])
              /\ Goto(c, "readBack")
        /\ UNCHANGED <<enforced, reset>>

InsertNetwork(c) == InsertRow(c, "compute_networks")
InsertSubnetwork(c) == InsertRow(c, "compute_subnetworks")
InsertFirewall(c) == InsertRow(c, "compute_firewalls")
InsertRouter(c) == InsertRow(c, "compute_routers")
InsertRouterNAT(c) == InsertRow(c, "compute_router_nats")
InsertInstance(c) == InsertRow(c, "compute_instances")
InsertCluster(c) == InsertRow(c, "container_clusters")
InsertNodePool(c) == InsertRow(c, "container_node_pools")
InsertSQLInstance(c) == InsertRow(c, "sql_instances")
InsertSQLDatabase(c) == InsertRow(c, "sql_databases")
InsertSQLUser(c) == InsertRow(c, "sql_users")

\* The SELECT that ends every Create: the row may have been deleted meanwhile.
ReadBack(c) ==
    /\ At(c, "readBack")
    /\ \/ ~Has(db, req[c].table, req[c].key) /\ Answer(c, "notFound")
       \/ /\ Has(db, req[c].table, req[c].key)
          /\ IF req[c].pool THEN Goto(c, "defaultPool") ELSE Completed(c)
    /\ ReadOnly

\* Mutant: the default pool is forgotten.
CreateDefaultPoolSkipped(c) == At(c, "defaultPool") /\ Answer(c, "ok") /\ ReadOnly

\* CreateCluster's second resource. Its errors are discarded, so a duplicate
\* or a cluster deleted meanwhile changes nothing and is not reported.
CreateDefaultPool(c) ==
    LET cluster == req[c].key[2]
        k == <<cluster, DefaultPool>>
        t == "container_node_pools"
    IN  /\ At(c, "defaultPool")
        /\ IF ~Has(db, t, k) /\ (enforced => HasParent(db, t, cluster))
             THEN db' = Insert(db, t, [key |-> k, parent |-> cluster,
                                       data |-> NoData])
             ELSE UNCHANGED db
        /\ Answer(c, "ok")
        /\ UNCHANGED <<enforced, reset>>

---------------------------------------------------------------------------
(* Update: read the row, merge the patch, check the references, write.      *)

StartUpdate(c, t, networks, subnetworks) ==
    \E k \in Keys(t), n \in networks, s \in subnetworks, l \in Labels \cup {Absent} :
        Start(c, [Idle EXCEPT !.pc = "read", !.verb = "update", !.table = t,
                  !.key = k,
                  !.patch = [network |-> n, subnetwork |-> s, label |-> l]])

PatchRefs == NetworkRefs \cup {Absent, Null}

UpdateNetwork(c) == StartUpdate(c, "compute_networks", {Absent}, {Absent})
UpdateSubnetwork(c) == StartUpdate(c, "compute_subnetworks", PatchRefs, {Absent})
UpdateFirewall(c) == StartUpdate(c, "compute_firewalls", PatchRefs, {Absent})
UpdateRouter(c) == StartUpdate(c, "compute_routers", PatchRefs, {Absent})
UpdateRouterNAT(c) == StartUpdate(c, "compute_router_nats", {Absent}, {Absent})
UpdateCluster(c) ==
    StartUpdate(c, "container_clusters", PatchRefs, SubnetworkRefs \cup {Absent})
UpdateSQLInstance(c) == StartUpdate(c, "sql_instances", PatchRefs, {Absent})
UpdateSQLUser(c) == StartUpdate(c, "sql_users", {Absent}, {Absent})

\* Mutant: UpdateSubnetwork before the split-brain fix keeps the old binding.
AfterMergeKeepsBinding(r) == IF r.table \in Validated THEN "checkNetwork" ELSE "write"

\* The step after the merge: children of a network resolve `network` again when
\* the patch has the key (null included), validated tables check the merged body.
AfterMerge(r) ==
    IF r.table \in NetworkChildren /\ r.patch.network # Absent THEN "resolve"
    ELSE IF r.table \in Validated THEN "checkNetwork" ELSE "write"

ReadCurrent(c) ==
    LET r == req[c]
        row == Lookup(db, r.table, r.key)
    IN  /\ At(c, "read")
        /\ \/ ~Has(db, r.table, r.key) /\ Answer(c, "notFound")
           \/ /\ Has(db, r.table, r.key)
              /\ Become(c, [r EXCEPT !.data = PatchMerge(row.data, r.patch),
                                     !.parent = row.parent,
                                     !.patch = NoPatch,
                                     !.pc = AfterMerge(r)])
        /\ ReadOnly

\* Mutant: the write is an upsert, like StoreOperation's.
WriteDataUpsert(c, t) ==
    /\ At(c, "write")
    /\ req[c].table = t
    /\ db' = IF Has(db, t, req[c].key) THEN SetData(db, t, req[c].key, req[c].data)
             ELSE Insert(db, t, [key |-> req[c].key, parent |-> req[c].parent,
                                 data |-> req[c].data])
    /\ Completed(c)
    /\ UNCHANGED <<enforced, reset>>

\* UPDATE of the JSON only. A row deleted since the read is no error.
WriteData(c, t) ==
    /\ At(c, "write")
    /\ req[c].table = t
    /\ db' = SetData(db, t, req[c].key, req[c].data)
    /\ Completed(c)
    /\ UNCHANGED <<enforced, reset>>

\* UPDATE of network_name and the JSON: the foreign key is checked again.
WriteNetworkChild(c, t) ==
    LET r == req[c]
    IN  /\ At(c, "write")
        /\ r.table = t
        /\ \/ /\ Has(db, t, r.key) /\ enforced /\ ~HasParent(db, t, r.parent)
              /\ Answer(c, "notFound") /\ UNCHANGED db
           \/ /\ (Has(db, t, r.key) /\ enforced) => HasParent(db, t, r.parent)
              /\ db' = SetParentAndData(db, t, r.key, r.parent, r.data)
              /\ Completed(c)
        /\ UNCHANGED <<enforced, reset>>

WriteNetwork(c) == WriteData(c, "compute_networks")
WriteSubnetwork(c) == WriteNetworkChild(c, "compute_subnetworks")
WriteFirewall(c) == WriteNetworkChild(c, "compute_firewalls")
WriteRouter(c) == WriteNetworkChild(c, "compute_routers")
WriteRouterNAT(c) == WriteData(c, "compute_router_nats")
WriteCluster(c) == WriteData(c, "container_clusters")
WriteSQLInstance(c) == WriteData(c, "sql_instances")
WriteSQLUser(c) == WriteData(c, "sql_users")

---------------------------------------------------------------------------
(* Delete: compute and Cloud SQL handlers read the row first (they need its *)
(* self-link for the operation), the others DELETE at once.                 *)

StartDelete(c, t) ==
    \E k \in Keys(t) :
        Start(c, [Idle EXCEPT !.verb = "delete", !.table = t, !.key = k,
                  !.pc = IF t \in ReadBeforeDelete THEN "readDelete" ELSE "delete"])

DeleteNetwork(c) == StartDelete(c, "compute_networks")
DeleteSubnetwork(c) == StartDelete(c, "compute_subnetworks")
DeleteFirewall(c) == StartDelete(c, "compute_firewalls")
DeleteRouter(c) == StartDelete(c, "compute_routers")
DeleteRouterNAT(c) == StartDelete(c, "compute_router_nats")
DeleteInstance(c) == StartDelete(c, "compute_instances")
DeleteCluster(c) == StartDelete(c, "container_clusters")
DeleteNodePool(c) == StartDelete(c, "container_node_pools")
DeleteSQLInstance(c) == StartDelete(c, "sql_instances")
DeleteSQLDatabase(c) == StartDelete(c, "sql_databases")
DeleteSQLUser(c) == StartDelete(c, "sql_users")

ReadForDelete(c) ==
    /\ At(c, "readDelete")
    /\ \/ ~Has(db, req[c].table, req[c].key) /\ Answer(c, "notFound")
       \/ Has(db, req[c].table, req[c].key) /\ Goto(c, "delete")
    /\ ReadOnly

\* deleteWithResult: no row affected is ErrNotFound, a foreign-key violation is
\* ErrInUse (mapDeleteError).
DeleteWithResult(c) ==
    LET t == req[c].table
        k == req[c].key
    IN  /\ At(c, "delete")
        /\ \/ ~Has(db, t, k) /\ Answer(c, "notFound") /\ UNCHANGED db
           \/ /\ Has(db, t, k) /\ enforced /\ Referenced(db, t, k)
              /\ Answer(c, "inUse") /\ UNCHANGED db
           \/ /\ Has(db, t, k) /\ ~(enforced /\ Referenced(db, t, k))
              /\ db' = Delete(db, enforced, t, k)
              /\ Completed(c)
        /\ UNCHANGED <<enforced, reset>>

\* newOperation: StoreOperation inserts a row under a fresh UUID into a table
\* that only GETs of the operation read, and its error is only logged; the table
\* is left out, the statement is kept as a step between mutation and answer.
StoreOperation(c) == At(c, "operation") /\ Answer(c, "ok") /\ ReadOnly

\* The response is on the wire and the goroutine ends.
Reply(c) == At(c, "reply") /\ Become(c, Idle) /\ ReadOnly

---------------------------------------------------------------------------
(* Reset and restart *)

\* Mutant: a table added to migrate() but not to this list.
ResetOrderWithoutInstances ==
    <<"compute_router_nats", "compute_routers", "container_node_pools",
      "container_clusters", "sql_databases", "sql_users", "sql_instances",
      "compute_subnetworks", "compute_firewalls", "compute_networks">>

\* The tables Reset empties, in its order (the modelled ones of its list).
ResetOrder ==
    <<"compute_router_nats", "compute_routers", "container_node_pools",
      "container_clusters", "sql_databases", "sql_users", "sql_instances",
      "compute_subnetworks", "compute_firewalls", "compute_instances",
      "compute_networks">>

ResetBegin ==
    /\ reset = 0
    /\ AdminOverlaps \/ \A c \in Clients : At(c, "idle")
    /\ enforced' = FALSE
    /\ reset' = 1
    /\ UNCHANGED <<db, req>>

ResetTable ==
    /\ reset \in 1..Len(ResetOrder)
    /\ db' = Truncate(db, ResetOrder[reset])
    /\ reset' = reset + 1
    /\ UNCHANGED <<enforced, req>>

\* The remaining tables of the list, then PRAGMA foreign_keys = ON.
ResetEnd ==
    /\ reset = Len(ResetOrder) + 1
    /\ enforced' = TRUE
    /\ reset' = 0
    /\ UNCHANGED <<db, req>>

\* Mutant: no deferred PRAGMA.
ResetFailLeavesOff ==
    /\ reset # 0
    /\ reset' = 0
    /\ UNCHANGED <<db, enforced, req>>

\* Resolving the database path (before the first table) or a DELETE fails: the
\* deferred PRAGMA still runs.
ResetFail ==
    /\ reset # 0
    /\ enforced' = TRUE
    /\ reset' = 0
    /\ UNCHANGED <<db, req>>

\* The process dies and New() opens the same --db file again: every statement
\* was committed, every goroutine is gone, enforcement is switched on.
Restart ==
    /\ req' = [c \in Clients |-> Idle]
    /\ enforced' = TRUE
    /\ reset' = 0
    /\ UNCHANGED db

---------------------------------------------------------------------------
(* Specification *)

Init ==
    /\ db = [t \in Tables |-> {}]
    /\ enforced = TRUE
    /\ req = [c \in Clients |-> Idle]
    /\ reset = 0

NetworkHandlers(c) ==
    \/ CreateNetwork(c) \/ UpdateNetwork(c) \/ DeleteNetwork(c)
    \/ CreateSubnetwork(c) \/ UpdateSubnetwork(c) \/ DeleteSubnetwork(c)
    \/ CreateFirewall(c) \/ UpdateFirewall(c) \/ DeleteFirewall(c)
    \/ CreateRouter(c) \/ UpdateRouter(c) \/ DeleteRouter(c)
    \/ CreateRouterNAT(c) \/ UpdateRouterNAT(c) \/ DeleteRouterNAT(c)
    \/ CreateInstance(c) \/ DeleteInstance(c)

ContainerHandlers(c) ==
    \/ CreateCluster(c) \/ UpdateCluster(c) \/ DeleteCluster(c)
    \/ CreateNodePool(c) \/ DeleteNodePool(c)

SQLHandlers(c) ==
    \/ CreateSQLInstance(c) \/ UpdateSQLInstance(c) \/ DeleteSQLInstance(c)
    \/ CreateSQLDatabase(c) \/ DeleteSQLDatabase(c)
    \/ CreateSQLUser(c) \/ UpdateSQLUser(c) \/ DeleteSQLUser(c)

Reads(c) ==
    \/ ResolveExistingNetwork(c) \/ ValidateNetwork(c) \/ ValidateSubnetwork(c)
    \/ ReadBack(c) \/ ReadCurrent(c) \/ ReadForDelete(c)

Inserts(c) ==
    \/ InsertNetwork(c) \/ InsertSubnetwork(c) \/ InsertFirewall(c)
    \/ InsertRouter(c) \/ InsertRouterNAT(c) \/ InsertInstance(c)
    \/ InsertCluster(c) \/ InsertNodePool(c) \/ InsertSQLInstance(c)
    \/ InsertSQLDatabase(c) \/ InsertSQLUser(c)

Writes(c) ==
    \/ WriteNetwork(c) \/ WriteSubnetwork(c) \/ WriteFirewall(c)
    \/ WriteRouter(c) \/ WriteRouterNAT(c) \/ WriteCluster(c)
    \/ WriteSQLInstance(c) \/ WriteSQLUser(c)

\* The steps of a request that is being served.
Progress(c) ==
    \/ Reads(c) \/ Inserts(c) \/ Writes(c)
    \/ CreateDefaultPool(c) \/ DeleteWithResult(c) \/ StoreOperation(c) \/ Reply(c)

ResetStep == ResetTable \/ ResetEnd \/ ResetFail

Next ==
    \/ \E c \in Clients :
        NetworkHandlers(c) \/ ContainerHandlers(c) \/ SQLHandlers(c) \/ Progress(c)
    \/ ResetBegin \/ ResetStep
    \/ Restart

Spec == Init /\ [][Next]_vars

---------------------------------------------------------------------------
(* Properties *)

PCs == {"idle", "resolve", "checkNetwork", "checkSubnetwork", "insert", "readBack",
        "defaultPool", "read", "write", "readDelete", "delete", "operation", "reply"}

AllNames == (UNION {Names[t] : t \in Tables}) \cup {NoName}

Request ==
    [pc : PCs, verb : {"none", "create", "update", "delete"},
     table : Tables \cup {NoTable}, key : AllNames \X AllNames, parent : AllNames,
     data : Data, patch : Patch, pool : BOOLEAN,
     resp : {"none", "ok", "notFound", "alreadyExists", "inUse", "internal"}]

\* A request that is being served names a row its table can hold; a statement
\* that writes a foreign-key column writes a name of the parent table; and each
\* step is one its table's handlers have.
RequestOK(r) ==
    /\ r \in Request
    /\ r.pc \notin {"idle", "reply"} => r.table \in Tables /\ r.key \in Keys(r.table)
    /\ r.pc \in {"checkNetwork", "checkSubnetwork", "insert", "write"} =>
        r.parent \in ParentNames(r.table)
    /\ r.pc = "resolve" => r.table \in NetworkChildren
    /\ r.pc = "defaultPool" => r.pool
    /\ r.pool => r.table = "container_clusters"

\* Every row fits its table and every request in flight is well formed.
TypeOK ==
    /\ db = [t \in Tables |-> db[t]]
    /\ \A t \in Tables : db[t] \subseteq Row(t)
    /\ enforced \in BOOLEAN
    /\ req = [c \in Clients |-> req[c]]
    /\ \A c \in Clients : RequestOK(req[c])
    /\ reset \in 0..(Len(ResetOrder) + 1)

\* No row is an orphan: the network of a subnetwork, firewall or router, the
\* router of a NAT, the cluster of a node pool and the instance of a database or
\* user exist, although handlers check a reference in one statement and use it
\* in a later one, and Reset empties the tables one by one with enforcement off.
ReferentialIntegrity ==
    \A t \in Tables : \A r \in db[t] : HasParent(db, t, r.parent)

\* The `network` a subnetwork, firewall or router shows is the network its
\* foreign key is bound to, whatever PATCHes raced (the "split-brain" that
\* UpdateSubnetwork re-resolves the reference to avoid). A create body with a
\* `network_name` of its own binds to that name whatever `network` says, so this
\* is about requests without one (BodyNetworkNames = {NoName}).
NoSplitBrain ==
    \A t \in NetworkChildren : \A r \in db[t] :
        ResolveSameProjectName(r.data.network) = r.parent

\* Foreign keys are enforced whenever no Reset is running, also after a Reset
\* that failed half way and after a crash in the middle of one.
EnforcementRestored == reset = 0 => enforced

\* When Reset has worked through its list of tables, no table holds a row.
ResetLeavesNothing ==
    reset > Len(ResetOrder) => \A t \in Tables : db[t] = {}

\* validateInstanceNetworkInterfaces and validateClusterNetwork look the network
\* up before the subnetwork: when both are named, the pair they accept is a
\* subnetwork of that network, and the network has not gone in between.
PlacementValidated ==
    [][\A c \in Clients :
        LET net == ResolveSameProjectName(req[c].data.network)
            sub == ResolveSameProjectName(req[c].data.subnetwork)
        IN  /\ At(c, "checkSubnetwork")
            /\ req'[c].pc \in {"insert", "write"}
            /\ net # NoName
            /\ sub # NoName
            => /\ Has(db, "compute_networks", TopLevel(net))
               /\ \E r \in db["compute_subnetworks"] :
                    r.key = TopLevel(sub) /\ r.parent = net]_vars

\* A PATCH never makes a row appear: the UPDATE that ends it does not bring back
\* a row that was deleted after the PATCH had read it.
UpdateNeverInserts ==
    [][\A c \in Clients :
        At(c, "write") /\ req'[c] # req[c] =>
            \A t \in Tables : \A r \in db'[t] : Has(db, t, r.key)]_vars

\* A row disappears only because a DELETE names it or the parent it cascades
\* from, or because Reset runs; no PATCH, insert or foreign DELETE removes it.
NoCollateralDelete ==
    [][\A t \in Tables : \A r \in db[t] :
        Has(db', t, r.key)
        \/ reset # 0
        \/ \E c \in Clients :
            /\ At(c, "delete")
            /\ \/ req[c].table = t /\ req[c].key = r.key
               \/ /\ t \in Cascading
                  /\ req[c].table = ParentTable(t)
                  /\ req[c].key = TopLevel(r.parent)]_vars

\* CreateCluster discards the error of the default node pool: when it answers,
\* the pool exists all the same, or the cluster itself is gone.
AckedClusterHasPool ==
    [][\A c \in Clients :
        At(c, "defaultPool") /\ req'[c].pc = "reply" =>
            \/ Has(db', "container_node_pools", <<req[c].key[2], DefaultPool>>)
            \/ ~Has(db', "container_clusters", req[c].key)]_vars

\* The Reset that is running has still to empty the table.
WillEmpty(t) == reset # 0 /\ \E i \in reset..Len(ResetOrder) : ResetOrder[i] = t

\* The DELETE of a cluster leaves no pool of it behind, but for a Reset that is about
\* to empty the pools anyway: "deleting a GKE cluster MUST cascade-delete all of
\* its node pools".
ClusterDeleteCascades ==
    [][\A c \in Clients :
        /\ At(c, "delete") /\ req'[c] # req[c] /\ req[c].table = "container_clusters"
        /\ Has(db, "container_clusters", req[c].key)
        /\ ~Has(db', "container_clusters", req[c].key)
        => \/ \A pool \in db'["container_node_pools"] : pool.parent # req[c].key[2]
           \/ WillEmpty("container_node_pools")]_vars
=============================================================================
