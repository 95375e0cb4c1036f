---------------------------- MODULE BindingProofs ----------------------------
(***************************************************************************)
(* The `network` that a subnetwork, firewall or router shows is the one its *)
(* foreign key is bound to, for every set of clients, names and references, *)
(* when create bodies do not carry their own network_name. No assumption    *)
(* about Reset is needed.                                                   *)
(***************************************************************************)
EXTENDS RepositoryProofs

\* A body and a foreign-key column that name the same network.
Agree(data, parent) == ResolveSameProjectName(data.network) = parent

\* NoSplitBrain of one database value.
Bound(d) == \A t \in NetworkChildren : \A r \in d[t] : Agree(r.data, r.parent)

\* A request on a network child that is about to write carries a body and a
\* binding that agree; such a request is never on the path of validated tables.
Carries(r) ==
    r.table \in NetworkChildren =>
        /\ r.pc \notin {"checkNetwork", "checkSubnetwork"}
        /\ r.pc \in {"insert", "write"} => Agree(r.data, r.parent)

Carried == \A c \in Clients : Carries(req[c])

\* NoSplitBrain needs the bindings that requests carry from statement to
\* statement to be inductive.
BindingInv == TypeOK /\ NoSplitBrain /\ Carried

\* A client's request is replaced by one whose body and binding agree.
LEMMA BecomeCarried ==
    ASSUME RequestsOK, Carried, NEW c \in Clients, NEW r, Carries(r), Become(c, r)
    PROVE  Carried'
  BY DEF RequestsOK, Carried, Become

\* An answered request carries nothing.
LEMMA AnswerCarried ==
    ASSUME RequestsOK, Carried, NEW c \in Clients, NEW code, Answer(c, code)
    PROVE  Carried'
<1> DEFINE r == [Idle EXCEPT !.pc = "reply", !.resp = code]
<1>1. r.table \notin NetworkChildren
  BY DEF Idle, NetworkChildren, NoTable
<1>2. Become(c, r)
  BY DEF Answer
<1> HIDE DEF r
<1> QED
  BY <1>1, <1>2, BecomeCarried DEF Carries

\* A request of a network child keeps its agreement while it moves to a step that
\* does not write, and a request of another table has nothing to agree on.
LEMMA GotoCarried ==
    ASSUME RequestsOK, Carried, NEW c \in Clients, NEW pc, Goto(c, pc),
           \/ req[c].table \notin NetworkChildren
           \/ pc \notin {"checkNetwork", "checkSubnetwork", "insert", "write"}
    PROVE  Carried'
<1> DEFINE r == [req[c] EXCEPT !.pc = pc]
<1>1. req[c] \in Request
  BY DEF RequestsOK, RequestOK
<1>2. r.pc = pc /\ r.table = req[c].table
  BY <1>1 DEF Request
<1>3. Become(c, r)
  BY DEF Goto
<1> HIDE DEF r
<1> QED
  BY <1>2, <1>3, BecomeCarried DEF Carries

\* So does the end of a mutation.
LEMMA CompletedCarried ==
    ASSUME RequestsOK, Carried, NEW c \in Clients, Completed(c)
    PROVE  Carried'
  BY AnswerCarried, GotoCarried DEF Completed

\* The statements that leave every binding as it was, or write an agreeing one.
LEMMA InsertBound ==
    ASSUME NEW d, Typed(d), Bound(d), NEW t \in Tables, NEW row,
           t \in NetworkChildren => Agree(row.data, row.parent)
    PROVE  Bound(Insert(d, t, row))
  BY DEF Typed, Bound, Insert, Tables

\* An UPDATE of the JSON alone is used only on tables without a network_name.
LEMMA SetDataBound ==
    ASSUME NEW d, Typed(d), Bound(d), NEW t \in Tables \ NetworkChildren, NEW k, NEW x
    PROVE  Bound(SetData(d, t, k, x))
  BY DEF Typed, Bound, SetData, Tables

\* An UPDATE of both columns writes a body and a binding that agree.
LEMMA SetParentAndDataBound ==
    ASSUME NEW d, Typed(d), Bound(d), NEW t \in Tables, NEW k, NEW x \in Data,
           NEW p \in ParentNames(t), Agree(x, p)
    PROVE  Bound(SetParentAndData(d, t, k, p, x))
<1> DEFINE e == SetParentAndData(d, t, k, p, x)
<1>1. \A u \in Tables : \A r \in e[u] :
        r \in d[u] \/ (r.data = x /\ r.parent = p)
  BY DEF SetParentAndData, Typed, Row
<1> QED
  BY <1>1 DEF Bound, Tables

\* Deleting rows binds none.
LEMMA ShrinkBound ==
    ASSUME NEW d, NEW e, Bound(d), \A t \in Tables : e[t] \subseteq d[t]
    PROVE  Bound(e)
  BY DEF Bound, Tables

(***************************************************************************)
(* Requests.                                                               *)
(***************************************************************************)

\* A create starts with an agreeing request: on a network child it has to resolve
\* the reference of its body first.
LEMMA CreatingCarries ==
    ASSUME NEW t, NEW k, NEW parent, NEW data, NEW pc,
           t \notin NetworkChildren \/ pc = "resolve"
    PROVE  /\ Carries(Creating(t, k, parent, data, pc))
           /\ \A pool : t \notin NetworkChildren =>
                Carries([Creating(t, k, parent, data, pc) EXCEPT !.pool = pool])
<1> DEFINE r == Creating(t, k, parent, data, pc)
<1>1. r.table = t /\ r.pc = pc
  BY DEF Creating, Idle
<1>2. \A pool : [r EXCEPT !.pool = pool].table = t
  BY DEF Creating, Idle
<1> HIDE DEF r
<1>3. Carries(r)
  BY <1>1 DEF Carries
<1>4. \A pool : t \notin NetworkChildren => Carries([r EXCEPT !.pool = pool])
  BY <1>2 DEF Carries
<1> QED
  BY <1>3, <1>4 DEF r

\* A handler that starts keeps the invariant on requests.
LEMMA StartCarried ==
    ASSUME RequestsOK, Carried, NEW c \in Clients, NEW r, Carries(r), Start(c, r)
    PROVE  Carried'
  BY BecomeCarried DEF Start

\* No PATCH and no DELETE starts with a write.
LEMMA StartUpdateCarried ==
    ASSUME RequestsOK, Carried, NEW c \in Clients, NEW t, NEW networks, NEW subnetworks,
           StartUpdate(c, t, networks, subnetworks) \/ StartDelete(c, t)
    PROVE  Carried'
<1>1. CASE StartUpdate(c, t, networks, subnetworks)
  <2> DEFINE r(k, p) == [Idle EXCEPT !.pc = "read", !.verb = "update", !.table = t,
                                     !.key = k, !.patch = p]
  <2>1. PICK k, p : Start(c, r(k, p))
    BY <1>1 DEF StartUpdate
  <2>2. r(k, p).pc = "read"
    BY DEF Idle
  <2> HIDE DEF r
  <2> QED
    BY <2>1, <2>2, StartCarried DEF Carries
<1>2. CASE StartDelete(c, t)
  <2> DEFINE pc == IF t \in ReadBeforeDelete THEN "readDelete" ELSE "delete"
             r(k) == [Idle EXCEPT !.verb = "delete", !.table = t, !.key = k, !.pc = pc]
  <2>1. PICK k : Start(c, r(k))
    BY <1>2 DEF StartDelete
  <2>2. r(k).pc = pc
    BY DEF Idle
  <2>3. pc \in {"readDelete", "delete"}
    OBVIOUS
  <2> HIDE DEF r, pc
  <2> QED
    BY <2>1, <2>2, <2>3, StartCarried DEF Carries
<1> QED
  BY <1>1, <1>2

\* Every handler starts with a request whose body and binding agree.
LEMMA HandlersCarried ==
    ASSUME BodyNetworkNames = {NoName}, RequestsOK, Carried, NEW c \in Clients,
           NetworkHandlers(c) \/ ContainerHandlers(c) \/ SQLHandlers(c)
    PROVE  Carried'
<1>1. CASE \E t \in {"compute_networks"} \cup Cascading : StartPlainCreate(c, t)
  BY <1>1, CreatingCarries, StartCarried DEF StartPlainCreate, Cascading, NetworkChildren
<1>2. CASE \E t \in NetworkChildren : StartNetworkChildCreate(c, t)
  BY <1>2, CreatingCarries, StartCarried DEF StartNetworkChildCreate
<1>3. CASE CreateInstance(c) \/ CreateCluster(c) \/ CreateSQLInstance(c)
  BY <1>3, CreatingCarries, StartCarried
  DEF CreateInstance, CreateCluster, CreateSQLInstance, NetworkChildren
<1>4. CASE \E t \in Tables :
             \/ StartUpdate(c, t, {Absent}, {Absent})
             \/ StartUpdate(c, t, PatchRefs, {Absent})
             \/ StartUpdate(c, t, PatchRefs, SubnetworkRefs \cup {Absent})
             \/ StartDelete(c, t)
  BY <1>4, StartUpdateCarried
<1> QED
  BY <1>1, <1>2, <1>3, <1>4
  DEF NetworkHandlers, ContainerHandlers, SQLHandlers,
      Tables, Roots, NetworkChildren, Cascading,
      CreateNetwork, CreateSubnetwork, CreateFirewall, CreateRouter, CreateRouterNAT,
      CreateNodePool, CreateSQLDatabase, CreateSQLUser,
      UpdateNetwork, UpdateSubnetwork, UpdateFirewall, UpdateRouter, UpdateRouterNAT,
      UpdateCluster, UpdateSQLInstance, UpdateSQLUser,
      DeleteNetwork, DeleteSubnetwork, DeleteFirewall, DeleteRouter, DeleteRouterNAT,
      DeleteInstance, DeleteCluster, DeleteNodePool, DeleteSQLInstance,
      DeleteSQLDatabase, DeleteSQLUser

\* Resolving sets the binding to the network the body names, and a PATCH without
\* the key keeps both; no other read touches either.
LEMMA ReadsCarried ==
    ASSUME Typed(db), RequestsOK, Carried, Bound(db), NEW c \in Clients, Reads(c)
    PROVE  Carried' /\ db' = db
<1> DEFINE q == req[c]
<1>1. q \in Request /\ RequestOK(q) /\ Carries(q)
  BY DEF RequestsOK, RequestOK, Carried
<1>2. CASE ResolveExistingNetwork(c)
  <2> DEFINE name == ResolveSameProjectName(q.data.network)
             r == [q EXCEPT !.parent = name, !.pc = Mutation(c)]
  <2>1. ASSUME Become(c, r)
        PROVE  Carried'
    <3>1. r.data = q.data /\ r.parent = name /\ r.pc = Mutation(c)
      BY <1>1 DEF Request
    <3>2. Agree(r.data, r.parent) /\ r.pc \in {"insert", "write"}
      BY <3>1 DEF Agree, Mutation
    <3> HIDE DEF r
    <3> QED
      BY <2>1, <3>2, BecomeCarried DEF Carries
  <2> QED
    BY <1>2, <2>1, AnswerCarried DEF ResolveExistingNetwork, ReadOnly
<1>3. CASE ValidateNetwork(c) \/ ValidateSubnetwork(c)
  <2>1. q.table \notin NetworkChildren
    BY <1>1, <1>3 DEF Carries, ValidateNetwork, ValidateSubnetwork, At
  <2> QED
    BY <1>3, <2>1, AnswerCarried, GotoCarried
    DEF ValidateNetwork, ValidateSubnetwork, ReadOnly
<1>4. CASE ReadBack(c)
  BY <1>4, AnswerCarried, GotoCarried, CompletedCarried DEF ReadBack, ReadOnly
<1>5. CASE ReadCurrent(c)
  <2> DEFINE row == Lookup(db, q.table, q.key)
             data == PatchMerge(row.data, q.patch)
             r == [q EXCEPT !.data = data, !.parent = row.parent, !.patch = NoPatch,
                            !.pc = AfterMerge(q)]
  <2>1. ASSUME Has(db, q.table, q.key), Become(c, r)
        PROVE  Carried'
    <3>1. /\ r.table = q.table /\ r.pc = AfterMerge(q)
          /\ r.data = data /\ r.parent = row.parent
      BY <1>1 DEF Request
    <3>2. ASSUME q.table \in NetworkChildren, AfterMerge(q) # "resolve"
          PROVE  AfterMerge(q) = "write" /\ Agree(data, row.parent)
      <4>1. q.patch.network = Absent /\ AfterMerge(q) = "write"
        BY <3>2 DEF AfterMerge, Validated, NetworkChildren
      <4>2. data.network = row.data.network
        BY <4>1 DEF PatchMerge, PatchField
      <4>3. row \in db[q.table]
        BY <2>1 DEF Has, Lookup
      <4>4. Agree(row.data, row.parent)
        BY <3>2, <4>3 DEF Bound
      <4> QED
        BY <4>1, <4>2, <4>4 DEF Agree
    <3> HIDE DEF r, data, row
    <3>3. Carries(r)
      BY <3>1, <3>2 DEF Carries
    <3> QED
      BY <2>1, <3>3, BecomeCarried
  <2> QED
    BY <1>5, <2>1, AnswerCarried DEF ReadCurrent, ReadOnly
<1>6. CASE ReadForDelete(c)
  BY <1>6, AnswerCarried, GotoCarried DEF ReadForDelete, ReadOnly
<1> QED
  BY <1>2, <1>3, <1>4, <1>5, <1>6 DEF Reads

\* A statement that writes puts an agreeing pair into the table, or writes a
\* table that has no network_name.
LEMMA ProgressBound ==
    ASSUME Typed(db), RequestsOK, Carried, Bound(db), NEW c \in Clients, Progress(c)
    PROVE  Carried' /\ Bound(db)'
<1> DEFINE q == req[c]
<1>1. q \in Request /\ RequestOK(q) /\ Carries(q)
  BY DEF RequestsOK, RequestOK, Carried
<1>2. ASSUME NEW e, Bound(e), db' = e
      PROVE  Bound(db)'
  BY <1>2 DEF Bound
<1>3. CASE Reads(c)
  BY <1>2, <1>3, ReadsCarried
<1>4. ASSUME NEW t \in Tables, InsertRow(c, t)
      PROVE  Carried' /\ Bound(db)'
  <2> DEFINE row == [key |-> q.key, parent |-> q.parent, data |-> q.data]
  <2>1. Carried'
    BY <1>4, AnswerCarried, GotoCarried DEF InsertRow
  <2>2. t \in NetworkChildren => Agree(row.data, row.parent)
    BY <1>1, <1>4 DEF InsertRow, At, Carries
  <2> HIDE DEF row
  <2>3. Bound(Insert(db, t, row))
    BY <2>2, InsertBound
  <2>4. db' = db \/ db' = Insert(db, t, row)
    BY <1>4 DEF InsertRow, row
  <2> QED
    BY <1>2, <2>1, <2>3, <2>4
<1>5. CASE Inserts(c)
  BY <1>4, <1>5
  DEF Inserts, Tables, Roots, NetworkChildren, Cascading, InsertNetwork,
      InsertSubnetwork, InsertFirewall, InsertRouter, InsertRouterNAT, InsertInstance,
      InsertCluster, InsertNodePool, InsertSQLInstance, InsertSQLDatabase, InsertSQLUser
<1>6. ASSUME NEW t \in Tables \ NetworkChildren, WriteData(c, t)
      PROVE  Carried' /\ Bound(db)'
  BY <1>2, <1>6, CompletedCarried, SetDataBound DEF WriteData
<1>7. ASSUME NEW t \in NetworkChildren, WriteNetworkChild(c, t)
      PROVE  Carried' /\ Bound(db)'
  <2>1. Carried'
    BY <1>7, AnswerCarried, CompletedCarried DEF WriteNetworkChild
  <2>2. /\ t \in Tables /\ q.data \in Data /\ q.parent \in ParentNames(t)
        /\ Agree(q.data, q.parent)
    BY <1>1, <1>7 DEF WriteNetworkChild, At, Carries, RequestOK, Request, Tables
  <2>3. Bound(SetParentAndData(db, t, q.key, q.parent, q.data))
    BY <2>2, SetParentAndDataBound
  <2>4. db' = db \/ db' = SetParentAndData(db, t, q.key, q.parent, q.data)
    BY <1>7 DEF WriteNetworkChild
  <2> QED
    BY <1>2, <2>1, <2>3, <2>4
<1>8. CASE Writes(c)
  BY <1>6, <1>7, <1>8
  DEF Writes, Tables, Roots, NetworkChildren, Cascading, WriteNetwork,
      WriteSubnetwork, WriteFirewall, WriteRouter, WriteRouterNAT, WriteCluster,
      WriteSQLInstance, WriteSQLUser
<1>9. CASE CreateDefaultPool(c)
  <2> DEFINE t == "container_node_pools"
             row == [key |-> <<q.key[2], DefaultPool>>, parent |-> q.key[2],
                     data |-> NoData]
  <2>1. t \in Tables /\ t \notin NetworkChildren
    BY DEF Tables, Cascading, NetworkChildren
  <2>2. Bound(Insert(db, t, row))
    BY <2>1, InsertBound
  <2>3. Carried' /\ (db' = db \/ db' = Insert(db, t, row))
    BY <1>9, AnswerCarried DEF CreateDefaultPool
  <2> QED
    BY <1>2, <2>2, <2>3
<1>10. CASE DeleteWithResult(c)
  <2>1. Carried'
    BY <1>10, AnswerCarried, CompletedCarried DEF DeleteWithResult
  <2>2. \A t \in Tables : db'[t] \subseteq db[t]
    BY <1>10 DEF DeleteWithResult, Delete
  <2>3. Bound(db')
    BY <2>2, ShrinkBound
  <2> QED
    BY <1>2, <2>1, <2>3
<1>11. CASE StoreOperation(c)
  BY <1>2, <1>11, AnswerCarried DEF StoreOperation, ReadOnly
<1>12. CASE Reply(c)
  <2>1. Carries(Idle)
    BY DEF Carries, Idle, NetworkChildren, NoTable
  <2> QED
    BY <1>2, <1>12, <2>1, BecomeCarried DEF Reply, ReadOnly
<1> QED
  BY <1>3, <1>5, <1>8, <1>9, <1>10, <1>11, <1>12 DEF Progress

(***************************************************************************)
(* The theorem.                                                            *)
(***************************************************************************)

\* Every step keeps the bindings of rows and requests in agreement.
LEMMA BindingNext ==
    ASSUME BodyNetworkNames = {NoName}, BindingInv, [Next]_vars
    PROVE  BindingInv'
<1>1. TypeOK'
  BY TypeNext DEF BindingInv
<1>2. Typed(db) /\ RequestsOK /\ Bound(db) /\ Carried
  BY DEF BindingInv, TypeOK, Typed, RequestsOK, NoSplitBrain, Bound, Agree
<1>3. SUFFICES Bound(db)' /\ Carried'
  BY <1>1 DEF BindingInv, NoSplitBrain, Bound, Agree
<1>4. CASE \E c \in Clients :
             NetworkHandlers(c) \/ ContainerHandlers(c) \/ SQLHandlers(c)
  <2>1. Carried' /\ ReadOnly
    BY <1>2, <1>4, HandlersCarried, HandlersOK DEF Started
  <2> QED
    BY <1>2, <2>1 DEF ReadOnly, Bound
<1>5. CASE \E c \in Clients : Progress(c)
  BY <1>2, <1>5, ProgressBound
<1>6. CASE ResetTable
  <2>1. \A t \in Tables : db'[t] \subseteq db[t]
    BY <1>2, <1>6 DEF ResetTable, Truncate, Typed
  <2>2. Bound(db')
    BY <1>2, <2>1, ShrinkBound
  <2> QED
    BY <1>2, <1>6, <2>2 DEF ResetTable, Bound, Carried
<1>7. CASE ResetBegin \/ ResetEnd \/ ResetFail \/ UNCHANGED vars
  <2>1. db' = db /\ req' = req
    BY <1>7 DEF ResetBegin, ResetEnd, ResetFail, vars
  <2> QED
    BY <1>2, <2>1 DEF Bound, Carried
<1>8. CASE Restart
  <2>1. db' = db /\ req' = [c \in Clients |-> Idle]
    BY <1>8 DEF Restart
  <2>2. Carries(Idle)
    BY DEF Carries, Idle, NetworkChildren, NoTable
  <2> QED
    BY <1>2, <2>1, <2>2 DEF Bound, Carried
<1> QED
  BY <1>4, <1>5, <1>6, <1>7, <1>8 DEF Next, ResetStep

\* Whatever creates and PATCHes race, the network a subnetwork, firewall or
\* router shows is the network its foreign key is bound to, provided no create
\* body carries a network_name of its own (the handler would take it as it is).
THEOREM BindingsAgree ==
    ASSUME BodyNetworkNames = {NoName} PROVE Spec => []NoSplitBrain
<1>1. Init => BindingInv
  <2> SUFFICES ASSUME Init PROVE BindingInv
    OBVIOUS
  <2>1. TypeOK
    BY TypeInit
  <2>2. db = [t \in Tables |-> {}] /\ req = [c \in Clients |-> Idle]
    BY DEF Init
  <2>3. NoSplitBrain
    BY <2>2 DEF NoSplitBrain, Tables
  <2>4. Carried
    BY <2>2 DEF Carried, Carries, Idle, NetworkChildren, NoTable
  <2> QED
    BY <2>1, <2>3, <2>4 DEF BindingInv
<1>2. BindingInv => NoSplitBrain
  BY DEF BindingInv
<1> QED
  BY <1>1, <1>2, BindingNext, PTL DEF Spec
=============================================================================
