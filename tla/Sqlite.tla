------------------------------- MODULE Sqlite -------------------------------
(***************************************************************************)
(* The SQLite engine as repository/repository.go uses it: one connection   *)
(* (SetMaxOpenConns(1)), autocommitted statements, each of them atomic.    *)
(* A database value maps every table to a set of rows                      *)
(*      [key |-> primary key, parent |-> foreign-key column, data |-> JSON]*)
(* and an operator below gives the effect of one kind of statement. A key  *)
(* is a pair <<scope, name>>; the scope is the parent's name where that is *)
(* part of the primary key, and "" elsewhere.                              *)
(* The schema (which table references which, and what happens to the       *)
(* referencing rows on DELETE) is the one migrate() creates.               *)
(***************************************************************************)

NoTable == "none"
NoName == ""

\* Tables whose network_name column references compute_networks with no
\* ON DELETE clause: a referenced network cannot be deleted.
NetworkChildren == {"compute_subnetworks", "compute_firewalls", "compute_routers"}

\* Tables whose foreign key says ON DELETE CASCADE. The parent's name is part
\* of their primary key.
Cascading == {"compute_router_nats", "container_node_pools",
              "sql_databases", "sql_users"}

\* Tables with no foreign key.
Roots == {"compute_networks", "compute_instances", "container_clusters",
          "sql_instances"}

Tables == Roots \cup NetworkChildren \cup Cascading

ParentTable(t) ==
    CASE t \in NetworkChildren               -> "compute_networks"
      [] t = "compute_router_nats"           -> "compute_routers"
      [] t = "container_node_pools"          -> "container_clusters"
      [] t \in {"sql_databases", "sql_users"} -> "sql_instances"
      [] OTHER                               -> NoTable

---------------------------------------------------------------------------
\* SELECT ... WHERE key = k finds a row, and the row it finds.
Has(db, t, k) == \E r \in db[t] : r.key = k
Lookup(db, t, k) == CHOOSE r \in db[t] : r.key = k

\* The key of a row whose scope is empty; every referenced table has such keys.
TopLevel(name) == <<NoName, name>>

\* The foreign key of a row of t with parent column p is satisfied.
HasParent(db, t, p) ==
    ParentTable(t) # NoTable => Has(db, ParentTable(t), TopLevel(p))

\* Some row that is not deleted by cascade references row k of table t.
Referenced(db, t, k) ==
    \E u \in Tables \ Cascading :
        ParentTable(u) = t /\ \E r \in db[u] : TopLevel(r.parent) = k

\* INSERT of a row that violates no constraint.
Insert(db, t, row) == [db EXCEPT ![t] = @ \cup {row}]

\* UPDATE t SET data = d WHERE key = k: nothing happens when no row matches.
SetData(db, t, k, d) ==
    [db EXCEPT ![t] = {IF r.key = k THEN [r EXCEPT !.data = d] ELSE r : r \in @}]

\* UPDATE t SET network_name = p, data = d WHERE key = k.
SetParentAndData(db, t, k, p, d) ==
    [db EXCEPT ![t] = {IF r.key = k THEN [r EXCEPT !.parent = p, !.data = d]
                                    ELSE r : r \in @}]

\* Mutant of Delete: the schema without ON DELETE CASCADE.
DeleteNoCascade(db, enforced, t, k) == [db EXCEPT ![t] = {r \in @ : r.key # k}]

\* DELETE of row k of t. The cascade happens only while enforcement is on.
Delete(db, enforced, t, k) ==
    [u \in Tables |->
        {r \in db[u] :
            /\ ~(u = t /\ r.key = k)
            /\ ~(enforced /\ u \in Cascading /\ ParentTable(u) = t
                 /\ TopLevel(r.parent) = k)}]

\* DELETE FROM t.
Truncate(db, t) == [db EXCEPT ![t] = {}]
=============================================================================
