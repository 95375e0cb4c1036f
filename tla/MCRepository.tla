---------------------------- MODULE MCRepository ----------------------------
(* Small instances of Repository for TLC. *)
EXTENDS Repository, TLC

Bare(n) == [form |-> "bare", name |-> n]
Link(n) == [form |-> "link", name |-> n]
Foreign(n) == [form |-> "foreign", name |-> n]

\* Names for the tables of a run; the other tables stay empty.
With(names) ==
    [t \in Tables |-> IF t \in DOMAIN names THEN names[t]
                      ELSE IF t = "container_node_pools" THEN {"default-pool"} ELSE {}]

MCDefaultPool == "default-pool"
NoBodyNetworkName == {NoName}
NoRefs == {NoRef}

\* A firewall and a router that move between two networks, a NAT, and a SQL
\* instance on a private network with a database and a user.
NetworkRunNames ==
    With([compute_networks |-> {"n1", "n2"}] @@ [compute_firewalls |-> {"f1"}]
      @@ [compute_routers |-> {"r1"}] @@ [compute_router_nats |-> {"g1"}]
      @@ [sql_instances |-> {"q1"}] @@ [sql_databases |-> {"d1"}]
      @@ [sql_users |-> {"u1"}])
NetworkRunRefs == {Link("n1"), Foreign("n2"), NoRef}

\* A cluster with its default pool and an instance placed in a subnetwork that
\* another client moves between networks, created with or without a
\* `network_name` of its own.
PlacementRunNames ==
    With([compute_networks |-> {"n1", "n2"}] @@ [compute_subnetworks |-> {"s1"}]
      @@ [container_clusters |-> {"k1"}] @@ [compute_instances |-> {"i1"}])
PlacementRunRefs == {Bare("n1"), Link("n2")}
PlacementRunSubnetworkRefs == {Link("s1"), Foreign("s1")}
PlacementRunBodyNetworkNames == {NoName, "n1"}

\* A cluster, its pool and Reset.
ResetRunNames == With([container_clusters |-> {"k1"}])

ClientSymmetry == Permutations(Clients)
=============================================================================
