------------------------------- MODULE Admin -------------------------------
(***************************************************************************)
(* The admin endpoints /mock/reset, /mock/snapshot and /mock/restore over  *)
(* everything the process keeps: the SQLite file and its .snapshot copy,   *)
(* and the maps of the Application that no table backs (finished DNS       *)
(* changes, Service Networking connections, IAM policies).                 *)
(*                                                                         *)
(* An admin handler changes the file first and the maps one after the      *)
(* other; other requests run between its steps. One admin request runs at  *)
(* a time. Tables are modelled elsewhere: here the file is the set of its  *)
(* rows. A connection is a Go map held by reference: `shared` says which   *)
(* live connections are the same map as the snapshot's entry.              *)
(***************************************************************************)
CONSTANTS
    Rows,        \* resources kept in tables
    Changes,     \* ids of DNS changes
    Networks,    \* keys of Service Networking connections
    Ranges,      \* contents of a connection (reservedPeeringRanges)
    Policies,    \* IAM policies of service accounts and KMS keys
    None         \* no file, nil map, no entry

VARIABLES
    db,           \* rows of the database file
    open,         \* r.db is a usable handle
    file,         \* rows of <path>.snapshot, or None
    dns,          \* dnsChanges
    dnsSnapshot,  \* dnsChangesSnapshot, or None
    sn,           \* snConnections
    snSnapshot,   \* snConnectionsSnapshot, or None
    shared,       \* networks whose live and snapshot connection are one map
    iam,          \* kmsIamStor and saIamStor
    admin,        \* where the admin request in flight is
    ghost         \* what the properties remember; the code has none of it

vars == <<db, open, file, dns, dnsSnapshot, sn, snSnapshot, shared, iam, admin, ghost>>
caches == <<dns, dnsSnapshot, sn, snSnapshot, shared, iam>>

ASSUME NoneAssumption ==
    /\ None \notin Ranges /\ None \notin [Networks -> Ranges \cup {None}]
    /\ \A S \in (SUBSET Rows) \cup (SUBSET Changes) : S # None

---------------------------------------------------------------------------
(* What a client can see, and what the properties remember *)

Empty == [n \in Networks |-> None]
Entries(m) == {n \in Networks : m[n] # None}

Visible ==
    {<<"row", r>> : r \in db} \cup {<<"change", k>> : k \in dns}
        \cup {<<"connection", n>> : n \in Entries(sn)}
        \cup {<<"policy", p>> : p \in iam}

\* calm: no other request since the admin request began; start: what was there
\* when a Reset began, and erased: what a completed Reset removed, until created
\* again; saved: what a completed Snapshot found; kept: the process is still
\* the one that took it; patched: its connections changed in place since.
Nothing == [calm |-> TRUE, start |-> {}, erased |-> {}, saved |-> None, kept |-> FALSE,
             patched |-> {}]

Noted == [ghost EXCEPT !.calm = admin = "idle"]
Disturbed == ghost' = Noted
Created(item) == ghost' = [Noted EXCEPT !.start = @ \ {item}, !.erased = @ \ {item}]

---------------------------------------------------------------------------
(* Other requests *)

\* Any handler that inserts, or deletes, a row; a closed handle is an error.
CreateRow ==
    \E r \in Rows \ db :
        open /\ db' = db \cup {r} /\ Created(<<"row", r>>)
             /\ UNCHANGED <<open, file, caches, admin>>

DeleteRow ==
    \E r \in db :
        open /\ db' = db \ {r} /\ Disturbed /\ UNCHANGED <<open, file, caches, admin>>

\* recordDNSChange, the end of CreateDNSChange; an id is the time in nanoseconds.
RecordDNSChange ==
    \E k \in Changes \ dns :
        /\ dnsSnapshot # None => k \notin dnsSnapshot
        /\ dns' = dns \cup {k}
        /\ Created(<<"change", k>>)
        /\ UNCHANGED <<db, open, file, dnsSnapshot, sn, snSnapshot, shared, iam, admin>>

\* app.snConnections[key] = body, for a newly decoded body.
PutConnection(n, v) ==
    /\ sn' = [sn EXCEPT ![n] = v]
    /\ shared' = shared \ {n}
    /\ Created(<<"connection", n>>)
    /\ UNCHANGED snSnapshot

CreateServiceNetworkingConnection ==
    /\ \E n \in Networks, v \in Ranges : PutConnection(n, v)
    /\ UNCHANGED <<db, open, file, dns, dnsSnapshot, iam, admin>>

\* The fields of the body are written into the existing map, which a snapshot
\* may hold too; without an entry the PATCH creates one.
PatchServiceNetworkingConnection ==
    /\ \E n \in Networks, v \in Ranges :
        \/ /\ sn[n] # None
           /\ sn' = [sn EXCEPT ![n] = v]
           /\ snSnapshot' = IF n \in shared THEN [snSnapshot EXCEPT ![n] = v] ELSE snSnapshot
           /\ ghost' = [Noted EXCEPT !.patched = @ \cup ({n} \cap shared)]
           /\ UNCHANGED shared
        \/ sn[n] = None /\ PutConnection(n, v)
    /\ UNCHANGED <<db, open, file, dns, dnsSnapshot, iam, admin>>

DeleteServiceNetworkingConnection ==
    /\ \E n \in Networks : sn' = [sn EXCEPT ![n] = None] /\ shared' = shared \ {n}
    /\ Disturbed
    /\ UNCHANGED <<db, open, file, dns, dnsSnapshot, snSnapshot, iam, admin>>

\* SetServiceAccountIamPolicy and KMSSetIamPolicy: the resource need not exist.
SetIamPolicy ==
    \E p \in Policies :
        /\ iam' = iam \cup {p}
        /\ Created(<<"policy", p>>)
        /\ UNCHANGED <<db, open, file, dns, dnsSnapshot, sn, snSnapshot, shared, admin>>

---------------------------------------------------------------------------
(* /mock/reset *)

Begin(pc) ==
    /\ admin = "idle"
    /\ admin' = pc
    /\ ghost' = [ghost EXCEPT !.calm = TRUE, !.start = IF pc = "resetRepo" THEN Visible ELSE {}]
    /\ UNCHANGED <<db, open, file, caches>>

\* Mutant: the tables are emptied, the baseline stays.
ResetRepoKeepsBaseline ==
    /\ admin = "resetRepo"
    /\ open
    /\ db' = {} /\ admin' = "resetDns"
    /\ UNCHANGED <<open, file, caches, ghost>>

\* repo.Reset: the tables, then the snapshot file.
ResetRepo ==
    /\ admin = "resetRepo"
    /\ open
    /\ db' = {} /\ file' = None /\ admin' = "resetDns"
    /\ UNCHANGED <<open, caches, ghost>>

\* repo.Reset fails at some table, at the file, or at once on a closed handle.
\* Here and below, an error is answered 500 before any map is touched.
ResetRepoFails ==
    /\ admin = "resetRepo"
    /\ IF open THEN db' \in SUBSET db ELSE UNCHANGED db
    /\ admin' = "idle"
    /\ ghost' = [ghost EXCEPT !.start = {}]
    /\ UNCHANGED <<open, file, caches>>

ResetDNSChanges ==
    /\ admin = "resetDns"
    /\ dns' = {} /\ dnsSnapshot' = None /\ admin' = "resetSn"
    /\ UNCHANGED <<db, open, file, sn, snSnapshot, shared, iam, ghost>>

ResetServiceNetworkingConnections ==
    /\ admin = "resetSn"
    /\ sn' = Empty /\ snSnapshot' = None /\ shared' = {} /\ admin' = "resetIam"
    /\ UNCHANGED <<db, open, file, dns, dnsSnapshot, iam, ghost>>

\* resetKMSIamStore and resetSAIamStore; the answer is ok.
ResetIamStores ==
    /\ admin = "resetIam"
    /\ iam' = {} /\ admin' = "idle"
    /\ ghost' = [ghost EXCEPT !.erased = @ \cup ghost.start, !.start = {}]
    /\ UNCHANGED <<db, open, file, dns, dnsSnapshot, sn, snSnapshot, shared>>

---------------------------------------------------------------------------
(* /mock/snapshot *)

\* repo.Snapshot: the stale file is removed, VACUUM INTO writes a new one.
SnapshotRepo ==
    /\ admin = "snapshotRepo"
    /\ open
    /\ file' = db /\ admin' = "snapshotDns"
    /\ ghost' = [ghost EXCEPT !.saved = None]
    /\ UNCHANGED <<db, open, caches>>

\* It fails before the stale file is removed, or after.
SnapshotRepoFails ==
    /\ admin = "snapshotRepo"
    /\ \/ UNCHANGED <<file, ghost>>
       \/ open /\ file' = None /\ ghost' = [ghost EXCEPT !.saved = None]
    /\ admin' = "idle"
    /\ UNCHANGED <<db, open, caches>>

\* The outer map is copied; change records are never written to again.
SnapshotDNSChanges ==
    /\ admin = "snapshotDns"
    /\ dnsSnapshot' = dns /\ admin' = "snapshotSn"
    /\ UNCHANGED <<db, open, file, dns, sn, snSnapshot, shared, iam, ghost>>

\* The outer map is copied, its values are the same maps; the answer is ok.
SnapshotServiceNetworkingConnections ==
    /\ admin = "snapshotSn"
    /\ snSnapshot' = sn /\ shared' = Entries(sn) /\ admin' = "idle"
    /\ ghost' = IF ghost.calm
                  THEN [ghost EXCEPT !.saved = [db |-> db, dns |-> dns, sn |-> sn],
                                     !.kept = TRUE, !.patched = {}]
                  ELSE ghost
    /\ UNCHANGED <<db, open, file, dns, dnsSnapshot, sn, iam>>

---------------------------------------------------------------------------
(* /mock/restore *)

\* repo.Restore up to Close. (Without a file it is ErrNotFound.)
RestoreClose ==
    /\ admin = "restoreRepo"
    /\ open /\ file # None
    /\ open' = FALSE /\ admin' = "restoreCopy"
    /\ UNCHANGED <<db, file, caches, ghost>>

\* The copy is renamed into place and opened again.
RestoreCopy ==
    /\ admin = "restoreCopy"
    /\ db' = file /\ open' = TRUE /\ admin' = "restoreDns"
    /\ UNCHANGED <<file, caches, ghost>>

\* No file or no handle; the copy fails and the old file is opened again; or the
\* new file cannot be set up, which leaves a closed handle.
RestoreFails ==
    /\ \/ admin = "restoreRepo" /\ UNCHANGED <<db, open>>
       \/ admin = "restoreCopy" /\ open' = TRUE /\ UNCHANGED db
       \/ admin = "restoreCopy" /\ db' = file /\ UNCHANGED open
    /\ admin' = "idle"
    /\ UNCHANGED <<file, caches, ghost>>

\* Mutant: the saved entries are put back, newer ones stay.
RestoreDNSChangesMerged ==
    /\ admin = "restoreDns"
    /\ dns' = IF dnsSnapshot = None THEN dns ELSE dns \cup dnsSnapshot
    /\ admin' = "restoreSn"
    /\ UNCHANGED <<db, open, file, dnsSnapshot, sn, snSnapshot, shared, iam, ghost>>

\* A process that took no snapshot keeps its map.
RestoreDNSChanges ==
    /\ admin = "restoreDns"
    /\ dns' = IF dnsSnapshot = None THEN dns ELSE dnsSnapshot
    /\ admin' = "restoreSn"
    /\ UNCHANGED <<db, open, file, dnsSnapshot, sn, snSnapshot, shared, iam, ghost>>

\* Mutant: the snapshot is taken over without looking whether there is one.
RestoreServiceNetworkingConnectionsAlways ==
    /\ admin = "restoreSn"
    /\ sn' = snSnapshot /\ admin' = "restored"
    /\ UNCHANGED <<db, open, file, dns, dnsSnapshot, snSnapshot, shared, iam, ghost>>

RestoreServiceNetworkingConnections ==
    /\ admin = "restoreSn"
    /\ IF snSnapshot = None THEN UNCHANGED <<sn, shared>>
         ELSE sn' = snSnapshot /\ shared' = Entries(snSnapshot)
    /\ admin' = "restored"
    /\ UNCHANGED <<db, open, file, dns, dnsSnapshot, snSnapshot, iam, ghost>>

AnswerRestore ==
    /\ admin = "restored" /\ admin' = "idle"
    /\ UNCHANGED <<db, open, file, caches, ghost>>

---------------------------------------------------------------------------
(* Specification *)

\* The process dies at any step and New opens the same files.
Restart ==
    /\ open' = TRUE /\ admin' = "idle"
    /\ dns' = {} /\ dnsSnapshot' = None
    /\ sn' = Empty /\ snSnapshot' = None /\ shared' = {}
    /\ iam' = {}
    /\ ghost' = [ghost EXCEPT !.start = {}, !.kept = FALSE, !.patched = {}]
    /\ UNCHANGED <<db, file>>

Init ==
    /\ db = {} /\ open = TRUE /\ file = None
    /\ dns = {} /\ dnsSnapshot = None
    /\ sn = Empty /\ snSnapshot = None /\ shared = {}
    /\ iam = {}
    /\ admin = "idle"
    /\ ghost = Nothing

Next ==
    \/ CreateRow \/ DeleteRow \/ RecordDNSChange
    \/ CreateServiceNetworkingConnection \/ PatchServiceNetworkingConnection
    \/ DeleteServiceNetworkingConnection \/ SetIamPolicy
    \/ \E pc \in {"resetRepo", "snapshotRepo", "restoreRepo"} : Begin(pc)
    \/ ResetRepo \/ ResetRepoFails
    \/ ResetDNSChanges \/ ResetServiceNetworkingConnections \/ ResetIamStores
    \/ SnapshotRepo \/ SnapshotRepoFails
    \/ SnapshotDNSChanges \/ SnapshotServiceNetworkingConnections
    \/ RestoreClose \/ RestoreCopy \/ RestoreFails
    \/ RestoreDNSChanges \/ RestoreServiceNetworkingConnections \/ AnswerRestore
    \/ Restart

Spec == Init /\ [][Next]_vars

---------------------------------------------------------------------------
(* Properties *)

Connections == [Networks -> Ranges \cup {None}]

\* Files, maps and the admin request are well formed, and a connection shared
\* with the snapshot reads the same through both.
TypeOK ==
    /\ db \subseteq Rows /\ open \in BOOLEAN /\ file \in (SUBSET Rows) \cup {None}
    /\ dns \subseteq Changes /\ dnsSnapshot \in (SUBSET Changes) \cup {None}
    /\ sn \in Connections /\ snSnapshot \in Connections \cup {None}
    /\ shared \subseteq Entries(sn)
    /\ \A n \in shared : snSnapshot # None /\ snSnapshot[n] = sn[n]
    /\ iam \subseteq Policies
    /\ admin \in {"idle", "resetRepo", "resetDns", "resetSn", "resetIam", "snapshotRepo",
                  "snapshotDns", "snapshotSn", "restoreRepo", "restoreCopy", "restoreDns",
                  "restoreSn", "restored"}

\* What a Reset that was answered ok erased stays gone: no later Restore, failed
\* admin request or restart of the process makes a row, a DNS change, a
\* connection or a policy of before the Reset visible again.
NothingResurrected == ghost.erased \cap Visible = {}

\* A Restore that is answered ok, with no other request running meanwhile, puts
\* back what the last completed Snapshot found: the rows always, the DNS changes
\* and connections when the process has not restarted since. A connection that
\* was patched in place since the Snapshot exists again but keeps the patch.
RestoreFaithful ==
    admin = "restored" /\ ghost.calm /\ ghost.saved # None =>
        /\ db = ghost.saved.db
        /\ ghost.kept =>
            /\ dns = ghost.saved.dns
            /\ \A n \in Networks :
                \/ sn[n] = ghost.saved.sn[n]
                \/ n \in ghost.patched /\ None \notin {sn[n], ghost.saved.sn[n]}
=============================================================================
