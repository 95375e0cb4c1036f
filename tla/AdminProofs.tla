---------------------------- MODULE AdminProofs ----------------------------
(***************************************************************************)
(* What Reset, Snapshot and Restore of Admin promise, for any rows,        *)
(* changes, connections and policies.                                      *)
(***************************************************************************)
EXTENDS Admin, TLAPS

---------------------------------------------------------------------------
(* Types *)

\* A Restore that has closed the handle, or gone further, has a file.
HasFile == admin \in {"restoreCopy", "restoreDns", "restoreSn", "restored"} => file # None

Typed == TypeOK /\ HasFile

LEMMA OthersTyped ==
    ASSUME Typed,
           \/ CreateRow \/ DeleteRow \/ RecordDNSChange \/ SetIamPolicy
           \/ CreateServiceNetworkingConnection \/ PatchServiceNetworkingConnection
           \/ DeleteServiceNetworkingConnection
    PROVE  Typed'
<1> USE DEF Typed, TypeOK, HasFile, caches
<1>1. CASE CreateRow \/ DeleteRow \/ RecordDNSChange \/ SetIamPolicy
  BY <1>1 DEF CreateRow, DeleteRow, RecordDNSChange, SetIamPolicy
<1>2. CASE CreateServiceNetworkingConnection
  BY <1>2, NoneAssumption
  DEF CreateServiceNetworkingConnection, PutConnection, Connections, Entries
<1>3. CASE PatchServiceNetworkingConnection
  <2>1. PICK n \in Networks, v \in Ranges :
            \/ /\ sn[n] # None
               /\ sn' = [sn EXCEPT ![n] = v]
               /\ snSnapshot' = IF n \in shared THEN [snSnapshot EXCEPT ![n] = v]
                                                ELSE snSnapshot
               /\ UNCHANGED shared
            \/ sn[n] = None /\ PutConnection(n, v)
    BY <1>3 DEF PatchServiceNetworkingConnection
  <2>2. CASE PutConnection(n, v)
    BY <1>3, <2>2, NoneAssumption
    DEF PatchServiceNetworkingConnection, PutConnection, Connections, Entries
  <2>3. CASE /\ sn[n] # None
             /\ sn' = [sn EXCEPT ![n] = v]
             /\ snSnapshot' = IF n \in shared THEN [snSnapshot EXCEPT ![n] = v]
                                              ELSE snSnapshot
             /\ UNCHANGED shared
    <3>1. sn' \in Connections /\ Entries(sn') = Entries(sn)
      BY <2>3, NoneAssumption DEF Connections, Entries
    <3>2. CASE n \in shared
      <4>1. snSnapshot \in Connections /\ snSnapshot' = [snSnapshot EXCEPT ![n] = v]
        BY <2>3, <3>2
      <4>2. snSnapshot' \in Connections /\ \A m \in shared' : snSnapshot'[m] = sn'[m]
        BY <2>3, <4>1 DEF Connections, Entries
      <4>3. snSnapshot' # None
        BY <4>2, NoneAssumption DEF Connections
      <4> QED
        BY <1>3, <2>3, <3>1, <4>2, <4>3 DEF PatchServiceNetworkingConnection
    <3>3. CASE n \notin shared
      BY <1>3, <2>3, <3>1, <3>3 DEF PatchServiceNetworkingConnection, Connections, Entries
    <3> QED
      BY <3>2, <3>3
  <2> QED
    BY <2>1, <2>2, <2>3
<1>4. CASE DeleteServiceNetworkingConnection
  BY <1>4 DEF DeleteServiceNetworkingConnection, Connections, Entries
<1> QED
  BY <1>1, <1>2, <1>3, <1>4

LEMMA ResetTyped ==
    ASSUME Typed,
           \/ \E pc \in {"resetRepo", "snapshotRepo", "restoreRepo"} : Begin(pc)
           \/ ResetRepo \/ ResetRepoFails
           \/ ResetDNSChanges \/ ResetServiceNetworkingConnections \/ ResetIamStores
    PROVE  Typed'
<1> USE DEF Typed, TypeOK, HasFile, caches
<1>1. CASE \E pc \in {"resetRepo", "snapshotRepo", "restoreRepo"} : Begin(pc)
  BY <1>1 DEF Begin
<1>2. CASE ResetRepo \/ ResetRepoFails
  BY <1>2 DEF ResetRepo, ResetRepoFails
<1>3. CASE ResetDNSChanges \/ ResetIamStores
  BY <1>3 DEF ResetDNSChanges, ResetIamStores
<1>4. CASE ResetServiceNetworkingConnections
  BY <1>4 DEF ResetServiceNetworkingConnections, Empty, Connections, Entries
<1> QED
  BY <1>1, <1>2, <1>3, <1>4

LEMMA SnapshotTyped ==
    ASSUME Typed,
           \/ SnapshotRepo \/ SnapshotRepoFails
           \/ SnapshotDNSChanges \/ SnapshotServiceNetworkingConnections
           \/ RestoreClose \/ RestoreCopy \/ RestoreFails
           \/ RestoreDNSChanges \/ RestoreServiceNetworkingConnections \/ AnswerRestore
    PROVE  Typed'
<1> USE DEF Typed, TypeOK, HasFile, caches
<1>1. CASE SnapshotRepo \/ SnapshotRepoFails
  BY <1>1 DEF SnapshotRepo, SnapshotRepoFails
<1>2. CASE SnapshotDNSChanges
  BY <1>2 DEF SnapshotDNSChanges
<1>3. CASE SnapshotServiceNetworkingConnections
  BY <1>3, NoneAssumption DEF SnapshotServiceNetworkingConnections, Connections, Entries
<1>4. CASE RestoreClose \/ RestoreCopy \/ RestoreFails
  BY <1>4 DEF RestoreClose, RestoreCopy, RestoreFails
<1>5. CASE RestoreDNSChanges \/ AnswerRestore
  BY <1>5 DEF RestoreDNSChanges, AnswerRestore
<1>6. CASE RestoreServiceNetworkingConnections
  BY <1>6 DEF RestoreServiceNetworkingConnections, Connections, Entries
<1> QED
  BY <1>1, <1>2, <1>3, <1>4, <1>5, <1>6

LEMMA TypedStep == Typed /\ [Next]_vars => Typed'
<1> SUFFICES ASSUME Typed, [Next]_vars PROVE Typed'
  OBVIOUS
<1>1. CASE Restart
  BY <1>1 DEF Restart, Empty, Typed, TypeOK, HasFile, Connections, Entries
<1>2. CASE UNCHANGED vars
  BY <1>2 DEF vars, Typed, TypeOK, HasFile
<1> QED
  BY <1>1, <1>2, OthersTyped, ResetTyped, SnapshotTyped DEF Next

LEMMA InitTyped == Init => Typed
  BY DEF Init, Empty, Typed, TypeOK, HasFile, Connections, Entries

\* Files, maps and the admin request are always well formed, and a connection that a
\* snapshot shares with the live map reads the same through both.
THEOREM TypeCorrect == Spec => []TypeOK
<1>1. Typed => TypeOK
  BY DEF Typed
<1> QED
  BY <1>1, InitTyped, TypedStep, PTL DEF Spec

---------------------------------------------------------------------------
(* What the properties remember *)

GhostTyped ==
    ghost = [calm |-> ghost.calm, start |-> ghost.start, erased |-> ghost.erased,
             saved |-> ghost.saved, kept |-> ghost.kept, patched |-> ghost.patched]

\* What another request does to it.
LEMMA OthersNote ==
    ASSUME GhostTyped,
           Disturbed \/ (\E item : Created(item))
              \/ \E n : ghost' = [Noted EXCEPT !.patched = @ \cup n]
    PROVE  /\ GhostTyped' /\ ghost'.calm = (admin = "idle")
           /\ ghost'.start \subseteq ghost.start /\ ghost'.erased \subseteq ghost.erased
           /\ ghost'.saved = ghost.saved /\ ghost'.kept = ghost.kept
           /\ ghost.patched \subseteq ghost'.patched
<1>1. Noted = [calm |-> admin = "idle", start |-> ghost.start, erased |-> ghost.erased,
               saved |-> ghost.saved, kept |-> ghost.kept, patched |-> ghost.patched]
  <2>1. ASSUME NEW b
        PROVE  [ghost EXCEPT !.calm = b]
                  = [calm |-> b, start |-> ghost.start, erased |-> ghost.erased,
                     saved |-> ghost.saved, kept |-> ghost.kept, patched |-> ghost.patched]
    BY DEF GhostTyped
  <2> QED
    BY <2>1 DEF Noted
<1> HIDE DEF Noted
<1>2. CASE Disturbed
  BY <1>1, <1>2 DEF GhostTyped, Disturbed
<1>3. ASSUME NEW item, Created(item)
      PROVE  /\ GhostTyped' /\ ghost'.calm = (admin = "idle")
             /\ ghost'.start \subseteq ghost.start /\ ghost'.erased \subseteq ghost.erased
             /\ ghost'.saved = ghost.saved /\ ghost'.kept = ghost.kept
             /\ ghost.patched \subseteq ghost'.patched
  BY <1>1, <1>3 DEF GhostTyped, Created
<1>4. ASSUME NEW n, ghost' = [Noted EXCEPT !.patched = @ \cup n]
      PROVE  /\ GhostTyped' /\ ghost'.calm = (admin = "idle")
             /\ ghost'.start \subseteq ghost.start /\ ghost'.erased \subseteq ghost.erased
             /\ ghost'.saved = ghost.saved /\ ghost'.kept = ghost.kept
             /\ ghost.patched \subseteq ghost'.patched
  BY <1>1, <1>4 DEF GhostTyped
<1> QED
  BY <1>2, <1>3, <1>4

LEMMA CreatedNotes ==
    ASSUME GhostTyped, NEW item, Created(item)
    PROVE  item \notin ghost'.start /\ item \notin ghost'.erased
  BY DEF GhostTyped, Created, Noted

---------------------------------------------------------------------------
(* What a Reset erased *)

\* Nothing of S is kept, where it is visible or where a Restore would find it.
RowsGone(S) ==
    \A r : <<"row", r>> \in S => r \notin db /\ (file # None => r \notin file)
ChangesGone(S) ==
    \A k : <<"change", k>> \in S =>
        k \notin dns /\ (dnsSnapshot # None => k \notin dnsSnapshot)
ConnectionsGone(S) ==
    \A n \in Networks : <<"connection", n>> \in S =>
        sn[n] = None /\ (snSnapshot # None => snSnapshot[n] = None)
PoliciesGone(S) == \A p : <<"policy", p>> \in S => p \notin iam

\* What completed Resets erased is gone; what the Reset in flight is to erase is gone
\* from the parts it has done.
Gone ==
    /\ RowsGone(ghost.erased) /\ ChangesGone(ghost.erased)
    /\ ConnectionsGone(ghost.erased) /\ PoliciesGone(ghost.erased)
    /\ admin \in {"resetDns", "resetSn", "resetIam"} => RowsGone(ghost.start)
    /\ admin \in {"resetSn", "resetIam"} => ChangesGone(ghost.start)
    /\ admin = "resetIam" => ConnectionsGone(ghost.start)

\* Other requests: what they create is no longer counted as erased.
LEMMA OthersGone ==
    ASSUME Typed, GhostTyped, Gone,
           \/ CreateRow \/ DeleteRow \/ RecordDNSChange \/ SetIamPolicy
           \/ CreateServiceNetworkingConnection \/ PatchServiceNetworkingConnection
           \/ DeleteServiceNetworkingConnection
    PROVE  GhostTyped' /\ Gone'
<1> USE DEF Gone, RowsGone, ChangesGone, ConnectionsGone, PoliciesGone, caches
<1>1. CASE CreateRow
  <2>1. PICK r \in Rows : db' = db \cup {r} /\ Created(<<"row", r>>)
    BY <1>1 DEF CreateRow
  <2>2. UNCHANGED <<file, dns, dnsSnapshot, sn, snSnapshot, iam, admin>>
    BY <1>1 DEF CreateRow
  <2> QED
    BY <2>1, <2>2, OthersNote, CreatedNotes
<1>2. CASE DeleteRow
  BY <1>2, OthersNote DEF DeleteRow
<1>3. CASE RecordDNSChange
  <2>1. PICK k \in Changes : dns' = dns \cup {k} /\ Created(<<"change", k>>)
                            /\ (dnsSnapshot # None => k \notin dnsSnapshot)
    BY <1>3 DEF RecordDNSChange
  <2>2. UNCHANGED <<db, file, dnsSnapshot, sn, snSnapshot, iam, admin>>
    BY <1>3 DEF RecordDNSChange
  <2> QED
    BY <2>1, <2>2, OthersNote, CreatedNotes
<1>4. CASE SetIamPolicy
  <2>1. PICK p \in Policies : iam' = iam \cup {p} /\ Created(<<"policy", p>>)
    BY <1>4 DEF SetIamPolicy
  <2>2. UNCHANGED <<db, file, dns, dnsSnapshot, sn, snSnapshot, admin>>
    BY <1>4 DEF SetIamPolicy
  <2> QED
    BY <2>1, <2>2, OthersNote, CreatedNotes
<1>5. ASSUME NEW n \in Networks, NEW v \in Ranges, PutConnection(n, v),
             UNCHANGED <<db, file, dns, dnsSnapshot, iam, admin>>
      PROVE  GhostTyped' /\ Gone'
  <2>1. \A m \in Networks \ {n} : sn'[m] = sn[m]
    BY <1>5 DEF Typed, TypeOK, Connections, PutConnection
  <2>2. snSnapshot' = snSnapshot /\ Created(<<"connection", n>>)
    BY <1>5 DEF PutConnection
  <2> QED
    BY <1>5, <2>1, <2>2, OthersNote, CreatedNotes
<1>6. CASE CreateServiceNetworkingConnection
  BY <1>5, <1>6 DEF CreateServiceNetworkingConnection
<1>7. CASE PatchServiceNetworkingConnection
  <2>1. UNCHANGED <<db, file, dns, dnsSnapshot, iam, admin>>
    BY <1>7 DEF PatchServiceNetworkingConnection
  <2>2. PICK n \in Networks, v \in Ranges :
            \/ /\ sn[n] # None
               /\ sn' = [sn EXCEPT ![n] = v]
               /\ snSnapshot' = IF n \in shared THEN [snSnapshot EXCEPT ![n] = v]
                                                ELSE snSnapshot
               /\ ghost' = [Noted EXCEPT !.patched = @ \cup ({n} \cap shared)]
            \/ sn[n] = None /\ PutConnection(n, v)
    BY <1>7 DEF PatchServiceNetworkingConnection
  <2>3. CASE PutConnection(n, v)
    BY <1>5, <2>1, <2>3
  <2>4. CASE /\ sn[n] # None
             /\ sn' = [sn EXCEPT ![n] = v]
             /\ snSnapshot' = IF n \in shared THEN [snSnapshot EXCEPT ![n] = v]
                                              ELSE snSnapshot
             /\ ghost' = [Noted EXCEPT !.patched = @ \cup ({n} \cap shared)]
    <3>1. \A m \in Networks \ {n} :
              sn'[m] = sn[m] /\ (snSnapshot # None => snSnapshot'[m] = snSnapshot[m])
      BY <2>4 DEF Typed, TypeOK, Connections
    <3>2. snSnapshot' # None => snSnapshot # None
      BY <2>4 DEF Typed, TypeOK
    <3>3. <<"connection", n>> \notin ghost.erased
          /\ (admin = "resetIam" => <<"connection", n>> \notin ghost.start)
      BY <2>4
    <3> QED
      BY <2>1, <2>4, <3>1, <3>2, <3>3, OthersNote
  <2> QED
    BY <2>2, <2>3, <2>4
<1>8. CASE DeleteServiceNetworkingConnection
  <2>1. PICK n \in Networks : sn' = [sn EXCEPT ![n] = None]
    BY <1>8 DEF DeleteServiceNetworkingConnection
  <2>2. \A m \in Networks : sn'[m] = sn[m] \/ sn'[m] = None
    BY <2>1 DEF Typed, TypeOK, Connections
  <2> QED
    BY <1>8, <2>2, OthersNote DEF DeleteServiceNetworkingConnection
<1> QED
  BY <1>1, <1>2, <1>3, <1>4, <1>6, <1>7, <1>8

LEMMA ResetGone ==
    ASSUME Typed, GhostTyped, Gone,
           \/ \E pc \in {"resetRepo", "snapshotRepo", "restoreRepo"} : Begin(pc)
           \/ ResetRepo \/ ResetRepoFails
           \/ ResetDNSChanges \/ ResetServiceNetworkingConnections \/ ResetIamStores
    PROVE  GhostTyped' /\ Gone'
<1> USE DEF Gone, RowsGone, ChangesGone, ConnectionsGone, PoliciesGone, caches
<1>1. ASSUME NEW pc \in {"resetRepo", "snapshotRepo", "restoreRepo"}, Begin(pc)
      PROVE  GhostTyped' /\ Gone'
  <2>1. GhostTyped' /\ ghost'.erased = ghost.erased
    BY <1>1 DEF Begin, GhostTyped
  <2> QED
    BY <1>1, <2>1 DEF Begin
<1>2. CASE ResetRepo
  BY <1>2 DEF ResetRepo, GhostTyped
<1>3. CASE ResetRepoFails
  <2>1. GhostTyped' /\ ghost'.erased = ghost.erased
    BY <1>3 DEF ResetRepoFails, GhostTyped
  <2> QED
    BY <1>3, <2>1 DEF ResetRepoFails
<1>4. CASE ResetDNSChanges
  BY <1>4 DEF ResetDNSChanges, GhostTyped
<1>5. CASE ResetServiceNetworkingConnections
  BY <1>5 DEF ResetServiceNetworkingConnections, GhostTyped, Empty
<1>6. CASE ResetIamStores
  <2>1. GhostTyped' /\ ghost'.erased = ghost.erased \cup ghost.start
    BY <1>6 DEF ResetIamStores, GhostTyped
  <2> QED
    BY <1>6, <2>1 DEF ResetIamStores
<1> QED
  BY <1>1, <1>2, <1>3, <1>4, <1>5, <1>6

\* Snapshot copies what is there, Restore what was copied.
LEMMA SnapshotGone ==
    ASSUME Typed, GhostTyped, Gone,
           \/ SnapshotRepo \/ SnapshotRepoFails
           \/ SnapshotDNSChanges \/ SnapshotServiceNetworkingConnections
           \/ RestoreClose \/ RestoreCopy \/ RestoreFails
           \/ RestoreDNSChanges \/ RestoreServiceNetworkingConnections \/ AnswerRestore
    PROVE  GhostTyped' /\ Gone'
<1> USE DEF Gone, RowsGone, ChangesGone, ConnectionsGone, PoliciesGone, caches
<1>1. CASE SnapshotRepo \/ SnapshotRepoFails
  <2>1. GhostTyped' /\ ghost'.erased = ghost.erased
    BY <1>1 DEF SnapshotRepo, SnapshotRepoFails, GhostTyped
  <2> QED
    BY <1>1, <2>1 DEF SnapshotRepo, SnapshotRepoFails
<1>2. CASE SnapshotDNSChanges
  BY <1>2 DEF SnapshotDNSChanges, GhostTyped
<1>3. CASE SnapshotServiceNetworkingConnections
  <2>1. GhostTyped' /\ ghost'.erased = ghost.erased
    BY <1>3 DEF SnapshotServiceNetworkingConnections, GhostTyped
  <2> QED
    BY <1>3, <2>1 DEF SnapshotServiceNetworkingConnections
<1>4. CASE RestoreClose
  BY <1>4 DEF RestoreClose, GhostTyped
<1>5. CASE RestoreCopy \/ RestoreFails
  BY <1>5 DEF RestoreCopy, RestoreFails, GhostTyped, Typed, HasFile
<1>6. CASE RestoreDNSChanges
  BY <1>6 DEF RestoreDNSChanges, GhostTyped
<1>7. CASE RestoreServiceNetworkingConnections
  BY <1>7 DEF RestoreServiceNetworkingConnections, GhostTyped
<1>8. CASE AnswerRestore
  BY <1>8 DEF AnswerRestore, GhostTyped
<1> QED
  BY <1>1, <1>2, <1>3, <1>4, <1>5, <1>6, <1>7, <1>8

---------------------------------------------------------------------------
(* What a Snapshot found *)

\* These are the saved connections, but for those patched in place.
SavedConnections(m) ==
    \A n \in Networks :
        \/ m[n] = ghost.saved.sn[n]
        \/ n \in ghost.patched /\ None \notin {m[n], ghost.saved.sn[n]}

\* The copies a Restore reads are those of the last completed Snapshot.
Copies ==
    ghost.saved # None /\ file # None =>
        /\ file = ghost.saved.db
        /\ ghost.kept =>
            /\ dnsSnapshot # None /\ dnsSnapshot = ghost.saved.dns
            /\ snSnapshot # None /\ SavedConnections(snSnapshot)

\* A Reset drops the file before the maps; a Snapshot is not complete before its end.
Phases ==
    /\ admin \in {"resetDns", "resetSn", "resetIam"} => file = None
    /\ admin \in {"snapshotDns", "snapshotSn"} =>
        /\ ghost.saved = None
        /\ ghost.calm => file = db
    /\ admin = "snapshotSn" /\ ghost.calm => dnsSnapshot = dns

\* A Restore that nothing disturbs has put back what it has reached.
Restored ==
    ghost.saved # None /\ ghost.calm =>
        /\ admin \in {"restoreDns", "restoreSn", "restored"} => db = ghost.saved.db
        /\ ghost.kept /\ admin \in {"restoreSn", "restored"} => dns = ghost.saved.dns
        /\ ghost.kept /\ admin = "restored" => SavedConnections(sn)

Saved == Copies /\ Phases /\ Restored

LEMMA OthersSaved ==
    ASSUME Typed, GhostTyped, Saved,
           \/ CreateRow \/ DeleteRow \/ RecordDNSChange \/ SetIamPolicy
           \/ CreateServiceNetworkingConnection \/ PatchServiceNetworkingConnection
           \/ DeleteServiceNetworkingConnection
    PROVE  Saved'
<1>1. /\ ghost'.calm = (admin = "idle") /\ ghost'.saved = ghost.saved
      /\ ghost'.kept = ghost.kept /\ ghost.patched \subseteq ghost'.patched
  <2>1. Disturbed \/ (\E item : Created(item))
           \/ \E n : ghost' = [Noted EXCEPT !.patched = @ \cup n]
    BY DEF CreateRow, DeleteRow, RecordDNSChange, SetIamPolicy,
       CreateServiceNetworkingConnection, PatchServiceNetworkingConnection,
       DeleteServiceNetworkingConnection, PutConnection
  <2> QED
    BY <2>1, OthersNote
<1>2. admin' = admin /\ file' = file /\ dnsSnapshot' = dnsSnapshot
  BY DEF CreateRow, DeleteRow, RecordDNSChange, SetIamPolicy, caches,
     CreateServiceNetworkingConnection, PatchServiceNetworkingConnection,
     DeleteServiceNetworkingConnection, PutConnection
<1>3. Phases' /\ Restored'
  BY <1>1, <1>2 DEF Saved, Phases, Restored
<1>4. CASE snSnapshot' = snSnapshot
  BY <1>1, <1>2, <1>3, <1>4 DEF Saved, Copies, SavedConnections
<1>5. CASE snSnapshot' # snSnapshot
  <2>1. PICK n \in Networks, v \in Ranges :
            /\ n \in shared
            /\ snSnapshot' = [snSnapshot EXCEPT ![n] = v]
            /\ ghost' = [Noted EXCEPT !.patched = @ \cup ({n} \cap shared)]
    BY <1>5 DEF CreateRow, DeleteRow, RecordDNSChange, SetIamPolicy, caches,
       CreateServiceNetworkingConnection, PatchServiceNetworkingConnection,
       DeleteServiceNetworkingConnection, PutConnection
  <2>2. snSnapshot \in Connections /\ snSnapshot[n] # None /\ v # None
    BY <2>1, NoneAssumption DEF Typed, TypeOK, Connections, Entries
  <2>3. n \in ghost'.patched
    BY <2>1 DEF GhostTyped, Noted
  <2>4. snSnapshot' # None
    BY <2>1, <2>2, NoneAssumption DEF Connections
  <2>5. SavedConnections(snSnapshot) => SavedConnections(snSnapshot)'
    <3>1. snSnapshot'[n] = v /\ \A m \in Networks \ {n} : snSnapshot'[m] = snSnapshot[m]
      BY <2>1, <2>2 DEF Connections
    <3> QED
      BY <1>1, <2>2, <2>3, <3>1 DEF SavedConnections
  <2> QED
    BY <1>1, <1>2, <1>3, <2>4, <2>5 DEF Saved, Copies
<1> QED
  BY <1>4, <1>5

LEMMA ResetSaved ==
    ASSUME Typed, GhostTyped, Saved,
           \/ \E pc \in {"resetRepo", "snapshotRepo", "restoreRepo"} : Begin(pc)
           \/ ResetRepo \/ ResetRepoFails
           \/ ResetDNSChanges \/ ResetServiceNetworkingConnections \/ ResetIamStores
    PROVE  Saved'
<1>1. ghost'.saved = ghost.saved /\ ghost'.kept = ghost.kept
      /\ ghost'.patched = ghost.patched
  BY DEF GhostTyped, Begin, ResetRepo, ResetRepoFails, ResetDNSChanges,
     ResetServiceNetworkingConnections, ResetIamStores
<1>2. file' = None \/ UNCHANGED <<file, dnsSnapshot, snSnapshot>>
  BY DEF Saved, Phases, Begin, ResetRepo, ResetRepoFails, ResetDNSChanges,
     ResetServiceNetworkingConnections, ResetIamStores, caches
<1>3. Copies'
  BY <1>1, <1>2 DEF Saved, Copies, SavedConnections
<1>4. admin' \in {"resetRepo", "snapshotRepo", "restoreRepo", "idle"}
      \/ (admin' \in {"resetDns", "resetSn", "resetIam"} /\ file' = None)
  BY DEF Saved, Phases, Begin, ResetRepo, ResetRepoFails, ResetDNSChanges,
     ResetServiceNetworkingConnections, ResetIamStores
<1>5. Phases' /\ Restored'
  BY <1>4 DEF Phases, Restored
<1> QED
  BY <1>3, <1>5 DEF Saved

LEMMA SnapshotSaved ==
    ASSUME Typed, GhostTyped, Saved,
           \/ SnapshotRepo \/ SnapshotRepoFails
           \/ SnapshotDNSChanges \/ SnapshotServiceNetworkingConnections
    PROVE  Saved'
<1>1. CASE SnapshotRepo \/ SnapshotRepoFails
  <2>1. ghost'.calm = ghost.calm /\ ghost'.saved \in {ghost.saved, None}
        /\ ghost'.kept = ghost.kept /\ ghost'.patched = ghost.patched
    BY <1>1 DEF GhostTyped, SnapshotRepo, SnapshotRepoFails
  <2>2. ghost'.saved = None \/ UNCHANGED <<file, ghost>>
    BY <1>1 DEF GhostTyped, SnapshotRepo, SnapshotRepoFails
  <2>3. UNCHANGED caches
    BY <1>1 DEF SnapshotRepo, SnapshotRepoFails
  <2>4. Copies'
    BY <2>2, <2>3 DEF Saved, Copies, SavedConnections, caches
  <2>5. \/ admin' = "idle"
        \/ admin' = "snapshotDns" /\ ghost'.saved = None /\ file' = db'
    BY <1>1 DEF GhostTyped, SnapshotRepo, SnapshotRepoFails
  <2> QED
    BY <2>4, <2>5 DEF Saved, Phases, Restored
<1>2. CASE SnapshotDNSChanges
  BY <1>2 DEF SnapshotDNSChanges, Saved, Copies, Phases, Restored
<1>3. CASE SnapshotServiceNetworkingConnections
  <2>1. admin = "snapshotSn" /\ admin' = "idle" /\ snSnapshot' = sn
        /\ UNCHANGED <<db, file, dns, dnsSnapshot, sn>>
    BY <1>3 DEF SnapshotServiceNetworkingConnections
  <2>2. Phases' /\ Restored'
    BY <2>1 DEF Phases, Restored
  <2>3. CASE ~ghost.calm
    BY <1>3, <2>1, <2>2, <2>3
    DEF SnapshotServiceNetworkingConnections, Saved, Copies, Phases
  <2>4. CASE ghost.calm
    <3>1. ghost'.saved = [db |-> db, dns |-> dns, sn |-> sn]
      BY <1>3, <2>4 DEF SnapshotServiceNetworkingConnections, GhostTyped
    <3>2. file = db /\ dnsSnapshot = dns
      BY <2>1, <2>4 DEF Saved, Phases
    <3>3. dns # None /\ sn # None
      BY NoneAssumption DEF Typed, TypeOK, Connections
    <3> QED
      BY <2>1, <2>2, <3>1, <3>2, <3>3 DEF Saved, Copies, SavedConnections
  <2> QED
    BY <2>3, <2>4
<1> QED
  BY <1>1, <1>2, <1>3

LEMMA RestoreSaved ==
    ASSUME Typed, GhostTyped, Saved,
           \/ RestoreClose \/ RestoreCopy \/ RestoreFails
           \/ RestoreDNSChanges \/ RestoreServiceNetworkingConnections \/ AnswerRestore
    PROVE  Saved'
<1>1. UNCHANGED <<file, dnsSnapshot, snSnapshot, ghost>>
  BY DEF RestoreClose, RestoreCopy, RestoreFails, RestoreDNSChanges, caches,
     RestoreServiceNetworkingConnections, AnswerRestore
<1>2. Copies'
  BY <1>1 DEF Saved, Copies, SavedConnections
<1>3. Phases'
  BY <1>1 DEF Phases, RestoreClose, RestoreCopy, RestoreFails, RestoreDNSChanges,
     RestoreServiceNetworkingConnections, AnswerRestore
<1>4. Restored'
  <2> USE <1>1 DEF Saved, Copies, Restored, Typed, HasFile
  <2>1. CASE RestoreClose \/ RestoreCopy
    BY <2>1 DEF RestoreClose, RestoreCopy
  <2>2. CASE RestoreFails \/ AnswerRestore
    BY <2>2 DEF RestoreFails, AnswerRestore
  <2>3. CASE RestoreDNSChanges
    BY <2>3 DEF RestoreDNSChanges
  <2>4. CASE RestoreServiceNetworkingConnections
    BY <2>4 DEF RestoreServiceNetworkingConnections, SavedConnections
  <2> QED
    BY <2>1, <2>2, <2>3, <2>4
<1> QED
  BY <1>2, <1>3, <1>4 DEF Saved

---------------------------------------------------------------------------
(* The inductive invariant *)

IInv == Typed /\ GhostTyped /\ Gone /\ Saved

LEMMA RestartKeeps ==
    ASSUME IInv, Restart
    PROVE  IInv'
<1>1. Typed'
  BY TypedStep DEF IInv, Next
<1>2. /\ GhostTyped' /\ ghost'.erased = ghost.erased /\ ghost'.saved = ghost.saved
      /\ ghost'.kept = FALSE
  BY DEF IInv, GhostTyped, Restart
<1>3. Gone'
  BY <1>2 DEF IInv, Restart, Gone, RowsGone, ChangesGone, ConnectionsGone, PoliciesGone, Empty
<1>4. Saved'
  BY <1>2 DEF IInv, Restart, Saved, Copies, Phases, Restored
<1> QED
  BY <1>1, <1>2, <1>3, <1>4 DEF IInv

LEMMA StepKeeps == IInv /\ [Next]_vars => IInv'
<1> SUFFICES ASSUME IInv, [Next]_vars PROVE IInv'
  OBVIOUS
<1>1. Typed'
  BY TypedStep DEF IInv
<1>2. CASE UNCHANGED vars
  BY <1>1, <1>2 DEF vars, IInv, GhostTyped, Gone, RowsGone, ChangesGone, ConnectionsGone,
     PoliciesGone, Saved, Copies, Phases, Restored, SavedConnections
<1>3. CASE Next /\ ~Restart
  BY <1>1, <1>3, OthersGone, OthersSaved, ResetGone, ResetSaved, SnapshotGone, SnapshotSaved,
     RestoreSaved DEF Next, IInv
<1> QED
  BY <1>2, <1>3, RestartKeeps

LEMMA InitKeeps == Init => IInv
  BY InitTyped DEF Init, Nothing, IInv, GhostTyped, Gone, RowsGone, ChangesGone,
     ConnectionsGone, PoliciesGone, Saved, Copies, Phases, Restored

LEMMA Inductive == Spec => []IInv
  BY InitKeeps, StepKeeps, PTL DEF Spec

---------------------------------------------------------------------------
(* What follows from it *)

\* Nothing that existed before a completed Reset comes back, whichever Snapshots,
\* Restores, failures and restarts follow.
THEOREM ResetIsFinal == Spec => []NothingResurrected
<1>1. IInv => NothingResurrected
  <2> SUFFICES ASSUME IInv, NEW x \in Visible, x \in ghost.erased
               PROVE  FALSE
    BY DEF NothingResurrected
  <2> QED
    BY DEF Visible, Entries, IInv, Gone, RowsGone, ChangesGone, ConnectionsGone,
       PoliciesGone
<1> QED
  BY <1>1, Inductive, PTL

\* A Restore that nothing disturbs brings back what the last completed Snapshot found.
THEOREM RestoreRestores == Spec => []RestoreFaithful
<1>1. IInv => RestoreFaithful
  BY DEF IInv, Saved, Restored, SavedConnections, RestoreFaithful
<1> QED
  BY <1>1, Inductive, PTL
=============================================================================
