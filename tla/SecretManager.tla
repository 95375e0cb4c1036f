--------------------------- MODULE SecretManager ---------------------------
(***************************************************************************)
(* Secret Manager: secrets, and the numbered versions that carry their     *)
(* payloads. Version numbers are not stored anywhere: CreateSecretVersion  *)
(* takes the largest SQLite rowid among the secret's versions plus one,    *)
(* and `latest` is the version with the largest rowid. The rowid itself is *)
(* given by SQLite, one more than the largest in the whole table, so the   *)
(* two only agree as long as nothing slips between the SELECT and the      *)
(* INSERT. The :enable, :disable and :destroy verbs read a version's JSON  *)
(* and write all of it back in a second statement.                         *)
(*                                                                         *)
(* One project is modelled; a version's name is <<secret, number>>. What   *)
(* Repository shows of Reset is not repeated here.                         *)
(***************************************************************************)
EXTENDS Integers, FiniteSetsExt

CONSTANTS
    Clients,         \* concurrent HTTP clients
    SecretNames,     \* secretId values
    Payloads,        \* payloads sent to :addVersion
    NoPayload,       \* the payload key is missing from the version's JSON
    Labels,          \* values of the rest of a secret's JSON
    MaxRowid,        \* bound: no version is inserted beyond this rowid
    DeletesOverlap   \* TRUE: a secret may be deleted while a request on one of
                     \* its versions is in flight

VARIABLES
    secrets,   \* rows of secretmanager_secrets
    versions,  \* rows of secretmanager_versions
    req        \* [Clients -> the request the client's goroutine is serving]

vars == <<secrets, versions, req>>

ASSUME PayloadAssumption == NoPayload \notin Payloads
ASSUME NamesAssumption == SecretNames # {} /\ Labels # {}
ASSUME MaxRowidAssumption == MaxRowid \in Nat
ASSUME OverlapAssumption == DeletesOverlap \in BOOLEAN

States == {"ENABLED", "DISABLED", "DESTROYED"}
Secret == [name : SecretNames, label : Labels]
Version == [rowid : Nat, secret : SecretNames, num : Nat, state : States,
            payload : Payloads \cup {NoPayload}]

---------------------------------------------------------------------------
(* Statements *)

HasSecret(s) == \E r \in secrets : r.name = s

Versions(s) == {v \in versions : v.secret = s}
HasVersion(s, n) == \E v \in Versions(s) : v.num = n
VersionOf(s, n) == CHOOSE v \in Versions(s) : v.num = n

\* SELECT MAX(rowid), with NULL read as 0.
MaxRow(S) == Max({v.rowid : v \in S} \cup {0})

\* Mutant: destroyed versions are not counted.
NextNumberOfLive(s) == MaxRow({v \in Versions(s) : v.state # "DESTROYED"}) + 1

\* The number CreateSecretVersion gives to the next version of s.
NextNumber(s) == MaxRow(Versions(s)) + 1

\* The rowid SQLite gives to the next row of secretmanager_versions.
NextRowid == MaxRow(versions) + 1

---------------------------------------------------------------------------
(* Requests *)

Default(S) == CHOOSE x \in S : TRUE

Idle == [pc |-> "idle", secret |-> Default(SecretNames), num |-> 0,
         state |-> "ENABLED", payload |-> NoPayload, label |-> Default(Labels)]

At(c, pc) == req[c].pc = pc
Become(c, r) == req' = [req EXCEPT ![c] = r]
Goto(c, pc) == Become(c, [req[c] EXCEPT !.pc = pc])
Answer(c) == Become(c, Idle)
Start(c, r) == At(c, "idle") /\ Become(c, r) /\ UNCHANGED <<secrets, versions>>

\* CreateSecret: INSERT (a duplicate is ErrAlreadyExists), then read back.
CreateSecret(c) ==
    /\ At(c, "idle")
    /\ \E s \in SecretNames, l \in Labels :
        IF HasSecret(s)
          THEN UNCHANGED <<secrets, req>>
          ELSE /\ secrets' = secrets \cup {[name |-> s, label |-> l]}
               /\ Become(c, [Idle EXCEPT !.pc = "readSecretBack", !.secret = s])
    /\ UNCHANGED versions

ReadSecretBack(c) ==
    /\ At(c, "readSecretBack")
    /\ Answer(c)
    /\ UNCHANGED <<secrets, versions>>

\* UpdateSecret: read and merge, then UPDATE of a row that may be gone.
UpdateSecret(c) ==
    \E s \in SecretNames, l \in Labels :
        HasSecret(s) /\ Start(c, [Idle EXCEPT !.pc = "writeSecret", !.secret = s,
                                              !.label = l])

WriteSecret(c) ==
    /\ At(c, "writeSecret")
    /\ secrets' = {IF r.name = req[c].secret THEN [r EXCEPT !.label = req[c].label]
                                             ELSE r : r \in secrets}
    /\ Answer(c)
    /\ UNCHANGED versions

\* Requests that name s and are past their first statement.
InFlight(s) == \E c \in Clients : ~At(c, "idle") /\ req[c].secret = s

\* DeleteSecret: one DELETE, its versions go by ON DELETE CASCADE.
DeleteSecret(c) ==
    /\ At(c, "idle")
    /\ \E s \in SecretNames :
        /\ HasSecret(s)
        /\ DeletesOverlap \/ ~InFlight(s)
        /\ secrets' = {r \in secrets : r.name # s}
        /\ versions' = versions \ Versions(s)
    /\ UNCHANGED req

---------------------------------------------------------------------------
(* Versions *)

\* CreateSecretVersion, first statement: the number is chosen.
CreateSecretVersion(c) ==
    \E s \in SecretNames, p \in Payloads :
        Start(c, [Idle EXCEPT !.pc = "insertVersion", !.secret = s,
                              !.num = NextNumber(s), !.payload = p])

\* Mutant: INSERT OR REPLACE, so that of two concurrent adds the last one wins.
InsertVersionOrReplace(c) ==
    LET r == req[c]
    IN  /\ At(c, "insertVersion")
        /\ \/ ~HasSecret(r.secret) /\ Answer(c) /\ UNCHANGED versions
           \/ /\ HasSecret(r.secret)
              /\ NextRowid <= MaxRowid
              /\ versions' = {v \in versions : ~(v.secret = r.secret /\ v.num = r.num)}
                   \cup {[rowid |-> NextRowid, secret |-> r.secret, num |-> r.num,
                          state |-> "ENABLED", payload |-> r.payload]}
              /\ Goto(c, "readVersionBack")
        /\ UNCHANGED secrets

\* Second statement: INSERT under that number. A duplicate name is
\* ErrAlreadyExists, a secret that is missing or gone is ErrNotFound.
InsertVersion(c) ==
    LET r == req[c]
    IN  /\ At(c, "insertVersion")
        /\ \/ HasVersion(r.secret, r.num) /\ Answer(c) /\ UNCHANGED versions
           \/ /\ ~HasVersion(r.secret, r.num) /\ ~HasSecret(r.secret)
              /\ Answer(c) /\ UNCHANGED versions
           \/ /\ ~HasVersion(r.secret, r.num) /\ HasSecret(r.secret)
              /\ NextRowid <= MaxRowid
              /\ versions' = versions \cup
                   {[rowid |-> NextRowid, secret |-> r.secret, num |-> r.num,
                     state |-> "ENABLED", payload |-> r.payload]}
              /\ Goto(c, "readVersionBack")
        /\ UNCHANGED secrets

ReadVersionBack(c) ==
    /\ At(c, "readVersionBack")
    /\ Answer(c)
    /\ UNCHANGED <<secrets, versions>>

\* Mutant: no check for the terminal state.
SetSecretVersionStateAlways(c) ==
    \E v \in versions, st \in {"ENABLED", "DISABLED"} :
        Start(c, [Idle EXCEPT !.pc = "writeVersion", !.secret = v.secret,
                              !.num = v.num, !.state = st, !.payload = v.payload])

\* SetSecretVersionState, first statement: a version that is not DESTROYED is
\* read. (One that is missing or DESTROYED is answered at once.)
SetSecretVersionState(c) ==
    \E v \in versions, st \in {"ENABLED", "DISABLED"} :
        /\ v.state # "DESTROYED"
        /\ Start(c, [Idle EXCEPT !.pc = "writeVersion", !.secret = v.secret,
                                 !.num = v.num, !.state = st, !.payload = v.payload])

\* Mutant: a state the rest of the code does not know.
DestroySecretVersionDeleted(c) ==
    \E v \in versions :
        Start(c, [Idle EXCEPT !.pc = "writeVersion", !.secret = v.secret,
                              !.num = v.num, !.state = "DELETED"])

\* DestroySecretVersion, first statement; the payload is dropped from the copy.
DestroySecretVersion(c) ==
    \E v \in versions :
        Start(c, [Idle EXCEPT !.pc = "writeVersion", !.secret = v.secret,
                              !.num = v.num, !.state = "DESTROYED"])

\* Mutant: the UPDATE names the secret and not the version.
WriteAllVersions(c) ==
    /\ At(c, "writeVersion")
    /\ versions' = {IF v.secret = req[c].secret
                      THEN [v EXCEPT !.state = req[c].state, !.payload = req[c].payload]
                      ELSE v : v \in versions}
    /\ Answer(c)
    /\ UNCHANGED secrets

\* Second statement of both: UPDATE of the whole JSON, found by name.
WriteVersion(c) ==
    /\ At(c, "writeVersion")
    /\ versions' = {IF v.secret = req[c].secret /\ v.num = req[c].num
                      THEN [v EXCEPT !.state = req[c].state, !.payload = req[c].payload]
                      ELSE v : v \in versions}
    /\ Answer(c)
    /\ UNCHANGED secrets

\* The process dies and New() opens the same file: requests are gone.
Restart == req' = [c \in Clients |-> Idle] /\ UNCHANGED <<secrets, versions>>

---------------------------------------------------------------------------
(* Specification *)

Init ==
    /\ secrets = {}
    /\ versions = {}
    /\ req = [c \in Clients |-> Idle]

Next ==
    \/ \E c \in Clients :
        \/ CreateSecret(c) \/ ReadSecretBack(c)
        \/ UpdateSecret(c) \/ WriteSecret(c) \/ DeleteSecret(c)
        \/ CreateSecretVersion(c) \/ InsertVersion(c) \/ ReadVersionBack(c)
        \/ SetSecretVersionState(c) \/ DestroySecretVersion(c) \/ WriteVersion(c)
    \/ Restart

Spec == Init /\ [][Next]_vars

---------------------------------------------------------------------------
(* Properties *)

Request ==
    [pc : {"idle", "readSecretBack", "writeSecret", "insertVersion",
           "readVersionBack", "writeVersion"},
     secret : SecretNames, num : Nat, state : States,
     payload : Payloads \cup {NoPayload}, label : Labels]

\* Rows and requests are well formed.
TypeOK ==
    /\ secrets \subseteq Secret
    /\ versions \subseteq Version
    /\ req \in [Clients -> Request]

\* A version added later has a larger number, so that the row `latest` finds by
\* rowid is the one with the largest number, whichever adds ran concurrently
\* ("monotonically increasing version numbers even after deletions").
VersionsIncrease ==
    \A v, w \in versions :
        v.secret = w.secret /\ v.rowid < w.rowid => v.num < w.num

\* The number the next add will choose is not taken: an add that runs alone is
\* never refused, so a lost race cannot block a secret for good.
NextVersionFree == \A s \in SecretNames : ~HasVersion(s, NextNumber(s))

\* Exactly the destroyed versions have lost their payload: no interleaving of
\* :destroy with :enable or :disable leaves a usable version without payload or
\* a destroyed one with it.
PayloadMatchesState ==
    \A v \in versions : v.state = "DESTROYED" <=> v.payload = NoPayload

\* A version number stands for one payload: a step either keeps the payload of a
\* version or drops it, it never puts another version's payload there.
PayloadNeverReplaced ==
    [][\A v \in versions, w \in versions' :
        v.secret = w.secret /\ v.num = w.num /\ v.payload # NoPayload =>
            w.payload \in {v.payload, NoPayload}]_vars

\* DESTROYED is terminal: SetSecretVersionState promises not to resurrect a
\* destroyed version.
DestroyedIsTerminal ==
    [][\A v \in versions, w \in versions' :
        v.secret = w.secret /\ v.num = w.num /\ v.state = "DESTROYED" =>
            w.state = "DESTROYED"]_vars

\* v is destroyed and no :enable or :disable that read it before is still to write.
Buried(v) ==
    /\ v.state = "DESTROYED"
    /\ \A c \in Clients :
        At(c, "writeVersion") /\ req[c].secret = v.secret /\ req[c].num = v.num =>
            req[c].state = "DESTROYED"

\* What the check in SetSecretVersionState does guarantee: only a request that read
\* the version before :destroy wrote it can bring it back. Once the last of them has
\* written, the version is DESTROYED for as long as it exists.
DestroyedStays ==
    [][\A v \in versions, w \in versions' :
        v.secret = w.secret /\ v.num = w.num /\ Buried(v) => Buried(w)']_vars
=============================================================================
