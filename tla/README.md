# A TLA+ verification project for fakegcp

fakegcp is an HTTP emulator of a part of the Google Cloud API, written in Go for
running Terraform against. Its resources are rows of a SQLite database; a few
answers come from maps in memory. This directory holds TLA+ models of its stateful
parts, TLC configurations that check them on small instances, and TLAPS proofs for
all instances.

## 1. The system

One process. `net/http` serves every request in a goroutine of its own;
`handlers/*.go` decode the request, call `repository/repository.go` and write the
answer. The repository has no lock and, but for one IAM helper, no transaction. It
has one database connection (`SetMaxOpenConns(1)`), so a SQL *statement* is
atomic and a *request* is not: it is a sequence of statements, and the statements of
different requests interleave. That is the common subject of the models.

| component | state | operations | what is hard |
|---|---|---|---|
| networks, subnetworks, firewalls, routers, NATs | 5 tables, foreign keys, JSON `data` | create, patch, delete | reference checked in one statement and used in a later one; the JSON and the foreign-key column name the same network |
| instances, GKE clusters and pools, Cloud SQL | 6 tables; cascades from cluster and SQL instance | create, patch, delete | references checked by code, not by foreign keys; default pool created best-effort |
| load balancer, disks, addresses, buckets, Cloud Run, Memorystore | 12 tables of JSON documents | create, patch, delete | references between documents looked up one by one on write only; a patch writes a whole document back |
| project IAM, service accounts and keys | 3 tables; a map of account policies | set policy; create, patch, delete | policy replaced role by role, one transaction each; keys cascade, the map does not |
| Secret Manager | secrets, versions | create, patch, delete, add version, enable, disable, destroy | numbers derived from rowids; read-then-write of a version's JSON |
| Pub/Sub | topics, subscriptions, no foreign key | create, patch, delete | deleting a topic rewrites its subscriptions one by one |
| Cloud DNS | zones, record sets | create, patch, delete, changes | a change of many statements with a hand-written rollback |
| Admin | the file, `<db>.snapshot`, in-memory maps and their snapshots | reset, snapshot, restore | several stores changed one after the other; failures and restarts between |
| Service Networking; policies of service accounts and KMS | maps | create, patch, delete; set | not in the file; shared by reference with a snapshot |
| state export, routing, bearer check, Service Usage, Resource Manager | none, or a set that only grows | | |

Components interact through the shared connection, through foreign keys, and through
`/mock/reset`, which works on the tables of all of them with
`PRAGMA foreign_keys = OFF` on the connection everybody uses.

What makes each part correct: no orphan row, and a resource's JSON and its foreign key
agree (networks and children); what validation accepted is true when it accepts it
(instances, clusters); a request relies on nothing older than itself (documents); a role's members come from one policy and no key outlives its account
(IAM); version numbers grow and destroyed payloads are gone (secrets); a
subscription outlives its topic and does not show a topic that is gone (Pub/Sub);
changes are all or nothing (DNS); a reset forgets and a restore remembers (admin).
`PROJECT.json` lists the places where this could go wrong under `hazards`.

## 2. Modules

| module | models | extends |
|---|---|---|
| `Sqlite` | the eleven related tables, their foreign keys and cascades, the effect of one statement | |
| `Repository` | network, instance, GKE and SQL handlers, Reset, restart | `Sqlite` |
| `Documents` | twelve collections of JSON documents: schema, references, merge | |
| `Store` | what those collections promise to calls that overlap (abstract) | `Documents` |
| `Collections` | their handlers, statement by statement; `Overlapping == INSTANCE Store WITH calls <- calls` | `Documents` |
| `Iam` | the project's policy, service accounts, keys, account policies; the one connection | |
| `SecretManager` | secrets and versions | |
| `PubSub` | topics and subscriptions | |
| `AtomicDns` | what the Cloud DNS API promises: every request, a whole change included, takes effect at once (abstract) | |
| `Dns` | zones, record sets, changes, statement by statement; `Atomic == INSTANCE AtomicDns WITH records <- Committed, pending <- Submitted` | |
| `Admin` | reset, snapshot, restore over the file and the maps | |
| `RepositoryProofs`, `BindingProofs`, `CollectionsProofs`, `IamProofs`, `SecretManagerProofs`, `PubSubProofs`, `DnsProofs`, `AdminProofs` | theorems | the module in the name (`BindingProofs`: `RepositoryProofs`), `TLAPS` |
| `MC*` | instances for TLC | the module in the name |

Conventions shared by the models:

* `req[c]` is the request that client `c`'s goroutine serves: a program counter
  `pc`, the values read so far, and the answer. One action is one SQL statement (or one
  critical section of a map's mutex) with the Go code up to the next. A handler's
  first statement is folded into the action that starts the request where nothing
  could tell the difference.
* A resource's JSON is reduced to the fields some property tells apart, plus a `label`
  for all the others, so that patches still have something to change. A reference has
  a *form*: a bare name or a self-link into this project, or a link elsewhere that
  carries a name that also exists here. Resolving it is `resolveSameProjectName` or
  `computeRefName`, not the identity.
* One project; zone, region or location are part of the name. Requests rejected while
  decoding change nothing and are left out. An operation record (`newOperation`) is a
  step and stores nothing, since nothing refers to it.
* `Restart` kills the process at any moment and opens the same file, as with `--db`:
  committed statements stay, goroutines and maps are gone.
* A definition named as a mutant is a plausible bug; no specification uses it.

**Sqlite / Repository.** `db[t]` is the set of rows of table `t`, a row has a key, a
`parent` (the foreign-key column) and `data`. `enforced` is the pragma; `reset` is the
position of a running Reset in `ResetOrder`. A create goes *resolve or check → insert →
read back → store operation → reply*; a patch *read and merge → (resolve) → write*; a
delete *read → delete*. Foreign-key failures, duplicates and misses are answers, as
in `mapInsertError` and `mapDeleteError`. An instance has one network interface, where the
code loops over a list of them. `CreateCluster` continues with
`CreateDefaultPool`, whose error is discarded as in the code. `AdminOverlaps` says
whether Reset may run with requests in flight. The deferred `PRAGMA foreign_keys = ON` that
ends a failed Reset is taken to succeed.

**Documents / Store / Collections.** `Schema` gives each collection the reference fields
its handlers check, in their order, and whether the API has a PATCH. A document maps each
field to a set of references (one at most where the field is no list). `Collections` goes
*look up each reference → insert* for a create, *look up → read and merge → write the whole
document* for a patch, *read → delete* for a delete. Replies are left out.

`Store` has calls that begin and end, and says what may happen between: a call takes effect in
one step, on a row that is free (create) or exists (patch, delete) at that moment, and it may rely
only on what has been true at some moment since it began. Those moments are the history variable
`seen`: the references that have resolved, and the documents the row has had. So a reference is stored
only if this very call could have found it, and a patch may undo the work of calls beside it but never
anything older. That is as strong as the code allows, and nothing is kept apart to make it so:
two overlapping patches of one row do lose one of them, and a reference can be deleted between
its lookup and the write. The mapping shows a request as its call (`Call`) until it is answered.

**Iam.** A policy has no row: `bindings[r]` is the set of members in the rows of role `r`.
Roles are numbers in the order of SQL's `ORDER BY`. `SetIAMPolicy` reads the roles there are,
clears each, then sets each binding of the body, every role in a transaction of its own; a
member listed twice rolls that one back and ends the request half way. `alone` is
history: no other replacement overlapped this one. `conn` is the connection: a replacement waits for it
(`Acquire`) before each role's transaction and before it lists the policy for its answer, and gives
it back (`Release`) with Commit, Rollback or Close. Other statements need it free and return it at
once. A request can wait only once it has made its first statement: before that it is not
a request of the model. Deleting an account cascades to its
keys and leaves `saIamStor`, the map of account policies, as it is; a restart empties it.

**SecretManager.** A version keeps its rowid; `NextNumber` is the code's
`MAX(rowid) + 1` for the secret and `NextRowid` is SQLite's for the table. `DeletesOverlap`
says whether a secret may be deleted under a request on it. `MaxRowid` bounds the run.

**PubSub.** A subscription names its topic in the column, in the JSON `topic` and in the
JSON `topic_name`; all three are kept, since the code confuses them.
`TopicDeletesOverlap` says whether other requests run during a DeleteTopic.

**Dns / AtomicDns.** A change carries its lists, the snapshot of what it will delete and how far
it got. `Isolated` keeps requests in flight on separate record sets. `MaxOps` bounds
the lists of a change. A statement fails for what it finds (no such row, a duplicate, no zone), not
for errors of SQLite's own, in a change and in its rollback. `before` is a history variable: the rows the change found under the
keys it touches.

`AtomicDns` has the rows and the set of changes that were submitted and not decided. A change
that fits the rows (each deletion finds a row of its own, each addition a key that nothing
else holds) is committed in one step; one that does not fit is dropped in one step. The
refinement mapping hides what is under way: `Committed` is the rows without the keys that
undecided changes touch, plus `before` of each of those changes. So the long run of statements
of a change maps to `Submit`, then stutters, then one `Commit` or `Abort`, at the step at which
the handler has nothing left to do but answer; every statement of the other requests maps to its
abstract operation at once. `Crash` is the price of the hand-written rollback: a restart in the middle of changes
leaves some of their deletions and additions done, under one row per key, and touches nothing else.
The mapping is about writers and final answers; a GET in the middle of a
change sees its intermediate rows, which the code accepts ("We approximate this",
`src/handlers/dns.go:275`).

**Admin.** The file is the set of its rows; `shared` records which live connections are
the same Go map as the snapshot's entry, because the snapshot copies only the outer map. The
two policy stores have the same shape and are one variable. Errors are
nondeterministic: Reset may stop at any table, Snapshot before or after it removed the
old file, Restore before, during or after the copy (`copyFile` renames, so the old file
is intact until the end). `ghost` holds history the properties need and no action reads it. One
admin request runs at a time. A `VACUUM INTO` that fails is taken to leave no file.

## 3. Runs

All runs check deadlock and finish within about two minutes on two cores.

| run | what it shows | size |
|---|---|---|
| `network` | two clients, two networks, a firewall, a router and NAT that move between them, a SQL instance with database and user, resets and crashes: `ReferentialIntegrity`, `NoSplitBrain`, `EnforcementRestored`, `UpdateNeverInserts`, `NoCollateralDelete` | 0.84 M states |
| `placement` | a cluster and an instance placed in a subnetwork another client moves or deletes, create bodies with a `network_name` of their own, resets and crashes: `PlacementValidated`, `AckedClusterHasPool`, `ReferentialIntegrity`, `ResetLeavesNothing` | 1.28 M |
| `collections` | a URL map, an SSL certificate and a proxy that names both: `ImplementsStore` (the handlers implement the abstract `Store`) | 200 k |
| `iam` | two clients replace the project policy, with failures and crashes half way, next to an account and two keys: `RoleFromOneRequest`, `PolicyReplaced`, `KeysHaveAccount`, `NoAccountRevived`, and the liveness property `RequestsAnswered` | 294 k |
| `secrets` | two clients, two secrets, three rowids: `VersionsIncrease`, `NextVersionFree`, `PayloadMatchesState`, `PayloadNeverReplaced`, `DestroyedStays` | 241 k |
| `pubsub` | two topics, two subscriptions, crashes inside DeleteTopic: `NoDanglingSubscription`, `SubscriptionsSurvive` | 51 k |
| `dns` | changes of up to two deletions and two additions on two keys: `ChangeAtomic`, `ImplementsAtomicDns` (the handlers implement the abstract `AtomicDns`) | 82 k |
| `admin` | all failures and restarts of reset, snapshot, restore: `NothingResurrected`, `RestoreFaithful` | 0.95 M |

Each module's `TypeOK` is checked in one run of it. Four more runs end in a
counterexample, each against a sentence of a comment in the code (quoted in
`PROJECT.json`, `findings`):

* `reset_overlap` (`ClusterDeleteCascades`): with requests in flight during a Reset, a DELETE of a cluster
  leaves its node pool. In the trace one client is about to insert a pool (CreateNodePool, or the default
  pool of CreateCluster), a DELETE of the cluster has found it, and Reset has emptied
  `container_node_pools`; then the pool is inserted and the cluster is deleted without cascade. A pool
  that the Reset is still going to empty does not count.
* `dns_zone_race` (`ZoneDeletedEmpty`): a record set is inserted between the COUNT and the DELETE of its
  zone, and goes with it.
* `secrets_terminal`: an `:enable` that read the version before a `:destroy` brings it
  back. (`DestroyedStays`, in `secrets`, is the part of the promise that does hold.)
* `pubsub_rebind`: a PATCH puts the deleted topic's name back into the column. This one
  needs no concurrency.

**Bounds.** Two clients: every race in these handlers is between a request that read
something and one that changes it. Two of a kind wherever a property compares two
(networks to move between, topics, secrets, record sets, changes, roles); one where the second would only repeat the first. Three rowids let two secrets
interleave in the table. Two deletions and two additions cover a change that names a key twice
in the same list, in both lists, and fails at either of its second steps. A proxy has two fields to look
up, one of them a list, and a URL map and a certificate that another client may delete or patch in between.
The five policies leave roles
out, repeat a role, and repeat a member in a later binding. The proofs of section 4 cover
the same safety properties for all sizes.

**What the passing runs assume.** What a Terraform run and its harness do: Reset, topic
deletion, and deletion of a secret or of a zone do not overlap requests on the same things, and
no two DNS requests in flight share a record set. The constants `AdminOverlaps`, `TopicDeletesOverlap`,
`DeletesOverlap` and `Isolated` say so; `Collections` and `Iam` assume nothing of the kind. Set the
other way, `reset_overlap` and `dns_zone_race` find what is described above; and TLC finds that

* a secret deleted and created again within an add gets numbers that do not increase;
* a subscription created during a DeleteTopic shows a topic that is gone;
* a DNS change is not atomic when its zone is deleted in the middle.

The comment at `src/repository/repository.go:2741` (numbers that increase "even after deletions")
holds of requests that do not overlap in this way. `NoSplitBrain` is checked with create bodies that carry no
`network_name`: one that does is bound to that name, whatever its `network` says. The overlaps are
noted under `hazards`.

**Fairness.** Only `iam` uses it. Weak fairness of the steps of a request that holds the connection: the
Go scheduler runs every runnable goroutine. Strong fairness of a request's next statement or `Acquire`: the
connection is free again and again but not all the time, and `database/sql` hands one that is given
back to a waiting request, picked at random, before a new request can take it. There is no fairness on
starting requests or on restarts. So `RequestsAnswered` fails only if a request keeps the
connection for good, as it would if the error path of `SetIAMBinding` did not reach its Rollback (the mutant
`SetRoleNoRollback`). The other handlers hold the connection for one statement at a time and have no loop
that waits, no retry and no lock held across a statement.

Symmetry is used over clients and uninterpreted values, in runs without liveness
properties. Reference names, roles and versions are ordered or structured and are not permuted.

## 4. Proofs

The theorems hold for every set of clients, names, references, bodies, policies, keys and
labels that satisfies the named assumptions of the modules (sentinels are no values,
references are well formed, the default pool's name is a pool name, and the like).

| module | theorem | statement | assumption beyond those |
|---|---|---|---|
| `RepositoryProofs` | `TypeCorrect` | `Spec => []TypeOK` | none |
| | `EnforcementReturns` | `Spec => []EnforcementRestored` | none |
| | `NoOrphans` | `Spec => []ReferentialIntegrity` | `AdminOverlaps = FALSE` |
| | `ResetEmpties` | `Spec => []ResetLeavesNothing` | `AdminOverlaps = FALSE` |
| | `NothingInserted` | `Spec => UpdateNeverInserts` | none |
| | `NothingElseDeleted` | `Spec => NoCollateralDelete` | none |
| | `PoolBeforeAnswer` | `Spec => AckedClusterHasPool` | none |
| | `PlacementHolds` | `Spec => PlacementValidated` | `AdminOverlaps = FALSE` |
| `BindingProofs` | `BindingsAgree` | `Spec => []NoSplitBrain` | no create body carries `network_name` |
| `CollectionsProofs` | `TypeCorrect` | `Spec => []TypeOK` | none |
| | `Refinement` | `Spec => ImplementsStore` | none |
| `IamProofs` | `TypeCorrect` | `Spec => []TypeOK` | none |
| | `RolesNotMixed` | `Spec => []RoleFromOneRequest` | none |
| | `PolicyIsReplaced` | `Spec => []PolicyReplaced` | none |
| | `KeysGoWithAccount` | `Spec => []KeysHaveAccount` | none |
| | `NotRevived` | `Spec => NoAccountRevived` | none |
| `SecretManagerProofs` | `TypeCorrect` | `Spec => []TypeOK` | none |
| | `NumbersIncrease` | `Spec => []VersionsIncrease` | `~DeletesOverlap` |
| | `NextIsFree` | `Spec => []NextVersionFree` | `~DeletesOverlap` |
| | `PayloadsMatch` | `Spec => []PayloadMatchesState` | none |
| | `DestroyedForGood` | `Spec => DestroyedStays` | none |
| | `PayloadsKept` | `Spec => PayloadNeverReplaced` | `~DeletesOverlap` |
| `PubSubProofs` | `TypeCorrect` | `Spec => []TypeOK` | none |
| | `NothingDangles` | `Spec => []NoDanglingSubscription` | `TopicDeletesOverlap = FALSE` |
| | `RowsSurvive` | `Spec => SubscriptionsSurvive` | `TopicDeletesOverlap = FALSE` |
| `DnsProofs` | `TypeCorrect` | `Spec => []TypeOK` | none |
| | `ChangesAreAtomic` | `Spec => []ChangeAtomic` | `Isolated` |
| | `Refinement` | `Spec => ImplementsAtomicDns` | `Isolated` |
| | `WorkIsBounded` | each step of a request lowers `StepsLeft`, a natural number of at most 3 (deletions + additions) + 7 | none |
| `AdminProofs` | `TypeCorrect` | `Spec => []TypeOK` | none |
| | `ResetIsFinal` | `Spec => []NothingResurrected` | none |
| | `RestoreRestores` | `Spec => []RestoreFaithful` | none |

*Types.* `TypeOK` is inductive because it says of every request what its later
statements rely on: which table it is in at which step, and that a statement about to
write a foreign-key column holds a name of the parent table.

*No orphans.* `ReferentialIntegrity` alone is not inductive: in the middle of a Reset,
with enforcement off, an INSERT could create an orphan, and emptying a parent table
before its children would too. `IInv` adds `ResetAlone` (while Reset runs, every client
is idle) and `Emptied` (the tables before Reset's position are empty). With enforcement
on, an insert or update finds the parent at the moment of the statement, so it does not matter how
old the earlier check is; a delete is refused or cascades. During Reset, `Emptied` and
the order of the list give that the children of the next table are already empty. `ResetEmpties`
is `Emptied` at the end of the list, with the fact that the list names every table. The
counterexample of `reset_overlap` shows that the assumption is needed.

*Steps of the repository.* The four action properties rest on two facts: a request in
flight changes only by a statement of its own or by a restart (`RequestStep`), and a
statement keeps every row unless it is the DELETE (`StatementKeeps`). `PlacementHolds` also needs
`ReferentialIntegrity`: the network was looked up one statement before its
subnetwork, and it is the subnetwork's foreign key that has kept it since.

*Bindings.* `BindingInv` adds `Carried`: a request about to write a child of a network
carries a network name that its own JSON resolves to. A create body with both
`network` and a different `network_name` is stored as it is, hence the assumption.

*Collections.* `TypeOK` says nothing of the past, so `IInv` adds two parts. `Recorded`: the history
`seen` is up to date, so it holds whatever is true now. `BackedBy`: every reference of a body is in `seen` or
still to be looked up, and a document about to be written is the merge of one the row has had since. Both
survive every step, since `seen` only grows while a request lasts. An `Insert` is then a `Create` of
the store and a `Write` a `Patch`, or a `Refuse` when the row is there or gone; a lookup that fails is a `Refuse`
too. A request's first step is a `Begin`, and the steps between are stutters: `seen` is already up to date.

*Policies.* `Suffix`: what is left to set is the end of the policy asked for. `Progress`: a replacement
with no other beside it has given each role it is done with what the bindings set so far
say, the last one of a role counting; when nothing is left this is `PolicyReplaced`. `Together`: two
replacements in flight are both marked as not alone.

*Versions.* Two invariants. `Sound` holds whatever overlaps: names are unique, and every row and every
request about to write one has a payload unless its state is DESTROYED (`Agrees`). `PayloadMatchesState`
is part of it, and `DestroyedStays` follows: the state of a version is changed by a write in flight
only, a new `:enable` reads the state first, and a row of the same name can be inserted only
when the version is gone. The rest, `IInv`, needs `~DeletesOverlap`: `VersionsIncrease` rests on `Numbered` (a version's number is at most its
rowid) and `Chosen` (the number an add has read is still the next one, or a faster add has
taken it, in which case the INSERT fails). That a maximum exists is proved from the bound on rowids. `PayloadNeverReplaced` rests
on `ReadOnce` and `ReadAlike`: requests about to write
one version hold the same payload or none, so that no interleaving of verbs puts a different one back. None of this
excludes a destroyed version that comes back whole; that is `secrets_terminal`.

*Subscriptions.* `RowBound` and `WriteBound` say that a row, or what a request is about
to write, shows a topic only together with the column and key by which DeleteTopic
finds it; `StillToMark` that a DeleteTopic in progress still has every row that shows its topic on its list;
`Alone` that it has the emulator to itself.

*Changes.* `Phase` gives, for each phase of a change, the content of its keys as a function of
the rows that were there before: after `done` deletions, after `added` additions, and at each point of
the rollback. `Recalls` (the snapshot holds the old data) and `Free` (no addition took a key that was
in use) make the rollback exact also when lists repeat keys. `Unique`, `Separate` and `ZoneKept` keep other
requests out.

*Changes as one step.* The refinement needs to know more than `Phase`: that a change that reaches
its end fits what is there, and one that is rolled back does not, or `Commit` and `Abort` would be taken by the
wrong changes. `Verdicts` says it: a change that goes forward has so far found a row for each deletion and a free
key for each addition (`Found`, `Distinct`), and one in rollback is `~Suits`. `FitsSuits` carries
that from `before` to the committed rows, which `Separate` allows: nobody else touches the
keys of a change. `Shown` writes `Committed` as a function of rows and requests, so that each
step is one lemma: a statement on a row outside every undecided change moves `Committed` with
it (`RecordSetsImplement`, `ZonesImplement`), one inside an undecided change is covered by its own `before`
(`InsideImplements`), the last one replaces `before` by the result (`CommitImplements`) or finds the rows
equal to `before` again (`AbortImplements`), and for a restart `Torn` gives the rows that are gone and the ones
that are new (`CrashImplements`). `Isolated` is needed:
without it TLC finds a zone whose DELETE takes along a record set inserted since the COUNT, which is no step of
`AtomicDns`.

*Work left.* `WorkIsBounded` is the part of "every DNS request is answered" that is a safety
property: no interleaving makes a handler's loop longer. `StepsLeft` counts the worst case, in which
a change fails at its last statement and undoes everything. The rest, that a request not yet
answered can always take a step and that the scheduler lets it, needs ENABLED and fairness and is not proved.

*Admin.* `Gone` follows what a completed Reset erased through every place it could return
from (rows, file, maps, their snapshots), and through the parts a Reset in flight has done. `Copies`,
`Phases` and `Restored` follow what a Snapshot found to the end of a Restore; `HasFile` says
that a Restore past its first check has a file to copy.

Only model-checked: the liveness property `RequestsAnswered`, which is beyond this
prover. Every invariant and action property of the passing runs is also a theorem; the properties of the
four runs that end in a counterexample are false.

## 5. Not modelled

* `/mock/state`: only reads, not one consistent cut.
* Canned answers: operations, KMS key rings, keys and versions, Resource Manager. Service
  Usage keeps a set that only grows.
* `setLabels` of the load balancer looks the resource up and changes nothing.
  `AddIAMMember`, `RemoveIAMMember` and `GetIAMBinding` of the repository have no handler.
* Wire shapes: field names, defaults and status codes are what the repository's own tests
  pin. One code was met on the way: a second Redis instance with the same id is answered
  500, because `src/handlers/memorystore.go:81` tests for `ErrConflict` and the repository returns
  `ErrAlreadyExists`.
* Which of several fields two overlapping patches of one row leave: the later write wins,
  and nothing in the code claims otherwise.
* Two admin requests at once: Restore replaces the database handle without a lock, which is
  a question for the race detector.

## 6. Plan

Done: `Sqlite` and `Repository`, the shared core; `SecretManager`, `PubSub`, `Dns`, `Admin`, each around its
most fragile sequence; the document collections and Cloud DNS with the abstract specifications they
implement; IAM; and theorems for every safety property and both refinements.

What could follow:

1. An abstract Secret Manager (a log of versions that only grows), with `SecretManager`
   shown to implement it when deletes do not overlap.
2. `Repository` against an abstract store, as for the collections, with foreign keys that turn
   "has been there since the request began" into "is there now".
3. `RequestsAnswered` with a connection in the model, as in `Iam`, for the longest of the other requests, DNS changes and DeleteTopic.
