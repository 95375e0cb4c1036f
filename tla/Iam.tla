-------------------------------- MODULE Iam --------------------------------
(***************************************************************************)
(* IAM: the project's policy, service accounts and their keys. The policy  *)
(* has no row of its own: it is the rows (role, member) of iam_bindings.   *)
(* SetIAMPolicy replaces it role by role, first clearing the roles it has  *)
(* read, then setting those it was sent, each role in one transaction.     *)
(* Keys go with their account by ON DELETE CASCADE; the policies of        *)
(* service accounts are a map in memory that nothing ties to the accounts. *)
(*                                                                         *)
(* All requests share the one database connection (SetMaxOpenConns(1)). A   *)
(* transaction keeps it from Begin to Commit or Rollback and a list from    *)
(* Query to Close; meanwhile every other statement waits. Other statements  *)
(* take it and give it back at once.                                       *)
(*                                                                         *)
(* Members that are empty or not strings are skipped by the code and not   *)
(* modelled. One project; requests that only read are left out.            *)
(***************************************************************************)
EXTENDS Integers, Sequences, FiniteSetsExt, Functions

CONSTANTS
    Clients,     \* concurrent HTTP clients
    Roles,       \* numbers, in the order in which SQL lists the roles
    Members,     \* members of bindings
    Policies,    \* policies clients send: sequences of [role, members]
    Emails,      \* service accounts by email
    KeyIds,      \* the uuid in a key's name
    Labels,      \* values of the rest of an account, and of an account's policy
    NoClient,    \* nobody holds the connection
    NoEmail,     \* a request about no account
    NoAccount,   \* there is no account under this email
    NoPolicy     \* no policy was set for this email

VARIABLES
    bindings,    \* [Roles -> the members in the rows of the role]
    accounts,    \* [Emails -> the account's data, or NoAccount]
    keys,        \* the names <<email, uuid>> of the rows of iam_sa_keys
    saIamStor,   \* [Emails -> the policy in memory, or NoPolicy]
    req,         \* [Clients -> the request the client's goroutine is serving]
    conn         \* the client whose request holds the connection, or NoClient

vars == <<bindings, accounts, keys, saIamStor, req, conn>>

Binding == [role : Roles, members : Seq(Members)]

ASSUME RolesAssumption == Roles \subseteq Nat
ASSUME PoliciesAssumption == \A p \in Policies : p \in Seq(Binding)
ASSUME LabelsAssumption == Labels # {}
ASSUME SentinelsAssumption ==
    /\ NoClient \notin Clients /\ NoEmail \notin Emails
    /\ NoAccount \notin Labels /\ NoPolicy \notin Labels

---------------------------------------------------------------------------
(* Requests *)

Idle == [pc |-> "idle", clear |-> {}, todo |-> <<>>, asked |-> <<>>,
         alone |-> TRUE, email |-> NoEmail, label |-> CHOOSE l \in Labels : TRUE]

At(c, pc) == req[c].pc = pc
Answer(c) == req' = [req EXCEPT ![c] = Idle]

\* A statement that takes the connection and gives it back runs when it is free.
Statement == conn = NoClient /\ UNCHANGED conn

\* Commit, Rollback or Close gives back what the request holds.
Release(c) == conn = c /\ conn' = NoClient

\* A SetIAMPolicy waits for the connection: Begin of a role's transaction, or the
\* Query that reads the policy back.
Acquire(c) ==
    /\ req[c].pc \in {"clear", "set", "readBack"}
    /\ conn = NoClient
    /\ conn' = c
    /\ UNCHANGED <<bindings, accounts, keys, saIamStor, req>>

\* Mutant: the list of bindings is taken to have one at least.
NextStepUnbounded(clear, todo) == IF clear # {} THEN "clear" ELSE "set"

\* Where SetIAMPolicy goes next, given the roles to clear and the bindings to set.
NextStep(clear, todo) ==
    IF clear # {} THEN "clear" ELSE IF todo # <<>> THEN "set" ELSE "readBack"

---------------------------------------------------------------------------
(* The project's policy *)

\* Mutant: nothing is found to clear.
NoRoles == {}

\* The roles GetIAMPolicy finds.
PolicyRoles == {r \in Roles : bindings[r] # {}}

\* SetIAMPolicy, first statement: the policy is read. `alone` is history: no
\* other SetIAMPolicy was in flight at any moment of this one.
SetIAMPolicy(c) ==
    /\ At(c, "idle")
    /\ Statement
    /\ \E p \in Policies :
        LET others == {d \in Clients : req[d].pc \in {"clear", "set", "readBack"}}
        IN  req' = [d \in Clients |->
                IF d = c
                  THEN [Idle EXCEPT !.pc = NextStep(PolicyRoles, p),
                            !.clear = PolicyRoles, !.todo = p, !.asked = p,
                            !.alone = others = {}]
                  ELSE [req[d] EXCEPT !.alone = @ /\ d \notin others]]
    /\ UNCHANGED <<bindings, accounts, keys, saIamStor>>

\* Mutant: the rows of the role are not deleted first (AddIAMMember's INSERT OR
\* IGNORE).
AddIAMMembers(role, members) ==
    bindings' = [bindings EXCEPT ![role] = @ \cup Range(members)]

\* The transaction of SetIAMBinding: DELETE of the role's rows, one INSERT for
\* each member.
SetIAMBinding(role, members) ==
    bindings' = [bindings EXCEPT ![role] = Range(members)]

ClearRole(c) ==
    /\ At(c, "clear")
    /\ Release(c)
    /\ \E role \in req[c].clear :
        /\ \A other \in req[c].clear : role <= other
        /\ SetIAMBinding(role, <<>>)
        /\ LET rest == req[c].clear \ {role}
           IN  req' = [req EXCEPT ![c].clear = rest,
                                  ![c].pc = NextStep(rest, req[c].todo)]
    /\ UNCHANGED <<accounts, keys, saIamStor>>

\* Mutant: no deferred Rollback.
SetRoleNoRollback(c) ==
    /\ At(c, "set")
    /\ LET b == Head(req[c].todo)
           rest == Tail(req[c].todo)
       IN  IF IsInjective(b.members)
             THEN /\ SetIAMBinding(b.role, b.members)
                  /\ req' = [req EXCEPT ![c].todo = rest, ![c].pc = NextStep({}, rest)]
                  /\ Release(c)
             ELSE conn = c /\ Answer(c) /\ UNCHANGED <<bindings, conn>>
    /\ UNCHANGED <<accounts, keys, saIamStor>>

\* A member listed twice is a duplicate key: the transaction rolls back and the
\* request ends with what it has replaced so far.
SetRole(c) ==
    /\ At(c, "set")
    /\ Release(c)
    /\ LET b == Head(req[c].todo)
           rest == Tail(req[c].todo)
       IN  IF IsInjective(b.members)
             THEN /\ SetIAMBinding(b.role, b.members)
                  /\ req' = [req EXCEPT ![c].todo = rest, ![c].pc = NextStep({}, rest)]
             ELSE UNCHANGED bindings /\ Answer(c)
    /\ UNCHANGED <<accounts, keys, saIamStor>>

\* The policy is read again for the answer.
ReadBack(c) ==
    /\ At(c, "readBack")
    /\ Release(c)
    /\ Answer(c)
    /\ UNCHANGED <<bindings, accounts, keys, saIamStor>>

---------------------------------------------------------------------------
(* Service accounts and their keys *)

HasAccount(e) == accounts[e] # NoAccount

\* INSERT; a second account with an email is ErrAlreadyExists.
CreateServiceAccount(c) ==
    /\ At(c, "idle")
    /\ Statement
    /\ \E e \in Emails, l \in Labels :
        ~HasAccount(e) /\ accounts' = [accounts EXCEPT ![e] = l]
    /\ UNCHANGED <<bindings, keys, saIamStor, req>>

\* UpdateServiceAccount: read and merge, then UPDATE of a row that may be gone.
UpdateServiceAccount(c) ==
    /\ At(c, "idle")
    /\ Statement
    /\ \E e \in Emails, l \in Labels :
        /\ HasAccount(e)
        /\ req' = [req EXCEPT ![c] = [Idle EXCEPT !.pc = "writeAccount",
                                                  !.email = e, !.label = l]]
    /\ UNCHANGED <<bindings, accounts, keys, saIamStor>>

\* Mutant: an upsert.
WriteAccountUpsert(c) ==
    /\ At(c, "writeAccount")
    /\ Statement
    /\ accounts' = [accounts EXCEPT ![req[c].email] = req[c].label]
    /\ Answer(c)
    /\ UNCHANGED <<bindings, keys, saIamStor>>

WriteAccount(c) ==
    /\ At(c, "writeAccount")
    /\ Statement
    /\ IF HasAccount(req[c].email)
         THEN accounts' = [accounts EXCEPT ![req[c].email] = req[c].label]
         ELSE UNCHANGED accounts
    /\ Answer(c)
    /\ UNCHANGED <<bindings, keys, saIamStor>>

KeysOf(e) == {k \in keys : k[1] = e}

\* Mutant: no ON DELETE CASCADE, and no check either.
DeleteAccountOnly(c) ==
    /\ At(c, "idle")
    /\ Statement
    /\ \E e \in Emails :
        HasAccount(e) /\ accounts' = [accounts EXCEPT ![e] = NoAccount]
    /\ UNCHANGED <<bindings, keys, saIamStor, req>>

\* One DELETE; the keys cascade. The account's policy stays in memory.
DeleteServiceAccount(c) ==
    /\ At(c, "idle")
    /\ Statement
    /\ \E e \in Emails :
        /\ HasAccount(e)
        /\ accounts' = [accounts EXCEPT ![e] = NoAccount]
        /\ keys' = keys \ KeysOf(e)
    /\ UNCHANGED <<bindings, saIamStor, req>>

\* INSERT; a missing account fails the foreign key.
CreateSAKey(c) ==
    /\ At(c, "idle")
    /\ Statement
    /\ \E e \in Emails, i \in KeyIds :
        HasAccount(e) /\ <<e, i>> \notin keys /\ keys' = keys \cup {<<e, i>>}
    /\ UNCHANGED <<bindings, accounts, saIamStor, req>>

DeleteSAKey(c) ==
    /\ At(c, "idle")
    /\ Statement
    /\ \E k \in keys : keys' = keys \ {k}
    /\ UNCHANGED <<bindings, accounts, saIamStor, req>>

\* Under the mutex; whether the account exists is not asked.
SetServiceAccountIamPolicy(c) ==
    /\ At(c, "idle")
    /\ \E e \in Emails, l \in Labels : saIamStor' = [saIamStor EXCEPT ![e] = l]
    /\ UNCHANGED <<bindings, accounts, keys, req, conn>>

NoPolicies == [e \in Emails |-> NoPolicy]

\* The process dies and New() opens the same file: requests, their connection and
\* the map are gone, and the file has no part of a transaction that did not commit.
Restart ==
    /\ req' = [c \in Clients |-> Idle]
    /\ conn' = NoClient
    /\ saIamStor' = NoPolicies
    /\ UNCHANGED <<bindings, accounts, keys>>

---------------------------------------------------------------------------
(* Specification *)

Init ==
    /\ bindings = [r \in Roles |-> {}]
    /\ accounts = [e \in Emails |-> NoAccount]
    /\ keys = {}
    /\ saIamStor = NoPolicies
    /\ req = [c \in Clients |-> Idle]
    /\ conn = NoClient

Next ==
    \/ \E c \in Clients :
        \/ SetIAMPolicy(c) \/ Acquire(c) \/ ClearRole(c) \/ SetRole(c) \/ ReadBack(c)
        \/ CreateServiceAccount(c) \/ UpdateServiceAccount(c) \/ WriteAccount(c)
        \/ DeleteServiceAccount(c) \/ CreateSAKey(c) \/ DeleteSAKey(c)
        \/ SetServiceAccountIamPolicy(c)
    \/ Restart

Spec == Init /\ [][Next]_vars

\* A goroutine that holds the connection runs on. One that waits for it gets it if
\* it is given back again and again: database/sql hands it to a waiting request
\* before it is free for a new one, and picks that request at random.
Fairness ==
    \A c \in Clients :
        /\ WF_vars(ClearRole(c) \/ SetRole(c) \/ ReadBack(c))
        /\ SF_vars(Acquire(c) \/ WriteAccount(c))

FairSpec == Spec /\ Fairness

---------------------------------------------------------------------------
(* Properties *)

Request ==
    [pc : {"idle", "clear", "set", "readBack", "writeAccount"}, clear : SUBSET Roles,
     todo : Seq(Binding), asked : Seq(Binding), alone : BOOLEAN,
     email : Emails \cup {NoEmail}, label : Labels]

\* A SetIAMPolicy is clearing as long as there are roles to clear, and setting
\* as long as there are bindings to set.
RequestOK(r) ==
    /\ r \in Request
    /\ r.pc = "clear" <=> r.clear # {}
    /\ r.pc = "set" <=> r.clear = {} /\ r.todo # <<>>
    /\ r.pc \in {"clear", "set", "readBack"} => r.asked \in Policies
    /\ r.pc = "writeAccount" => r.email \in Emails

\* Rows, the map and requests are well formed, and the connection is free or with
\* a request that still has to give it back.
TypeOK ==
    /\ bindings \in [Roles -> SUBSET Members]
    /\ accounts \in [Emails -> Labels \cup {NoAccount}]
    /\ keys \subseteq Emails \X KeyIds
    /\ saIamStor \in [Emails -> Labels \cup {NoPolicy}]
    /\ req = [c \in Clients |-> req[c]]
    /\ \A c \in Clients : RequestOK(req[c])
    /\ conn \in Clients \cup {NoClient}
    /\ conn # NoClient => req[conn].pc \in {"clear", "set", "readBack"}

\* A role's members come from one binding of one policy: however the replacements
\* of two clients interleave, and wherever one fails or dies, members are never
\* those of two bindings together, nor the rest of one.
RoleFromOneRequest ==
    \A r \in Roles :
        bindings[r] = {} \/ \E p \in Policies : \E b \in Range(p) :
            b.role = r /\ Range(b.members) = bindings[r]

\* The members a policy gives to a role: those of its last binding of the role.
Asked(policy, r) ==
    LET at == {i \in 1..Len(policy) : policy[i].role = r}
    IN  IF at = {} THEN {} ELSE Range(policy[Max(at)].members)

\* SetIAMPolicy says it is to "replace full project policy": if no other was in
\* flight meanwhile, the policy it reads for its answer is the one it was sent,
\* whatever failed or unfinished replacements came before.
PolicyReplaced ==
    \A c \in Clients :
        At(c, "readBack") /\ req[c].alone =>
            \A r \in Roles : bindings[r] = Asked(req[c].asked, r)

\* No key is without its account: "deleting a service account MUST cascade-delete
\* all of its keys".
KeysHaveAccount == \A k \in keys : HasAccount(k[1])

\* An account appears only in a create, which is one statement: a PATCH that read
\* it before a delete does not bring it back.
NoAccountRevived ==
    [][\A e \in Emails :
        ~HasAccount(e) /\ HasAccount(e)' => UNCHANGED req]_vars

\* With one connection for everybody, every request is answered (or dies with the
\* process): whatever a transaction meets, it gives the connection back, and no
\* request waits for a connection while it holds one.
RequestsAnswered == \A c \in Clients : ~At(c, "idle") ~> At(c, "idle")
=============================================================================
