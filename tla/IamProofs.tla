----------------------------- MODULE IamProofs -----------------------------
(***************************************************************************)
(* Policies, accounts and keys of Iam, for any clients, roles, members and *)
(* policies.                                                               *)
(***************************************************************************)
EXTENDS Iam, TLAPS

Policy == {"clear", "set", "readBack"}

---------------------------------------------------------------------------
(* Types *)

LEMMA IdleTyped == /\ RequestOK(Idle) /\ Idle.pc = "idle" /\ Idle.clear = {}
                   /\ Idle.todo = <<>>
<1>1. (CHOOSE l \in Labels : TRUE) \in Labels
  BY LabelsAssumption
<1>2. Idle \in Request
  BY <1>1 DEF Idle, Request
<1> QED
  BY <1>2 DEF RequestOK, Idle

\* Where SetIAMPolicy goes next suits what is left to do.
LEMMA NextStepTyped ==
    ASSUME NEW r \in Request, r.asked \in Policies,
           r.pc = NextStep(r.clear, r.todo)
    PROVE  RequestOK(r) /\ r.pc \in Policy
  BY DEF RequestOK, NextStep, Policy

\* SetIAMPolicy's request, and what it does to those of others.
LEMMA SetIAMPolicyRequests ==
    ASSUME TypeOK, NEW c \in Clients, SetIAMPolicy(c)
    PROVE  \E p \in Policies :
              LET r == req'[c]
              IN  /\ r.clear = PolicyRoles /\ r.todo = p /\ r.asked = p
                  /\ RequestOK(r) /\ r.pc \in Policy
                  /\ r.alone => \A d \in Clients : req[d].pc \notin Policy
                  /\ req' = [d \in Clients |-> req'[d]]
                  /\ \A d \in Clients \ {c} :
                        /\ RequestOK(req'[d])
                        /\ req'[d].pc = req[d].pc /\ req'[d].clear = req[d].clear
                        /\ req'[d].todo = req[d].todo /\ req'[d].asked = req[d].asked
                        /\ req[d].pc \in Policy => ~req'[d].alone
                        /\ req'[d].alone => req[d].alone
<1> DEFINE others == {d \in Clients : req[d].pc \in {"clear", "set", "readBack"}}
<1>1. PICK p \in Policies :
          req' = [d \in Clients |->
              IF d = c
                THEN [Idle EXCEPT !.pc = NextStep(PolicyRoles, p),
                          !.clear = PolicyRoles, !.todo = p, !.asked = p,
                          !.alone = others = {}]
                ELSE [req[d] EXCEPT !.alone = @ /\ d \notin others]]
  BY DEF SetIAMPolicy
<1> DEFINE r == [Idle EXCEPT !.pc = NextStep(PolicyRoles, p),
                     !.clear = PolicyRoles, !.todo = p, !.asked = p,
                     !.alone = others = {}]
<1>2. r \in Request /\ r.clear = PolicyRoles /\ r.todo = p /\ r.asked = p
      /\ r.pc = NextStep(PolicyRoles, p) /\ r.alone = (others = {})
  <2>1. p \in Seq(Binding) /\ PolicyRoles \in SUBSET Roles
    BY PoliciesAssumption DEF PolicyRoles
  <2>2. NextStep(PolicyRoles, p) \in {"idle", "clear", "set", "readBack", "writeAccount"}
    BY DEF NextStep
  <2>3. (others = {}) \in BOOLEAN
    OBVIOUS
  <2> HIDE DEF others
  <2> QED
    BY <2>1, <2>2, <2>3, IdleTyped DEF Request, RequestOK
<1>3. req'[c] = r
  BY <1>1
<1>4. RequestOK(r) /\ r.pc \in Policy
  <2> HIDE DEF r
  <2> QED
    BY <1>2, NextStepTyped
<1>5. r.alone => \A d \in Clients : req[d].pc \notin Policy
  BY <1>2 DEF Policy
<1>6. ASSUME NEW d \in Clients \ {c}
      PROVE  /\ RequestOK(req'[d])
             /\ req'[d].pc = req[d].pc /\ req'[d].clear = req[d].clear
             /\ req'[d].todo = req[d].todo /\ req'[d].asked = req[d].asked
             /\ req[d].pc \in Policy => ~req'[d].alone
             /\ req'[d].alone => req[d].alone
  <2>1. req'[d] = [req[d] EXCEPT !.alone = req[d].alone /\ d \notin others]
    BY <1>1
  <2>2. RequestOK(req[d]) /\ req[d] \in Request
    BY DEF TypeOK, RequestOK
  <2>3. req'[d].alone = (req[d].alone /\ d \notin others)
    BY <2>1, <2>2 DEF Request
  <2>4. /\ req'[d].pc = req[d].pc /\ req'[d].clear = req[d].clear
        /\ req'[d].todo = req[d].todo /\ req'[d].asked = req[d].asked
        /\ req'[d].email = req[d].email
    BY <2>1, <2>2 DEF Request
  <2>5. (req[d].alone /\ d \notin others) \in BOOLEAN
    OBVIOUS
  <2>6. req'[d] \in Request
    <3> HIDE DEF others
    <3> QED
      BY <2>1, <2>2, <2>5 DEF Request
  <2>7. RequestOK(req'[d])
    BY <2>2, <2>4, <2>6 DEF RequestOK
  <2>8. req[d].pc \in Policy => d \in others
    BY DEF Policy
  <2> HIDE DEF others
  <2> QED
    BY <2>3, <2>4, <2>7, <2>8
<1>7. req' = [d \in Clients |-> req'[d]]
  BY <1>1
<1> HIDE DEF r, others
<1> QED
  BY <1>2, <1>3, <1>4, <1>5, <1>6, <1>7

LEMMA BecomeTyped ==
    ASSUME TypeOK, NEW c \in Clients, NEW r, RequestOK(r), req' = [req EXCEPT ![c] = r]
    PROVE  req' = [d \in Clients |-> req'[d]] /\ \A d \in Clients : RequestOK(req'[d])
  BY DEF TypeOK

\* The transaction of SetIAMBinding sets the role's members.
LEMMA SetBindingTyped ==
    ASSUME TypeOK, NEW role \in Roles, NEW members \in Seq(Members),
           SetIAMBinding(role, members)
    PROVE  /\ bindings' \in [Roles -> SUBSET Members]
           /\ bindings'[role] = Range(members)
           /\ \A other \in Roles \ {role} : bindings'[other] = bindings[other]
<1>1. Range(members) \in SUBSET Members
  BY DEF Range
<1> QED
  BY <1>1 DEF SetIAMBinding, TypeOK

\* ClearRole removes one role from the roles to clear.
LEMMA ClearRoleStep ==
    ASSUME TypeOK, NEW c \in Clients, ClearRole(c)
    PROVE  \E role \in req[c].clear :
              LET r == req'[c]
              IN  /\ req[c].pc = "clear" /\ role \in Roles
                  /\ bindings' \in [Roles -> SUBSET Members]
                  /\ bindings'[role] = {}
                  /\ \A other \in Roles \ {role} : bindings'[other] = bindings[other]
                  /\ r.clear = req[c].clear \ {role} /\ r.todo = req[c].todo
                  /\ r.asked = req[c].asked /\ r.alone = req[c].alone
                  /\ RequestOK(r) /\ r.pc \in Policy
                  /\ req' = [req EXCEPT ![c] = r]
<1>1. PICK role \in req[c].clear :
          /\ SetIAMBinding(role, <<>>)
          /\ req' = [req EXCEPT ![c].clear = req[c].clear \ {role},
                                ![c].pc = NextStep(req[c].clear \ {role}, req[c].todo)]
  BY DEF ClearRole
<1>2. RequestOK(req[c]) /\ req[c] \in Request /\ req[c].pc = "clear"
  BY DEF TypeOK, RequestOK, ClearRole, At
<1>3. role \in Roles /\ req[c].asked \in Policies
  BY <1>2 DEF Request, RequestOK
<1>4. <<>> \in Seq(Members) /\ Range(<<>>) = {}
  BY DEF Range
<1>5. req'[c] = [req[c] EXCEPT !.clear = req[c].clear \ {role},
                               !.pc = NextStep(req[c].clear \ {role}, req[c].todo)]
  BY <1>1 DEF TypeOK
<1>6. /\ req'[c].clear = req[c].clear \ {role} /\ req'[c].todo = req[c].todo
      /\ req'[c].asked = req[c].asked /\ req'[c].alone = req[c].alone
      /\ req'[c].pc = NextStep(req[c].clear \ {role}, req[c].todo)
  BY <1>2, <1>5 DEF Request
<1>7. req'[c] \in Request
  <2>1. req[c].clear \ {role} \in SUBSET Roles
    BY <1>2 DEF Request
  <2>2. NextStep(req[c].clear \ {role}, req[c].todo) \in Policy
    BY DEF NextStep, Policy
  <2> QED
    BY <1>2, <1>5, <2>1, <2>2 DEF Request, Policy
<1>8. RequestOK(req'[c]) /\ req'[c].pc \in Policy
  BY <1>3, <1>6, <1>7, NextStepTyped
<1>9. req' = [req EXCEPT ![c] = req'[c]]
  BY <1>1, <1>5 DEF TypeOK
<1>10. /\ bindings' \in [Roles -> SUBSET Members]
       /\ bindings'[role] = {}
       /\ \A other \in Roles \ {role} : bindings'[other] = bindings[other]
  BY <1>1, <1>3, <1>4, SetBindingTyped
<1> QED
  BY <1>2, <1>3, <1>6, <1>8, <1>9, <1>10

\* SetRole sets the members of the first binding left, or ends the request.
LEMMA SetRoleStep ==
    ASSUME TypeOK, NEW c \in Clients, SetRole(c)
    PROVE  \/ bindings' = bindings /\ Answer(c)
           \/ LET r == req'[c]
                  b == Head(req[c].todo)
              IN  /\ req[c].pc = "set" /\ req[c].clear = {} /\ req[c].todo # <<>>
                  /\ b \in Binding
                  /\ bindings' \in [Roles -> SUBSET Members]
                  /\ bindings'[b.role] = Range(b.members)
                  /\ \A other \in Roles \ {b.role} : bindings'[other] = bindings[other]
                  /\ r.clear = {} /\ r.todo = Tail(req[c].todo)
                  /\ r.asked = req[c].asked /\ r.alone = req[c].alone
                  /\ RequestOK(r) /\ r.pc \in Policy
                  /\ req' = [req EXCEPT ![c] = r]
<1> DEFINE b == Head(req[c].todo)
           rest == Tail(req[c].todo)
<1>1. SUFFICES ASSUME SetIAMBinding(b.role, b.members),
                      req' = [req EXCEPT ![c].todo = rest, ![c].pc = NextStep({}, rest)]
               PROVE  LET r == req'[c]
                      IN  /\ req[c].pc = "set" /\ req[c].clear = {} /\ req[c].todo # <<>>
                          /\ b \in Binding
                          /\ bindings' \in [Roles -> SUBSET Members]
                          /\ bindings'[b.role] = Range(b.members)
                          /\ \A other \in Roles \ {b.role} : bindings'[other] = bindings[other]
                          /\ r.clear = {} /\ r.todo = Tail(req[c].todo)
                          /\ r.asked = req[c].asked /\ r.alone = req[c].alone
                          /\ RequestOK(r) /\ r.pc \in Policy
                          /\ req' = [req EXCEPT ![c] = r]
  BY DEF SetRole
<1>2. RequestOK(req[c]) /\ req[c] \in Request /\ req[c].pc = "set"
  BY DEF TypeOK, RequestOK, SetRole, At
<1>3. req[c].clear = {} /\ req[c].todo # <<>> /\ req[c].asked \in Policies
  BY <1>2 DEF RequestOK
<1>4. b \in Binding /\ rest \in Seq(Binding)
  BY <1>2, <1>3 DEF Request
<1>5. b.role \in Roles /\ b.members \in Seq(Members)
  BY <1>4 DEF Binding
<1> HIDE DEF b, rest
<1>6. req'[c] = [req[c] EXCEPT !.todo = rest, !.pc = NextStep({}, rest)]
  BY <1>1 DEF TypeOK
<1>7. /\ req'[c].clear = {} /\ req'[c].todo = rest
      /\ req'[c].asked = req[c].asked /\ req'[c].alone = req[c].alone
      /\ req'[c].pc = NextStep({}, rest)
  BY <1>2, <1>3, <1>6 DEF Request
<1>8. req'[c] \in Request
  BY <1>2, <1>4, <1>6 DEF Request, NextStep
<1>9. RequestOK(req'[c]) /\ req'[c].pc \in Policy
  BY <1>3, <1>7, <1>8, NextStepTyped
<1>10. req' = [req EXCEPT ![c] = req'[c]]
  BY <1>1, <1>6 DEF TypeOK
<1>11. /\ bindings' \in [Roles -> SUBSET Members]
       /\ bindings'[b.role] = Range(b.members)
       /\ \A other \in Roles \ {b.role} : bindings'[other] = bindings[other]
  BY <1>1, <1>5, SetBindingTyped
<1> QED
  BY <1>2, <1>3, <1>4, <1>7, <1>9, <1>10, <1>11 DEF rest

LEMMA PolicyTyped ==
    ASSUME TypeOK, NEW c \in Clients,
           SetIAMPolicy(c) \/ ClearRole(c) \/ SetRole(c) \/ ReadBack(c)
    PROVE  TypeOK'
<1>1. accounts' = accounts /\ keys' = keys /\ saIamStor' = saIamStor /\ conn' = NoClient
  BY DEF SetIAMPolicy, ClearRole, SetRole, ReadBack, Statement, Release
<1>2. CASE SetIAMPolicy(c)
  <2>1. bindings' = bindings
    BY <1>2 DEF SetIAMPolicy
  <2>2. req' = [d \in Clients |-> req'[d]] /\ \A d \in Clients : RequestOK(req'[d])
    BY <1>2, SetIAMPolicyRequests
  <2> QED
    BY <1>1, <2>1, <2>2 DEF TypeOK
<1>3. CASE ClearRole(c)
  <2>1. bindings' \in [Roles -> SUBSET Members] /\ RequestOK(req'[c])
        /\ req' = [req EXCEPT ![c] = req'[c]]
    BY <1>3, ClearRoleStep
  <2> QED
    BY <1>1, <2>1, BecomeTyped DEF TypeOK
<1>4. CASE bindings' = bindings /\ Answer(c)
  BY <1>1, <1>4, IdleTyped, BecomeTyped DEF TypeOK, Answer
<1>5. CASE SetRole(c) /\ ~(bindings' = bindings /\ Answer(c))
  <2>1. bindings' \in [Roles -> SUBSET Members] /\ RequestOK(req'[c])
        /\ req' = [req EXCEPT ![c] = req'[c]]
    BY <1>5, SetRoleStep
  <2> QED
    BY <1>1, <2>1, BecomeTyped DEF TypeOK
<1> QED
  BY <1>2, <1>3, <1>4, <1>5 DEF ReadBack

LEMMA AcquireTyped ==
    ASSUME TypeOK, NEW c \in Clients, Acquire(c)
    PROVE  TypeOK'
  BY SentinelsAssumption DEF Acquire, TypeOK

LEMMA AccountsTyped ==
    ASSUME TypeOK, NEW c \in Clients,
           \/ CreateServiceAccount(c) \/ UpdateServiceAccount(c) \/ WriteAccount(c)
           \/ DeleteServiceAccount(c) \/ CreateSAKey(c) \/ DeleteSAKey(c)
           \/ SetServiceAccountIamPolicy(c)
    PROVE  TypeOK'
<1>1. CASE CreateServiceAccount(c)
  BY <1>1 DEF CreateServiceAccount, Statement, TypeOK
<1>2. CASE UpdateServiceAccount(c)
  <2>1. PICK e \in Emails, l \in Labels :
            req' = [req EXCEPT ![c] = [Idle EXCEPT !.pc = "writeAccount", !.email = e, !.label = l]]
    BY <1>2 DEF UpdateServiceAccount
  <2> DEFINE r == [Idle EXCEPT !.pc = "writeAccount", !.email = e, !.label = l]
  <2>2. /\ r \in Request /\ r.pc = "writeAccount" /\ r.email = e
        /\ r.clear = {} /\ r.todo = <<>>
    BY IdleTyped DEF RequestOK, Request
  <2>3. req' = [req EXCEPT ![c] = r]
    BY <2>1
  <2> HIDE DEF r
  <2>4. RequestOK(r)
    BY <2>2 DEF RequestOK
  <2> QED
    BY <1>2, <2>3, <2>4, BecomeTyped DEF UpdateServiceAccount, Statement, TypeOK
<1>3. CASE WriteAccount(c)
  <2>1. req[c].email \in Emails /\ req[c].label \in Labels
    BY <1>3 DEF TypeOK, RequestOK, WriteAccount, At, Request
  <2>2. accounts' \in [Emails -> Labels \cup {NoAccount}]
    BY <1>3, <2>1 DEF WriteAccount, TypeOK
  <2> QED
    BY <1>3, <2>2, IdleTyped, BecomeTyped DEF WriteAccount, Statement, Answer, TypeOK
<1>4. CASE DeleteServiceAccount(c)
  BY <1>4 DEF DeleteServiceAccount, Statement, TypeOK
<1>5. CASE CreateSAKey(c) \/ DeleteSAKey(c)
  <2>1. keys' \subseteq Emails \X KeyIds
    <3>1. CASE CreateSAKey(c)
      <4>1. PICK e \in Emails, i \in KeyIds : keys' = keys \cup {<<e, i>>}
        BY <3>1 DEF CreateSAKey
      <4>2. <<e, i>> \in Emails \X KeyIds
        OBVIOUS
      <4> QED
        BY <4>1, <4>2 DEF TypeOK
    <3>2. CASE DeleteSAKey(c)
      <4>1. keys' \subseteq keys
        BY <3>2 DEF DeleteSAKey
      <4> QED
        BY <4>1 DEF TypeOK
    <3> QED
      BY <1>5, <3>1, <3>2
  <2> QED
    BY <1>5, <2>1 DEF CreateSAKey, DeleteSAKey, Statement, TypeOK
<1>6. CASE SetServiceAccountIamPolicy(c)
  BY <1>6 DEF SetServiceAccountIamPolicy, TypeOK
<1> QED
  BY <1>1, <1>2, <1>3, <1>4, <1>5, <1>6

LEMMA TypedStep == TypeOK /\ [Next]_vars => TypeOK'
<1> SUFFICES ASSUME TypeOK, [Next]_vars PROVE TypeOK'
  OBVIOUS
<1>1. CASE Restart
  BY <1>1, IdleTyped DEF Restart, NoPolicies, TypeOK
<1>2. CASE UNCHANGED vars
  BY <1>2 DEF vars, TypeOK
<1> QED
  BY <1>1, <1>2, PolicyTyped, AcquireTyped, AccountsTyped DEF Next

LEMMA InitTyped == Init => TypeOK
  BY IdleTyped DEF Init, NoPolicies, TypeOK

\* Rows, the map and requests are always well formed.
THEOREM TypeCorrect == Spec => []TypeOK
  BY InitTyped, TypedStep, PTL DEF Spec

---------------------------------------------------------------------------
(* The inductive invariant *)

\* The bindings left to set are the last ones of the policy asked for.
Suffix(r) ==
    /\ Len(r.todo) <= Len(r.asked)
    /\ \A j \in 1..Len(r.todo) : r.todo[j] = r.asked[Len(r.asked) - Len(r.todo) + j]
    /\ r.pc = "clear" => r.todo = r.asked

\* These are the members that the first n bindings of the policy give to the role.
GivenBy(policy, n, role, members) ==
    \/ members = {} /\ \A i \in 1..n : policy[i].role # role
    \/ \E i \in 1..n :
        /\ policy[i].role = role
        /\ members = Range(policy[i].members)
        /\ \A j \in 1..n : policy[j].role = role => j <= i

\* A SetIAMPolicy with no other beside it has done what it has done: the roles it
\* no longer has to clear are as the bindings it has set say.
Progress(r) ==
    r.pc \in Policy /\ r.alone =>
        \A role \in Roles \ r.clear :
            GivenBy(r.asked, Len(r.asked) - Len(r.todo), role, bindings[role])

\* Two requests on the policy are not alone.
Together ==
    \A c, d \in Clients : c # d /\ req[c].pc \in Policy /\ req[d].pc \in Policy =>
        ~req[c].alone

IInv ==
    /\ TypeOK
    /\ RoleFromOneRequest
    /\ KeysHaveAccount
    /\ \A c \in Clients : (req[c].pc \in Policy => Suffix(req[c])) /\ Progress(req[c])
    /\ Together

\* Steps that leave the policy alone, and may end requests on it.
LEMMA SamePolicy ==
    ASSUME IInv, TypeOK', bindings' = bindings, KeysHaveAccount',
           \A d \in Clients : req'[d] = req[d] \/ req'[d].pc \notin Policy
    PROVE  IInv'
<1>1. RoleFromOneRequest'
  BY DEF IInv, RoleFromOneRequest
<1>2. ASSUME NEW c \in Clients
      PROVE  ((req[c].pc \in Policy => Suffix(req[c])) /\ Progress(req[c]))'
  <2>1. CASE req'[c] = req[c]
    BY <2>1 DEF IInv, Suffix, Progress
  <2>2. CASE req'[c].pc \notin Policy
    BY <2>2 DEF Progress
  <2> QED
    BY <2>1, <2>2
<1>3. Together'
  BY DEF IInv, Together
<1> QED
  BY <1>1, <1>2, <1>3 DEF IInv

\* Keys are taken with their account, and made only for one.
LEMMA KeysStep ==
    ASSUME IInv, NEW c \in Clients,
           \/ CreateServiceAccount(c) \/ UpdateServiceAccount(c) \/ WriteAccount(c)
           \/ DeleteServiceAccount(c) \/ CreateSAKey(c) \/ DeleteSAKey(c)
           \/ SetServiceAccountIamPolicy(c)
    PROVE  KeysHaveAccount'
<1>1. \A k \in keys : k[1] \in Emails /\ accounts[k[1]] # NoAccount
  BY DEF IInv, TypeOK, KeysHaveAccount, HasAccount
<1>2. accounts \in [Emails -> Labels \cup {NoAccount}] /\ RequestOK(req[c])
  BY DEF IInv, TypeOK
<1>3. CASE CreateServiceAccount(c)
  BY <1>1, <1>2, <1>3, SentinelsAssumption
  DEF CreateServiceAccount, KeysHaveAccount, HasAccount
<1>4. CASE WriteAccount(c)
  <2>1. req[c].label \in Labels
    BY <1>2 DEF RequestOK, Request
  <2> QED
    BY <1>1, <1>2, <1>4, <2>1, SentinelsAssumption
    DEF WriteAccount, KeysHaveAccount, HasAccount
<1>5. CASE DeleteServiceAccount(c)
  BY <1>1, <1>2, <1>5 DEF DeleteServiceAccount, KeysOf, KeysHaveAccount, HasAccount
<1>6. CASE CreateSAKey(c)
  <2>1. PICK e \in Emails, i \in KeyIds : HasAccount(e) /\ keys' = keys \cup {<<e, i>>}
    BY <1>6 DEF CreateSAKey
  <2>2. accounts' = accounts
    BY <1>6 DEF CreateSAKey
  <2> QED
    BY <1>1, <2>1, <2>2 DEF KeysHaveAccount, HasAccount
<1>7. CASE UpdateServiceAccount(c) \/ DeleteSAKey(c) \/ SetServiceAccountIamPolicy(c)
  BY <1>1, <1>7 DEF UpdateServiceAccount, DeleteSAKey, SetServiceAccountIamPolicy,
     KeysHaveAccount, HasAccount
<1> QED
  BY <1>3, <1>4, <1>5, <1>6, <1>7

LEMMA AccountsKeep ==
    ASSUME IInv, NEW c \in Clients,
           \/ CreateServiceAccount(c) \/ UpdateServiceAccount(c) \/ WriteAccount(c)
           \/ DeleteServiceAccount(c) \/ CreateSAKey(c) \/ DeleteSAKey(c)
           \/ SetServiceAccountIamPolicy(c)
    PROVE  IInv'
<1>1. TypeOK' /\ KeysHaveAccount' /\ req = [d \in Clients |-> req[d]]
  BY AccountsTyped, KeysStep DEF IInv, TypeOK
<1>2. bindings' = bindings
  BY DEF CreateServiceAccount, UpdateServiceAccount, WriteAccount, DeleteServiceAccount,
     CreateSAKey, DeleteSAKey, SetServiceAccountIamPolicy
<1>3. \A d \in Clients : req'[d] = req[d] \/ req'[d].pc \notin Policy
  <2>1. CASE UpdateServiceAccount(c)
    <3>1. PICK e \in Emails, l \in Labels :
              req' = [req EXCEPT ![c] = [Idle EXCEPT !.pc = "writeAccount",
                                                     !.email = e, !.label = l]]
      BY <2>1 DEF UpdateServiceAccount
    <3>2. [Idle EXCEPT !.pc = "writeAccount", !.email = e, !.label = l].pc = "writeAccount"
      BY DEF Idle
    <3> QED
      BY <1>1, <3>1, <3>2 DEF Policy
  <2>2. CASE WriteAccount(c)
    BY <1>1, <2>2, IdleTyped DEF WriteAccount, Answer, Policy
  <2>3. CASE req' = req
    BY <2>3
  <2> QED
    BY <2>1, <2>2, <2>3 DEF CreateServiceAccount, DeleteServiceAccount, CreateSAKey,
       DeleteSAKey, SetServiceAccountIamPolicy
<1> QED
  BY <1>1, <1>2, <1>3, SamePolicy

LEMMA SetIAMPolicyKeeps ==
    ASSUME IInv, NEW c \in Clients, SetIAMPolicy(c)
    PROVE  IInv'
<1>1. TypeOK' /\ bindings' = bindings /\ accounts' = accounts /\ keys' = keys
  BY PolicyTyped DEF IInv, SetIAMPolicy
<1> DEFINE r == req'[c]
<1>2. PICK p \in Policies :
          /\ r.clear = PolicyRoles /\ r.todo = p /\ r.asked = p
          /\ r.alone => \A d \in Clients : req[d].pc \notin Policy
          /\ \A d \in Clients \ {c} :
                /\ req'[d].pc = req[d].pc /\ req'[d].clear = req[d].clear
                /\ req'[d].todo = req[d].todo /\ req'[d].asked = req[d].asked
                /\ req[d].pc \in Policy => ~req'[d].alone
                /\ req'[d].alone => req[d].alone
  BY SetIAMPolicyRequests DEF IInv
<1> HIDE DEF r
<1>3. p \in Seq(Binding) /\ Len(p) \in Nat
  BY PoliciesAssumption
<1>4. Suffix(r)
  BY <1>2, <1>3 DEF Suffix
<1>5. ASSUME NEW role \in Roles \ r.clear
      PROVE  GivenBy(r.asked, Len(r.asked) - Len(r.todo), role, bindings'[role])
  BY <1>1, <1>2, <1>3 DEF GivenBy, PolicyRoles
<1>6. ASSUME NEW d \in Clients
      PROVE  ((req[d].pc \in Policy => Suffix(req[d])) /\ Progress(req[d]))'
  <2>1. CASE d = c
    BY <1>4, <1>5, <2>1 DEF r, Progress, Suffix
  <2>2. CASE d # c
    BY <1>2, <2>2 DEF IInv, Progress, Suffix
  <2> QED
    BY <2>1, <2>2
<1>7. Together'
  BY <1>2 DEF IInv, Together, r
<1>8. RoleFromOneRequest' /\ KeysHaveAccount'
  BY <1>1 DEF IInv, RoleFromOneRequest, KeysHaveAccount, HasAccount
<1> QED
  BY <1>1, <1>6, <1>7, <1>8 DEF IInv

\* A request on the policy moves on: the others are not alone.
LEMMA MovesOn ==
    ASSUME IInv, NEW c \in Clients, req[c].pc \in Policy, req'[c].pc \in Policy,
           req'[c].alone = req[c].alone, \A d \in Clients \ {c} : req'[d] = req[d],
           Suffix(req[c])', Progress(req[c])', TypeOK', KeysHaveAccount',
           RoleFromOneRequest'
    PROVE  IInv'
<1>1. \A d \in Clients \ {c} : req[d].pc \in Policy => ~req[d].alone
  BY DEF IInv, Together
<1>2. ASSUME NEW d \in Clients
      PROVE  (req[d].pc \in Policy => Suffix(req[d]))'
  <2>1. CASE d = c
    BY <2>1
  <2>2. CASE d # c
    BY <2>2 DEF IInv, Suffix
  <2> QED
    BY <2>1, <2>2
<1>3. \A d \in Clients : Progress(req[d])'
  BY <1>1 DEF Progress
<1>4. Together'
  BY <1>1 DEF IInv, Together
<1> QED
  BY <1>2, <1>3, <1>4 DEF IInv

LEMMA ClearRoleKeeps ==
    ASSUME IInv, NEW c \in Clients, ClearRole(c)
    PROVE  IInv'
<1>1. /\ TypeOK' /\ accounts' = accounts /\ keys' = keys
      /\ req = [d \in Clients |-> req[d]] /\ RequestOK(req[c]) /\ req[c] \in Request
  BY PolicyTyped DEF IInv, ClearRole, TypeOK, RequestOK
<1>2. PICK role \in req[c].clear :
          /\ req[c].pc = "clear" /\ role \in Roles
          /\ bindings'[role] = {}
          /\ \A other \in Roles \ {role} : bindings'[other] = bindings[other]
          /\ req'[c].clear = req[c].clear \ {role} /\ req'[c].todo = req[c].todo
          /\ req'[c].asked = req[c].asked /\ req'[c].alone = req[c].alone
          /\ req'[c].pc \in Policy
          /\ req' = [req EXCEPT ![c] = req'[c]]
  BY ClearRoleStep DEF IInv
<1>3. /\ Suffix(req[c]) /\ Progress(req[c]) /\ req[c].pc \in Policy
      /\ req[c].todo = req[c].asked /\ Len(req[c].asked) \in Nat
  BY <1>1, <1>2 DEF IInv, Policy, Suffix, Request
<1>4. Suffix(req[c])'
  BY <1>2, <1>3 DEF Suffix
<1>5. Progress(req[c])'
  <2>1. SUFFICES ASSUME req[c].alone, NEW other \in Roles \ (req[c].clear \ {role})
                 PROVE  GivenBy(req[c].asked, 0, other, bindings'[other])
    BY <1>2, <1>3 DEF Progress
  <2>2. CASE other = role
    BY <1>2, <2>2 DEF GivenBy
  <2>3. CASE other # role
    BY <1>2, <1>3, <2>1, <2>3 DEF Progress
  <2> QED
    BY <2>2, <2>3
<1>6. KeysHaveAccount' /\ \A d \in Clients \ {c} : req'[d] = req[d]
  BY <1>1, <1>2 DEF IInv, KeysHaveAccount, HasAccount
<1>7. RoleFromOneRequest'
  BY <1>2 DEF IInv, RoleFromOneRequest
<1> QED
  BY <1>1, <1>2, <1>3, <1>4, <1>5, <1>6, <1>7, MovesOn

LEMMA SetRoleKeeps ==
    ASSUME IInv, NEW c \in Clients, SetRole(c)
    PROVE  IInv'
<1>1. /\ TypeOK' /\ accounts' = accounts /\ keys' = keys
      /\ req = [d \in Clients |-> req[d]] /\ RequestOK(req[c]) /\ req[c] \in Request
  BY PolicyTyped DEF IInv, SetRole, TypeOK, RequestOK
<1>2. KeysHaveAccount'
  BY <1>1 DEF IInv, KeysHaveAccount, HasAccount
<1>3. CASE bindings' = bindings /\ Answer(c)
  BY <1>1, <1>2, <1>3, IdleTyped, SamePolicy DEF Answer, Policy
<1>4. CASE ~(bindings' = bindings /\ Answer(c))
  <2> DEFINE b == Head(req[c].todo)
             todo == req[c].todo
             asked == req[c].asked
             n == Len(asked) - Len(todo)
  <2>1. /\ req[c].pc = "set" /\ req[c].clear = {} /\ todo # <<>> /\ b \in Binding
        /\ bindings'[b.role] = Range(b.members)
        /\ \A other \in Roles \ {b.role} : bindings'[other] = bindings[other]
        /\ req'[c].clear = {} /\ req'[c].todo = Tail(todo)
        /\ req'[c].asked = asked /\ req'[c].alone = req[c].alone
        /\ req'[c].pc \in Policy
        /\ req' = [req EXCEPT ![c] = req'[c]]
    BY <1>4, SetRoleStep DEF IInv
  <2>2. /\ Suffix(req[c]) /\ Progress(req[c]) /\ req[c].pc \in Policy
        /\ todo \in Seq(Binding) /\ asked \in Seq(Binding) /\ asked \in Policies
    BY <1>1, <2>1 DEF IInv, Policy, Request, RequestOK
  <2>3. /\ Len(todo) \in Nat \ {0} /\ Len(asked) \in Nat /\ n \in Nat
        /\ n + 1 \in 1..Len(asked) /\ b = asked[n + 1]
        /\ Len(Tail(todo)) = Len(todo) - 1
        /\ \A j \in 1..Len(Tail(todo)) : Tail(todo)[j] = todo[j + 1]
    <3>1. /\ Len(todo) <= Len(asked)
          /\ \A j \in 1..Len(todo) : todo[j] = asked[Len(asked) - Len(todo) + j]
      BY <2>2 DEF Suffix
    <3>2. todo \in Seq(Binding) /\ asked \in Seq(Binding) /\ todo # <<>>
      BY <2>1, <2>2
    <3> HIDE DEF todo, asked
    <3>3. Len(todo) \in Nat \ {0} /\ Len(asked) \in Nat
      BY <3>2
    <3>4. /\ Head(todo) = todo[1] /\ Len(Tail(todo)) = Len(todo) - 1
          /\ \A j \in 1..Len(Tail(todo)) : Tail(todo)[j] = todo[j + 1]
      BY <3>2
    <3>5. n \in Nat /\ n + 1 \in 1..Len(asked)
      BY <3>1, <3>3
    <3>6. b = asked[n + 1]
      <4>1. 1 \in 1..Len(todo)
        BY <3>3
      <4>2. todo[1] = asked[Len(asked) - Len(todo) + 1]
        BY <3>1, <4>1
      <4> QED
        BY <3>4, <4>2 DEF todo
    <3> QED
      BY <3>3, <3>4, <3>5, <3>6
  <2>4. Suffix(req[c])'
    <3>1. req'[c].pc # "clear"
      BY <1>1, <2>1 DEF TypeOK, RequestOK
    <3>2. ASSUME NEW j \in 1..Len(Tail(todo))
          PROVE  Tail(todo)[j] = asked[Len(asked) - Len(Tail(todo)) + j]
      <4>1. j + 1 \in 1..Len(todo)
        <5> HIDE DEF todo, asked
        <5> QED
          BY <2>3
      <4>2. todo[j + 1] = asked[n + (j + 1)]
        BY <2>2, <4>1 DEF Suffix
      <4>3. n + (j + 1) = Len(asked) - Len(Tail(todo)) + j
        <5> HIDE DEF todo, asked
        <5> QED
          BY <2>3
      <4> QED
        BY <2>3, <4>2, <4>3
    <3>3. Len(Tail(todo)) <= Len(asked)
      <4> HIDE DEF todo, asked
      <4> QED
        BY <2>3
    <3> QED
      BY <2>1, <3>1, <3>2, <3>3 DEF Suffix
  <2>5. Progress(req[c])'
    <3>1. SUFFICES ASSUME req[c].alone, NEW other \in Roles
                   PROVE  GivenBy(asked, Len(asked) - Len(Tail(todo)), other, bindings'[other])
      BY <2>1 DEF Progress
    <3>2. Len(asked) - Len(Tail(todo)) = n + 1
      <4> HIDE DEF todo, asked
      <4> QED
        BY <2>3
    <3>3. GivenBy(asked, n, other, bindings[other])
      BY <2>1, <2>2, <3>1 DEF Progress
    <3>4. CASE other = b.role
      <4>1. bindings'[other] = Range(b.members)
        BY <2>1, <3>4
      <4> HIDE DEF n, b, todo, asked
      <4>2. n + 1 \in 1..(n + 1) /\ \A j \in 1..(n + 1) : j <= n + 1
        BY <2>3
      <4> QED
        BY <2>3, <3>2, <3>4, <4>1, <4>2 DEF GivenBy
    <3>5. CASE other # b.role
      <4>1. bindings'[other] = bindings[other]
        BY <2>1, <3>5
      <4> HIDE DEF n, b, todo, asked
      <4>2. \A i \in 1..(n + 1) : i \in 1..n \/ i = n + 1
        BY <2>3
      <4>3. asked[n + 1].role # other
        BY <2>3, <3>5
      <4>4. CASE bindings[other] = {} /\ \A i \in 1..n : asked[i].role # other
        BY <3>2, <4>1, <4>2, <4>3, <4>4 DEF GivenBy
      <4>5. ASSUME NEW i \in 1..n, asked[i].role = other,
                   bindings[other] = Range(asked[i].members),
                   \A j \in 1..n : asked[j].role = other => j <= i
            PROVE  GivenBy(asked, n + 1, other, bindings'[other])
        <5>1. i \in 1..(n + 1)
          BY <2>3
        <5>2. \A j \in 1..(n + 1) : asked[j].role = other => j <= i
          BY <4>2, <4>3, <4>5
        <5> QED
          BY <4>1, <4>5, <5>1, <5>2 DEF GivenBy
      <4> QED
        BY <3>2, <3>3, <4>4, <4>5 DEF GivenBy
    <3> QED
      BY <3>4, <3>5
  <2>6. RoleFromOneRequest'
    <3>1. SUFFICES ASSUME NEW role \in Roles, bindings'[role] # {}
                   PROVE  \E p \in Policies : \E x \in Range(p) :
                              x.role = role /\ Range(x.members) = bindings'[role]
      BY DEF RoleFromOneRequest
    <3>2. CASE role = b.role
      <4>1. b \in Range(asked)
        <5> HIDE DEF n, b, todo
        <5> QED
          BY <2>2, <2>3 DEF Range
      <4> QED
        BY <2>1, <2>2, <3>2, <4>1
    <3>3. CASE role # b.role
      BY <2>1, <3>1, <3>3 DEF IInv, RoleFromOneRequest
    <3> QED
      BY <3>2, <3>3
  <2>7. \A d \in Clients \ {c} : req'[d] = req[d]
    BY <1>1, <2>1
  <2> QED
    BY <1>1, <1>2, <2>1, <2>2, <2>4, <2>5, <2>6, <2>7, MovesOn
<1> QED
  BY <1>3, <1>4

LEMMA StepKeeps == IInv /\ [Next]_vars => IInv'
<1> SUFFICES ASSUME IInv, [Next]_vars PROVE IInv'
  OBVIOUS
<1>1. TypeOK' /\ req = [c \in Clients |-> req[c]]
  BY TypedStep DEF IInv, TypeOK
<1>2. CASE Restart
  <2>1. KeysHaveAccount'
    BY <1>2 DEF IInv, Restart, KeysHaveAccount, HasAccount
  <2>2. bindings' = bindings /\ \A d \in Clients : req'[d].pc \notin Policy
    BY <1>2, IdleTyped DEF Restart, Policy
  <2> QED
    BY <1>1, <2>1, <2>2, SamePolicy
<1>3. CASE UNCHANGED vars
  <2>1. KeysHaveAccount'
    BY <1>3 DEF IInv, vars, KeysHaveAccount, HasAccount
  <2> QED
    BY <1>1, <1>3, <2>1, SamePolicy DEF vars
<1>4. ASSUME NEW c \in Clients, ReadBack(c)
      PROVE  IInv'
  <2>1. KeysHaveAccount'
    BY <1>4 DEF IInv, ReadBack, KeysHaveAccount, HasAccount
  <2>2. bindings' = bindings
        /\ \A d \in Clients : req'[d] = req[d] \/ req'[d].pc \notin Policy
    BY <1>1, <1>4, IdleTyped DEF ReadBack, Answer, Policy
  <2> QED
    BY <1>1, <2>1, <2>2, SamePolicy
<1>5. ASSUME NEW c \in Clients, Acquire(c)
      PROVE  IInv'
  <2>1. KeysHaveAccount'
    BY <1>5 DEF IInv, Acquire, KeysHaveAccount, HasAccount
  <2> QED
    BY <1>1, <1>5, <2>1, SamePolicy DEF Acquire
<1> QED
  BY <1>2, <1>3, <1>4, <1>5, SetIAMPolicyKeeps, ClearRoleKeeps, SetRoleKeeps, AccountsKeep
  DEF Next

LEMMA InitKeeps == Init => IInv
<1> SUFFICES ASSUME Init PROVE IInv
  OBVIOUS
<1>1. TypeOK /\ keys = {} /\ \A r \in Roles : bindings[r] = {}
  BY InitTyped DEF Init
<1>2. \A c \in Clients : req[c].pc \notin Policy
  BY IdleTyped DEF Init, Policy
<1> QED
  BY <1>1, <1>2 DEF IInv, RoleFromOneRequest, KeysHaveAccount, Progress, Together

LEMMA Inductive == Spec => []IInv
  BY InitKeeps, StepKeeps, PTL DEF Spec

---------------------------------------------------------------------------
(* What follows from it *)

\* However SetIAMPolicy calls interleave, fail or die, a role's members are those of
\* one binding of one policy.
THEOREM RolesNotMixed == Spec => []RoleFromOneRequest
<1>1. IInv => RoleFromOneRequest
  BY DEF IInv
<1> QED
  BY <1>1, Inductive, PTL

\* A SetIAMPolicy with no other beside it reads back the policy it was sent.
THEOREM PolicyIsReplaced == Spec => []PolicyReplaced
<1>1. IInv => PolicyReplaced
  <2> SUFFICES ASSUME IInv, NEW c \in Clients, At(c, "readBack"), req[c].alone,
                      NEW r \in Roles
               PROVE  bindings[r] = Asked(req[c].asked, r)
    BY DEF PolicyReplaced
  <2> DEFINE policy == req[c].asked
             at == {i \in 1..Len(policy) : policy[i].role = r}
  <2>1. req[c].clear = {} /\ req[c].todo = <<>> /\ policy \in Seq(Binding)
    BY DEF IInv, TypeOK, RequestOK, Request, At
  <2>2. GivenBy(policy, Len(policy) - Len(req[c].todo), r, bindings[r])
    BY <2>1 DEF IInv, Progress, Policy, At
  <2>3. Len(policy) - Len(req[c].todo) = Len(policy)
    BY <2>1
  <2>4. GivenBy(policy, Len(policy), r, bindings[r])
    BY <2>2, <2>3
  <2>5. Asked(policy, r) = IF at = {} THEN {} ELSE Range(policy[Max(at)].members)
    BY DEF Asked
  <2> HIDE DEF policy
  <2>6. ASSUME at = {}
        PROVE  bindings[r] = Asked(policy, r)
    BY <2>4, <2>5, <2>6 DEF GivenBy
  <2>7. ASSUME at # {}
        PROVE  bindings[r] = Asked(policy, r)
    <3>1. PICK i \in 1..Len(policy) :
              /\ policy[i].role = r
              /\ bindings[r] = Range(policy[i].members)
              /\ \A j \in 1..Len(policy) : policy[j].role = r => j <= i
      BY <2>4, <2>7 DEF GivenBy
    <3>2. i \in at /\ \A j \in at : i >= j
      BY <2>1, <3>1
    <3>3. Max(at) \in at /\ \A j \in at : Max(at) >= j
      <4> HIDE DEF at
      <4> QED
        BY <3>2 DEF Max
    <3>4. Max(at) = i
      BY <2>1, <3>2, <3>3
    <3> QED
      BY <2>5, <2>7, <3>1, <3>4
  <2> QED
    BY <2>6, <2>7 DEF policy
<1> QED
  BY <1>1, Inductive, PTL

\* ON DELETE CASCADE takes an account's keys with it.
THEOREM KeysGoWithAccount == Spec => []KeysHaveAccount
<1>1. IInv => KeysHaveAccount
  BY DEF IInv
<1> QED
  BY <1>1, Inductive, PTL

\* The UPDATE of a PATCH finds no row of an account deleted since it was read.
THEOREM NotRevived == Spec => NoAccountRevived
<1>1. ASSUME TypeOK, Next, NEW e \in Emails, ~HasAccount(e), HasAccount(e)'
      PROVE  UNCHANGED req
  <2>1. PICK c \in Clients :
            CreateServiceAccount(c) \/ WriteAccount(c) \/ DeleteServiceAccount(c)
    BY <1>1 DEF Next, HasAccount, Restart, SetIAMPolicy, Acquire, ClearRole, SetRole, ReadBack,
       UpdateServiceAccount, CreateSAKey, DeleteSAKey, SetServiceAccountIamPolicy
  <2>2. ~WriteAccount(c)
    BY <1>1 DEF WriteAccount, HasAccount, TypeOK
  <2> QED
    BY <2>1, <2>2 DEF CreateServiceAccount, DeleteServiceAccount
<1>2. TypeOK /\ [Next]_vars =>
        [\A e \in Emails : ~HasAccount(e) /\ HasAccount(e)' => UNCHANGED req]_vars
  BY <1>1
<1> QED
  BY <1>2, TypeCorrect, PTL DEF Spec, NoAccountRevived
=============================================================================
