------------------------ MODULE SecretManagerProofs ------------------------
(***************************************************************************)
(* Version numbers and payloads of SecretManager, for any clients, secrets *)
(* and payloads and any bound on rowids.                                   *)
(***************************************************************************)
EXTENDS SecretManager, FiniteSetTheorems, TLAPS

---------------------------------------------------------------------------
(* The largest rowid *)

\* A bounded set of numbers that is not empty has a largest one. If it had none, k + 1
\* would map the numbers below its elements into themselves, one to one and never to 0,
\* which a finite set does not allow.
LEMMA Greatest ==
    ASSUME NEW n \in Nat, NEW S, S \subseteq 0..n, S # {}
    PROVE  Max(S) \in S /\ \A y \in S : y <= Max(S)
<1>1. \E x \in S : \A y \in S : x >= y
  <2>1. SUFFICES ASSUME \A x \in S : \E y \in S : y > x
                 PROVE  FALSE
    OBVIOUS
  <2> DEFINE D == {k \in 0..n : \E x \in S : k <= x}
             f == [k \in D |-> k + 1]
  <2>2. IsFiniteSet(D)
    <3>1. IsFiniteSet(0..n)
      BY FS_Interval
    <3>2. D \in SUBSET (0..n)
      OBVIOUS
    <3> QED
      BY <3>1, <3>2, FS_Subset
  <2>3. 0 \in D
    <3>1. PICK x \in S : TRUE
      OBVIOUS
    <3> QED
      BY <3>1
  <2>4. \A k \in D : k + 1 \in D
    <3>1. TAKE k \in D
    <3>2. PICK x \in S : k <= x
      OBVIOUS
    <3>3. PICK y \in S : y > x
      BY <2>1
    <3> QED
      BY <3>2, <3>3
  <2>5. f \in Injection(D, D)
    BY <2>4 DEF Injection, IsInjective
  <2>6. f \in Surjection(D, D)
    <3> HIDE DEF f, D
    <3> QED
      BY <2>2, <2>5, FS_Injection
  <2>7. PICK k \in D : f[k] = 0
    BY <2>3, <2>6 DEF Surjection
  <2> QED
    BY <2>7
<1> QED
  BY <1>1 DEF Max

\* Types, with the bound on rowids that MaxRow needs.
Typed == TypeOK /\ \A v \in versions : v.rowid <= MaxRowid

LEMMA MaxRowBounds ==
    ASSUME Typed, NEW S \in SUBSET versions
    PROVE  /\ MaxRow(S) \in 0..MaxRowid
           /\ \A v \in S : v.rowid <= MaxRow(S)
           /\ MaxRow(S) = 0 \/ \E v \in S : v.rowid = MaxRow(S)
<1> DEFINE R == {v.rowid : v \in S} \cup {0}
<1>1. R \subseteq 0..MaxRowid /\ R # {}
  BY MaxRowidAssumption DEF Typed, TypeOK, Version
<1>2. Max(R) \in R /\ \A y \in R : y <= Max(R)
  <2> HIDE DEF R
  <2> QED
    BY <1>1, Greatest, MaxRowidAssumption
<1> QED
  BY <1>1, <1>2 DEF MaxRow

LEMMA NextNumbers ==
    ASSUME Typed
    PROVE  /\ NextRowid \in Nat /\ \A v \in versions : v.rowid < NextRowid
           /\ \A s : /\ NextNumber(s) \in Nat /\ NextNumber(s) <= NextRowid
                     /\ \A v \in Versions(s) : v.rowid < NextNumber(s)
<1>1. MaxRow(versions) \in Nat /\ \A v \in versions : v.rowid <= MaxRow(versions)
  BY MaxRowBounds, MaxRowidAssumption
<1>2. ASSUME NEW s
      PROVE  /\ MaxRow(Versions(s)) \in Nat
             /\ \A v \in Versions(s) : v.rowid <= MaxRow(Versions(s))
             /\ MaxRow(Versions(s)) = 0 \/ \E v \in versions : v.rowid = MaxRow(Versions(s))
  <2>1. Versions(s) \in SUBSET versions
    BY DEF Versions
  <2> QED
    BY <2>1, MaxRowBounds, MaxRowidAssumption
<1>3. \A v \in versions : v.rowid \in Nat
  BY DEF Typed, TypeOK, Version
<1>4. NextRowid \in Nat /\ \A v \in versions : v.rowid < NextRowid
  BY <1>1, <1>3 DEF NextRowid
<1>5. ASSUME NEW s
      PROVE  /\ NextNumber(s) \in Nat /\ NextNumber(s) <= NextRowid
             /\ \A v \in Versions(s) : v.rowid < NextNumber(s)
  <2>1. \A v \in Versions(s) : v.rowid \in Nat
    BY <1>3 DEF Versions
  <2> QED
    BY <1>1, <1>2, <2>1 DEF NextNumber, NextRowid
<1> QED
  BY <1>4, <1>5

---------------------------------------------------------------------------
(* Types *)

LEMMA IdleTyped == Idle \in Request /\ Idle.pc = "idle"
<1>1. Default(SecretNames) \in SecretNames /\ Default(Labels) \in Labels
  BY NamesAssumption DEF Default
<1> QED
  BY <1>1 DEF Idle, Request, States

\* A step that gives client c a well-formed request keeps requests well formed.
LEMMA BecomeTyped ==
    ASSUME Typed, NEW c \in Clients, NEW r \in Request, Become(c, r)
    PROVE  req' \in [Clients -> Request]
  BY DEF Typed, TypeOK, Become

LEMMA GotoTyped ==
    ASSUME Typed, NEW c \in Clients,
           Goto(c, "readVersionBack")
    PROVE  req' \in [Clients -> Request]
<1>1. [req[c] EXCEPT !.pc = "readVersionBack"] \in Request
  BY DEF Typed, TypeOK, Request
<1> QED
  BY <1>1, BecomeTyped DEF Goto

LEMMA InsertTyped ==
    ASSUME Typed, NEW c \in Clients, InsertVersion(c)
    PROVE  Typed'
<1> DEFINE r == req[c]
           v == [rowid |-> NextRowid, secret |-> r.secret, num |-> r.num,
                 state |-> "ENABLED", payload |-> r.payload]
<1>1. r \in Request /\ secrets' = secrets
  BY DEF Typed, TypeOK, InsertVersion
<1>2. req' \in [Clients -> Request]
  BY IdleTyped, BecomeTyped, GotoTyped DEF InsertVersion, Answer
<1>3. CASE versions' = versions
  BY <1>1, <1>2, <1>3 DEF Typed, TypeOK
<1>4. CASE versions' = versions \cup {v} /\ NextRowid <= MaxRowid
  <2>1. v \in Version
    BY <1>1, NextNumbers DEF Version, Request, States
  <2>2. v.rowid <= MaxRowid
    BY <1>4
  <2> QED
    BY <1>1, <1>2, <1>4, <2>1, <2>2 DEF Typed, TypeOK
<1> QED
  BY <1>3, <1>4 DEF InsertVersion

LEMMA WriteTyped ==
    ASSUME Typed, NEW c \in Clients, WriteVersion(c)
    PROVE  Typed'
<1>1. req[c] \in Request /\ secrets' = secrets
  BY DEF Typed, TypeOK, WriteVersion
<1>2. req' \in [Clients -> Request]
  BY IdleTyped, BecomeTyped DEF WriteVersion, Answer
<1>3. ASSUME NEW w \in versions'
      PROVE  w \in Version /\ w.rowid <= MaxRowid
  <2>1. PICK v \in versions :
            w = IF v.secret = req[c].secret /\ v.num = req[c].num
                  THEN [v EXCEPT !.state = req[c].state, !.payload = req[c].payload]
                  ELSE v
    BY DEF WriteVersion
  <2>2. v \in Version /\ v.rowid <= MaxRowid
    BY DEF Typed, TypeOK
  <2> QED
    BY <1>1, <2>1, <2>2 DEF Version, Request
<1> QED
  BY <1>1, <1>2, <1>3 DEF Typed, TypeOK

\* The actions on secrets, and those that only start or end a request.
LEMMA OthersTyped ==
    ASSUME Typed, NEW c \in Clients,
           \/ CreateSecret(c) \/ ReadSecretBack(c) \/ UpdateSecret(c) \/ WriteSecret(c)
           \/ DeleteSecret(c) \/ CreateSecretVersion(c) \/ ReadVersionBack(c)
           \/ SetSecretVersionState(c) \/ DestroySecretVersion(c)
    PROVE  Typed'
<1> USE IdleTyped DEF Typed, TypeOK
<1>1. CASE CreateSecret(c)
  <2>1. PICK s \in SecretNames, l \in Labels :
            IF HasSecret(s)
              THEN UNCHANGED <<secrets, req>>
              ELSE /\ secrets' = secrets \cup {[name |-> s, label |-> l]}
                   /\ Become(c, [Idle EXCEPT !.pc = "readSecretBack", !.secret = s])
    BY <1>1 DEF CreateSecret
  <2>2. versions' = versions
    BY <1>1 DEF CreateSecret
  <2>3. [Idle EXCEPT !.pc = "readSecretBack", !.secret = s] \in Request
    BY DEF Request
  <2> QED
    BY <2>1, <2>2, <2>3 DEF Secret, Become
<1>2. CASE ReadSecretBack(c) \/ ReadVersionBack(c)
  BY <1>2 DEF ReadSecretBack, ReadVersionBack, Answer, Become
<1>3. CASE UpdateSecret(c)
  <2>1. PICK s \in SecretNames, l \in Labels :
            Start(c, [Idle EXCEPT !.pc = "writeSecret", !.secret = s, !.label = l])
    BY <1>3 DEF UpdateSecret
  <2>2. [Idle EXCEPT !.pc = "writeSecret", !.secret = s, !.label = l] \in Request
    BY DEF Request
  <2> QED
    BY <2>1, <2>2 DEF Start, Become
<1>4. CASE WriteSecret(c)
  <2>1. req[c].label \in Labels
    BY DEF Request
  <2>2. secrets' \subseteq Secret
    BY <1>4, <2>1 DEF WriteSecret, Secret
  <2> QED
    BY <1>4, <2>2 DEF WriteSecret, Answer, Become
<1>5. CASE DeleteSecret(c)
  BY <1>5 DEF DeleteSecret
<1>6. CASE CreateSecretVersion(c)
  <2>1. PICK s \in SecretNames, p \in Payloads :
            Start(c, [Idle EXCEPT !.pc = "insertVersion", !.secret = s,
                                  !.num = NextNumber(s), !.payload = p])
    BY <1>6 DEF CreateSecretVersion
  <2>2. [Idle EXCEPT !.pc = "insertVersion", !.secret = s,
                     !.num = NextNumber(s), !.payload = p] \in Request
    BY NextNumbers DEF Request
  <2> QED
    BY <2>1, <2>2 DEF Start, Become
<1>7. CASE SetSecretVersionState(c)
  <2>1. PICK v \in versions, st \in {"ENABLED", "DISABLED"} :
            Start(c, [Idle EXCEPT !.pc = "writeVersion", !.secret = v.secret,
                                  !.num = v.num, !.state = st, !.payload = v.payload])
    BY <1>7 DEF SetSecretVersionState
  <2>2. [Idle EXCEPT !.pc = "writeVersion", !.secret = v.secret,
                     !.num = v.num, !.state = st, !.payload = v.payload] \in Request
    BY DEF Request, Version, States
  <2> QED
    BY <2>1, <2>2 DEF Start, Become
<1>8. CASE DestroySecretVersion(c)
  <2>1. PICK v \in versions :
            Start(c, [Idle EXCEPT !.pc = "writeVersion", !.secret = v.secret,
                                  !.num = v.num, !.state = "DESTROYED"])
    BY <1>8 DEF DestroySecretVersion
  <2>2. [Idle EXCEPT !.pc = "writeVersion", !.secret = v.secret,
                     !.num = v.num, !.state = "DESTROYED"] \in Request
    BY DEF Request, Version, States
  <2> QED
    BY <2>1, <2>2 DEF Start, Become
<1> QED
  BY <1>1, <1>2, <1>3, <1>4, <1>5, <1>6, <1>7, <1>8

LEMMA TypedStep == Typed /\ [Next]_vars => Typed'
<1> SUFFICES ASSUME Typed, [Next]_vars PROVE Typed'
  OBVIOUS
<1>1. CASE Restart
  BY <1>1, IdleTyped DEF Restart, Typed, TypeOK
<1>2. CASE UNCHANGED vars
  BY <1>2 DEF vars, Typed, TypeOK
<1> QED
  BY <1>1, <1>2, InsertTyped, WriteTyped, OthersTyped DEF Next

LEMMA InitTyped == Init => Typed
  BY IdleTyped DEF Init, Typed, TypeOK

\* Rows and requests are always well formed, whatever overlaps.
THEOREM TypeCorrect == Spec => []TypeOK
<1>1. Typed => TypeOK
  BY DEF Typed
<1> QED
  BY <1>1, InitTyped, TypedStep, PTL DEF Spec

---------------------------------------------------------------------------
(* Payloads and states, whatever overlaps *)

\* A version's name is UNIQUE.
NamesUnique ==
    \A v, w \in versions : v.secret = w.secret /\ v.num = w.num => v = w

\* What a request is about to write has a payload unless its state is DESTROYED.
Agrees(r) ==
    /\ r.pc = "insertVersion" => r.payload \in Payloads
    /\ r.pc = "writeVersion" => (r.state = "DESTROYED" <=> r.payload = NoPayload)

Sound ==
    /\ Typed
    /\ NamesUnique
    /\ PayloadMatchesState
    /\ \A c \in Clients : Agrees(req[c])

\* Steps that add no version and change none, and give client c a request that agrees.
LEMMA SoundRequest ==
    ASSUME Sound, NEW c \in Clients, NEW r, Become(c, r), Agrees(r),
           versions' \subseteq versions, Typed'
    PROVE  Sound'
<1>1. NamesUnique' /\ PayloadMatchesState'
  BY DEF Sound, NamesUnique, PayloadMatchesState
<1>2. \A d \in Clients : req'[d] = r \/ req'[d] = req[d]
  BY DEF Become, Sound, Typed, TypeOK
<1>3. \A d \in Clients : Agrees(req'[d])
  BY <1>2 DEF Sound
<1> QED
  BY <1>1, <1>3 DEF Sound

LEMMA InsertSound ==
    ASSUME Sound, NEW c \in Clients, InsertVersion(c)
    PROVE  Sound'
<1> DEFINE r == req[c]
           v == [rowid |-> NextRowid, secret |-> r.secret, num |-> r.num,
                 state |-> "ENABLED", payload |-> r.payload]
<1>1. Typed' /\ r \in Request /\ r.payload \in Payloads
  BY InsertTyped DEF Sound, Typed, TypeOK, InsertVersion, At, Agrees
<1>2. CASE Answer(c) /\ versions' = versions
  BY <1>1, <1>2, IdleTyped, SoundRequest DEF Answer, Agrees
<1>3. CASE /\ ~HasVersion(r.secret, r.num)
           /\ versions' = versions \cup {v}
           /\ Goto(c, "readVersionBack")
  <2>1. v.num = r.num /\ v.secret = r.secret /\ v.state = "ENABLED"
        /\ v.payload = r.payload
    OBVIOUS
  <2> HIDE DEF v
  <2>2. NamesUnique'
    BY <1>3, <2>1 DEF Sound, NamesUnique, HasVersion, Versions
  <2>3. PayloadMatchesState'
    BY <1>1, <1>3, <2>1, PayloadAssumption DEF Sound, PayloadMatchesState
  <2>4. req'[c].pc = "readVersionBack" /\ \A d \in Clients \ {c} : req'[d] = req[d]
    BY <1>1, <1>3 DEF Goto, Become, Sound, Typed, TypeOK, Request
  <2>5. \A d \in Clients : Agrees(req'[d])
    BY <2>4 DEF Sound, Agrees
  <2> QED
    BY <1>1, <2>2, <2>3, <2>5 DEF Sound
<1> QED
  BY <1>2, <1>3 DEF InsertVersion

LEMMA WriteSound ==
    ASSUME Sound, NEW c \in Clients, WriteVersion(c)
    PROVE  Sound'
<1> DEFINE r == req[c]
           W(v) == IF v.secret = r.secret /\ v.num = r.num
                     THEN [v EXCEPT !.state = r.state, !.payload = r.payload]
                     ELSE v
<1>1. Typed' /\ r.pc = "writeVersion" /\ Become(c, Idle)
      /\ (r.state = "DESTROYED" <=> r.payload = NoPayload)
  BY WriteTyped DEF Sound, Agrees, WriteVersion, At, Answer
<1>2. versions' = {W(v) : v \in versions}
  BY DEF WriteVersion
<1>3. \A v \in versions :
        /\ W(v).secret = v.secret /\ W(v).num = v.num
        /\ (v.secret = r.secret /\ v.num = r.num) =>
              W(v).state = r.state /\ W(v).payload = r.payload
        /\ ~(v.secret = r.secret /\ v.num = r.num) => W(v) = v
  BY DEF Sound, Typed, TypeOK, Version
<1> HIDE DEF W
<1>4. NamesUnique'
  BY <1>2, <1>3 DEF Sound, NamesUnique
<1>5. PayloadMatchesState'
  <2>1. ASSUME NEW x \in versions'
        PROVE  x.state = "DESTROYED" <=> x.payload = NoPayload
    <3>1. PICK v \in versions : x = W(v)
      BY <1>2
    <3>2. v.state = "DESTROYED" <=> v.payload = NoPayload
      BY DEF Sound, PayloadMatchesState
    <3> QED
      BY <1>1, <1>3, <3>1, <3>2
  <2> QED
    BY <2>1 DEF PayloadMatchesState
<1>6. \A d \in Clients : req'[d] = Idle \/ req'[d] = req[d]
  BY <1>1 DEF Become, Sound, Typed, TypeOK
<1>7. \A d \in Clients : Agrees(req'[d])
  BY <1>6, IdleTyped DEF Sound, Agrees
<1> QED
  BY <1>1, <1>4, <1>5, <1>7 DEF Sound

LEMMA OthersSound ==
    ASSUME Sound, NEW c \in Clients,
           \/ CreateSecret(c) \/ ReadSecretBack(c) \/ UpdateSecret(c) \/ WriteSecret(c)
           \/ DeleteSecret(c) \/ CreateSecretVersion(c) \/ ReadVersionBack(c)
           \/ SetSecretVersionState(c) \/ DestroySecretVersion(c)
    PROVE  Sound'
<1>1. Typed' /\ versions' \subseteq versions
  BY OthersTyped DEF Sound, CreateSecret, ReadSecretBack, UpdateSecret, WriteSecret,
     DeleteSecret, CreateSecretVersion, ReadVersionBack, SetSecretVersionState,
     DestroySecretVersion, Start
<1>2. ASSUME NEW r, Become(c, r), Agrees(r)
      PROVE  Sound'
  BY <1>1, <1>2, SoundRequest
<1>3. ASSUME req' = req
      PROVE  Sound'
  <2>1. Become(c, req[c]) /\ Agrees(req[c])
    BY <1>3 DEF Become, Sound, Typed, TypeOK
  <2> QED
    BY <1>2, <2>1
<1>4. CASE CreateSecret(c)
  <2>1. PICK s \in SecretNames :
            req' = req \/ Become(c, [Idle EXCEPT !.pc = "readSecretBack", !.secret = s])
    BY <1>4 DEF CreateSecret
  <2>2. [Idle EXCEPT !.pc = "readSecretBack", !.secret = s].pc = "readSecretBack"
    BY DEF Idle
  <2> QED
    BY <1>2, <1>3, <2>1, <2>2 DEF Agrees
<1>5. CASE ReadSecretBack(c) \/ WriteSecret(c) \/ ReadVersionBack(c)
  BY <1>2, <1>5, IdleTyped DEF ReadSecretBack, WriteSecret, ReadVersionBack, Answer, Agrees
<1>6. CASE UpdateSecret(c)
  <2>1. PICK s \in SecretNames, l \in Labels :
            Become(c, [Idle EXCEPT !.pc = "writeSecret", !.secret = s, !.label = l])
    BY <1>6 DEF UpdateSecret, Start
  <2>2. [Idle EXCEPT !.pc = "writeSecret", !.secret = s, !.label = l].pc = "writeSecret"
    BY DEF Idle
  <2> QED
    BY <1>2, <2>1, <2>2 DEF Agrees
<1>7. CASE DeleteSecret(c)
  BY <1>3, <1>7 DEF DeleteSecret
<1>8. CASE CreateSecretVersion(c)
  <2>1. PICK s \in SecretNames, p \in Payloads :
            Become(c, [Idle EXCEPT !.pc = "insertVersion", !.secret = s,
                                   !.num = NextNumber(s), !.payload = p])
    BY <1>8 DEF CreateSecretVersion, Start
  <2> DEFINE r == [Idle EXCEPT !.pc = "insertVersion", !.secret = s,
                               !.num = NextNumber(s), !.payload = p]
  <2>2. r.pc = "insertVersion" /\ r.payload = p
    BY DEF Idle
  <2> HIDE DEF r
  <2> QED
    BY <1>2, <2>1, <2>2 DEF Agrees, r
<1>9. CASE SetSecretVersionState(c)
  <2>1. PICK v \in versions, st \in {"ENABLED", "DISABLED"} :
            /\ v.state # "DESTROYED"
            /\ Become(c, [Idle EXCEPT !.pc = "writeVersion", !.secret = v.secret,
                                      !.num = v.num, !.state = st, !.payload = v.payload])
    BY <1>9 DEF SetSecretVersionState, Start
  <2> DEFINE r == [Idle EXCEPT !.pc = "writeVersion", !.secret = v.secret,
                               !.num = v.num, !.state = st, !.payload = v.payload]
  <2>2. r.pc = "writeVersion" /\ r.state = st /\ r.payload = v.payload
    BY DEF Idle
  <2>3. v.payload # NoPayload /\ st # "DESTROYED"
    BY <2>1 DEF Sound, PayloadMatchesState
  <2>4. Become(c, r)
    BY <2>1
  <2> HIDE DEF r
  <2> QED
    BY <1>2, <2>2, <2>3, <2>4 DEF Agrees
<1>10. CASE DestroySecretVersion(c)
  <2>1. PICK v \in versions :
            Become(c, [Idle EXCEPT !.pc = "writeVersion", !.secret = v.secret,
                                   !.num = v.num, !.state = "DESTROYED"])
    BY <1>10 DEF DestroySecretVersion, Start
  <2> DEFINE r == [Idle EXCEPT !.pc = "writeVersion", !.secret = v.secret,
                               !.num = v.num, !.state = "DESTROYED"]
  <2>2. r.pc = "writeVersion" /\ r.state = "DESTROYED" /\ r.payload = NoPayload
    BY DEF Idle
  <2>3. Become(c, r)
    BY <2>1
  <2> HIDE DEF r
  <2> QED
    BY <1>2, <2>2, <2>3 DEF Agrees
<1> QED
  BY <1>4, <1>5, <1>6, <1>7, <1>8, <1>9, <1>10

LEMMA SoundStep ==
    ASSUME Sound, [Next]_vars
    PROVE  Sound'
<1>1. Typed'
  BY TypedStep DEF Sound
<1>2. CASE Restart
  <2>1. versions' = versions /\ \A c \in Clients : req'[c] = Idle
    BY <1>2 DEF Restart
  <2> QED
    BY <1>1, <2>1, IdleTyped DEF Sound, NamesUnique, PayloadMatchesState, Agrees
<1>3. CASE UNCHANGED vars
  BY <1>1, <1>3 DEF vars, Sound, NamesUnique, PayloadMatchesState, Agrees
<1> QED
  BY <1>2, <1>3, InsertSound, WriteSound, OthersSound DEF Next

LEMMA InitSound == Init => Sound
<1> SUFFICES ASSUME Init PROVE Sound
  OBVIOUS
<1>1. Typed /\ versions = {} /\ \A c \in Clients : req[c] = Idle
  BY InitTyped DEF Init
<1> QED
  BY <1>1, IdleTyped DEF Sound, NamesUnique, PayloadMatchesState, Agrees

LEMMA AlwaysSound == Spec => []Sound
<1>1. Sound /\ [Next]_vars => Sound'
  BY SoundStep
<1> QED
  BY <1>1, InitSound, PTL DEF Spec

\* No overlap of :destroy, :enable and :disable leaves a usable version without its
\* payload, or a destroyed one with it, not even when the secret is deleted and created
\* again under them.
THEOREM PayloadsMatch == Spec => []PayloadMatchesState
<1>1. Sound => PayloadMatchesState
  BY DEF Sound
<1> QED
  BY <1>1, AlwaysSound, PTL

\* A destroyed version that no older request is about to write stays so.
LEMMA StepBuried ==
    ASSUME Sound, [Next]_vars, NEW v \in versions, NEW w \in versions',
           v.secret = w.secret, v.num = w.num, Buried(v)
    PROVE  Buried(w)'
<1> DEFINE Stale(r) == /\ r.pc = "writeVersion" /\ r.secret = v.secret /\ r.num = v.num
                       /\ r.state # "DESTROYED"
<1>1. v.state = "DESTROYED" /\ \A d \in Clients : ~Stale(req[d])
  BY DEF Buried, At
<1>2. w.state = "DESTROYED"
  <2>1. CASE w \in versions
    BY <1>1, <2>1 DEF Sound, NamesUnique
  <2>2. CASE w \notin versions
    <3>1. PICK c \in Clients : InsertVersion(c) \/ WriteVersion(c)
      BY <2>2 DEF Next, vars, Restart, CreateSecret, ReadSecretBack, UpdateSecret,
         WriteSecret, DeleteSecret, CreateSecretVersion, ReadVersionBack,
         SetSecretVersionState, DestroySecretVersion, Start
    <3>2. CASE InsertVersion(c)
      BY <2>2, <3>2 DEF InsertVersion, HasVersion, Versions
    <3>3. CASE WriteVersion(c)
      <4>1. PICK x \in versions :
                w = IF x.secret = req[c].secret /\ x.num = req[c].num
                      THEN [x EXCEPT !.state = req[c].state, !.payload = req[c].payload]
                      ELSE x
        BY <3>3 DEF WriteVersion
      <4>2. x.secret = req[c].secret /\ x.num = req[c].num
        BY <2>2, <4>1
      <4>3. x \in Version
        BY DEF Sound, Typed, TypeOK
      <4>4. w.secret = x.secret /\ w.num = x.num /\ w.state = req[c].state
        BY <4>1, <4>2, <4>3 DEF Version
      <4>5. ~Stale(req[c]) /\ req[c].pc = "writeVersion"
        BY <1>1, <3>3 DEF WriteVersion, At
      <4> QED
        BY <4>2, <4>4, <4>5
    <3> QED
      BY <3>1, <3>2, <3>3
  <2> QED
    BY <2>1, <2>2
<1>3. ASSUME NEW d \in Clients
      PROVE  ~Stale(req'[d])
  <2> HIDE DEF Stale
  <2>1. ASSUME NEW c \in Clients, NEW r, Become(c, r), ~Stale(r)
        PROVE  ~Stale(req'[d])
    <3>1. req'[d] = r \/ req'[d] = req[d]
      BY <2>1 DEF Become, Sound, Typed, TypeOK
    <3> QED
      BY <1>1, <2>1, <3>1
  <2>2. CASE UNCHANGED vars
    BY <1>1, <2>2 DEF vars
  <2>3. CASE Restart
    BY <2>3, IdleTyped DEF Restart, Stale
  <2>4. ASSUME NEW c \in Clients, SetSecretVersionState(c)
        PROVE  ~Stale(req'[d])
    <3>1. PICK x \in versions, st \in {"ENABLED", "DISABLED"} :
              /\ x.state # "DESTROYED"
              /\ Become(c, [Idle EXCEPT !.pc = "writeVersion", !.secret = x.secret,
                                        !.num = x.num, !.state = st,
                                        !.payload = x.payload])
      BY <2>4 DEF SetSecretVersionState, Start
    <3> DEFINE r == [Idle EXCEPT !.pc = "writeVersion", !.secret = x.secret,
                                 !.num = x.num, !.state = st, !.payload = x.payload]
    <3>2. r.secret = x.secret /\ r.num = x.num
      BY DEF Idle
    <3>3. Become(c, r)
      BY <3>1
    <3> HIDE DEF r
    <3>4. ~Stale(r)
      BY <1>1, <3>1, <3>2 DEF Sound, NamesUnique, Stale
    <3> QED
      BY <2>1, <3>3, <3>4
  <2>5. ASSUME NEW c \in Clients, DestroySecretVersion(c)
        PROVE  ~Stale(req'[d])
    <3>1. PICK x \in versions :
              Become(c, [Idle EXCEPT !.pc = "writeVersion", !.secret = x.secret,
                                     !.num = x.num, !.state = "DESTROYED"])
      BY <2>5 DEF DestroySecretVersion, Start
    <3>2. [Idle EXCEPT !.pc = "writeVersion", !.secret = x.secret,
                       !.num = x.num, !.state = "DESTROYED"].state = "DESTROYED"
      BY DEF Idle
    <3> QED
      BY <2>1, <3>1, <3>2 DEF Stale
  <2>6. ASSUME NEW c \in Clients,
               \/ InsertVersion(c) \/ WriteVersion(c) \/ CreateSecret(c)
               \/ ReadSecretBack(c) \/ UpdateSecret(c) \/ WriteSecret(c)
               \/ DeleteSecret(c) \/ CreateSecretVersion(c) \/ ReadVersionBack(c)
        PROVE  ~Stale(req'[d])
    <3>1. \/ req' = req
          \/ \E r : Become(c, r) /\ r.pc # "writeVersion"
      <4>1. CASE InsertVersion(c)
        <5>1. [req[c] EXCEPT !.pc = "readVersionBack"].pc = "readVersionBack"
          BY DEF Sound, Typed, TypeOK, Request
        <5> QED
          BY <4>1, <5>1, IdleTyped DEF InsertVersion, Goto, Answer
      <4>2. CASE WriteVersion(c) \/ ReadSecretBack(c) \/ WriteSecret(c)
                 \/ ReadVersionBack(c)
        BY <4>2, IdleTyped DEF WriteVersion, ReadSecretBack, WriteSecret,
           ReadVersionBack, Answer
      <4>3. CASE CreateSecret(c)
        <5>1. PICK s \in SecretNames :
                \/ req' = req
                \/ Become(c, [Idle EXCEPT !.pc = "readSecretBack", !.secret = s])
          BY <4>3 DEF CreateSecret
        <5>2. [Idle EXCEPT !.pc = "readSecretBack", !.secret = s].pc = "readSecretBack"
          BY DEF Idle
        <5> QED
          BY <5>1, <5>2
      <4>4. CASE UpdateSecret(c)
        <5>1. PICK s \in SecretNames, l \in Labels :
                Become(c, [Idle EXCEPT !.pc = "writeSecret", !.secret = s, !.label = l])
          BY <4>4 DEF UpdateSecret, Start
        <5>2. [Idle EXCEPT !.pc = "writeSecret", !.secret = s, !.label = l].pc
                = "writeSecret"
          BY DEF Idle
        <5> QED
          BY <5>1, <5>2
      <4>5. CASE DeleteSecret(c)
        BY <4>5 DEF DeleteSecret
      <4>6. CASE CreateSecretVersion(c)
        <5>1. PICK s \in SecretNames, p \in Payloads :
                Become(c, [Idle EXCEPT !.pc = "insertVersion", !.secret = s,
                                       !.num = NextNumber(s), !.payload = p])
          BY <4>6 DEF CreateSecretVersion, Start
        <5>2. [Idle EXCEPT !.pc = "insertVersion", !.secret = s,
                           !.num = NextNumber(s), !.payload = p].pc = "insertVersion"
          BY DEF Idle
        <5> QED
          BY <5>1, <5>2
      <4> QED
        BY <2>6, <4>1, <4>2, <4>3, <4>4, <4>5, <4>6
    <3> QED
      BY <1>1, <2>1, <3>1 DEF Stale
  <2> QED
    BY <2>2, <2>3, <2>4, <2>5, <2>6 DEF Next
<1> QED
  BY <1>2, <1>3 DEF Buried, At

\* Once no :enable or :disable that read the version before is left, a destroyed version
\* is DESTROYED for as long as it exists, whatever else happens to its secret.
THEOREM DestroyedForGood == Spec => DestroyedStays
<1>1. Sound /\ [Next]_vars =>
        [\A v \in versions, w \in versions' :
            v.secret = w.secret /\ v.num = w.num /\ Buried(v) => Buried(w)']_vars
  BY StepBuried
<1> QED
  BY <1>1, AlwaysSound, PTL DEF Spec, DestroyedStays

---------------------------------------------------------------------------
(* The inductive invariant *)

\* A rowid names one version, and a version's number is not beyond its rowid.
Numbered ==
    /\ \A v, w \in versions : v.rowid = w.rowid => v = w
    /\ \A v \in versions : v.num <= v.rowid

\* The number an add has chosen is still the next one, or a faster add has it.
Chosen(r) ==
    r.pc = "insertVersion" =>
        r.num = NextNumber(r.secret) \/ HasVersion(r.secret, r.num)

\* The payload q may take the place of p: it is the same or none.
Drops(p, q) == q = NoPayload \/ p = NoPayload \/ q = p

\* A request about to write a version back has the version's payload, or none for
\* :destroy, unless the version has lost it meanwhile.
ReadOnce(r) ==
    r.pc = "writeVersion" =>
        /\ HasVersion(r.secret, r.num)
        /\ \A v \in Versions(r.secret) : v.num = r.num => Drops(v.payload, r.payload)

\* Two such requests on a version have read one payload.
ReadAlike(q, r) ==
    q.pc = "writeVersion" /\ r.pc = "writeVersion" /\ q.secret = r.secret /\ q.num = r.num
        => Drops(q.payload, r.payload)

IInv ==
    /\ Sound
    /\ Numbered
    /\ VersionsIncrease
    /\ \A c \in Clients : Chosen(req[c]) /\ ReadOnce(req[c])
    /\ \A c, d \in Clients : ReadAlike(req[c], req[d])

\* A secret's version is found by its number.
LEMMA NumberUnique ==
    ASSUME IInv, NEW v \in versions, NEW w \in versions, v.secret = w.secret, v.num = w.num
    PROVE  v = w
  BY DEF IInv, Sound, NamesUnique

\* Steps that leave the versions alone, and give client c a request that is as sound
\* as the others.
LEMMA SameVersions ==
    ASSUME IInv, NEW c \in Clients, NEW r, Become(c, r), versions' = versions, Sound',
           Chosen(r), ReadOnce(r), \A d \in Clients : ReadAlike(req[d], r)
    PROVE  IInv'
<1>1. req' = [req EXCEPT ![c] = r] /\ req \in [Clients -> Request]
  BY DEF Become, IInv, Sound, Typed, TypeOK
<1>2. Numbered' /\ VersionsIncrease'
  BY DEF IInv, Numbered, VersionsIncrease
<1>3. \A s, n : HasVersion(s, n)' = HasVersion(s, n) /\ Versions(s)' = Versions(s)
                /\ NextNumber(s)' = NextNumber(s)
  BY DEF HasVersion, Versions, NextNumber, MaxRow
<1>4. ASSUME NEW d \in Clients
      PROVE  (Chosen(req[d]) /\ ReadOnce(req[d]))'
  <2>1. req'[d] = r \/ req'[d] = req[d]
    BY <1>1
  <2>2. Chosen(req'[d]) /\ ReadOnce(req'[d])
    BY <2>1 DEF IInv
  <2> QED
    BY <1>3, <2>2 DEF Chosen, ReadOnce
<1>5. ASSUME NEW d \in Clients, NEW e \in Clients
      PROVE  ReadAlike(req[d], req[e])'
  <2>1. ReadAlike(r, r) /\ \A x \in Clients : ReadAlike(r, req[x])
    BY DEF ReadAlike, Drops
  <2>2. (req'[d] = r \/ req'[d] = req[d]) /\ (req'[e] = r \/ req'[e] = req[e])
    BY <1>1
  <2> QED
    BY <2>1, <2>2 DEF IInv
<1> QED
  BY <1>2, <1>4, <1>5 DEF IInv

LEMMA InsertKeeps ==
    ASSUME IInv, NEW c \in Clients, InsertVersion(c)
    PROVE  IInv'
<1> DEFINE r == req[c]
           v == [rowid |-> NextRowid, secret |-> r.secret, num |-> r.num,
                 state |-> "ENABLED", payload |-> r.payload]
<1>1. Sound' /\ r \in Request /\ Chosen(r) /\ r.pc = "insertVersion"
  BY InsertSound DEF IInv, Sound, Typed, TypeOK, InsertVersion, At
<1>2. CASE Answer(c) /\ versions' = versions
  BY <1>1, <1>2, IdleTyped, SameVersions DEF Answer, Chosen, ReadOnce, ReadAlike
<1>3. CASE /\ ~HasVersion(r.secret, r.num)
           /\ versions' = versions \cup {v}
           /\ Goto(c, "readVersionBack")
  <2>1. \A w \in versions : w \in Version
    BY DEF IInv, Sound, Typed, TypeOK
  <2>2. /\ r.num = NextNumber(r.secret) /\ r.num \in Nat /\ r.num <= NextRowid
        /\ NextRowid \in Nat /\ \A w \in versions : w.rowid < NextRowid
        /\ \A w \in Versions(r.secret) : w.rowid < r.num
    BY <1>1, <1>3, NextNumbers DEF Chosen, IInv, Sound
  <2>3. v.rowid = NextRowid /\ v.num = r.num /\ v.secret = r.secret
        /\ v.state = "ENABLED" /\ v.payload = r.payload
    OBVIOUS
  <2> HIDE DEF v
  <2>4. Numbered'
    <3>1. ASSUME NEW x \in versions', NEW y \in versions', x.rowid = y.rowid
          PROVE  x = y
      BY <1>3, <2>1, <2>2, <2>3, <3>1 DEF IInv, Numbered, Version
    <3>2. ASSUME NEW x \in versions'
          PROVE  x.num <= x.rowid
      BY <1>3, <2>1, <2>2, <2>3 DEF IInv, Numbered, Version
    <3> QED
      BY <3>1, <3>2 DEF Numbered
  <2>5. VersionsIncrease'
    <3>1. ASSUME NEW x \in versions', NEW y \in versions', x.secret = y.secret,
                 x.rowid < y.rowid
          PROVE  x.num < y.num
      <4>1. CASE x \in versions /\ y \in versions
        BY <3>1, <4>1 DEF IInv, VersionsIncrease
      <4>2. CASE x \in versions /\ y = v
        <5>1. x \in Versions(r.secret)
          BY <2>3, <3>1, <4>2 DEF Versions
        <5>2. x.num <= x.rowid /\ x.rowid < r.num
          BY <2>2, <4>2, <5>1 DEF IInv, Numbered
        <5> QED
          BY <2>1, <2>2, <2>3, <4>2, <5>2 DEF Version
      <4>3. CASE x = v
        <5>1. y.rowid <= NextRowid
          BY <1>3, <2>1, <2>2, <2>3 DEF Version
        <5>2. y.rowid \in Nat
          BY <1>3, <2>1, <2>2, <2>3 DEF Version
        <5> QED
          BY <2>2, <2>3, <3>1, <4>3, <5>1, <5>2
      <4> QED
        BY <1>3, <4>1, <4>2, <4>3
    <3> QED
      BY <3>1 DEF VersionsIncrease
  <2>7. \A d \in Clients \ {c} : req'[d] = req[d]
    BY <1>3 DEF Goto, Become, IInv, Sound, Typed, TypeOK
  <2>8. req'[c].pc = "readVersionBack"
    BY <1>1, <1>3 DEF Goto, Become, IInv, Sound, Typed, TypeOK, Request
  <2>9. ASSUME NEW s, NEW n
        PROVE  HasVersion(s, n)' <=> HasVersion(s, n) \/ (s = r.secret /\ n = r.num)
    BY <1>3, <2>3 DEF HasVersion, Versions
  <2>10. ASSUME NEW s, s # r.secret
         PROVE  NextNumber(s)' = NextNumber(s)
    <3>1. Versions(s)' = Versions(s)
      BY <1>3, <2>3, <2>10 DEF Versions
    <3> QED
      BY <3>1 DEF NextNumber, MaxRow
  <2>11. ASSUME NEW d \in Clients
         PROVE  (Chosen(req[d]) /\ ReadOnce(req[d]))'
    <3>1. CASE d = c
      BY <2>8, <3>1 DEF Chosen, ReadOnce
    <3>2. CASE d # c
      <4>1. req'[d] = req[d] /\ Chosen(req[d]) /\ ReadOnce(req[d])
        BY <2>7, <3>2 DEF IInv
      <4>2. Chosen(req[d])'
        <5>1. SUFFICES ASSUME req[d].pc = "insertVersion"
                       PROVE  (req[d].num = NextNumber(req[d].secret)
                                \/ HasVersion(req[d].secret, req[d].num))'
          BY <4>1 DEF Chosen
        <5>2. CASE req[d].secret = r.secret
          BY <2>2, <2>9, <4>1, <5>1, <5>2 DEF Chosen
        <5>3. CASE req[d].secret # r.secret
          BY <2>9, <2>10, <4>1, <5>1, <5>3 DEF Chosen
        <5> QED
          BY <5>2, <5>3
      <4>3. ReadOnce(req[d])'
        <5>1. SUFFICES ASSUME req[d].pc = "writeVersion"
                       PROVE  /\ HasVersion(req[d].secret, req[d].num)'
                              /\ \A x \in Versions(req[d].secret)' :
                                    x.num = req[d].num => Drops(x.payload, req[d].payload)
          BY <4>1 DEF ReadOnce
        <5>2. HasVersion(req[d].secret, req[d].num)
          BY <4>1, <5>1 DEF ReadOnce
        <5>3. ASSUME NEW x \in Versions(req[d].secret)', x.num = req[d].num
              PROVE  x \in Versions(req[d].secret)
          BY <1>3, <2>3, <4>1, <5>2, <5>3 DEF Versions
        <5> QED
          BY <2>9, <4>1, <5>1, <5>2, <5>3 DEF ReadOnce
      <4> QED
        BY <4>2, <4>3
    <3> QED
      BY <3>1, <3>2
  <2>12. ASSUME NEW d \in Clients, NEW e \in Clients
         PROVE  ReadAlike(req[d], req[e])'
    BY <2>7, <2>8 DEF ReadAlike, IInv
  <2> QED
    BY <1>1, <2>4, <2>5, <2>11, <2>12 DEF IInv
<1> QED
  BY <1>2, <1>3 DEF InsertVersion

LEMMA WriteKeeps ==
    ASSUME IInv, NEW c \in Clients, WriteVersion(c)
    PROVE  IInv'
<1> DEFINE r == req[c]
           W(v) == IF v.secret = r.secret /\ v.num = r.num
                     THEN [v EXCEPT !.state = r.state, !.payload = r.payload]
                     ELSE v
<1>1. Sound' /\ r \in Request /\ ReadOnce(r) /\ r.pc = "writeVersion" /\ Become(c, Idle)
  BY WriteSound DEF IInv, Sound, Typed, TypeOK, WriteVersion, At, Answer
<1>2. versions' = {W(v) : v \in versions}
  BY DEF WriteVersion
<1>3. \A v \in versions : v \in Version
  BY DEF IInv, Sound, Typed, TypeOK
<1>4. \A v \in versions :
        /\ W(v).rowid = v.rowid /\ W(v).secret = v.secret /\ W(v).num = v.num
        /\ (v.secret = r.secret /\ v.num = r.num) =>
              W(v).state = r.state /\ W(v).payload = r.payload
        /\ ~(v.secret = r.secret /\ v.num = r.num) => W(v) = v
  BY <1>3 DEF Version
<1> HIDE DEF W
<1>5. Numbered' /\ VersionsIncrease'
  <2>1. ASSUME NEW x \in versions', NEW y \in versions'
        PROVE  /\ x.rowid = y.rowid => x = y
               /\ x.num <= x.rowid
               /\ x.secret = y.secret /\ x.rowid < y.rowid => x.num < y.num
    <3>1. PICK v \in versions, w \in versions : x = W(v) /\ y = W(w)
      BY <1>2
    <3> QED
      BY <1>4, <3>1 DEF IInv, Numbered, VersionsIncrease
  <2> QED
    BY <2>1 DEF Numbered, VersionsIncrease
<1>7. \A s, n : HasVersion(s, n) => HasVersion(s, n)'
  <2>1. TAKE s, n
  <2>2. SUFFICES ASSUME HasVersion(s, n) PROVE HasVersion(s, n)'
    OBVIOUS
  <2>3. PICK v \in versions : v.secret = s /\ v.num = n
    BY <2>2 DEF HasVersion, Versions
  <2>4. W(v) \in versions' /\ W(v).secret = s /\ W(v).num = n
    BY <1>2, <1>4, <2>3
  <2> QED
    BY <2>4 DEF HasVersion, Versions
<1>8. ASSUME NEW s
      PROVE  NextNumber(s)' = NextNumber(s)
  <2>1. {v.rowid : v \in Versions(s)}' = {v.rowid : v \in Versions(s)}
    <3>1. \A v \in Versions(s) : W(v) \in Versions(s)' /\ W(v).rowid = v.rowid
      BY <1>2, <1>4 DEF Versions
    <3>2. ASSUME NEW x \in Versions(s)'
          PROVE  \E v \in Versions(s) : v.rowid = x.rowid
      <4>1. PICK v \in versions : x = W(v)
        BY <1>2 DEF Versions
      <4>2. x.secret = s
        BY DEF Versions
      <4> QED
        BY <1>4, <4>1, <4>2 DEF Versions
    <3> QED
      BY <3>1, <3>2
  <2> QED
    BY <2>1 DEF NextNumber, MaxRow
<1>9. req' = [req EXCEPT ![c] = Idle] /\ req \in [Clients -> Request]
  BY <1>1 DEF Become, IInv, Sound, Typed, TypeOK
<1>10. ASSUME NEW d \in Clients
       PROVE  (Chosen(req[d]) /\ ReadOnce(req[d]))'
  <2>1. CASE d = c
    BY <1>9, <2>1, IdleTyped DEF Chosen, ReadOnce
  <2>2. CASE d # c
    <3>1. req'[d] = req[d] /\ Chosen(req[d]) /\ ReadOnce(req[d]) /\ ReadAlike(r, req[d])
      BY <1>9, <2>2 DEF IInv
    <3>2. Chosen(req[d])'
      BY <1>7, <1>8, <3>1 DEF Chosen
    <3>3. ReadOnce(req[d])'
      <4>1. SUFFICES ASSUME req[d].pc = "writeVersion",
                            NEW x \in Versions(req[d].secret)', x.num = req[d].num
                     PROVE  Drops(x.payload, req[d].payload)
        BY <1>7, <3>1 DEF ReadOnce
      <4>2. PICK v \in versions : x = W(v)
        BY <1>2 DEF Versions
      <4>3. v.secret = req[d].secret /\ v.num = req[d].num
        BY <1>4, <3>1, <4>1, <4>2 DEF Versions
      <4>4. Drops(v.payload, req[d].payload)
        BY <3>1, <4>1, <4>3 DEF ReadOnce, Versions
      <4>5. (v.secret = r.secret /\ v.num = r.num) => Drops(r.payload, req[d].payload)
        BY <1>1, <3>1, <4>1, <4>3 DEF ReadAlike
      <4> QED
        BY <1>4, <4>2, <4>4, <4>5
    <3> QED
      BY <3>2, <3>3
  <2> QED
    BY <2>1, <2>2
<1>11. ASSUME NEW d \in Clients, NEW e \in Clients
       PROVE  ReadAlike(req[d], req[e])'
  BY <1>9, IdleTyped DEF ReadAlike, IInv
<1> QED
  BY <1>1, <1>5, <1>10, <1>11 DEF IInv

\* A delete waits for the requests on the secret's versions.
LEMMA DeleteKeeps ==
    ASSUME ~DeletesOverlap, IInv, NEW c \in Clients, DeleteSecret(c)
    PROVE  IInv'
<1>1. PICK s \in SecretNames : ~InFlight(s) /\ versions' = versions \ Versions(s)
  BY DEF DeleteSecret
<1>2. Sound' /\ req' = req
  BY OthersSound DEF IInv, DeleteSecret
<1>3. \A v : v \in versions' <=> v \in versions /\ v.secret # s
  BY <1>1 DEF Versions
<1>4. Numbered' /\ VersionsIncrease'
  BY <1>3 DEF IInv, Numbered, VersionsIncrease
<1>5. \A d \in Clients : req[d].pc = "idle" \/ req[d].secret # s
  BY <1>1 DEF InFlight, At
<1>6. ASSUME NEW u, u # s
      PROVE  /\ Versions(u)' = Versions(u) /\ NextNumber(u)' = NextNumber(u)
             /\ \A n : HasVersion(u, n)' = HasVersion(u, n)
  <2>1. Versions(u)' = Versions(u)
    BY <1>3, <1>6 DEF Versions
  <2> QED
    BY <2>1 DEF NextNumber, MaxRow, HasVersion
<1>7. ASSUME NEW d \in Clients
      PROVE  (Chosen(req[d]) /\ ReadOnce(req[d]))'
  <2>1. Chosen(req[d]) /\ ReadOnce(req[d]) /\ req'[d] = req[d]
    BY <1>2 DEF IInv
  <2>2. CASE req[d].pc = "idle"
    BY <2>1, <2>2 DEF Chosen, ReadOnce
  <2>3. CASE req[d].secret # s
    BY <1>6, <2>1, <2>3 DEF Chosen, ReadOnce
  <2> QED
    BY <1>5, <2>2, <2>3
<1>8. (\A d, e \in Clients : ReadAlike(req[d], req[e]))'
  BY <1>2 DEF IInv
<1> QED
  BY <1>2, <1>4, <1>7, <1>8 DEF IInv

\* The first statements of the requests on versions.
LEMMA StartsKeep ==
    ASSUME IInv, NEW c \in Clients,
           CreateSecretVersion(c) \/ SetSecretVersionState(c) \/ DestroySecretVersion(c)
    PROVE  IInv'
<1>1. Sound' /\ versions' = versions
  BY OthersSound DEF IInv, CreateSecretVersion, SetSecretVersionState,
     DestroySecretVersion, Start
<1>2. CASE CreateSecretVersion(c)
  <2>1. PICK s \in SecretNames, p \in Payloads :
            Start(c, [Idle EXCEPT !.pc = "insertVersion", !.secret = s,
                                  !.num = NextNumber(s), !.payload = p])
    BY <1>2 DEF CreateSecretVersion
  <2> DEFINE r == [Idle EXCEPT !.pc = "insertVersion", !.secret = s,
                               !.num = NextNumber(s), !.payload = p]
  <2>2. r.pc = "insertVersion" /\ r.secret = s /\ r.num = NextNumber(s) /\ r.payload = p
    BY DEF Idle
  <2>3. Become(c, r)
    BY <2>1 DEF Start
  <2> HIDE DEF r
  <2>4. Chosen(r) /\ ReadOnce(r) /\ \A d \in Clients : ReadAlike(req[d], r)
    BY <2>2 DEF Chosen, ReadOnce, ReadAlike
  <2> QED
    BY <1>1, <2>3, <2>4, SameVersions
<1>3. ASSUME NEW v \in versions, NEW r, Become(c, r), r.pc = "writeVersion",
             r.secret = v.secret, r.num = v.num, r.payload \in {v.payload, NoPayload}
      PROVE  IInv'
  <2>1. Chosen(r)
    BY <1>3 DEF Chosen
  <2>2. ReadOnce(r)
    <3>1. HasVersion(v.secret, v.num)
      BY DEF HasVersion, Versions
    <3>2. \A w \in Versions(v.secret) : w.num = v.num => w = v
      BY NumberUnique DEF Versions
    <3> QED
      BY <1>3, <3>1, <3>2 DEF ReadOnce, Drops
  <2>3. ASSUME NEW d \in Clients
        PROVE  ReadAlike(req[d], r)
    <3>1. ReadOnce(req[d])
      BY DEF IInv
    <3> QED
      BY <1>3, <3>1 DEF ReadAlike, ReadOnce, Drops, Versions
  <2> QED
    BY <1>1, <1>3, <2>1, <2>2, <2>3, SameVersions
<1>4. CASE SetSecretVersionState(c)
  <2>1. PICK v \in versions, st \in {"ENABLED", "DISABLED"} :
            /\ v.state # "DESTROYED"
            /\ Start(c, [Idle EXCEPT !.pc = "writeVersion", !.secret = v.secret,
                                     !.num = v.num, !.state = st, !.payload = v.payload])
    BY <1>4 DEF SetSecretVersionState
  <2> DEFINE r == [Idle EXCEPT !.pc = "writeVersion", !.secret = v.secret,
                               !.num = v.num, !.state = st, !.payload = v.payload]
  <2>2. r.pc = "writeVersion" /\ r.secret = v.secret /\ r.num = v.num /\ r.state = st
        /\ r.payload = v.payload
    BY DEF Idle
  <2>3. Become(c, r)
    BY <2>1 DEF Start
  <2> HIDE DEF r
  <2> QED
    BY <1>3, <2>2, <2>3
<1>5. CASE DestroySecretVersion(c)
  <2>1. PICK v \in versions :
            Start(c, [Idle EXCEPT !.pc = "writeVersion", !.secret = v.secret,
                                  !.num = v.num, !.state = "DESTROYED"])
    BY <1>5 DEF DestroySecretVersion
  <2> DEFINE r == [Idle EXCEPT !.pc = "writeVersion", !.secret = v.secret,
                               !.num = v.num, !.state = "DESTROYED"]
  <2>2. r.pc = "writeVersion" /\ r.secret = v.secret /\ r.num = v.num
        /\ r.state = "DESTROYED" /\ r.payload = NoPayload
    BY DEF Idle
  <2>3. Become(c, r)
    BY <2>1 DEF Start
  <2> HIDE DEF r
  <2> QED
    BY <1>3, <2>2, <2>3
<1> QED
  BY <1>2, <1>4, <1>5

\* Requests that are not on versions, and the ends of those that are.
LEMMA OthersKeep ==
    ASSUME IInv, NEW c \in Clients,
           \/ CreateSecret(c) \/ ReadSecretBack(c) \/ UpdateSecret(c) \/ WriteSecret(c)
           \/ ReadVersionBack(c)
    PROVE  IInv'
<1>1. Sound' /\ versions' = versions /\ req \in [Clients -> Request]
  BY OthersSound DEF IInv, Sound, Typed, TypeOK, CreateSecret, ReadSecretBack, UpdateSecret,
     WriteSecret, ReadVersionBack, Start
<1>2. ASSUME NEW r, Become(c, r), r.pc \notin {"insertVersion", "writeVersion"}
      PROVE  IInv'
  <2>1. Chosen(r) /\ ReadOnce(r) /\ \A d \in Clients : ReadAlike(req[d], r)
    BY <1>2 DEF Chosen, ReadOnce, ReadAlike
  <2> QED
    BY <1>1, <1>2, <2>1, SameVersions
<1>3. CASE CreateSecret(c)
  <2>1. PICK s \in SecretNames :
            req' = req \/ Become(c, [Idle EXCEPT !.pc = "readSecretBack", !.secret = s])
    BY <1>3 DEF CreateSecret
  <2>2. [Idle EXCEPT !.pc = "readSecretBack", !.secret = s].pc = "readSecretBack"
    BY DEF Idle
  <2>3. CASE req' = req
    <3>1. Become(c, req[c])
      BY <1>1, <2>3 DEF Become
    <3>2. /\ Chosen(req[c]) /\ ReadOnce(req[c])
          /\ \A d \in Clients : ReadAlike(req[d], req[c])
      BY DEF IInv
    <3> QED
      BY <1>1, <3>1, <3>2, SameVersions
  <2> QED
    BY <1>2, <2>1, <2>2, <2>3
<1>4. CASE ReadSecretBack(c) \/ WriteSecret(c) \/ ReadVersionBack(c)
  BY <1>2, <1>4, IdleTyped DEF ReadSecretBack, WriteSecret, ReadVersionBack, Answer
<1>5. CASE UpdateSecret(c)
  <2>1. PICK s \in SecretNames, l \in Labels :
            Become(c, [Idle EXCEPT !.pc = "writeSecret", !.secret = s, !.label = l])
    BY <1>5 DEF UpdateSecret, Start
  <2>2. [Idle EXCEPT !.pc = "writeSecret", !.secret = s, !.label = l].pc = "writeSecret"
    BY DEF Idle
  <2> QED
    BY <1>2, <2>1, <2>2
<1> QED
  BY <1>3, <1>4, <1>5

LEMMA RestartKeeps ==
    ASSUME IInv, Restart
    PROVE  IInv'
<1>1. Sound' /\ versions' = versions /\ \A c \in Clients : req'[c] = Idle
  BY SoundStep DEF IInv, Next, Restart
<1>2. Numbered' /\ VersionsIncrease'
  BY <1>1 DEF IInv, Numbered, VersionsIncrease
<1>3. \A c \in Clients : (Chosen(req[c]) /\ ReadOnce(req[c]))'
  BY <1>1, IdleTyped DEF Chosen, ReadOnce
<1>4. \A c, d \in Clients : ReadAlike(req[c], req[d])'
  BY <1>1, IdleTyped DEF ReadAlike
<1> QED
  BY <1>1, <1>2, <1>3, <1>4 DEF IInv

LEMMA StepKeeps ==
    ASSUME ~DeletesOverlap, IInv, [Next]_vars
    PROVE  IInv'
<1>1. CASE UNCHANGED vars
  <2>1. Sound'
    BY <1>1, SoundStep DEF IInv
  <2>2. versions' = versions /\ req' = req
    BY <1>1 DEF vars
  <2>3. Numbered' /\ VersionsIncrease'
    BY <2>2 DEF IInv, Numbered, VersionsIncrease
  <2>4. \A c \in Clients : (Chosen(req[c]) /\ ReadOnce(req[c]))'
    BY <2>2 DEF IInv, Chosen, ReadOnce, HasVersion, Versions, NextNumber, MaxRow
  <2>5. \A c, d \in Clients : ReadAlike(req[c], req[d])'
    BY <2>2 DEF IInv
  <2> QED
    BY <2>1, <2>3, <2>4, <2>5 DEF IInv
<1> QED
  BY <1>1, InsertKeeps, WriteKeeps, DeleteKeeps, StartsKeep, OthersKeep, RestartKeeps
  DEF Next

LEMMA InitKeeps == Init => IInv
<1> SUFFICES ASSUME Init PROVE IInv
  OBVIOUS
<1>1. Sound /\ versions = {} /\ \A c \in Clients : req[c] = Idle
  BY InitSound DEF Init
<1> QED
  BY <1>1, IdleTyped DEF IInv, Numbered, VersionsIncrease, Chosen,
     ReadOnce, ReadAlike

LEMMA Inductive ==
    ASSUME ~DeletesOverlap
    PROVE  Spec => []IInv
<1>1. IInv /\ [Next]_vars => IInv'
  BY StepKeeps
<1> QED
  BY <1>1, InitKeeps, PTL DEF Spec

---------------------------------------------------------------------------
(* What follows from it *)

\* CreateSecretVersion numbers the versions of a secret in the order of their rowids,
\* whichever adds run concurrently.
THEOREM NumbersIncrease ==
    ASSUME ~DeletesOverlap
    PROVE  Spec => []VersionsIncrease
<1>1. IInv => VersionsIncrease
  BY DEF IInv
<1> QED
  BY <1>1, Inductive, PTL

\* The number CreateSecretVersion chooses is always free when it is chosen.
THEOREM NextIsFree ==
    ASSUME ~DeletesOverlap
    PROVE  Spec => []NextVersionFree
<1>1. IInv => NextVersionFree
  <2> SUFFICES ASSUME IInv, NEW s \in SecretNames, NEW v \in Versions(s),
                      v.num = NextNumber(s)
               PROVE  FALSE
    BY DEF NextVersionFree, HasVersion
  <2>1. v \in versions /\ v \in Version /\ v.num <= v.rowid
    BY DEF Versions, IInv, Sound, Typed, TypeOK, Numbered
  <2>2. v.rowid < NextNumber(s) /\ NextNumber(s) \in Nat
    BY NextNumbers DEF IInv, Sound
  <2> QED
    BY <2>1, <2>2 DEF Version
<1> QED
  BY <1>1, Inductive, PTL

\* A step keeps a version's payload or drops it.
LEMMA StepDrops ==
    ASSUME IInv, [Next]_vars,
           NEW v \in versions, NEW w \in versions', v.secret = w.secret, v.num = w.num,
           v.payload # NoPayload
    PROVE  w.payload \in {v.payload, NoPayload}
<1>1. CASE w \in versions
  BY <1>1, NumberUnique
<1>2. CASE w \notin versions
  <2>1. PICK c \in Clients : InsertVersion(c) \/ WriteVersion(c)
    BY <1>2 DEF Next, vars, Restart, CreateSecret, ReadSecretBack, UpdateSecret,
       WriteSecret, DeleteSecret, CreateSecretVersion, ReadVersionBack,
       SetSecretVersionState, DestroySecretVersion, Start
  <2>2. CASE InsertVersion(c)
    BY <1>2, <2>2 DEF InsertVersion, HasVersion, Versions
  <2>3. CASE WriteVersion(c)
    <3>1. PICK x \in versions :
              w = IF x.secret = req[c].secret /\ x.num = req[c].num
                    THEN [x EXCEPT !.state = req[c].state, !.payload = req[c].payload]
                    ELSE x
      BY <2>3 DEF WriteVersion
    <3>2. x.secret = req[c].secret /\ x.num = req[c].num
      BY <1>2, <3>1
    <3>3. x \in Version
      BY DEF IInv, Sound, Typed, TypeOK
    <3>4. w.secret = x.secret /\ w.num = x.num /\ w.payload = req[c].payload
      BY <3>1, <3>2, <3>3 DEF Version
    <3>5. x = v
      BY <3>4, NumberUnique
    <3>6. Drops(v.payload, req[c].payload)
      BY <2>3, <3>2, <3>5 DEF IInv, ReadOnce, WriteVersion, At, Versions
    <3> QED
      BY <3>4, <3>6 DEF Drops
  <2> QED
    BY <2>1, <2>2, <2>3
<1> QED
  BY <1>1, <1>2

\* A version number stands for one payload for as long as the version exists.
THEOREM PayloadsKept ==
    ASSUME ~DeletesOverlap
    PROVE  Spec => PayloadNeverReplaced
<1>1. ASSUME IInv, [Next]_vars
      PROVE  \A v \in versions, w \in versions' :
                v.secret = w.secret /\ v.num = w.num /\ v.payload # NoPayload =>
                    w.payload \in {v.payload, NoPayload}
  BY <1>1, StepDrops
<1>2. IInv /\ [Next]_vars =>
        [\A v \in versions, w \in versions' :
            v.secret = w.secret /\ v.num = w.num /\ v.payload # NoPayload =>
                w.payload \in {v.payload, NoPayload}]_vars
  BY <1>1
<1> QED
  BY <1>2, Inductive, PTL DEF Spec, PayloadNeverReplaced
=============================================================================
