------------------------- MODULE CollectionsProofs -------------------------
(***************************************************************************)
(* Collections implements Store, for any clients, resources and bodies,    *)
(* however the requests overlap.                                           *)
(***************************************************************************)
EXTENDS Collections, TLAPS

---------------------------------------------------------------------------
(* Documents and bodies *)

\* The fields of a collection are a sequence, empty or of one or two.
LEMMA FieldsAreSequence ==
    ASSUME NEW id \in Ids
    PROVE  DOMAIN Fields(id) = 1..Len(Fields(id))
<1>1. id[1] \in Collections
  BY IdsAssumption
<1>2. \A k \in Collections : DOMAIN Schema[k].fields = 1..Len(Schema[k].fields)
  BY DEF Collections, Schema, GlobalAddress, HealthCheck, BackendService,
         SSLCertificate, TargetHTTPSProxy, URLMap, GlobalForwardingRule, Disk,
         Address, Bucket, CloudRunService, RedisInstance
<1> QED
  BY <1>1, <1>2 DEF Fields

\* A body carries the references Todo lists, and no other.
LEMMA TodoCovers ==
    ASSUME NEW id \in Ids, NEW body \in Body(id), NEW ref \in References(body)
    PROVE  \E t \in Todo(id, body) : t[2] = ref
<1>1. PICK x \in Targets(id) : ref \in body.refs[x]
  BY DEF References, Range, Body
<1>2. PICK i \in DOMAIN Fields(id) : x = Fields(id)[i]
  BY <1>1 DEF Targets, Range
<1>3. <<i, ref>> \in Todo(id, body)
  BY <1>1, <1>2, FieldsAreSequence DEF Todo
<1> QED
  BY <1>3

LEMMA TodoRefers ==
    ASSUME NEW id \in Ids, NEW body \in Body(id), NEW t \in Todo(id, body)
    PROVE  t[2] \in References(body)
<1>1. PICK i \in 1..Len(Fields(id)) : \E ref \in body.refs[Fields(id)[i]] : t = <<i, ref>>
  BY DEF Todo
<1>2. Fields(id)[i] \in DOMAIN body.refs
  BY <1>1, FieldsAreSequence DEF Targets, Range, Body
<1> QED
  BY <1>1, <1>2 DEF References, Range

LEMMA NoBodyRefersToNothing == References(NoBody) = {}
  BY DEF References, Range, NoBody

LEMMA NewDocumentTyped ==
    ASSUME NEW id \in Ids, NEW body \in Body(id)
    PROVE  NewDocument(body) \in Document(id) /\ NewDocument(body) # NoRow
  BY NoRowAssumption DEF NewDocument, Document, Body

LEMMA PatchMergeTyped ==
    ASSUME NEW id \in Ids, NEW body \in Body(id), NEW doc \in Document(id)
    PROVE  PatchMerge(doc, body) \in Document(id) /\ PatchMerge(doc, body) # NoRow
  BY NoRowAssumption DEF PatchMerge, Document, Body

LEMMA BodyTyped ==
    ASSUME NEW id \in Ids, NEW body \in Bodies[id]
    PROVE  body \in Body(id)
  BY BodiesAssumption

\* The operators of the abstract store are those of Documents.
LEMMA SameOperators ==
    /\ \A k : Overlapping!Schema[k] = Schema[k]
    /\ \A id : Overlapping!Keys(id) = Keys(id)
    /\ \A R, id : Overlapping!Exists(R, id) = Exists(R, id)
    /\ \A R, ref : Overlapping!Resolves(R, ref) = Resolves(R, ref)
    /\ \A body : /\ Overlapping!References(body) = References(body)
                 /\ Overlapping!NewDocument(body) = NewDocument(body)
    /\ \A doc, body : Overlapping!PatchMerge(doc, body) = PatchMerge(doc, body)
    /\ Overlapping!NoBody = NoBody /\ Overlapping!Nothing = Nothing
    /\ \A s, call, R : Overlapping!Look(s, call, R) = Look(s, call, R)
<1>1. Overlapping!Schema = Schema
  BY DEF Overlapping!Schema, Schema, Overlapping!GlobalAddress, Overlapping!HealthCheck,
         Overlapping!BackendService, Overlapping!SSLCertificate, Overlapping!TargetHTTPSProxy,
         Overlapping!URLMap, Overlapping!GlobalForwardingRule, Overlapping!Disk, Overlapping!Address,
         Overlapping!Bucket, Overlapping!CloudRunService, Overlapping!RedisInstance, GlobalAddress,
         HealthCheck, BackendService, SSLCertificate, TargetHTTPSProxy, URLMap,
         GlobalForwardingRule, Disk, Address, Bucket, CloudRunService, RedisInstance
<1>2. \A k : Overlapping!Schema[k] = Schema[k]
  BY <1>1
<1>3. \A id : Overlapping!Keys(id) = Keys(id)
  BY <1>1 DEF Overlapping!Keys, Keys, Overlapping!Targets, Targets, Overlapping!Fields, Fields,
         Overlapping!Range, Range
<1>4. /\ \A R, id : Overlapping!Exists(R, id) = Exists(R, id)
      /\ \A R, ref : Overlapping!Resolves(R, ref) = Resolves(R, ref)
  BY DEF Overlapping!Exists, Exists, Overlapping!Resolves, Resolves, Overlapping!ComputeRefName,
         ComputeRefName
<1>5. \A body : /\ Overlapping!References(body) = References(body)
                /\ Overlapping!NewDocument(body) = NewDocument(body)
  BY DEF Overlapping!References, References, Overlapping!NewDocument, NewDocument,
         Overlapping!Range, Range
<1>6. \A doc, body : Overlapping!PatchMerge(doc, body) = PatchMerge(doc, body)
  BY DEF Overlapping!PatchMerge, PatchMerge
<1>7. Overlapping!NoBody = NoBody /\ Overlapping!Nothing = Nothing
  BY DEF Overlapping!NoBody, NoBody, Overlapping!Nothing, Nothing
<1>8. \A s, call, R : Overlapping!Look(s, call, R) = Look(s, call, R)
  BY <1>4, <1>5 DEF Overlapping!Look, Look
<1> QED
  BY <1>2, <1>3, <1>4, <1>5, <1>6, <1>7, <1>8

---------------------------------------------------------------------------
(* The inductive invariant *)

\* The history of a request is up to date.
Recorded ==
    /\ seen = [c \in Clients |-> seen[c]]
    /\ \A c \in Clients :
        seen[c] = IF req[c] = Idle THEN Nothing ELSE Look(seen[c], req[c], rows)

\* What a request has looked up has been there since it began, and what it is about
\* to write is the merge of a document its row has had since.
BackedBy(s, r) ==
    /\ \A ref \in References(r.body) :
        \/ ref \in s.found
        \/ r.pc = "check" /\ \E t \in r.todo : t[2] = ref
    /\ \A t \in r.todo : t[2] \in References(r.body)
    /\ r.pc = "write" => \E doc \in s.was : r.doc = PatchMerge(doc, r.body)

IInv ==
    /\ TypeOK
    /\ Recorded
    /\ \A c \in Clients : BackedBy(seen[c], req[c])

LEMMA IdleFacts == RequestOK(Idle) /\ Idle.op = "none" /\ \A s : BackedBy(s, Idle)
  BY NoBodyRefersToNothing DEF RequestOK, BackedBy, Idle

\* Looking again at the same rows shows nothing new, and nothing is forgotten.
LEMMA LookTwice ==
    ASSUME NEW s, NEW call, NEW R
    PROVE  Look(Look(s, call, R), call, R) = Look(s, call, R)
<1> DEFINE once == Look(s, call, R)
           refs == {ref \in References(call.body) : Resolves(R, ref)}
<1>1. once.found = s.found \cup refs
  BY DEF Look
<1>2. once.was = IF call.op = "update" THEN s.was \cup ({R[call.id]} \ {NoRow}) ELSE {}
  BY DEF Look
<1>3. Look(once, call, R) =
        [found |-> once.found \cup refs,
         was |-> IF call.op = "update" THEN once.was \cup ({R[call.id]} \ {NoRow}) ELSE {}]
  BY DEF Look
<1>4. once = [found |-> s.found \cup refs,
              was |-> IF call.op = "update" THEN s.was \cup ({R[call.id]} \ {NoRow}) ELSE {}]
  BY DEF Look
<1> HIDE DEF once, refs
<1>5. once.found \cup refs = s.found \cup refs
  BY <1>1
<1>6. (IF call.op = "update" THEN once.was \cup ({R[call.id]} \ {NoRow}) ELSE {})
      = IF call.op = "update" THEN s.was \cup ({R[call.id]} \ {NoRow}) ELSE {}
  BY <1>2
<1> QED
  BY <1>3, <1>4, <1>5, <1>6 DEF once

LEMMA LookFacts ==
    ASSUME NEW s, NEW call, NEW R
    PROVE  /\ s.found \subseteq Look(s, call, R).found
           /\ \A ref \in References(call.body) : Resolves(R, ref) => ref \in Look(s, call, R).found
           /\ call.op = "update" =>
                /\ s.was \subseteq Look(s, call, R).was
                /\ R[call.id] # NoRow => R[call.id] \in Look(s, call, R).was
  BY DEF Look

\* The requests a handler starts with.
LEMMA RequestStarts ==
    ASSUME NEW op \in {"create", "update"}, NEW id \in Ids, NEW body \in Bodies[id]
    PROVE  /\ RequestOK(Request(op, id, body)) /\ \A s : BackedBy(s, Request(op, id, body))
           /\ Call(Request(op, id, body)) = [op |-> op, id |-> id, body |-> body]
<1> DEFINE r == Request(op, id, body)
<1>1. body \in Body(id)
  BY BodyTyped
<1>2. /\ r.pc = IF Todo(id, body) = {} THEN Checked(op) ELSE "check"
      /\ r.op = op /\ r.id = id /\ r.body = body /\ r.todo = Todo(id, body)
  BY DEF Request
<1>3. RequestOK(r)
  BY <1>1, <1>2 DEF RequestOK, Checked
<1>4. \A ref \in References(body) : r.pc = "check" /\ \E t \in r.todo : t[2] = ref
  BY <1>1, <1>2, TodoCovers
<1>5. \A s : BackedBy(s, r)
  BY <1>1, <1>2, <1>4, TodoRefers DEF BackedBy, Checked
<1>6. Call(r) = [op |-> op, id |-> id, body |-> body]
  BY <1>2 DEF Call
<1> QED
  BY <1>3, <1>5, <1>6

---------------------------------------------------------------------------
(* Types, whatever overlaps *)

\* Client c gets a well-formed request and at most one row changes, to a document of
\* its collection or to none.
LEMMA TypesKept ==
    ASSUME TypeOK, NEW c \in Clients, NEW r, Become(c, r), RequestOK(r), NEW id \in Ids,
           NEW doc \in Document(id) \cup {NoRow},
           rows' = rows \/ rows' = [rows EXCEPT ![id] = doc]
    PROVE  TypeOK'
<1>1. DOMAIN req' = Clients /\ \A d \in Clients : req'[d] = r \/ req'[d] = req[d]
  BY DEF Become, TypeOK
<1>2. rows' = [i \in Ids |-> rows'[i]]
  BY DEF TypeOK
<1>3. \A i \in Ids : rows'[i] = rows[i] \/ (i = id /\ rows'[i] = doc)
  BY DEF TypeOK
<1> QED
  BY <1>1, <1>2, <1>3 DEF TypeOK

LEMMA TypedRequest ==
    ASSUME TypeOK, NEW c \in Clients, req[c].pc # "idle"
    PROVE  RequestOK(req[c]) /\ req[c] # Idle /\ req[c].id \in Ids
  BY DEF TypeOK, RequestOK, Idle

LEMMA TypeStep ==
    ASSUME TypeOK, [Next]_vars
    PROVE  TypeOK'
<1>0. RequestOK(Idle)
  BY DEF RequestOK
<1>1. ASSUME NEW c \in Clients, NEW id \in Ids, NEW r, Become(c, r), RequestOK(r),
             rows' = rows
      PROVE  TypeOK'
  BY <1>1, TypesKept
<1>2. ASSUME NEW c \in Clients, Create(c) \/ Update(c)
      PROVE  TypeOK'
  <2> PICK id \in Ids, op \in {"create", "update"} : \E body \in Bodies[id] :
            /\ Start(c, Request(op, id, body))
            /\ op = "create" => body.keys = Keys(id)
            /\ op = "update" => Schema[id[1]].patch
    BY <1>2 DEF Create, Update
  <2>1. PICK body \in Bodies[id] :
            /\ Start(c, Request(op, id, body))
            /\ op = "create" => body.keys = Keys(id)
            /\ op = "update" => Schema[id[1]].patch
    OBVIOUS
  <2>2. RequestOK(Request(op, id, body))
    BY RequestStarts
  <2> QED
    BY <1>1, <2>1, <2>2 DEF Start
<1>3. ASSUME NEW c \in Clients, Delete(c)
      PROVE  TypeOK'
  <2>1. PICK id \in Ids : Start(c, DeleteRequest(id))
    BY <1>3 DEF Delete, Present
  <2>2. RequestOK(DeleteRequest(id))
    BY DEF DeleteRequest, Idle, RequestOK
  <2> QED
    BY <1>1, <2>1, <2>2 DEF Start
<1>4. ASSUME NEW c \in Clients, Check(c)
      PROVE  TypeOK'
  <2>1. /\ RequestOK(req[c]) /\ req[c] # Idle /\ req[c].id \in Ids
        /\ req[c].pc = "check" /\ rows' = rows
    BY <1>4, TypedRequest DEF Check, At
  <2>2. PICK t \in req[c].todo :
            \/ Become(c, Idle)
            \/ Become(c, [req[c] EXCEPT !.todo = req[c].todo \ {t},
                     !.pc = IF req[c].todo \ {t} = {} THEN Checked(req[c].op)
                                                     ELSE "check"])
    BY <1>4 DEF Check, Answer
  <2> DEFINE rest == req[c].todo \ {t}
             next == [req[c] EXCEPT !.todo = rest,
                          !.pc = IF rest = {} THEN Checked(req[c].op) ELSE "check"]
  <2>3. /\ next.pc = IF rest = {} THEN Checked(req[c].op) ELSE "check"
        /\ next.todo = rest /\ next.op = req[c].op /\ next.id = req[c].id
        /\ next.body = req[c].body
    BY <2>1 DEF RequestOK, Request
  <2> HIDE DEF next, rest
  <2>4. RequestOK(next)
    BY <2>1, <2>3 DEF RequestOK, Checked
  <2>5. Become(c, Idle) \/ Become(c, next)
    BY <2>2 DEF next, rest
  <2> QED
    BY <1>0, <1>1, <2>1, <2>4, <2>5
<1>5. ASSUME NEW c \in Clients, Insert(c)
      PROVE  TypeOK'
  <2>1. /\ RequestOK(req[c]) /\ req[c] # Idle /\ req[c].id \in Ids
        /\ req[c].pc = "insert" /\ Become(c, Idle)
    BY <1>5, TypedRequest DEF Insert, At, Answer
  <2>2. NewDocument(req[c].body) \in Document(req[c].id)
    BY <2>1, NewDocumentTyped DEF RequestOK
  <2>3. rows' = rows \/ rows' = [rows EXCEPT ![req[c].id] = NewDocument(req[c].body)]
    BY <1>5 DEF Insert
  <2> QED
    BY <1>0, <2>1, <2>2, <2>3, TypesKept
<1>6. ASSUME NEW c \in Clients, Read(c)
      PROVE  TypeOK'
  <2> DEFINE id == req[c].id
             next == [req[c] EXCEPT !.pc = "write",
                                    !.doc = PatchMerge(rows[id], req[c].body)]
  <2>1. /\ RequestOK(req[c]) /\ req[c] # Idle /\ id \in Ids
        /\ req[c].pc = "read" /\ rows' = rows
        /\ IF Exists(rows, id) THEN Become(c, next) ELSE Become(c, Idle)
    BY <1>6, TypedRequest DEF Read, At, Answer
  <2>2. req[c].op = "update" /\ req[c].todo = {} /\ req[c].body \in Body(id)
    BY <2>1 DEF RequestOK
  <2>3. /\ next.pc = "write" /\ next.doc = PatchMerge(rows[id], req[c].body)
        /\ next.todo = {} /\ next.op = "update" /\ next.id = id /\ next.body = req[c].body
    BY <2>1, <2>2 DEF RequestOK, Request
  <2> HIDE DEF next
  <2>4. Exists(rows, id) => next.doc \in Document(id)
    BY <2>1, <2>2, <2>3, PatchMergeTyped DEF TypeOK, Exists
  <2>5. Exists(rows, id) => RequestOK(next)
    BY <2>1, <2>2, <2>3, <2>4 DEF RequestOK
  <2> QED
    BY <1>0, <1>1, <2>1, <2>5
<1>7. ASSUME NEW c \in Clients, Write(c)
      PROVE  TypeOK'
  <2>1. /\ RequestOK(req[c]) /\ req[c] # Idle /\ req[c].id \in Ids
        /\ req[c].pc = "write" /\ Become(c, Idle)
    BY <1>7, TypedRequest DEF Write, At, Answer
  <2>2. req[c].doc \in Document(req[c].id)
    BY <2>1 DEF RequestOK
  <2>3. rows' = rows \/ rows' = [rows EXCEPT ![req[c].id] = req[c].doc]
    BY <1>7 DEF Write
  <2> QED
    BY <1>0, <2>1, <2>2, <2>3, TypesKept
<1>8. ASSUME NEW c \in Clients, DeleteWithResult(c)
      PROVE  TypeOK'
  <2>1. /\ req[c].id \in Ids /\ Become(c, Idle)
        /\ rows' = [rows EXCEPT ![req[c].id] = NoRow]
    BY <1>8, TypedRequest DEF DeleteWithResult, At, Answer
  <2> QED
    BY <1>0, <2>1, TypesKept
<1>9. CASE Restart
  BY <1>0, <1>9 DEF Restart, TypeOK
<1>10. CASE UNCHANGED vars
  BY <1>10 DEF vars, TypeOK
<1> QED
  BY <1>2, <1>3, <1>4, <1>5, <1>6, <1>7, <1>8, <1>9, <1>10 DEF Next

\* Rows are documents of their collection and requests are well formed, however the
\* requests overlap.
THEOREM TypeCorrect == Spec => []TypeOK
<1>1. Init => TypeOK
  BY DEF Init, TypeOK, RequestOK
<1> QED
  BY <1>1, TypeStep, PTL DEF Spec

---------------------------------------------------------------------------
(* Steps of one request *)

\* A step of client c keeps the invariant if what its request becomes is backed:
\* what is known of the others only grows.
LEMMA StepKeeps ==
    ASSUME IInv, TypeOK', NEW c \in Clients, NEW r, Become(c, r), BackedBy(seen'[c], r)
    PROVE  IInv'
<1>1. /\ req'[c] = r /\ \A d \in Clients \ {c} : req'[d] = req[d]
      /\ seen' = [d \in Clients |-> seen'[d]]
      /\ \A d \in Clients :
            seen'[d] = IF req'[d] = Idle THEN Nothing ELSE Look(seen[d], req'[d], rows')
  BY DEF Become, IInv, TypeOK
<1>2. ASSUME NEW d \in Clients
      PROVE  seen'[d] = IF req'[d] = Idle THEN Nothing ELSE Look(seen'[d], req'[d], rows')
  BY <1>1, LookTwice
<1>3. Recorded'
  BY <1>1, <1>2 DEF Recorded
<1>4. ASSUME NEW d \in Clients, d # c
      PROVE  BackedBy(seen'[d], req'[d])
  <2>1. req'[d] = req[d] /\ BackedBy(seen[d], req[d]) /\ RequestOK(req[d])
    BY <1>1, <1>4 DEF IInv, TypeOK
  <2>2. CASE req[d] = Idle
    BY <2>1, <2>2, IdleFacts
  <2>3. CASE req[d] # Idle
    <3>1. seen'[d] = Look(seen[d], req[d], rows')
      BY <1>1, <2>1, <2>3
    <3>2. seen[d].found \subseteq seen'[d].found
      BY <3>1, LookFacts
    <3>3. req[d].pc = "write" => seen[d].was \subseteq seen'[d].was
      BY <2>1, <2>3, <3>1, LookFacts DEF RequestOK
    <3> QED
      BY <2>1, <3>2, <3>3 DEF BackedBy
  <2> QED
    BY <2>2, <2>3
<1> QED
  BY <1>1, <1>3, <1>4 DEF IInv

LEMMA CallOfIdle == Call(Idle) = Overlapping!NoCall
  BY SameOperators DEF Call, Idle, Overlapping!NoCall

\* Seen from outside, a step of client c changes its call.
LEMMA CallBecomes ==
    ASSUME TypeOK, TypeOK', NEW c \in Clients, NEW r, Become(c, r)
    PROVE  Overlapping!Become(c, Call(r))
<1>1. DOMAIN req = Clients /\ req' = [req EXCEPT ![c] = r]
  BY DEF TypeOK, Become
<1>2. calls' = [calls EXCEPT ![c] = Call(r)]
  BY <1>1 DEF calls
<1>3. ASSUME NEW d \in Clients
      PROVE  /\ calls'[d] = Overlapping!NoCall <=> req'[d] = Idle
             /\ Overlapping!Look(seen[d], calls'[d], rows') = Look(seen[d], req'[d], rows')
  <2>1. calls'[d] = Call(req'[d]) /\ RequestOK(req'[d])
    BY DEF calls, TypeOK
  <2>2. calls'[d].op = req'[d].op /\ calls'[d].id = req'[d].id /\ calls'[d].body = req'[d].body
    BY <2>1 DEF Call
  <2>3. req'[d] # Idle => req'[d].op # "none"
    BY <2>1 DEF RequestOK
  <2>4. Overlapping!NoCall.op = "none"
    BY DEF Overlapping!NoCall
  <2>5. Look(seen[d], calls'[d], rows') = Look(seen[d], req'[d], rows')
    BY <2>2 DEF Look
  <2> QED
    BY <2>1, <2>2, <2>3, <2>4, <2>5, SameOperators, CallOfIdle
<1>4. seen' = [d \in Clients |->
                  IF calls'[d] = Overlapping!NoCall THEN Overlapping!Nothing
                  ELSE Overlapping!Look(seen[d], calls'[d], rows')]
  BY <1>3, SameOperators DEF Become
<1> QED
  BY <1>2, <1>4 DEF Overlapping!Become

\* A step within a request does not show.
LEMMA GoesOn ==
    ASSUME IInv, NEW c \in Clients, NEW r, Become(c, r), rows' = rows,
           req[c] # Idle, r # Idle, Call(r) = Call(req[c])
    PROVE  UNCHANGED Overlapping!vars
<1>1. DOMAIN req = Clients /\ req' = [req EXCEPT ![c] = r]
  BY DEF IInv, TypeOK, Become
<1>2. calls' = calls
  <2>1. \A d \in Clients : Call(req'[d]) = Call(req[d])
    BY <1>1
  <2> QED
    BY <2>1 DEF calls
<1>3. ASSUME NEW d \in Clients
      PROVE  seen'[d] = seen[d]
  <2>1. seen'[d] = IF req'[d] = Idle THEN Nothing ELSE Look(seen[d], req'[d], rows)
    BY DEF Become
  <2>2. seen[d] = IF req[d] = Idle THEN Nothing ELSE Look(seen[d], req[d], rows)
    BY DEF IInv, Recorded
  <2>3. CASE d = c
    <3>1. r.op = req[c].op /\ r.id = req[c].id /\ r.body = req[c].body
      BY DEF Call
    <3>2. Look(seen[d], r, rows) = Look(seen[d], req[c], rows)
      BY <3>1 DEF Look
    <3> QED
      BY <1>1, <2>1, <2>2, <2>3, <3>2
  <2>4. CASE d # c
    BY <1>1, <2>1, <2>2, <2>4
  <2> QED
    BY <2>3, <2>4
<1>4. seen' = seen
  BY <1>3 DEF Become, IInv, Recorded
<1> QED
  BY <1>2, <1>4 DEF Overlapping!vars

---------------------------------------------------------------------------
(* Actions *)

\* A step of the abstract store, or one that does not show.
Abstract == Overlapping!Next \/ UNCHANGED Overlapping!vars

\* A call that begins.
LEMMA StartKeeps ==
    ASSUME IInv, TypeOK', NEW c \in Clients, NEW r, Start(c, r), \A s : BackedBy(s, r),
           NEW id \in Ids, NEW op, NEW body,
           Call(r) = [op |-> op, id |-> id, body |-> body],
           \/ op = "create" /\ body \in Bodies[id] /\ body.keys = Keys(id)
           \/ op = "update" /\ body \in Bodies[id] /\ Schema[id[1]].patch
           \/ op = "delete" /\ body = NoBody
    PROVE  IInv' /\ Abstract
<1>1. At(c, "idle") /\ rows' = rows /\ Become(c, r)
  BY DEF Start
<1>2. req[c] = Idle
  BY <1>1 DEF IInv, TypeOK, RequestOK, At
<1>3. calls[c] = Overlapping!NoCall
  BY <1>2, CallOfIdle DEF calls
<1>4. Overlapping!Become(c, [op |-> op, id |-> id, body |-> body])
  BY <1>1, CallBecomes DEF IInv
<1>5. Overlapping!Begin(c)
  BY <1>1, <1>3, <1>4, SameOperators DEF Overlapping!Begin
<1> QED
  BY <1>1, <1>5, StepKeeps DEF Abstract, Overlapping!Next

LEMMA StartsKeep ==
    ASSUME IInv, TypeOK', NEW c \in Clients, Create(c) \/ Update(c) \/ Delete(c)
    PROVE  IInv' /\ Abstract
<1>1. CASE Create(c)
  <2>1. PICK id \in Ids : \E body \in Bodies[id] :
            body.keys = Keys(id) /\ Start(c, Request("create", id, body))
    BY <1>1 DEF Create
  <2>2. PICK body \in Bodies[id] :
            body.keys = Keys(id) /\ Start(c, Request("create", id, body))
    BY <2>1
  <2> QED
    BY <2>2, RequestStarts, StartKeeps
<1>2. CASE Update(c)
  <2>1. PICK id \in Ids : \E body \in Bodies[id] :
            Schema[id[1]].patch /\ Start(c, Request("update", id, body))
    BY <1>2 DEF Update
  <2>2. PICK body \in Bodies[id] :
            Schema[id[1]].patch /\ Start(c, Request("update", id, body))
    BY <2>1
  <2> QED
    BY <2>2, RequestStarts, StartKeeps
<1>3. CASE Delete(c)
  <2>1. PICK id \in Ids : Start(c, DeleteRequest(id))
    BY <1>3 DEF Delete, Present
  <2> DEFINE r == DeleteRequest(id)
  <2>2. r.pc = "delete" /\ r.op = "delete" /\ r.id = id /\ r.body = NoBody /\ r.todo = {}
    BY DEF DeleteRequest, Idle
  <2>3. Call(r) = [op |-> "delete", id |-> id, body |-> NoBody]
    BY <2>2 DEF Call
  <2>4. \A s : BackedBy(s, r)
    BY <2>2, NoBodyRefersToNothing DEF BackedBy
  <2> QED
    BY <2>1, <2>3, <2>4, StartKeeps
<1> QED
  BY <1>1, <1>2, <1>3

\* A request that ends, as a call that has its effect or has none.
LEMMA AnswerKeeps ==
    ASSUME IInv, TypeOK', NEW c \in Clients, Answer(c)
    PROVE  IInv' /\ Overlapping!Become(c, Overlapping!NoCall)
  BY StepKeeps, CallBecomes, CallOfIdle, IdleFacts DEF Answer, IInv

\* What is known of a request in flight.
LEMMA InFlight ==
    ASSUME IInv, NEW c \in Clients, req[c].pc # "idle"
    PROVE  /\ RequestOK(req[c]) /\ req[c] # Idle /\ req[c].id \in Ids
           /\ BackedBy(seen[c], req[c])
           /\ seen[c] = Look(seen[c], req[c], rows)
           /\ calls[c] = Call(req[c])
           /\ calls[c].op = req[c].op /\ calls[c].id = req[c].id /\ calls[c].body = req[c].body
  BY TypedRequest DEF IInv, Recorded, calls, Call

LEMMA CheckKeeps ==
    ASSUME IInv, TypeOK', NEW c \in Clients, Check(c)
    PROVE  IInv' /\ Abstract
<1>1. req[c].pc = "check" /\ rows' = rows
  BY DEF Check, At
<1>2. /\ RequestOK(req[c]) /\ req[c] # Idle /\ BackedBy(seen[c], req[c])
      /\ req[c].id \in Ids
      /\ calls[c].op = req[c].op /\ calls[c].id = req[c].id /\ calls[c].body = req[c].body
      /\ seen[c] = Look(seen[c], req[c], rows)
  BY <1>1, InFlight
<1>3. PICK t \in req[c].todo :
          LET rest == req[c].todo \ {t}
          IN  IF Resolves(rows, t[2])
                THEN Become(c, [req[c] EXCEPT !.todo = rest,
                         !.pc = IF rest = {} THEN Checked(req[c].op) ELSE "check"])
                ELSE Answer(c)
  BY DEF Check
<1> DEFINE rest == req[c].todo \ {t}
           next == [req[c] EXCEPT !.todo = rest,
                        !.pc = IF rest = {} THEN Checked(req[c].op) ELSE "check"]
<1>4. t[2] \in References(req[c].body)
  BY <1>2 DEF BackedBy
<1>5. CASE Resolves(rows, t[2])
  <2>1. /\ next.pc = IF rest = {} THEN Checked(req[c].op) ELSE "check"
        /\ next.todo = rest /\ next.op = req[c].op /\ next.id = req[c].id
        /\ next.body = req[c].body
    BY <1>1, <1>2 DEF RequestOK, Request
  <2>2. Become(c, next)
    BY <1>3, <1>5
  <2>3. t[2] \in seen[c].found
    BY <1>2, <1>4, <1>5, LookFacts
  <2>4. next.pc # "write"
    BY <2>1 DEF Checked
  <2>5. BackedBy(seen[c], next)
    <3>1. ASSUME NEW ref \in References(req[c].body), ref \notin seen[c].found
          PROVE  next.pc = "check" /\ \E u \in rest : u[2] = ref
      <4>1. PICK u \in req[c].todo : u[2] = ref
        BY <1>2, <3>1 DEF BackedBy
      <4>2. u \in rest
        BY <2>3, <3>1, <4>1
      <4> QED
        BY <2>1, <4>1, <4>2
    <3>2. \A u \in rest : u[2] \in References(req[c].body)
      BY <1>2 DEF BackedBy
    <3> HIDE DEF next, rest
    <3> QED
      BY <2>1, <2>4, <3>1, <3>2 DEF BackedBy
  <2>6. next # Idle /\ Call(next) = Call(req[c])
    <3> HIDE DEF next
    <3> QED
      BY <1>1, <1>2, <2>1, IdleFacts DEF Call, RequestOK
  <2> HIDE DEF next
  <2>7. UNCHANGED Overlapping!vars
    BY <1>1, <1>2, <2>2, <2>6, GoesOn
  <2>8. BackedBy(seen'[c], next)
    BY <2>5, <2>7 DEF Overlapping!vars
  <2> QED
    BY <2>2, <2>7, <2>8, StepKeeps DEF Abstract
<1>6. CASE ~Resolves(rows, t[2])
  <2>1. Answer(c)
    BY <1>3, <1>6
  <2>2. Overlapping!Refuse(c)
    BY <1>1, <1>2, <1>4, <1>6, <2>1, AnswerKeeps, SameOperators DEF Overlapping!Refuse
  <2> QED
    BY <2>1, <2>2, AnswerKeeps DEF Abstract, Overlapping!Next
<1> QED
  BY <1>5, <1>6

LEMMA InsertKeeps ==
    ASSUME IInv, TypeOK', NEW c \in Clients, Insert(c)
    PROVE  IInv' /\ Abstract
<1>1. req[c].pc = "insert" /\ Answer(c)
  BY DEF Insert, At
<1>2. /\ RequestOK(req[c]) /\ req[c] # Idle /\ BackedBy(seen[c], req[c])
      /\ calls[c].op = req[c].op /\ calls[c].id = req[c].id /\ calls[c].body = req[c].body
  BY <1>1, InFlight
<1>3. calls[c].op = "create" /\ References(calls[c].body) \subseteq seen[c].found
  BY <1>1, <1>2 DEF RequestOK, BackedBy
<1>4. IInv' /\ Overlapping!Become(c, Overlapping!NoCall)
  BY <1>1, AnswerKeeps
<1>5. CASE Exists(rows, req[c].id)
  <2>1. rows' = rows
    BY <1>5 DEF Insert
  <2>2. Overlapping!Refuse(c)
    BY <1>2, <1>3, <1>4, <1>5, <2>1, SameOperators DEF Overlapping!Refuse
  <2> QED
    BY <1>4, <2>2 DEF Abstract, Overlapping!Next
<1>6. CASE ~Exists(rows, req[c].id)
  <2>1. rows' = [rows EXCEPT ![req[c].id] = NewDocument(req[c].body)]
    BY <1>6 DEF Insert
  <2>2. Overlapping!Create(c)
    BY <1>2, <1>3, <1>4, <1>6, <2>1, SameOperators
    DEF Overlapping!Create, Overlapping!Accepts
  <2> QED
    BY <1>4, <2>2 DEF Abstract, Overlapping!Next
<1> QED
  BY <1>5, <1>6

LEMMA ReadKeeps ==
    ASSUME IInv, TypeOK', NEW c \in Clients, Read(c)
    PROVE  IInv' /\ Abstract
<1> DEFINE id == req[c].id
           next == [req[c] EXCEPT !.pc = "write", !.doc = PatchMerge(rows[id], req[c].body)]
<1>1. req[c].pc = "read" /\ rows' = rows
      /\ IF Exists(rows, id) THEN Become(c, next) ELSE Answer(c)
  BY DEF Read, At
<1>2. /\ RequestOK(req[c]) /\ req[c] # Idle /\ BackedBy(seen[c], req[c])
      /\ calls[c].op = req[c].op /\ calls[c].id = req[c].id
      /\ seen[c] = Look(seen[c], req[c], rows)
  BY <1>1, InFlight
<1>3. req[c].op = "update" /\ req[c].todo = {}
  BY <1>1, <1>2 DEF RequestOK
<1>4. /\ next.pc = "write" /\ next.doc = PatchMerge(rows[id], req[c].body)
      /\ next.todo = {} /\ next.op = "update" /\ next.id = id /\ next.body = req[c].body
  BY <1>1, <1>2, <1>3 DEF RequestOK, Request
<1> HIDE DEF next
<1>5. CASE Exists(rows, id)
  <2>1. Become(c, next)
    BY <1>1, <1>5
  <2>2. rows[id] \in seen[c].was
    BY <1>2, <1>3, <1>5, LookFacts DEF Exists
  <2>3. BackedBy(seen[c], next)
    BY <1>1, <1>2, <1>3, <1>4, <2>2 DEF BackedBy
  <2>4. next # Idle /\ Call(next) = Call(req[c])
    BY <1>3, <1>4, IdleFacts DEF Call
  <2>5. UNCHANGED Overlapping!vars
    BY <1>1, <1>2, <2>1, <2>4, GoesOn
  <2>6. BackedBy(seen'[c], next)
    BY <2>3, <2>5 DEF Overlapping!vars
  <2> QED
    BY <2>1, <2>5, <2>6, StepKeeps DEF Abstract
<1>6. CASE ~Exists(rows, id)
  <2>1. Answer(c)
    BY <1>1, <1>6
  <2>2. Overlapping!Refuse(c)
    BY <1>1, <1>2, <1>3, <1>6, <2>1, AnswerKeeps, SameOperators DEF Overlapping!Refuse
  <2> QED
    BY <2>1, <2>2, AnswerKeeps DEF Abstract, Overlapping!Next
<1> QED
  BY <1>5, <1>6

LEMMA WriteKeeps ==
    ASSUME IInv, TypeOK', NEW c \in Clients, Write(c)
    PROVE  IInv' /\ Abstract
<1>1. req[c].pc = "write" /\ Answer(c)
  BY DEF Write, At
<1>2. /\ RequestOK(req[c]) /\ BackedBy(seen[c], req[c])
      /\ calls[c].op = req[c].op /\ calls[c].id = req[c].id /\ calls[c].body = req[c].body
  BY <1>1, InFlight
<1>3. /\ calls[c].op = "update" /\ References(calls[c].body) \subseteq seen[c].found
      /\ \E doc \in seen[c].was : req[c].doc = PatchMerge(doc, req[c].body)
  BY <1>1, <1>2 DEF RequestOK, BackedBy, Idle
<1>4. IInv' /\ Overlapping!Become(c, Overlapping!NoCall)
  BY <1>1, AnswerKeeps
<1>5. CASE Exists(rows, req[c].id)
  <2>1. rows' = [rows EXCEPT ![req[c].id] = req[c].doc]
    BY <1>5 DEF Write
  <2>2. PICK doc \in seen[c].was : req[c].doc = PatchMerge(doc, req[c].body)
    BY <1>3
  <2>3. rows' = [rows EXCEPT ![calls[c].id] = Overlapping!PatchMerge(doc, calls[c].body)]
    BY <1>2, <2>1, <2>2, SameOperators
  <2>4. Overlapping!Patch(c)
    BY <1>2, <1>3, <1>4, <1>5, <2>3, SameOperators
    DEF Overlapping!Patch, Overlapping!Accepts
  <2> QED
    BY <1>4, <2>4 DEF Abstract, Overlapping!Next
<1>6. CASE ~Exists(rows, req[c].id)
  <2>1. rows' = rows
    BY <1>6 DEF Write
  <2>2. Overlapping!Refuse(c)
    BY <1>2, <1>3, <1>4, <1>6, <2>1, SameOperators DEF Overlapping!Refuse
  <2> QED
    BY <1>4, <2>2 DEF Abstract, Overlapping!Next
<1> QED
  BY <1>5, <1>6

LEMMA DeleteWithResultKeeps ==
    ASSUME IInv, TypeOK', NEW c \in Clients, DeleteWithResult(c)
    PROVE  IInv' /\ Abstract
<1>1. req[c].pc = "delete" /\ Answer(c) /\ rows' = [rows EXCEPT ![req[c].id] = NoRow]
  BY DEF DeleteWithResult, At
<1>2. RequestOK(req[c]) /\ req[c].id \in Ids
      /\ calls[c].op = req[c].op /\ calls[c].id = req[c].id
  BY <1>1, InFlight
<1>3. calls[c].op = "delete"
  BY <1>1, <1>2 DEF RequestOK, Idle
<1>4. IInv' /\ Overlapping!Become(c, Overlapping!NoCall)
  BY <1>1, AnswerKeeps
<1>5. CASE Exists(rows, req[c].id)
  <2>1. Overlapping!Delete(c)
    BY <1>1, <1>2, <1>3, <1>4, <1>5, SameOperators DEF Overlapping!Delete
  <2> QED
    BY <1>4, <2>1 DEF Abstract, Overlapping!Next
<1>6. CASE ~Exists(rows, req[c].id)
  <2>1. rows' = rows
    BY <1>1, <1>2, <1>6 DEF Exists, IInv, TypeOK
  <2>2. Overlapping!Refuse(c)
    BY <1>2, <1>3, <1>4, <1>6, <2>1, SameOperators DEF Overlapping!Refuse
  <2> QED
    BY <1>4, <2>2 DEF Abstract, Overlapping!Next
<1> QED
  BY <1>5, <1>6

LEMMA RestartKeeps ==
    ASSUME IInv, TypeOK', Restart
    PROVE  IInv' /\ Abstract
<1>1. /\ rows' = rows /\ req' = [c \in Clients |-> Idle]
      /\ seen' = [c \in Clients |-> Nothing]
  BY DEF Restart
<1>2. IInv'
  BY <1>1, IdleFacts DEF IInv, Recorded
<1>3. calls' = [c \in Clients |-> Overlapping!NoCall]
  BY <1>1, CallOfIdle DEF calls
<1>4. Overlapping!Crash
  BY <1>1, <1>3, SameOperators DEF Overlapping!Crash
<1> QED
  BY <1>2, <1>4 DEF Abstract, Overlapping!Next

LEMMA InitEstablishes == Init => IInv /\ Overlapping!Init
<1> SUFFICES ASSUME Init PROVE IInv /\ Overlapping!Init
  OBVIOUS
<1>1. TypeOK
  BY IdleFacts DEF Init, TypeOK
<1>2. IInv
  BY <1>1, IdleFacts DEF Init, IInv, Recorded
<1>3. calls = [c \in Clients |-> Overlapping!NoCall]
  BY CallOfIdle DEF Init, calls
<1> QED
  BY <1>2, <1>3, SameOperators DEF Init, Overlapping!Init

\* Every step keeps the invariant and is a step of the abstract store or none.
LEMMA NextKeeps ==
    ASSUME IInv, [Next]_vars
    PROVE  IInv' /\ Abstract
<1>1. TypeOK'
  BY TypeStep DEF IInv
<1>2. CASE UNCHANGED vars
  <2>1. UNCHANGED Overlapping!vars
    BY <1>2 DEF vars, Overlapping!vars, calls
  <2>2. Recorded'
    BY <1>2 DEF vars, IInv, Recorded
  <2>3. \A c \in Clients : BackedBy(seen'[c], req'[c])
    BY <1>2 DEF vars, IInv
  <2> QED
    BY <1>1, <2>1, <2>2, <2>3 DEF IInv, Abstract
<1> QED
  BY <1>1, <1>2, StartsKeep, CheckKeeps, InsertKeeps, ReadKeeps, WriteKeeps,
     DeleteWithResultKeeps, RestartKeeps DEF Next

---------------------------------------------------------------------------
(* Theorem *)

\* However the lookups, inserts, reads, merges and writes of any number of clients
\* interleave, and with crashes, each request looks like one step, which relies on
\* nothing older than the request.
THEOREM Refinement == Spec => ImplementsStore
<1>1. Init => IInv /\ Overlapping!Init
  BY InitEstablishes
<1>2. IInv /\ [Next]_vars => IInv' /\ [Overlapping!Next]_(Overlapping!vars)
  BY NextKeeps DEF Abstract
<1> QED
  BY <1>1, <1>2, PTL DEF Spec, ImplementsStore, Overlapping!Spec
=============================================================================
