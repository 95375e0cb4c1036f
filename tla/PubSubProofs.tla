---------------------------- MODULE PubSubProofs ----------------------------
(***************************************************************************)
(* Subscriptions of PubSub, for any clients, topics and subscriptions: when *)
(* topic deletions do not overlap other requests, none of them leaves a    *)
(* subscription that shows a topic that is gone, wherever it crashes.      *)
(***************************************************************************)
EXTENDS PubSub, TLAPS

---------------------------------------------------------------------------
(* Types *)

LEMMA IdleTyped == Idle \in Request /\ Idle.pc = "idle"
<1>1. /\ Default(TopicNames) \in TopicNames /\ Default(Labels) \in Labels
      /\ Default(SubscriptionNames) \in SubscriptionNames
  BY NamesAssumption DEF Default
<1>2. NoData \in Data
  BY <1>1 DEF NoData, Data, TopicRefs
<1> QED
  BY <1>1, <1>2 DEF Idle, Request, TopicRefs

LEMMA BecomeTyped ==
    ASSUME TypeOK, NEW c \in Clients, NEW r \in Request, Become(c, r)
    PROVE  req' = [d \in Clients |-> req'[d]] /\ \A d \in Clients : req'[d] \in Request
  BY DEF TypeOK, Become

LEMMA UpdateTyped ==
    ASSUME TypeOK, NEW name, NEW column \in TopicRefs, NEW data \in Data
    PROVE  Update(name, column, data) \subseteq Subscription
<1> SUFFICES ASSUME NEW s \in subscriptions
             PROVE  (IF s.name = name THEN [s EXCEPT !.column = column, !.data = data] ELSE s)
                        \in Subscription
  BY DEF Update
<1>1. s \in Subscription
  BY DEF TypeOK
<1> QED
  BY <1>1 DEF Subscription

LEMMA TopicsTyped ==
    ASSUME TypeOK, NEW c \in Clients,
           \/ CreateTopic(c) \/ DeleteTopic(c) \/ MarkSubscription(c) \/ FinishDeleteTopic(c)
    PROVE  TypeOK'
<1>1. CASE CreateTopic(c)
  BY <1>1 DEF CreateTopic, TypeOK
<1>2. CASE DeleteTopic(c)
  <2>1. PICK t \in TopicNames :
            LET found == {s \in subscriptions : s.column = t}
            IN  Become(c, [Idle EXCEPT !.topic = t, !.todo = found,
                                       !.pc = IF found = {} THEN "deleteTopic" ELSE "mark"])
    BY <1>2 DEF DeleteTopic
  <2> DEFINE found == {s \in subscriptions : s.column = t}
             r == [Idle EXCEPT !.topic = t, !.todo = found,
                               !.pc = IF found = {} THEN "deleteTopic" ELSE "mark"]
  <2>2. found \subseteq Subscription
    BY DEF TypeOK
  <2> HIDE DEF found
  <2>3. r \in Request
    BY <2>2, IdleTyped DEF Request, TopicRefs
  <2>4. Become(c, r)
    BY <2>1 DEF found
  <2> HIDE DEF r
  <2> QED
    BY <1>2, <2>3, <2>4, BecomeTyped DEF DeleteTopic, TypeOK
<1>3. CASE MarkSubscription(c)
  <2>1. PICK s \in req[c].todo :
            /\ subscriptions' = Update(s.name, DeletedTopic,
                                       [s.data EXCEPT !.topic = DeletedTopic])
            /\ Become(c, [req[c] EXCEPT
                    !.todo = @ \ {s},
                    !.pc = IF req[c].todo = {s} THEN "deleteTopic" ELSE "mark"])
    BY <1>3 DEF MarkSubscription
  <2>2. req[c] \in Request
    BY DEF TypeOK
  <2>3. s \in Subscription
    BY <2>2 DEF Request
  <2>4. [s.data EXCEPT !.topic = DeletedTopic] \in Data /\ DeletedTopic \in TopicRefs
    BY <2>3 DEF Subscription, Data, TopicRefs
  <2>5. [req[c] EXCEPT !.todo = @ \ {s},
                       !.pc = IF req[c].todo = {s} THEN "deleteTopic" ELSE "mark"] \in Request
    BY <2>2 DEF Request
  <2> QED
    BY <1>3, <2>1, <2>4, <2>5, UpdateTyped, BecomeTyped DEF MarkSubscription, TypeOK
<1>4. CASE FinishDeleteTopic(c)
  BY <1>4, IdleTyped, BecomeTyped DEF FinishDeleteTopic, Answer, TypeOK
<1> QED
  BY <1>1, <1>2, <1>3, <1>4

LEMMA SubscriptionsTyped ==
    ASSUME TypeOK, NEW c \in Clients,
           \/ CreateSubscription(c) \/ InsertSubscription(c) \/ UpdateSubscription(c)
           \/ WriteSubscription(c) \/ DeleteSubscription(c)
    PROVE  TypeOK'
<1>0. req[c] \in Request
  BY DEF TypeOK
<1>1. CASE CreateSubscription(c)
  <2>1. PICK n \in SubscriptionNames, t \in topics, l \in Labels :
            Become(c, [Idle EXCEPT !.pc = "insert", !.topic = t, !.name = n,
                        !.data = [topic |-> t, topic_name |-> t, label |-> l]])
    BY <1>1 DEF CreateSubscription
  <2>2. [topic |-> t, topic_name |-> t, label |-> l] \in Data /\ t \in TopicRefs
    BY DEF TypeOK, Data, TopicRefs
  <2>3. [Idle EXCEPT !.pc = "insert", !.topic = t, !.name = n,
                     !.data = [topic |-> t, topic_name |-> t, label |-> l]] \in Request
    BY <2>2, IdleTyped DEF Request
  <2> QED
    BY <1>1, <2>1, <2>3, BecomeTyped DEF CreateSubscription, TypeOK
<1>2. CASE InsertSubscription(c)
  <2>1. [name |-> req[c].name, column |-> req[c].topic, data |-> req[c].data] \in Subscription
    BY <1>0 DEF Request, Subscription
  <2>2. subscriptions' \subseteq Subscription
    BY <1>2, <2>1 DEF InsertSubscription, TypeOK
  <2> QED
    BY <1>2, <2>2, IdleTyped, BecomeTyped DEF InsertSubscription, Answer, TypeOK
<1>3. CASE UpdateSubscription(c)
  <2>1. PICK s \in subscriptions, l \in Labels :
            Become(c, [Idle EXCEPT !.pc = "write", !.name = s.name,
                        !.data = [s.data EXCEPT !.label = l]])
    BY <1>3 DEF UpdateSubscription
  <2>2. s \in Subscription
    BY DEF TypeOK
  <2>3. [s.data EXCEPT !.label = l] \in Data /\ s.name \in SubscriptionNames
    BY <2>2 DEF Subscription, Data
  <2>4. [Idle EXCEPT !.pc = "write", !.name = s.name,
                     !.data = [s.data EXCEPT !.label = l]] \in Request
    BY <2>3, IdleTyped DEF Request
  <2> QED
    BY <1>3, <2>1, <2>4, BecomeTyped DEF UpdateSubscription, TypeOK
<1>4. CASE WriteSubscription(c)
  <2>1. req[c].data \in Data /\ req[c].data.topic_name \in TopicRefs
    BY <1>0 DEF Request, Data, TopicRefs
  <2> QED
    BY <1>4, <2>1, IdleTyped, BecomeTyped, UpdateTyped
    DEF WriteSubscription, Answer, TypeOK
<1>5. CASE DeleteSubscription(c)
  BY <1>5 DEF DeleteSubscription, TypeOK
<1> QED
  BY <1>1, <1>2, <1>3, <1>4, <1>5

LEMMA TypedStep == TypeOK /\ [Next]_vars => TypeOK'
<1> SUFFICES ASSUME TypeOK, [Next]_vars PROVE TypeOK'
  OBVIOUS
<1>1. CASE Restart
  BY <1>1, IdleTyped DEF Restart, TypeOK
<1>2. CASE UNCHANGED vars
  BY <1>2 DEF vars, TypeOK
<1> QED
  BY <1>1, <1>2, TopicsTyped, SubscriptionsTyped DEF Next

LEMMA InitTyped == Init => TypeOK
  BY IdleTyped DEF Init, TypeOK

\* Rows and requests are always well formed, whatever overlaps.
THEOREM TypeCorrect == Spec => []TypeOK
  BY InitTyped, TypedStep, PTL DEF Spec

---------------------------------------------------------------------------
(* The inductive invariant *)

\* JSON whose `topic` is a topic has the same one as its `topic_name`.
Bound(data) == data.topic \in {DeletedTopic, data.topic_name}

\* A row that shows a topic is found by it.
RowBound(s) == Bound(s.data) /\ (s.data.topic # DeletedTopic => s.column = s.data.topic)

\* What a request will write is bound to a topic that exists, or to none.
WriteBound(r) ==
    r.pc \in {"insert", "write"} =>
        /\ Bound(r.data)
        /\ r.data.topic \in topics \cup {DeletedTopic}
        /\ r.pc = "insert" => r.data.topic = r.topic

\* A DeleteTopic has still to mark every subscription that shows its topic.
MarksAllOf(r, rows) ==
    r.pc \in {"mark", "deleteTopic"} =>
        /\ r.topic \in TopicNames
        /\ \A s \in rows : s.data.topic = r.topic => s \in r.todo
        /\ r.pc = "deleteTopic" => r.todo = {}
StillToMark(r) == MarksAllOf(r, subscriptions)

\* A DeleteTopic has the emulator to itself.
Alone == \A c, d \in Clients : Deleting(c) /\ c # d => At(d, "idle")

IInv ==
    /\ TypeOK
    /\ NoDanglingSubscription
    /\ \A s \in subscriptions : RowBound(s)
    /\ \A c \in Clients : WriteBound(req[c]) /\ StillToMark(req[c])
    /\ Alone

\* A step of client c is its own: other requests are as before.
LEMMA OwnStep ==
    ASSUME TypeOK, NEW c \in Clients, NEW r, Become(c, r)
    PROVE  req'[c] = r /\ \A d \in Clients : d # c => req'[d] = req[d]
  BY DEF Become, TypeOK

\* While a topic is deleted nothing else is in flight.
LEMMA OthersIdle ==
    ASSUME IInv, NEW c \in Clients, ~At(c, "idle"), NEW d \in Clients, d # c
    PROVE  ~Deleting(d) /\ (Deleting(c) => At(d, "idle"))
  BY DEF IInv, Alone

\* A step of a client that deletes no topic, nor is about to, and takes none away.
LEMMA QuietKeeps ==
    ASSUME IInv, TypeOK', NEW c \in Clients, NEW r, Become(c, r),
           \A d \in Clients : ~Deleting(d),
           r.pc \notin {"mark", "deleteTopic"}, WriteBound(r),
           topics \subseteq topics',
           \A s \in subscriptions' : RowBound(s) /\ s.data.topic \in topics' \cup {DeletedTopic}
    PROVE  IInv'
<1>1. req'[c] = r /\ \A d \in Clients : d # c => req'[d] = req[d]
  BY OwnStep DEF IInv
<1>2. \A d \in Clients : ~Deleting(d)'
  BY <1>1 DEF Deleting, At
<1>3. ASSUME NEW d \in Clients
      PROVE  WriteBound(req[d])' /\ StillToMark(req[d])'
  <2>1. WriteBound(req[d])'
    BY <1>1 DEF IInv, WriteBound
  <2>2. StillToMark(req[d])'
    BY <1>2 DEF Deleting, At, StillToMark, MarksAllOf
  <2> QED
    BY <2>1, <2>2
<1>4. (\A s \in subscriptions : RowBound(s))' /\ NoDanglingSubscription'
  BY DEF NoDanglingSubscription, RowBound, Bound
<1>5. Alone'
  BY <1>2 DEF Alone
<1> QED
  BY <1>3, <1>4, <1>5 DEF IInv

LEMMA QuietSteps ==
    ASSUME IInv, TopicDeletesOverlap = FALSE, NEW c \in Clients,
           \/ CreateTopic(c) \/ CreateSubscription(c) \/ InsertSubscription(c)
           \/ UpdateSubscription(c) \/ WriteSubscription(c) \/ DeleteSubscription(c)
    PROVE  IInv'
<1>1. TypeOK' /\ req[c] \in Request /\ WriteBound(req[c])
  BY TopicsTyped, SubscriptionsTyped DEF IInv, TypeOK
<1>2. \A d \in Clients : ~Deleting(d)
  <2>1. CASE MayStart(c)
    BY <2>1 DEF MayStart
  <2>2. CASE At(c, "insert") \/ At(c, "write")
    BY <2>2, OthersIdle DEF Deleting, At
  <2> QED
    BY <2>1, <2>2 DEF CreateTopic, CreateSubscription, InsertSubscription,
       UpdateSubscription, WriteSubscription, DeleteSubscription
<1>3. \A s \in subscriptions : RowBound(s) /\ s.data.topic \in topics \cup {DeletedTopic}
  BY DEF IInv, NoDanglingSubscription
<1>4. Idle.pc \notin {"mark", "deleteTopic"} /\ WriteBound(Idle)
  BY IdleTyped DEF WriteBound
<1>5. CASE CreateTopic(c) \/ DeleteSubscription(c)
  <2>1. Become(c, req[c]) /\ req[c].pc = "idle" /\ topics \subseteq topics'
    BY <1>5 DEF CreateTopic, DeleteSubscription, Become, IInv, TypeOK, MayStart, At
  <2>2. subscriptions' \subseteq subscriptions
    BY <1>5 DEF CreateTopic, DeleteSubscription
  <2> QED
    BY <1>1, <1>2, <1>3, <2>1, <2>2, QuietKeeps
<1>6. CASE CreateSubscription(c)
  <2>1. PICK n \in SubscriptionNames, t \in topics, l \in Labels :
            Become(c, [Idle EXCEPT !.pc = "insert", !.topic = t, !.name = n,
                        !.data = [topic |-> t, topic_name |-> t, label |-> l]])
    BY <1>6 DEF CreateSubscription
  <2> DEFINE r == [Idle EXCEPT !.pc = "insert", !.topic = t, !.name = n,
                        !.data = [topic |-> t, topic_name |-> t, label |-> l]]
  <2>2. r.pc = "insert" /\ r.topic = t /\ r.data.topic = t /\ r.data.topic_name = t
    BY DEF Idle
  <2>3. Become(c, r)
    BY <2>1
  <2> HIDE DEF r
  <2>4. WriteBound(r)
    BY <2>2 DEF WriteBound, Bound
  <2> QED
    BY <1>1, <1>2, <1>3, <1>6, <2>2, <2>3, <2>4, QuietKeeps DEF CreateSubscription
<1>7. CASE InsertSubscription(c)
  <2> DEFINE x == [name |-> req[c].name, column |-> req[c].topic, data |-> req[c].data]
  <2>1. subscriptions' \subseteq subscriptions \cup {x} /\ topics' = topics /\ Become(c, Idle)
    BY <1>7 DEF InsertSubscription, Answer
  <2>2. x.column = req[c].topic /\ x.data = req[c].data
    OBVIOUS
  <2> HIDE DEF x
  <2>3. RowBound(x) /\ x.data.topic \in topics \cup {DeletedTopic}
    BY <1>1, <1>7, <2>2 DEF WriteBound, RowBound, InsertSubscription, At
  <2> QED
    BY <1>1, <1>2, <1>3, <1>4, <2>1, <2>3, QuietKeeps
<1>8. CASE UpdateSubscription(c)
  <2>1. PICK s \in subscriptions, l \in Labels :
            Become(c, [Idle EXCEPT !.pc = "write", !.name = s.name,
                        !.data = [s.data EXCEPT !.label = l]])
    BY <1>8 DEF UpdateSubscription
  <2> DEFINE r == [Idle EXCEPT !.pc = "write", !.name = s.name,
                        !.data = [s.data EXCEPT !.label = l]]
  <2>2. s.data \in Data
    BY DEF IInv, TypeOK, Subscription
  <2>3. r.pc = "write" /\ r.data.topic = s.data.topic
        /\ r.data.topic_name = s.data.topic_name
    BY <2>2 DEF Idle, Data
  <2>4. Become(c, r)
    BY <2>1
  <2> HIDE DEF r
  <2>5. WriteBound(r)
    BY <1>3, <2>3 DEF WriteBound, RowBound, Bound
  <2> QED
    BY <1>1, <1>2, <1>3, <1>8, <2>3, <2>4, <2>5, QuietKeeps DEF UpdateSubscription
<1>9. CASE WriteSubscription(c)
  <2>1. req[c].data.topic \in topics \cup {DeletedTopic} /\ Bound(req[c].data)
    BY <1>1, <1>9 DEF WriteBound, WriteSubscription, At
  <2>2. ASSUME NEW s \in subscriptions'
        PROVE  RowBound(s) /\ s.data.topic \in topics \cup {DeletedTopic}
    <3>1. PICK x \in subscriptions :
              s = IF x.name = req[c].name
                    THEN [x EXCEPT !.column = req[c].data.topic_name, !.data = req[c].data]
                    ELSE x
      BY <1>9 DEF WriteSubscription, Update
    <3>2. x \in Subscription
      BY DEF IInv, TypeOK
    <3>3. CASE x.name = req[c].name
      <4>1. s.column = req[c].data.topic_name /\ s.data = req[c].data
        BY <3>1, <3>2, <3>3 DEF Subscription
      <4> QED
        BY <2>1, <4>1 DEF RowBound, Bound
    <3> QED
      BY <1>3, <3>1, <3>3
  <2>3. topics' = topics /\ Become(c, Idle)
    BY <1>9 DEF WriteSubscription, Answer
  <2> QED
    BY <1>1, <1>2, <1>4, <2>2, <2>3, QuietKeeps
<1> QED
  BY <1>5, <1>6, <1>7, <1>8, <1>9

\* The steps of a DeleteTopic: c was alone, and still is.
LEMMA DeletingKeeps ==
    ASSUME IInv, TypeOK', NEW c \in Clients, NEW r, Become(c, r),
           r.pc \notin {"insert", "write"},
           \A d \in Clients : d # c => At(d, "idle"),
           MarksAllOf(r, subscriptions'),
           \A s \in subscriptions' : RowBound(s) /\ s.data.topic \in topics' \cup {DeletedTopic}
    PROVE  IInv'
<1>1. req'[c] = r /\ \A d \in Clients : d # c => req'[d].pc = "idle"
  BY OwnStep DEF IInv, At
<1>2. \A d \in Clients : WriteBound(req[d])'
  BY <1>1 DEF WriteBound
<1>3. \A d \in Clients : StillToMark(req[d])'
  BY <1>1 DEF StillToMark, MarksAllOf
<1>4. Alone'
  BY <1>1 DEF Alone, Deleting, At
<1>5. (\A s \in subscriptions : RowBound(s))' /\ NoDanglingSubscription'
  BY DEF NoDanglingSubscription, RowBound, Bound
<1> QED
  BY <1>2, <1>3, <1>4, <1>5 DEF IInv

LEMMA DeletingSteps ==
    ASSUME IInv, TopicDeletesOverlap = FALSE, NEW c \in Clients,
           DeleteTopic(c) \/ MarkSubscription(c) \/ FinishDeleteTopic(c)
    PROVE  IInv'
<1>1. TypeOK' /\ req[c] \in Request /\ StillToMark(req[c])
  BY TopicsTyped DEF IInv, TypeOK
<1>2. \A s \in subscriptions : RowBound(s) /\ s.data.topic \in topics \cup {DeletedTopic}
  BY DEF IInv, NoDanglingSubscription
<1>3. \A d \in Clients : d # c => At(d, "idle")
  BY OthersIdle DEF DeleteTopic, MarkSubscription, FinishDeleteTopic, Deleting, At
<1>4. CASE DeleteTopic(c)
  <2>1. PICK t \in TopicNames :
            LET found == {s \in subscriptions : s.column = t}
            IN  Become(c, [Idle EXCEPT !.topic = t, !.todo = found,
                                       !.pc = IF found = {} THEN "deleteTopic" ELSE "mark"])
    BY <1>4 DEF DeleteTopic
  <2> DEFINE found == {s \in subscriptions : s.column = t}
             r == [Idle EXCEPT !.topic = t, !.todo = found,
                               !.pc = IF found = {} THEN "deleteTopic" ELSE "mark"]
  <2>2. \A s \in subscriptions : s.data.topic = t => s \in found
    BY <1>2, DeletedTopicAssumption DEF RowBound
  <2>3. Become(c, r)
    BY <2>1
  <2> HIDE DEF found
  <2>4. /\ r.pc \in {"mark", "deleteTopic"} /\ r.topic = t /\ r.todo = found
        /\ r.pc = "deleteTopic" => r.todo = {}
    BY DEF Idle
  <2> HIDE DEF r
  <2>5. subscriptions' = subscriptions /\ topics' = topics
    BY <1>4 DEF DeleteTopic
  <2>6. MarksAllOf(r, subscriptions')
    BY <2>2, <2>4, <2>5 DEF StillToMark, MarksAllOf
  <2> QED
    BY <1>1, <1>2, <1>3, <2>3, <2>4, <2>5, <2>6, DeletingKeeps
<1>5. CASE MarkSubscription(c)
  <2>1. PICK s \in req[c].todo :
            /\ subscriptions' = Update(s.name, DeletedTopic,
                                       [s.data EXCEPT !.topic = DeletedTopic])
            /\ Become(c, [req[c] EXCEPT
                    !.todo = @ \ {s},
                    !.pc = IF req[c].todo = {s} THEN "deleteTopic" ELSE "mark"])
    BY <1>5 DEF MarkSubscription
  <2> DEFINE r == [req[c] EXCEPT !.todo = @ \ {s},
                       !.pc = IF req[c].todo = {s} THEN "deleteTopic" ELSE "mark"]
  <2>2. /\ r.pc \in {"mark", "deleteTopic"} /\ r.topic = req[c].topic
        /\ r.todo = req[c].todo \ {s}
        /\ r.pc = "deleteTopic" => r.todo = {}
    BY <1>1 DEF Request
  <2>3. Become(c, r) /\ topics' = topics
    BY <1>5, <2>1 DEF MarkSubscription
  <2> HIDE DEF r
  <2>4. s.data \in Data
    BY <1>1 DEF Request, Subscription
  <2>5. ASSUME NEW x \in subscriptions'
        PROVE  \/ x.data.topic = DeletedTopic
               \/ x \in subscriptions /\ x # s
    <3>1. PICK y \in subscriptions :
              x = IF y.name = s.name
                    THEN [y EXCEPT !.column = DeletedTopic,
                                   !.data = [s.data EXCEPT !.topic = DeletedTopic]]
                    ELSE y
      BY <2>1 DEF Update
    <3>2. y \in Subscription
      BY DEF IInv, TypeOK
    <3> QED
      BY <2>4, <3>1, <3>2 DEF Subscription, Data
  <2>6. \A x \in subscriptions' : RowBound(x) /\ x.data.topic \in topics' \cup {DeletedTopic}
    BY <1>2, <2>3, <2>5 DEF RowBound, Bound
  <2>7. /\ req[c].topic \in TopicNames
        /\ \A x \in subscriptions : x.data.topic = req[c].topic => x \in req[c].todo
    BY <1>1, <1>5 DEF StillToMark, MarksAllOf, MarkSubscription, At
  <2>8. MarksAllOf(r, subscriptions')
    BY <2>2, <2>5, <2>7, DeletedTopicAssumption DEF StillToMark, MarksAllOf
  <2> QED
    BY <1>1, <1>3, <2>2, <2>3, <2>6, <2>8, DeletingKeeps
<1>6. CASE FinishDeleteTopic(c)
  <2>1. \A s \in subscriptions : s.data.topic # req[c].topic
    BY <1>1, <1>6 DEF StillToMark, MarksAllOf, FinishDeleteTopic, At
  <2>2. Become(c, Idle) /\ subscriptions' = subscriptions /\ topics' = topics \ {req[c].topic}
    BY <1>6 DEF FinishDeleteTopic, Answer
  <2>3. MarksAllOf(Idle, subscriptions')
    BY IdleTyped DEF StillToMark, MarksAllOf
  <2> QED
    BY <1>1, <1>2, <1>3, <2>1, <2>2, <2>3, IdleTyped, DeletingKeeps
<1> QED
  BY <1>4, <1>5, <1>6

LEMMA StepKeeps == ASSUME TopicDeletesOverlap = FALSE, IInv, [Next]_vars PROVE IInv'
<1>1. TypeOK'
  BY TypedStep DEF IInv
<1>2. CASE Restart
  <2>1. topics' = topics /\ subscriptions' = subscriptions
        /\ \A c \in Clients : req'[c].pc = "idle"
    BY <1>2, IdleTyped DEF Restart
  <2>2. (\A s \in subscriptions : RowBound(s))' /\ NoDanglingSubscription'
    BY <2>1 DEF IInv, NoDanglingSubscription, RowBound, Bound
  <2>3. \A c \in Clients : WriteBound(req[c])' /\ StillToMark(req[c])'
    BY <2>1 DEF WriteBound, StillToMark, MarksAllOf
  <2>4. Alone'
    BY <2>1 DEF Alone, Deleting, At
  <2> QED
    BY <1>1, <2>2, <2>3, <2>4 DEF IInv
<1>3. CASE UNCHANGED vars
  BY <1>1, <1>3 DEF vars, IInv, NoDanglingSubscription, RowBound, Bound, WriteBound,
     StillToMark, MarksAllOf, Alone, Deleting, At
<1> QED
  BY <1>2, <1>3, QuietSteps, DeletingSteps DEF Next

LEMMA InitKeeps == Init => IInv
<1> SUFFICES ASSUME Init PROVE IInv
  OBVIOUS
<1>1. TypeOK /\ subscriptions = {} /\ \A c \in Clients : req[c] = Idle
  BY InitTyped DEF Init
<1> QED
  BY <1>1, IdleTyped DEF IInv, NoDanglingSubscription, WriteBound, StillToMark, MarksAllOf, Alone,
     Deleting, At

LEMMA Inductive == ASSUME TopicDeletesOverlap = FALSE PROVE Spec => []IInv
<1>1. IInv /\ [Next]_vars => IInv'
  BY StepKeeps
<1> QED
  BY <1>1, InitKeeps, PTL DEF Spec

---------------------------------------------------------------------------
(* What follows from it *)

\* Wherever DeleteTopic stops, and whatever runs before it is tried again, no
\* subscription shows a topic that does not exist.
THEOREM NothingDangles ==
    ASSUME TopicDeletesOverlap = FALSE
    PROVE  Spec => []NoDanglingSubscription
<1>1. IInv => NoDanglingSubscription
  BY DEF IInv
<1> QED
  BY <1>1, Inductive, PTL

\* A step taken while a topic is deleted keeps every subscription's row.
LEMMA StepSurvives ==
    ASSUME IInv, [Next]_vars, NEW c \in Clients, Deleting(c), NEW s \in subscriptions,
           TopicDeletesOverlap = FALSE
    PROVE  \E x \in subscriptions' : x.name = s.name
<1>1. CASE subscriptions' = subscriptions
  BY <1>1
<1>2. CASE subscriptions' # subscriptions
  <2>1. PICK d \in Clients :
            MarkSubscription(d) \/ InsertSubscription(d) \/ WriteSubscription(d)
    BY <1>2 DEF Next, vars, Restart, CreateTopic, DeleteTopic, FinishDeleteTopic,
       CreateSubscription, UpdateSubscription, DeleteSubscription, MayStart
  <2>2. PICK name, column, data : subscriptions' = Update(name, column, data)
                                  \/ subscriptions \subseteq subscriptions'
    BY <2>1 DEF MarkSubscription, InsertSubscription, WriteSubscription
  <2>3. CASE subscriptions' = Update(name, column, data)
    <3> DEFINE x == IF s.name = name THEN [s EXCEPT !.column = column, !.data = data] ELSE s
    <3>1. x \in subscriptions'
      BY <2>3 DEF Update
    <3>2. s \in Subscription
      BY DEF IInv, TypeOK
    <3>3. x.name = s.name
      BY <3>2 DEF Subscription
    <3> QED
      BY <3>1, <3>3
  <2> QED
    BY <2>2, <2>3
<1> QED
  BY <1>1, <1>2

\* DeleteTopic keeps the subscriptions of the topic.
THEOREM RowsSurvive ==
    ASSUME TopicDeletesOverlap = FALSE
    PROVE  Spec => SubscriptionsSurvive
<1>1. IInv /\ [Next]_vars =>
        [(\E c \in Clients : Deleting(c)) =>
            \A s \in subscriptions : \E x \in subscriptions' : x.name = s.name]_vars
  BY StepSurvives
<1> QED
  BY <1>1, Inductive, PTL DEF Spec, SubscriptionsSurvive
=============================================================================
