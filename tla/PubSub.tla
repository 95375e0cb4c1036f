------------------------------- MODULE PubSub -------------------------------
(***************************************************************************)
(* Pub/Sub topics and subscriptions. There is no foreign key between them: *)
(* a subscription survives its topic, and DeleteTopic rewrites the         *)
(* subscriptions it found, one UPDATE each, to a "_deleted-topic_"         *)
(* sentinel before it deletes the topic. A subscription names its topic    *)
(* three times: in the topic_name column (which DeleteTopic searches), in  *)
(* the JSON field `topic` (which clients read), and in a JSON copy of the  *)
(* column, `topic_name` (from which UpdateSubscription restores the        *)
(* column).                                                                *)
(*                                                                         *)
(* One project is modelled. A topic's JSON is never updated and is left    *)
(* out.                                                                    *)
(***************************************************************************)
EXTENDS Integers

CONSTANTS
    Clients,             \* concurrent HTTP clients
    TopicNames,
    SubscriptionNames,
    Labels,              \* values of the rest of a subscription's JSON
    DeletedTopic,        \* "_deleted-topic_"
    TopicDeletesOverlap  \* TRUE: a topic may be deleted while other requests run

VARIABLES
    topics,         \* names in pubsub_topics
    subscriptions,  \* rows of pubsub_subscriptions
    req             \* [Clients -> the request the client's goroutine is serving]

vars == <<topics, subscriptions, req>>

ASSUME DeletedTopicAssumption == DeletedTopic \notin TopicNames
ASSUME OverlapAssumption == TopicDeletesOverlap \in BOOLEAN
ASSUME NamesAssumption == TopicNames # {} /\ SubscriptionNames # {} /\ Labels # {}

TopicRefs == TopicNames \cup {DeletedTopic}

\* The JSON of a subscription; `topic` is shown to clients.
Data == [topic : TopicRefs, topic_name : TopicNames, label : Labels]
Subscription == [name : SubscriptionNames, column : TopicRefs, data : Data]

---------------------------------------------------------------------------
(* Requests *)

Default(S) == CHOOSE x \in S : TRUE
NoData == [topic |-> DeletedTopic, topic_name |-> Default(TopicNames),
           label |-> Default(Labels)]

Idle == [pc |-> "idle", topic |-> DeletedTopic, name |-> Default(SubscriptionNames),
         data |-> NoData, todo |-> {}]

At(c, pc) == req[c].pc = pc
Become(c, r) == req' = [req EXCEPT ![c] = r]
Answer(c) == Become(c, Idle)

Deleting(c) == At(c, "mark") \/ At(c, "deleteTopic")

\* A request may start: when topic deletions do not overlap, one has the
\* emulator to itself.
MayStart(c) ==
    /\ At(c, "idle")
    /\ TopicDeletesOverlap \/ \A d \in Clients : ~Deleting(d)

Has(name) == \E s \in subscriptions : s.name = name

\* UPDATE pubsub_subscriptions SET topic_name = column, data = data WHERE name.
Update(name, column, data) ==
    {IF s.name = name THEN [s EXCEPT !.column = column, !.data = data] ELSE s :
        s \in subscriptions}

---------------------------------------------------------------------------
(* Topics *)

\* CreateTopic: INSERT; a duplicate is ErrAlreadyExists. (The read that follows
\* has no effect.)
CreateTopic(c) ==
    /\ MayStart(c)
    /\ \E t \in TopicNames \ topics : topics' = topics \cup {t}
    /\ UNCHANGED <<subscriptions, req>>

\* DeleteTopic, first statement: the subscriptions of the topic are loaded.
\* Nothing checks that the topic exists.
DeleteTopic(c) ==
    /\ MayStart(c)
    /\ TopicDeletesOverlap \/ \A d \in Clients : At(d, "idle")
    /\ \E t \in TopicNames :
        LET found == {s \in subscriptions : s.column = t}
        IN  Become(c, [Idle EXCEPT !.topic = t, !.todo = found,
                                   !.pc = IF found = {} THEN "deleteTopic" ELSE "mark"])
    /\ UNCHANGED <<topics, subscriptions>>

\* Mutant: only the column is rewritten.
MarkColumn(c) ==
    /\ At(c, "mark")
    /\ \E s \in req[c].todo :
        /\ subscriptions' = Update(s.name, DeletedTopic, s.data)
        /\ Become(c, [req[c] EXCEPT
                !.todo = @ \ {s},
                !.pc = IF req[c].todo = {s} THEN "deleteTopic" ELSE "mark"])
    /\ UNCHANGED topics

\* Mutant: the subscriptions are deleted with their topic.
MarkByDeleting(c) ==
    /\ At(c, "mark")
    /\ \E s \in req[c].todo :
        /\ subscriptions' = {x \in subscriptions : x.name # s.name}
        /\ Become(c, [req[c] EXCEPT
                !.todo = @ \ {s},
                !.pc = IF req[c].todo = {s} THEN "deleteTopic" ELSE "mark"])
    /\ UNCHANGED topics

\* One turn of its loop: the column and `topic` become the sentinel, the rest of
\* the JSON (topic_name included) is what the SELECT returned.
MarkSubscription(c) ==
    /\ At(c, "mark")
    /\ \E s \in req[c].todo :
        /\ subscriptions' = Update(s.name, DeletedTopic,
                                   [s.data EXCEPT !.topic = DeletedTopic])
        /\ Become(c, [req[c] EXCEPT
                !.todo = @ \ {s},
                !.pc = IF req[c].todo = {s} THEN "deleteTopic" ELSE "mark"])
    /\ UNCHANGED topics

\* Its last statement, the DELETE; a missing topic is ErrNotFound only here.
FinishDeleteTopic(c) ==
    /\ At(c, "deleteTopic")
    /\ topics' = topics \ {req[c].topic}
    /\ Answer(c)
    /\ UNCHANGED subscriptions

---------------------------------------------------------------------------
(* Subscriptions *)

\* CreateSubscription, first statement: the topic must exist.
CreateSubscription(c) ==
    /\ MayStart(c)
    /\ \E n \in SubscriptionNames, t \in topics, l \in Labels :
        Become(c, [Idle EXCEPT !.pc = "insert", !.topic = t, !.name = n,
                    !.data = [topic |-> t, topic_name |-> t, label |-> l]])
    /\ UNCHANGED <<topics, subscriptions>>

\* Mutant: the positional arguments of the INSERT are swapped.
InsertSubscriptionSwapped(c) ==
    /\ At(c, "insert")
    /\ subscriptions' = subscriptions \cup
            {[name |-> req[c].topic, column |-> req[c].name, data |-> req[c].data]}
    /\ Answer(c)
    /\ UNCHANGED topics

\* INSERT; a duplicate is ErrAlreadyExists. (The read that follows has no effect.)
InsertSubscription(c) ==
    /\ At(c, "insert")
    /\ subscriptions' =
        IF Has(req[c].name) THEN subscriptions
        ELSE subscriptions \cup
                {[name |-> req[c].name, column |-> req[c].topic, data |-> req[c].data]}
    /\ Answer(c)
    /\ UNCHANGED topics

\* UpdateSubscription, first statement. `topic` and `topic_name` are kept from
\* the row whatever the patch says.
UpdateSubscription(c) ==
    /\ MayStart(c)
    /\ \E s \in subscriptions, l \in Labels :
        Become(c, [Idle EXCEPT !.pc = "write", !.name = s.name,
                    !.data = [s.data EXCEPT !.label = l]])
    /\ UNCHANGED <<topics, subscriptions>>

\* UPDATE: the column is set from the JSON's topic_name.
WriteSubscription(c) ==
    /\ At(c, "write")
    /\ subscriptions' = Update(req[c].name, req[c].data.topic_name, req[c].data)
    /\ Answer(c)
    /\ UNCHANGED topics

\* DeleteSubscription: one DELETE.
DeleteSubscription(c) ==
    /\ MayStart(c)
    /\ \E s \in subscriptions :
        subscriptions' = {x \in subscriptions : x.name # s.name}
    /\ UNCHANGED <<topics, req>>

\* The process dies and New() opens the same file: requests are gone.
Restart == req' = [c \in Clients |-> Idle] /\ UNCHANGED <<topics, subscriptions>>

---------------------------------------------------------------------------
(* Specification *)

Init ==
    /\ topics = {}
    /\ subscriptions = {}
    /\ req = [c \in Clients |-> Idle]

Next ==
    \/ \E c \in Clients :
        \/ CreateTopic(c)
        \/ DeleteTopic(c) \/ MarkSubscription(c) \/ FinishDeleteTopic(c)
        \/ CreateSubscription(c) \/ InsertSubscription(c)
        \/ UpdateSubscription(c) \/ WriteSubscription(c)
        \/ DeleteSubscription(c)
    \/ Restart

Spec == Init /\ [][Next]_vars

---------------------------------------------------------------------------
(* Properties *)

Request ==
    [pc : {"idle", "mark", "deleteTopic", "insert", "write"}, topic : TopicRefs,
     name : SubscriptionNames, data : Data, todo : SUBSET Subscription]

\* Rows and requests are well formed.
TypeOK ==
    /\ topics \subseteq TopicNames
    /\ subscriptions \subseteq Subscription
    /\ req = [c \in Clients |-> req[c]]
    /\ \A c \in Clients : req[c] \in Request

\* No subscription shows a topic that does not exist: one whose topic is deleted
\* shows the sentinel, although a DeleteTopic may crash between two of its
\* UPDATEs, and subscriptions it has and has not reached are patched, deleted and
\* created before it is tried again.
NoDanglingSubscription ==
    \A s \in subscriptions : s.data.topic \in topics \cup {DeletedTopic}

\* Subscriptions survive: a row disappears only when no request is deleting a
\* topic, that is, through DeleteSubscription.
SubscriptionsSurvive ==
    [][(\E c \in Clients : Deleting(c)) =>
        \A s \in subscriptions : \E x \in subscriptions' : x.name = s.name]_vars

\* A subscription whose topic was deleted stays detached: DeleteTopic's comment
\* promises that both `topic` and topic_name are the sentinel, so that a topic
\* recreated under the same name cannot be bound again through either.
StaysDetached ==
    \A s \in subscriptions : s.data.topic = DeletedTopic => s.column = DeletedTopic
=============================================================================
