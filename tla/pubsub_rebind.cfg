SPECIFICATION Spec
CONSTANTS
    Clients = {c1}
    TopicNames = {t1}
    SubscriptionNames = {s1}
    Labels = {l1, l2}
    DeletedTopic = DeletedTopic
    TopicDeletesOverlap = FALSE
INVARIANTS StaysDetached
