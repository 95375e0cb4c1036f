SPECIFICATION Spec
CONSTANTS
    Clients = {c1, c2}
    TopicNames = {t1, t2}
    SubscriptionNames = {s1, s2}
    Labels = {l1, l2}
    DeletedTopic = DeletedTopic
    TopicDeletesOverlap = FALSE
INVARIANTS TypeOK NoDanglingSubscription
PROPERTIES SubscriptionsSurvive
SYMMETRY ClientSymmetry
