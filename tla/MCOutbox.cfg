SPECIFICATION LiveSpec
CONSTANTS
    None = None
    p1 = p1
    p2 = p2
    Publishers <- TwoPublishers
    InstanceOf <- OwnInstances
    Messages <- TwoEvents
    GroupOf <- TwoOfOneWallet
    MaxAttempts = 2
\* Finitely many events are committed: once all are settled nothing is left to do.
CHECK_DEADLOCK FALSE
INVARIANTS
    TypeOK
    GroupsArriveInOrder
    PublishedHasArrived
PROPERTIES
    SettledForGood
    EveryEventSettles
