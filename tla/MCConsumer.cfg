SPECIFICATION LiveSpec
CONSTANTS
    Consumers = {c1, c2}
    Messages <- TwoMessages
    GroupOf <- OneWallet
    Poison <- FirstIsPoison
    BatchSize = 2
    MaxReceive = 2
    BrokerFaults = TRUE
INVARIANTS
    TypeOK
    NothingIsLost
    OvertakenOnlyAfterRetry
    OnlyPoisonIsDeadLetteredEarly
PROPERTIES
    EveryMessageLeaves
