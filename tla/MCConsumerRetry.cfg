SPECIFICATION Spec
CONSTANTS
    Consumers = {c1}
    Messages <- TwoMessages
    GroupOf <- OneWallet
    Poison <- NoPoison
    BatchSize = 2
    MaxReceive = 2
    BrokerFaults = FALSE
INVARIANTS
    RetryBlocksItsGroup
