SPECIFICATION LiveSpec
CONSTANTS
    None = None
    MaxBalance = 12
    Handlers = {h1, h2}
    Resolvers = {r1}
    Wallets <- TwoWallets
    Existing <- TwoWallets
    OpeningOf <- TwoOpenings
    Commands <- CrossCommands
    Deliveries <- NoDeliveries
    MaxAttempts = 1
PROPERTIES
    PendingSettles
    ImplementsSerialWagering
