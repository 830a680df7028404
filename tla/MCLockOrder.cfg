SPECIFICATION Spec
CONSTANTS
    None = None
    MaxBalance = 12
    Handlers = {h1}
    Resolvers = {r1, r2}
    Wallets <- OneWallet
    Existing <- OneWallet
    OpeningOf <- TenBRL
    Commands <- PendingCommands
    Deliveries <- NoDeliveries
    MaxAttempts = 1
SYMMETRY ProcSymmetry
INVARIANTS
    LocksAreOrdered
