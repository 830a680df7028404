SPECIFICATION Spec
CONSTANTS
    None = None
    MaxBalance = 12
    Handlers = {h1, h2}
    Resolvers = {}
    Wallets <- OneWallet
    Existing <- OneWallet
    OpeningOf <- TenBRL
    Commands <- RollbackCommands
    Deliveries <- NoDeliveries
    MaxAttempts = 1
SYMMETRY ProcSymmetry
INVARIANTS
    SecondKindIsAccepted
