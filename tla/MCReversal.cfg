SPECIFICATION Spec
CONSTANTS
    None = None
    MaxBalance = 20
    Handlers = {h1, h2}
    Resolvers = {}
    Wallets <- OneWallet
    Existing <- OneWallet
    OpeningOf <- TenBRL
    Commands <- ReversalCommands
    Deliveries <- NoDeliveries
    MaxAttempts = 1
SYMMETRY ProcSymmetry
INVARIANTS
    LedgerChains
    OneStandingReversal
    ReversalsMirrorTheirReference
PROPERTIES
    HistoryIsImmutable
