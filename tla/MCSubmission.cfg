SPECIFICATION Spec
CONSTANTS
    None = None
    MaxBalance = 9
    Handlers = {h1, h2}
    Resolvers = {}
    Wallets <- ThreeWallets
    Existing <- ThirdWallet
    OpeningOf <- MixedOpenings
    Commands <- SubmissionCommands
    Deliveries <- SubmissionDeliveries
    MaxAttempts = 1
SYMMETRY ProcSymmetry
INVARIANTS
    TypeOK
    OneWalletPerOwner
    OneEffectPerFact
    InboxCommitsWithItsWager
    LoserSeesTheOwner
    AnswersAreDurable
