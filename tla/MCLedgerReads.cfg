SPECIFICATION Spec
CONSTANTS
    None = None
    Readers = {r1}
    Movements <- FiveEntries
    DirectionOf <- TwoDebits
    AmountOf <- Amounts
    Forged <- ForgedDebit
    Instants <- TwoInstants
    Micros <- UpToOneMicro
    MaxLimit = 2
INVARIANTS
    TypeOK
    NothingIsListedTwice
    WalksAreComplete
    ReportsAreExact
