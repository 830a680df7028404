SPECIFICATION Spec
CONSTANTS
    None = None
    Encounters <- SomeEncounters
    Uuids <- OneUuid
    Currencies <- SomeCurrencies
    MaxAmount = 99
    Internal <- InternalProvider
\* Everything may have come and been answered.
CHECK_DEADLOCK FALSE
INVARIANTS
    DefectsAreNotOutages
    VerdictsAgree
    OneRowPerIdentity
    ConflictsAreReal
    TakenIsRecorded
