SPECIFICATION FairSpec
CONSTANTS
    PROCESS_NUMBER_PIT = 2
    MAX_FREQUENCY = 4
    AskedRates <- Rates
    NESTED = 2
INVARIANTS
    TypeOK
    EoiEndsItsOwn
PROPERTIES
    WakesFollowRate
    ReadsEnd
    IrqsComeBack
