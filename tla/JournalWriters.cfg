SPECIFICATION FairSpec
CONSTANTS
    service = service
    command = command
    sealer = sealer
    operator = operator
    Log <- MCLog
    Thread <- MCThread
    LogOf <- MCLogOf
    Sealer = sealer
    None = None
    MaxRecords = 3
    MaxFaults = 2
    MaxFailures = 2
INVARIANTS
    OneChain
    AcknowledgedIsKept
    SealsCoverThePast
PROPERTIES
    TornLineIsNoticed
CHECK_DEADLOCK FALSE
