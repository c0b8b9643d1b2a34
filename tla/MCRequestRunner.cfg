CONSTANTS
    None = None
    ClientPolicy <- MCClientPolicy
    Controls <- MCControls
    Timeouts <- MCTimeouts
    ServerDelays <- MCServerDelays
    MaxBuffered = 1
SPECIFICATION FairSpec
INVARIANTS
    WaitsFit
    StageClamped
    EventsAddUp
PROPERTIES
    SendsOnlyWhileLive
    ImplementsLogicalRequest
    RequestsEnd
