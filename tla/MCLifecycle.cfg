SPECIFICATION FairSpec
CONSTANTS
    NoFile = NoFile
    Names <- NamesMC
    DefaultAddress = "0.0.0.0:8082"
    Files <- FilesMC
    Conns = {c1, c2}
    Half = 4
INVARIANTS
    TypeOK
    Graceful
    StatementsFinish
    SignalKept
    PoolUsable
CHECK_DEADLOCK FALSE
PROPERTIES
    SignalEndsProcess
    StartEnds
    EveryRequestEnds
