SPECIFICATION Spec
CONSTANTS
    NoFile = NoFile
    Names <- NamesMC
    DefaultAddress = "0.0.0.0:8082"
    Files <- FilesFinding
    Conns = {c1}
    Half = 4
INVARIANTS
    TimeoutsAsLogged
CHECK_DEADLOCK FALSE
