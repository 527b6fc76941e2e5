SPECIFICATION Spec
CONSTANTS
    s1 = s1
    s2 = s2
    u1 = u1
    NilUser = NilUser
    NoValue = NoValue
    NoRow = NoRow
    Absent = Absent
    Malformed = Malformed
    Procs = {p1, p2}
    Env = "prod"
    MaxInteger = 2
    MaxInt = 7
    Services <- ServicesMC
    Users <- UsersMC
    Requests <- RequestsMC
    Calls <- CallsMC
SYMMETRY Symmetry
INVARIANTS
    TypeOK
    StatusTellsEffect
    Acknowledged
    StoredRowsSane
    TotalAsAsked
PROPERTIES
    TotalNotNegative
    TotalExact
