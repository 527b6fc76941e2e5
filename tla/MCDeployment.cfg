SPECIFICATION FairDeploySpec
CONSTANTS
    s1 = s1
    s2 = s2
    u1 = u1
    NilUser = NilUser
    NoValue = NoValue
    NoRow = NoRow
    Absent = Absent
    Malformed = Malformed
    Procs = {p1, p2}
    MaxConns = 2
    Env = "prod"
    MaxInteger = 2
    MaxInt = 1000
    Services <- ServicesMC
    Users <- UsersMC
    Requests <- RequestsMC
    Calls <- CallsMC
INVARIANTS
    RepliesHoldNothing
PROPERTIES
    ToldIsFound
    ServiceSpec
    EveryRequestAnswered
