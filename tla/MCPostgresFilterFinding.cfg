SPECIFICATION Spec
CONSTANTS
    s1 = s1
    s2 = s2
    u1 = u1
    NilUser = NilUser
    NoValue = NoValue
    NoRow = NoRow
    Procs = {p1}
    MaxConns = 1
    Env = "prod"
    MaxInteger = 2
    Services <- ServicesMC
    Users <- UsersMC
    Calls <- CallsMC
INVARIANT
    ServiceFilterHonoured
