SPECIFICATION Spec
CONSTANTS
    s1 = s1
    s2 = s2
    u1 = u1
    NilUser = NilUser
    NoValue = NoValue
    NoRow = NoRow
    Absent = Absent
    Malformed = Malformed
    Procs = {p1}
    Env = "dev"
    MaxInteger = 2
    MaxInt = 2
    Services <- ServicesMC
    Users <- UsersMC
    Requests <- WrapRequests
    Calls <- WrapCalls
INVARIANTS
    TotalIsTheSum
