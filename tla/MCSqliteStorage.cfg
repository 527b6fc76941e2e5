SPECIFICATION FairSpec
CONSTANTS
    s1 = s1
    s2 = s2
    u1 = u1
    NilUser = NilUser
    NoValue = NoValue
    NoRow = NoRow
    Procs = {p1, p2}
    Env = "dev"
    MaxInteger = 2
    Services <- ServicesMC
    Users <- UsersMC
    Calls <- CallsMC
INVARIANTS
    TypeOK
    UniqueSubscription
    LocksHold
    ServiceFilterHonoured
PROPERTIES
    IdentityStable
    StoreSpec
    EveryCallReturns
