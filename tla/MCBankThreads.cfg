CONSTANTS
    t1 = t1
    t2 = t2
    t3 = t3
    c1 = c1
    c2 = c2
    k1 = k1
    k2 = k2
    Threads = {t1, t2, t3}
    Customers = {c1, c2}
    Codes = {k1, k2}
    MAX_ATTEMPTS_PER_CODE = 2
    MaxChallenges = 2
    MaxVerifies = 3
    MaxTickets = 1
SPECIFICATION PoolSpec
INVARIANTS
    TypeOK
    AttemptsLimited
    OwnCodesOnly
    OneReferenceEach
PROPERTIES
    DeadCodesStayDead
    ImplementsBank
CHECK_DEADLOCK FALSE
SYMMETRY Symmetric
