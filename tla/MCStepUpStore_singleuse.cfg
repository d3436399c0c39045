CONSTANTS
    t1 = t1
    t2 = t2
    t3 = t3
    c1 = c1
    c2 = c2
    k1 = k1
    k2 = k2
    Threads = {t1, t2}
    Customers = {c1}
    Codes = {k1, k2}
    MAX_ATTEMPTS_PER_CODE = 3
    MaxChallenges = 1
    MaxVerifies = 2
SPECIFICATION Spec
INVARIANT SingleUse
