CONSTANTS
    s1 = s1
    s2 = s2
    c1 = c1
    c2 = c2
    k1 = k1
    k2 = k2
    NoCustomer = NoCustomer
    Codes = {k1, k2}
    StepUpMode = "actions"
    MAX_VERIFICATION_ATTEMPTS = 3
    MAX_STEP_UP_ATTEMPTS = 3
    MAX_ATTEMPTS_PER_CODE = 3
    MAX_ATTEMPTS = 3
    Slots = {s1}
    Customers = {c1}
    Tools = {"verify_identity", "send_step_up_code", "verify_step_up_code"}
    StepUpEnabled = TRUE
    MaxToolCalls = 3
    MaxFaults = 1
    MaxLate = 0
    MaxRestarts = 0
    MaxOtherSends = 0
SPECIFICATION SysSpec
PROPERTIES
    CorrectCodeNotCounted
