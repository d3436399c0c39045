CONSTANTS
    s1 = s1
    s2 = s2
    c1 = c1
    c2 = c2
    k1 = k1
    k2 = k2
    NoCustomer = NoCustomer
    MAX_VERIFICATION_ATTEMPTS = 3
    MAX_STEP_UP_ATTEMPTS = 1
    MAX_ATTEMPTS_PER_CODE = 3
    MAX_ATTEMPTS = 3
    Codes = {k1, k2}
    Slots = {s1}
    Customers = {c1}
    Tools = {"verify_identity", "get_recent_transactions", "report_card_lost", "send_step_up_code", "verify_step_up_code", "end_call"}
    StepUpEnabled = TRUE
    StepUpMode = "always"
    MaxToolCalls = 4
    MaxFaults = 2
    MaxLate = 0
    MaxRestarts = 1
    MaxOtherSends = 1
SPECIFICATION FairSpec
INVARIANTS
    StepUpBacked
PROPERTIES
    ToolsReturn
    ImplementsAccess
