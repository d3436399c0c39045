CONSTANTS
    s1 = s1
    s2 = s2
    c1 = c1
    c2 = c2
    k1 = k1
    k2 = k2
    NoCustomer = NoCustomer
    Codes = {k1, k2}
    StepUpMode = "actions"
    MAX_VERIFICATION_ATTEMPTS = 3
    MAX_STEP_UP_ATTEMPTS = 3
    MAX_ATTEMPTS_PER_CODE = 3
    MAX_ATTEMPTS = 3
    Slots = {s1, s2}
    Customers = {c1, c2}
    Tools = {"verify_identity", "send_step_up_code", "verify_step_up_code", "report_card_lost", "dispute_transaction", "escalate_to_human"}
    StepUpEnabled = TRUE
    MaxToolCalls = 4
    MaxFaults = 2
    MaxLate = 1
    MaxRestarts = 0
    MaxOtherSends = 0
SPECIFICATION SysSpec
INVARIANTS
    SysTypeOK
    EffectsAuthorised
    TicketsAccounted
    GuessesAccounted
    AnswersHold
SYMMETRY Symmetric
