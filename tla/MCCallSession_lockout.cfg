CONSTANTS
    s1 = s1
    s2 = s2
    c1 = c1
    c2 = c2
    Slots = {s1, s2}
    Customers = {c1, c2}
    NoCustomer = NoCustomer
    StepUpEnabled = TRUE
    MAX_VERIFICATION_ATTEMPTS = 3
    MAX_STEP_UP_ATTEMPTS = 3
    StepUpMode = "actions"
    Tools = {"verify_identity", "search_faq"}
    MaxToolCalls = 5
SPECIFICATION Spec
PROPERTIES
    LockoutIsFinal
SYMMETRY Symmetric
