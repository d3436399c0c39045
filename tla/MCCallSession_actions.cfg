CONSTANTS
    s1 = s1
    s2 = s2
    c1 = c1
    c2 = c2
    Slots = {s1, s2}
    Customers = {c1, c2}
    NoCustomer = NoCustomer
    StepUpEnabled = TRUE
    MAX_VERIFICATION_ATTEMPTS = 3
    MAX_STEP_UP_ATTEMPTS = 3
    StepUpMode = "actions"
    Tools = {"verify_identity", "get_customer_profile", "send_step_up_code", "verify_step_up_code", "report_card_lost", "escalate_to_human", "end_call"}
    MaxToolCalls = 6
SPECIFICATION Spec
INVARIANTS
    TypeOK
    AccountRequestsAuthorised
    CodeAttemptsBounded
    LockoutsAnnounced
    StartedEventsMatched
    RecordConsistent
PROPERTIES
    CustomerPinned
    ImplementsAccess
SYMMETRY Symmetric
