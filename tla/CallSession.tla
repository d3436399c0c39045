---------------------------- MODULE CallSession ----------------------------
(***************************************************************************)
(* One phone call as the agent process sees it: the session flags of       *)
(* session_state.py, the tools of the two agents, and the event log the    *)
(* call record is built from.                                              *)
(*                                                                         *)
(* The language model may ask for several tools in one turn; the framework *)
(* runs them as concurrent coroutines on one event loop.  A step of this   *)
(* module is the code between two awaits, so a flag read by a gate before  *)
(* an await may have changed when the coroutine resumes.  What the model   *)
(* asks for, and what the bank answers, is unconstrained.                  *)
(***************************************************************************)
EXTENDS Integers, FiniteSets

CONSTANTS
    Slots,                     \* coroutines that can run at the same time
    Customers,                 \* customers the bank knows
    NoCustomer,                \* customer_id = None
    Tools,                     \* the tools the language model asks for
    StepUpEnabled,             \* AgentSettings.step_up_enabled
    StepUpMode,                \* AgentSettings.step_up_mode
    MAX_VERIFICATION_ATTEMPTS,
    MAX_STEP_UP_ATTEMPTS,
    MaxToolCalls               \* bound on the tool calls of one session

SupportTools == {"search_faq", "escalate_to_human", "end_call"}
ReadTools    == {"get_customer_profile", "get_recent_transactions"}
StepUpTools  == {"send_step_up_code", "verify_step_up_code"}
ActionTools  == {"report_card_lost", "dispute_transaction"}
AllTools     == SupportTools \union ReadTools \union StepUpTools
                  \union ActionTools \union {"verify_identity"}

EventTypes == {"tool_call_started", "tool_call_finished", "tool_call_failed",
               "identity_verified", "step_up_verified", "escalation",
               "security_lockout"}

Outcomes == {"escalated", "verification_failed", "contained", "abandoned"}

ASSUME SessionAssumption ==
    /\ IsFiniteSet(Slots)
    /\ NoCustomer \notin Customers
    /\ Tools \subseteq AllTools
    /\ StepUpEnabled \in BOOLEAN
    /\ StepUpMode \in {"actions", "always"}
    /\ MAX_VERIFICATION_ATTEMPTS \in Nat \ {0}
    /\ MAX_STEP_UP_ATTEMPTS \in Nat \ {0}
    /\ MaxToolCalls \in Nat

VARIABLES
    agent,                          \* the agent that holds the conversation
    handoff,                        \* a tool returned the other agent
    call,                           \* the coroutine of each slot
    verified, customer_id, failed_verification_attempts, locked_out,
    step_up_verified, failed_step_up_attempts, step_up_locked,
    escalated,
    events,                         \* event_log: how many of each type
    room,                           \* the live call
    record                          \* the record _shutdown posts

authVars   == <<verified, customer_id, failed_verification_attempts, locked_out>>
stepUpVars == <<step_up_verified, failed_step_up_attempts, step_up_locked>>
vars == <<agent, handoff, call, authVars, stepUpVars, escalated, events, room,
          record>>

-----------------------------------------------------------------------------
Idle == [tool |-> "none", pc |-> "idle", customer |-> NoCustomer]

NoRecord == [outcome |-> "none", verified |-> FALSE, step_up_verified |-> FALSE,
             events |-> [e \in EventTypes |-> 0]]

Init ==
    /\ agent = "identity"
    /\ handoff = FALSE
    /\ call = [s \in Slots |-> Idle]
    /\ verified = FALSE
    /\ customer_id = NoCustomer
    /\ failed_verification_attempts = 0
    /\ locked_out = FALSE
    /\ step_up_verified = FALSE
    /\ failed_step_up_attempts = 0
    /\ step_up_locked = FALSE
    /\ escalated = FALSE
    /\ events = [e \in EventTypes |-> 0]
    /\ room = "live"
    /\ record = NoRecord

-----------------------------------------------------------------------------
(* Each definition named Slip... is a plausible slip in the definition it  *)
(* precedes; the properties below are shown able to fail on it.            *)

(* The policy and the gates.                                               *)

effective_step_up_mode == IF StepUpEnabled THEN StepUpMode ELSE "off"

require_verified == verified /\ customer_id # NoCustomer

SlipFlagUnchecked ==
    /\ require_verified
    /\ effective_step_up_mode = "off" \/ ~step_up_locked

SlipLockIgnored ==
    /\ require_verified
    /\ effective_step_up_mode = "off" \/ step_up_verified

require_step_up ==
    /\ require_verified
    /\ \/ effective_step_up_mode = "off"
       \/ ~step_up_locked /\ step_up_verified

SlipReadsAtTierOne == require_verified

require_read_access ==
    IF effective_step_up_mode = "always" THEN require_step_up
                                         ELSE require_verified

SlipCodesAfterLock == require_verified /\ effective_step_up_mode # "off"

(* What send_step_up_code and verify_step_up_code check before they ask    *)
(* the bank.                                                               *)
code_exchange_open ==
    /\ require_verified
    /\ effective_step_up_mode # "off"
    /\ ~step_up_locked

(* report_card_lost and dispute_transaction.                               *)
action_admitted(t) == t \in ActionTools => require_step_up

Admits(t) ==
    /\ t \in ReadTools   => require_read_access
    /\ t \in StepUpTools => code_exchange_open
    /\ action_admitted(t)

(* The tools an agent has: with step-up off the banking agent loses the    *)
(* two code tools on entry.                                                *)
StepUpToolsKept == IF effective_step_up_mode = "off" THEN {} ELSE StepUpTools

SlipVerifyKept(a) ==
    IF a = "identity"
    THEN SupportTools \union {"verify_identity"}
    ELSE AllTools

ToolsOf(a) ==
    IF a = "identity"
    THEN SupportTools \union {"verify_identity"}
    ELSE SupportTools \union ReadTools \union ActionTools \union StepUpToolsKept

-----------------------------------------------------------------------------
(* The instrumentation of every tool: emit appends to the log before it    *)
(* awaits anything.                                                        *)

Logged(log, e) == [log EXCEPT ![e] = @ + 1]

AllIdle == \A s \in Slots : call[s].pc = "idle"

Waiting(s, t) == call[s].pc = "waiting" /\ call[s].tool = t

Finish(s) ==
    /\ call' = [call EXCEPT ![s] = Idle]
    /\ events' = Logged(events, "tool_call_finished")

Fail(s) ==
    /\ call' = [call EXCEPT ![s] = Idle]
    /\ events' = Logged(events, "tool_call_failed")

(* A tool that raises a security or escalation event suspends on it; the   *)
(* finished event comes when the coroutine resumes.                        *)
Announce(s, e) ==
    /\ call' = [call EXCEPT ![s].pc = "announcing"]
    /\ events' = Logged(events, e)

(* The language model asks for a tool its agent has.                       *)
Start(s, t) ==
    /\ record = NoRecord
    /\ events["tool_call_started"] < MaxToolCalls
    /\ call[s].pc = "idle"
    /\ t \in Tools \intersect ToolsOf(agent)
    /\ call' = [call EXCEPT ![s] = [tool |-> t, pc |-> "started",
                                    customer |-> NoCustomer]]
    /\ events' = Logged(events, "tool_call_started")
    /\ UNCHANGED <<agent, handoff, authVars, stepUpVars, escalated, room, record>>

(* The tool's body up to its first await on the bank.                      *)
SlipSilentRefusal(s) ==
    /\ call[s].pc = "started"
    /\ ~Admits(call[s].tool)
    /\ call' = [call EXCEPT ![s] = Idle]
    /\ UNCHANGED <<agent, handoff, authVars, stepUpVars, escalated, events, room,
                   record>>

Refuse(s) ==
    /\ call[s].pc = "started"
    /\ ~Admits(call[s].tool)
    /\ Fail(s)
    /\ UNCHANGED <<agent, handoff, authVars, stepUpVars, escalated, room, record>>

Request(s) ==
    /\ call[s].pc = "started"
    /\ Admits(call[s].tool)
    /\ call' = [call EXCEPT ![s].pc = "waiting", ![s].customer = customer_id]
    /\ UNCHANGED <<agent, handoff, authVars, stepUpVars, escalated, events, room,
                   record>>

Announced(s) ==
    /\ call[s].pc = "announcing"
    /\ Finish(s)
    /\ UNCHANGED <<agent, handoff, authVars, stepUpVars, escalated, room, record>>

-----------------------------------------------------------------------------
(* What the coroutine does with the bank's answer.  Everything up to the   *)
(* next await is one step: flags and log change together.                  *)

IdentityConfirmed(s, c) ==
    /\ Waiting(s, "verify_identity")
    /\ verified' = TRUE
    /\ customer_id' = c
    /\ handoff' = TRUE
    /\ Announce(s, "identity_verified")
    /\ UNCHANGED <<agent, failed_verification_attempts, locked_out, stepUpVars,
                   escalated, room, record>>

(* "Not verified", or 404 for an unknown account.  The third failure locks *)
(* the caller out; later ones find the lock already set.                   *)
SlipLockoutRepeated(s) ==
    /\ Waiting(s, "verify_identity")
    /\ failed_verification_attempts' = failed_verification_attempts + 1
    /\ locked_out' = (failed_verification_attempts' >= MAX_VERIFICATION_ATTEMPTS)
    /\ IF locked_out' THEN Announce(s, "security_lockout") ELSE Finish(s)
    /\ UNCHANGED <<agent, handoff, verified, customer_id, stepUpVars, escalated,
                   room, record>>

IdentityRejected(s) ==
    /\ Waiting(s, "verify_identity")
    /\ failed_verification_attempts' = failed_verification_attempts + 1
    /\ locked_out' = (locked_out \/ failed_verification_attempts'
                                        >= MAX_VERIFICATION_ATTEMPTS)
    /\ IF locked_out' /\ ~locked_out
       THEN Announce(s, "security_lockout")
       ELSE Finish(s)
    /\ UNCHANGED <<agent, handoff, verified, customer_id, stepUpVars, escalated,
                   room, record>>

StepUpConfirmed(s) ==
    /\ Waiting(s, "verify_step_up_code")
    /\ step_up_verified' = TRUE
    /\ Announce(s, "step_up_verified")
    /\ UNCHANGED <<agent, handoff, authVars, failed_step_up_attempts,
                   step_up_locked, escalated, room, record>>

SlipFailureUncounted(s) ==
    /\ Waiting(s, "verify_step_up_code")
    /\ Finish(s)
    /\ UNCHANGED <<agent, handoff, authVars, stepUpVars, escalated, room, record>>

StepUpRejected(s) ==
    /\ Waiting(s, "verify_step_up_code")
    /\ failed_step_up_attempts' = failed_step_up_attempts + 1
    /\ IF failed_step_up_attempts' >= MAX_STEP_UP_ATTEMPTS
       THEN /\ step_up_locked' = TRUE
            /\ Announce(s, "security_lockout")
       ELSE /\ UNCHANGED step_up_locked
            /\ Finish(s)
    /\ UNCHANGED <<agent, handoff, authVars, step_up_verified, escalated, room,
                   record>>

SlipEscalationSilent(s) ==
    /\ Waiting(s, "escalate_to_human")
    /\ escalated' = TRUE
    /\ Finish(s)
    /\ UNCHANGED <<agent, handoff, authVars, stepUpVars, room, record>>

Escalated(s) ==
    /\ Waiting(s, "escalate_to_human")
    /\ escalated' = TRUE
    /\ Announce(s, "escalation")
    /\ UNCHANGED <<agent, handoff, authVars, stepUpVars, room, record>>

(* end_call deletes the room, which ends the call for everyone.            *)
HungUp(s) ==
    /\ Waiting(s, "end_call")
    /\ room' = "closed"
    /\ Finish(s)
    /\ UNCHANGED <<agent, handoff, authVars, stepUpVars, escalated, record>>

(* A tool that only passes the bank's answer on to the language model.     *)
PassThrough == ReadTools \union ActionTools \union {"send_step_up_code", "search_faq"}

Answered(s) ==
    /\ call[s].pc = "waiting"
    /\ call[s].tool \in PassThrough
    /\ Finish(s)
    /\ UNCHANGED <<agent, handoff, authVars, stepUpVars, escalated, room, record>>

(* A BankAPIError (or, for end_call, a failed hang-up) becomes a ToolError:*)
(* no flag changes.                                                        *)
ReplyFailed(s) ==
    /\ call[s].pc = "waiting"
    /\ Fail(s)
    /\ UNCHANGED <<agent, handoff, authVars, stepUpVars, escalated, room, record>>

-----------------------------------------------------------------------------
(* The framework around the tools.                                         *)

(* The framework changes agent between turns, when the old agent has no    *)
(* tool running.  The code relies on no more than that: a handoff the      *)
(* framework drops (two in one turn, an interrupted turn) leaves the       *)
(* identity agent in place.                                                *)
Handoff ==
    /\ handoff
    /\ AllIdle
    /\ handoff' = FALSE
    /\ agent' \in {agent, "banking"}
    /\ UNCHANGED <<call, authVars, stepUpVars, escalated, events, room, record>>

(* The caller leaves, or the idle watchdog deletes the room.               *)
CallEnds ==
    /\ room = "live"
    /\ room' = "closed"
    /\ UNCHANGED <<agent, handoff, call, authVars, stepUpVars, escalated, events,
                   record>>

(* Closing the session cancels a running tool; the wrapper catches         *)
(* ToolError only, so nothing is emitted for it.                           *)
Cancelled(s) ==
    /\ room = "closed"
    /\ call[s].pc # "idle"
    /\ call' = [call EXCEPT ![s] = Idle]
    /\ UNCHANGED <<agent, handoff, authVars, stepUpVars, escalated, events, room,
                   record>>

SlipUnknownOutcome == IF locked_out THEN "locked_out" ELSE "abandoned"

derive_outcome ==
    CASE escalated -> "escalated"
      [] ~escalated /\ locked_out -> "verification_failed"
      [] ~escalated /\ ~locked_out /\ verified -> "contained"
      [] OTHER -> "abandoned"

build_call_record ==
    [outcome |-> derive_outcome, verified |-> verified,
     step_up_verified |-> step_up_verified, events |-> events]

(* The shutdown callback; a tool may still be running.                     *)
Shutdown ==
    /\ room = "closed"
    /\ record = NoRecord
    /\ record' = build_call_record
    /\ UNCHANGED <<agent, handoff, call, authVars, stepUpVars, escalated, events,
                   room>>

Done ==
    /\ record # NoRecord
    /\ AllIdle
    /\ UNCHANGED vars

Reply(s) ==
    \/ \E c \in Customers : IdentityConfirmed(s, c)
    \/ IdentityRejected(s)
    \/ StepUpConfirmed(s)
    \/ StepUpRejected(s)
    \/ Escalated(s)
    \/ HungUp(s)
    \/ Answered(s)
    \/ ReplyFailed(s)

Tool(s) ==
    \/ \E t \in Tools : Start(s, t)
    \/ Refuse(s)
    \/ Request(s)
    \/ Reply(s)
    \/ Announced(s)
    \/ Cancelled(s)

Next ==
    \/ \E s \in Slots : Tool(s)
    \/ Handoff
    \/ CallEnds
    \/ Shutdown
    \/ Done

Spec == Init /\ [][Next]_vars

-----------------------------------------------------------------------------
(* Properties.                                                             *)

(* Every variable has the type the code gives it.                          *)
TypeOK ==
    /\ agent \in {"identity", "banking"}
    /\ handoff \in BOOLEAN
    /\ call \in [Slots -> [tool : AllTools \union {"none"},
                           pc : {"idle", "started", "waiting", "announcing"},
                           customer : Customers \union {NoCustomer}]]
    /\ verified \in BOOLEAN
    /\ customer_id \in Customers \union {NoCustomer}
    /\ failed_verification_attempts \in Nat
    /\ locked_out \in BOOLEAN
    /\ step_up_verified \in BOOLEAN
    /\ failed_step_up_attempts \in Nat
    /\ step_up_locked \in BOOLEAN
    /\ escalated \in BOOLEAN
    /\ events \in [EventTypes -> Nat]
    /\ room \in {"live", "closed"}
    /\ record \in [outcome : Outcomes \union {"none"}, verified : BOOLEAN,
                   step_up_verified : BOOLEAN, events : [EventTypes -> Nat]]

(* A request about an account that is on its way to the bank was admitted  *)
(* for the customer who is verified now, at the tier the policy asks for:  *)
(* no interleaving of verify_identity with an account tool separates the   *)
(* customer_id a gate returned from the session's (banking_agent.py,       *)
(* _require_verified and its callers).                                     *)
InFlight(s) == call[s].pc \in {"waiting", "announcing"}

AccountTools == ReadTools \union StepUpTools \union ActionTools

AccountRequestsAuthorised ==
    \A s \in Slots :
        /\ InFlight(s) /\ call[s].tool \in AccountTools
             => verified /\ call[s].customer = customer_id
        /\ InFlight(s) /\ call[s].tool \in ActionTools
             => effective_step_up_mode = "off" \/ step_up_verified
        /\ InFlight(s) /\ call[s].tool \in ReadTools
             => effective_step_up_mode # "always" \/ step_up_verified

(* The strengthening that makes AccountRequestsAuthorised inductive: the   *)
(* two agents' tools never overlap in time, a handoff follows a            *)
(* verification, and a code can only be confirmed under the banking agent. *)
AccessInv ==
    /\ verified <=> customer_id # NoCustomer
    /\ handoff \/ agent = "banking" => verified
    /\ step_up_verified => agent = "banking"
    /\ \A s \in Slots :
          /\ call[s].pc # "idle" /\ call[s].tool = "verify_identity"
               => agent = "identity"
          /\ call[s].pc # "idle" /\ call[s].tool \in AccountTools
               => agent = "banking"
    /\ AccountRequestsAuthorised

(* However many code checks run side by side, the session never spends     *)
(* more than MAX_STEP_UP_ATTEMPTS plus the checks that were already on     *)
(* their way when the lock was set (verify_step_up_code reads the lock     *)
(* before its await and counts after it).                                  *)
CodeChecks == {s \in Slots : Waiting(s, "verify_step_up_code")}

CodeAttemptsBounded ==
    failed_step_up_attempts + Cardinality(CodeChecks)
        <= MAX_STEP_UP_ATTEMPTS - 1 + Cardinality(Slots)

(* Lockout events and locks agree: one event for the identity lockout, and *)
(* one for every code rejected from the MAX_STEP_UP_ATTEMPTSth on.         *)
IdentityLockouts == IF locked_out THEN 1 ELSE 0

StepUpLockouts ==
    IF step_up_locked
    THEN failed_step_up_attempts - MAX_STEP_UP_ATTEMPTS + 1
    ELSE 0

LockoutsAnnounced ==
    /\ locked_out <=> failed_verification_attempts >= MAX_VERIFICATION_ATTEMPTS
    /\ step_up_locked <=> failed_step_up_attempts >= MAX_STEP_UP_ATTEMPTS
    /\ events["security_lockout"] = IdentityLockouts + StepUpLockouts

(* While the call is live, every started event is matched by a finished or *)
(* failed one or by a tool still running; afterwards a cancelled tool may  *)
(* leave a started event alone, never the reverse (instrumentation.py).    *)
Running == {s \in Slots : call[s].pc # "idle"}

Accounted == events["tool_call_finished"] + events["tool_call_failed"]
                + Cardinality(Running)

StartedEventsMatched ==
    /\ events["tool_call_started"] >= Accounted
    /\ room = "live" => events["tool_call_started"] = Accounted

(* The posted record tells one story: its outcome, its flags and the       *)
(* events it copies agree although tools may still be running when it is   *)
(* built (call_record.py; flags and log change in the same step).          *)
RecordConsistent ==
    LET log == record.events IN
    record # NoRecord =>
        /\ record.outcome = "escalated" <=> log["escalation"] > 0
        /\ record.verified <=> log["identity_verified"] > 0
        /\ record.step_up_verified <=> log["step_up_verified"] > 0
        /\ record.step_up_verified => record.verified
        /\ record.outcome = "verification_failed" => log["security_lockout"] > 0
        /\ record.outcome = "contained" => record.verified
        /\ record.outcome = "abandoned" =>
              log["security_lockout"] = 0 /\ ~record.verified

(* Once the banking agent holds the conversation, the customer it speaks   *)
(* for never changes and stays verified: no verify_identity of an earlier  *)
(* turn can still land.                                                    *)
CustomerPinned ==
    [][agent = "banking" => agent' = "banking" /\ verified
                              /\ customer_id' = customer_id]_vars

(* README.md:187-189 says that after three failed verifications "only the  *)
(* human-handoff path remains": a caller locked out before being verified  *)
(* is not verified later in the call.                                      *)
LockoutIsFinal == [][locked_out /\ ~verified => ~verified']_vars

-----------------------------------------------------------------------------
(* The session implements the access promise of TieredAuth.                *)

KindOf(t) == CASE t \in ReadTools   -> "read"
               [] t \in StepUpTools -> "code"
               [] t \in ActionTools -> "action"
               [] OTHER             -> "none"

TierAfter(codeNeeded) == IF codeNeeded THEN "stepped_up" ELSE "identified"

WorkNeeds == [read   |-> TierAfter(effective_step_up_mode = "always"),
              code   |-> "identified",
              action |-> TierAfter(effective_step_up_mode # "off")]

(* What the lockout event says a lock stops (banking_agent.py:225-229):    *)
(* actions, and the exchange of further codes, not the reads.  (In mode    *)
(* "always" require_read_access refuses the reads too, against what the    *)
(* event and README.md:190, 217-218 say of them; that is allowed here, not *)
(* asked for.)                                                             *)
LockStops == {"code", "action"}

Tier == IF step_up_verified THEN "stepped_up"
        ELSE IF verified THEN "identified" ELSE "none"

Access == INSTANCE TieredAuth WITH
    Workers <- Slots, Kinds <- {"read", "code", "action"}, NoWork <- "none",
    Needs <- WorkNeeds, Stopped <- LockStops,
    tier <- Tier, locked <- step_up_locked,
    working <- [s \in Slots |-> IF InFlight(s) THEN KindOf(call[s].tool) ELSE "none"]

(* Every step of a session is a step of TieredAuth or leaves the caller's  *)
(* access as it was: an account tool asks the bank only at the tier the    *)
(* policy sets for it, and no action or code exchange begins once step-up  *)
(* is locked, the late success of a check side by side with it included.   *)
ImplementsAccess == Access!Spec

=============================================================================
