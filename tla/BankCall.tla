------------------------------ MODULE BankCall ------------------------------
(***************************************************************************)
(* A call session talking to the bank through bank_client.py over a        *)
(* network that loses requests and replies.  The session is CallSession;   *)
(* here the answer to a tool is not free but what the bank's handler       *)
(* returns, after as many attempts as the client makes.                    *)
(*                                                                         *)
(* An attempt that times out may still reach the bank later.  The bank may *)
(* stop, for good or until it is started again with its memory gone, and   *)
(* another call may have a code sent to the same customer.                 *)
(***************************************************************************)
EXTENDS CallSession, SequencesExt

CONSTANTS
    Codes, MAX_ATTEMPTS_PER_CODE,
    MAX_ATTEMPTS,              \* stop_after_attempt of BankClient._request
    MaxFaults,                 \* bound on the attempts a working bank loses
    MaxLate,                   \* bound on timed-out requests still under way
    MaxRestarts,               \* bound on stops of the bank
    MaxOtherSends              \* bound on the codes other calls send

ASSUME BankCallAssumption ==
    /\ MAX_ATTEMPTS_PER_CODE \in Nat \ {0}
    /\ MAX_ATTEMPTS \in Nat \ {0}
    /\ {MaxFaults, MaxLate, MaxRestarts, MaxOtherSends} \subseteq Nat

VARIABLES
    challenges, card, disputed, tickets,   \* the bank
    wire,                                  \* the HTTP exchange of each slot
    late,                                  \* requests the client gave up on
    down,                                  \* the bank does not answer
    forgotten,                             \* whose consumed code a stop lost
    faults, restarts, otherSends

B == INSTANCE Bank

bank == <<challenges, card, disputed, tickets>>
outage == <<down, forgotten, restarts>>
bounds == <<outage, faults, otherSends>>
sysVars == <<vars, bank, wire, late, bounds>>

NoWire == [phase |-> "off", attempts |-> 0, arg |-> "none", reply |-> "none",
           done |-> FALSE]

SysInit ==
    /\ Init
    /\ B!BankInit
    /\ wire = [s \in Slots |-> NoWire]
    /\ late = {}
    /\ down = FALSE /\ forgotten = {}
    /\ faults = 0 /\ restarts = 0 /\ otherSends = 0

-----------------------------------------------------------------------------
(* What the language model can put into the arguments of a tool.           *)
Args(t) ==
    CASE t = "verify_identity"     -> Customers \union {"wrong_digits", "unknown_account"}
      [] t = "verify_step_up_code" -> Codes
      [] t = "report_card_lost"    -> {"right_digits", "wrong_digits"}
      [] t = "dispute_transaction" -> {"known", "unknown"}
      [] OTHER                     -> {"none"}

(* What a handler answers and does, by the tool that calls it.             *)
ReplyTo(t, c, arg) ==
    CASE t = "verify_identity"     -> B!VerifyIdentityReply(arg)
      [] t = "verify_step_up_code" -> B!VerifyStepUpReply(c, arg)
      [] t = "report_card_lost"    -> B!ReportCardLostReply(c, arg)
      [] t = "dispute_transaction" -> B!DisputeReply(c, arg)
      [] OTHER                     -> "ok"

Effect(t, c, arg) ==
    CASE t = "send_step_up_code"   -> \E code \in Codes : B!SendStepUp(c, code)
      [] t = "verify_step_up_code" -> B!VerifyStepUp(c, arg)
      [] t = "report_card_lost"    -> B!ReportCardLost(c, arg)
      [] t = "dispute_transaction" -> B!Dispute(c, arg)
      [] t = "escalate_to_human"   -> B!CreateEscalation
      [] OTHER                     -> UNCHANGED bank

RequestOf(s) == [tool |-> call[s].tool, customer |-> call[s].customer,
                 arg |-> wire[s].arg]

-----------------------------------------------------------------------------
(* Steps of the session that do not touch the bank; end_call asks the room *)
(* service.                                                                *)
HangUp(s) ==
    \/ call[s].tool = "end_call" /\ Request(s)
    \/ HungUp(s)
    \/ Waiting(s, "end_call") /\ ReplyFailed(s)

Local(s) ==
    /\ Refuse(s) \/ Announced(s) \/ HangUp(s)
    /\ UNCHANGED <<bank, wire, late, bounds>>

ModelAsks(s) ==
    /\ \E t \in Tools : Start(s, t)
    /\ UNCHANGED <<bank, wire, late, bounds>>

(* The tool awaits the bank: the first attempt goes out.                   *)
Ask(s) ==
    /\ call[s].tool # "end_call"
    /\ Request(s)
    /\ \E arg \in Args(call[s].tool) :
          wire' = [wire EXCEPT ![s] = [phase |-> "sent", attempts |-> 1, arg |-> arg,
                                       reply |-> "none", done |-> FALSE]]
    /\ UNCHANGED <<bank, late, bounds>>

(* The bank's handler runs.  done remembers that an attempt of this call   *)
(* was answered "ok", whether or not the answer arrives.                   *)
Serve(s) ==
    LET r == RequestOf(s) IN
    /\ wire[s].phase = "sent"
    /\ ~down
    /\ Effect(r.tool, r.customer, r.arg)
    /\ wire' = [wire EXCEPT
                  ![s].phase = "replied",
                  ![s].reply = ReplyTo(r.tool, r.customer, r.arg),
                  ![s].done = @ \/ ReplyTo(r.tool, r.customer, r.arg) = "ok"]
    /\ UNCHANGED <<vars, late, bounds>>

(* A request the client no longer waits for reaches the bank after all.    *)
ServeLate(r) ==
    /\ r \in late
    /\ ~down
    /\ late' = late \ {r}
    /\ Effect(r.tool, r.customer, r.arg)
    /\ UNCHANGED <<vars, wire, bounds>>

(* When the client stops waiting for an attempt the bank has not served,   *)
(* the request is lost or still under way.                                 *)
Abandon(s) ==
    \/ UNCHANGED late
    \/ /\ wire[s].phase = "sent"
       /\ Cardinality(late) < MaxLate
       /\ late' = late \union {RequestOf(s)}

(* The client tries again, or after its last attempt raises                *)
(* BankAPIError(503), whatever the bank has done.  A definition named      *)
(* Slip... is a plausible slip in the one it precedes.                     *)
SlipNeverGivesUp(s) ==
    /\ wire' = [wire EXCEPT ![s].phase = "sent", ![s].reply = "none"]
    /\ UNCHANGED vars

RetryAttempt(s) ==
    /\ wire[s].attempts < MAX_ATTEMPTS
    /\ wire' = [wire EXCEPT ![s].phase = "sent", ![s].attempts = @ + 1,
                            ![s].reply = "none"]
    /\ UNCHANGED vars

GiveUp(s) ==
    /\ wire[s].attempts = MAX_ATTEMPTS
    /\ wire' = [wire EXCEPT ![s] = NoWire]
    /\ ReplyFailed(s)

(* The bank cannot be reached: nothing of the attempt is under way.        *)
Unreachable(s) ==
    /\ down
    /\ wire[s].phase = "sent"
    /\ UNCHANGED <<late, faults>>

(* A transport error, a time-out or a 5xx of a bank that is there, or a    *)
(* reply that was on its way when it stopped.                              *)
FaultOnTheWire(s) ==
    /\ faults < MaxFaults
    /\ faults' = faults + 1
    /\ Abandon(s)

AttemptFails(s) ==
    /\ wire[s].phase \in {"sent", "replied"}
    /\ Unreachable(s) \/ FaultOnTheWire(s)
    /\ RetryAttempt(s) \/ GiveUp(s)
    /\ UNCHANGED <<bank, outage, otherSends>>

(* The reply arrives: _call raises on a 4xx, and the tool decides.         *)
SlipResultUnread(s, reply) ==
    \/ reply = "ok" /\ IdentityConfirmed(s, wire[s].arg)
    \/ reply \in {"no", "404"} /\ IdentityRejected(s)
    \/ reply \in {"ok", "no"} /\ StepUpConfirmed(s)
    \/ reply = "ok" /\ (Escalated(s) \/ Answered(s))
    \/ reply \in {"404", "409"} /\ call[s].tool # "verify_identity" /\ ReplyFailed(s)

HandleReply(s, reply) ==
    \/ reply = "ok" /\ IdentityConfirmed(s, wire[s].arg)
    \/ reply \in {"no", "404"} /\ IdentityRejected(s)
    \/ reply = "ok" /\ StepUpConfirmed(s)
    \/ reply = "no" /\ StepUpRejected(s)
    \/ reply = "ok" /\ (Escalated(s) \/ Answered(s))
    \/ /\ reply \in {"404", "409"}
       /\ call[s].tool # "verify_identity"
       /\ ReplyFailed(s)

Deliver(s) ==
    /\ wire[s].phase = "replied"
    /\ HandleReply(s, wire[s].reply)
    /\ wire' = [wire EXCEPT ![s] = NoWire]
    /\ UNCHANGED <<bank, late, bounds>>

(* Closing the session cancels the tool and its HTTP request.              *)
CancelTool(s) ==
    /\ Cancelled(s)
    /\ Abandon(s)
    /\ wire' = [wire EXCEPT ![s] = NoWire]
    /\ UNCHANGED <<bank, bounds>>

-----------------------------------------------------------------------------
Framework ==
    /\ Handoff \/ CallEnds \/ Shutdown \/ Done
    /\ UNCHANGED <<bank, wire, late, bounds>>

(* The bank stops: what it kept in memory is gone, and nothing in the code *)
(* brings it back.                                                         *)
Consumed(c) ==
    \E i \in DOMAIN challenges :
        challenges[i].customer = c /\ challenges[i].consumed

BankStops ==
    /\ restarts < MaxRestarts
    /\ ~down
    /\ restarts' = restarts + 1
    /\ down' = TRUE
    /\ forgotten' = forgotten \union {c \in Customers : Consumed(c)}
    /\ B!BankRestart
    /\ UNCHANGED <<vars, wire, late, faults, otherSends>>

BankReturns ==
    /\ down
    /\ down' = FALSE
    /\ UNCHANGED <<vars, bank, wire, late, forgotten, restarts, faults, otherSends>>

OtherCallSendsCode ==
    /\ otherSends < MaxOtherSends
    /\ ~down
    /\ otherSends' = otherSends + 1
    /\ \E c \in Customers, code \in Codes : B!SendStepUp(c, code)
    /\ UNCHANGED <<vars, wire, late, faults, outage>>

(* A running tool's own steps: the coroutine, the attempts of the client   *)
(* and the bank's handler.                                                 *)
Progress(s) == Local(s) \/ Ask(s) \/ Serve(s) \/ AttemptFails(s) \/ Deliver(s)

SysNext ==
    \/ \E s \in Slots : ModelAsks(s) \/ Progress(s) \/ CancelTool(s)
    \/ \E r \in late : ServeLate(r)
    \/ Framework
    \/ BankStops
    \/ BankReturns
    \/ OtherCallSendsCode

SysSpec == SysInit /\ [][SysNext]_sysVars

(* The event loop runs every ready coroutine, and httpx gives up on an     *)
(* attempt after backend_timeout_seconds: a running tool always moves.     *)
(* Nothing says that a bank that stopped is ever started again.            *)
FairSpec == SysSpec /\ \A s \in Slots : WF_sysVars(Progress(s))

-----------------------------------------------------------------------------
(* Properties.                                                             *)

(* The bank and the exchanges have their types, and the bank's attempt     *)
(* limit holds for every code.                                             *)
SysTypeOK ==
    /\ \A i \in DOMAIN challenges :
          /\ challenges[i].customer \in Customers
          /\ challenges[i].code \in Codes
          /\ challenges[i].attempts_used \in 0..MAX_ATTEMPTS_PER_CODE
          /\ challenges[i].consumed \in BOOLEAN
    /\ card \in [Customers -> {"active", "blocked"}]
    /\ disputed \subseteq Customers
    /\ tickets \in Nat
    /\ \A s \in Slots :
          /\ wire[s].phase \in {"off", "sent", "replied"}
          /\ wire[s].attempts \in 0..MAX_ATTEMPTS
          /\ wire[s].reply \in {"none", "ok", "no", "404", "409"}
          /\ wire[s].phase # "off" => call[s].pc = "waiting"

(* Whatever the network does, a card is blocked or a transaction disputed  *)
(* only for the customer this call verified, and with step-up on only      *)
(* after this call confirmed a code: retried and late requests included.   *)
EffectsAuthorised ==
    \A c \in Customers :
        card[c] = "blocked" \/ c \in disputed =>
            /\ verified /\ customer_id = c
            /\ effective_step_up_mode = "off" \/ step_up_verified

(* The session believes in a confirmed code only if the bank consumed one  *)
(* of this customer's codes, and a stop of the bank does not change that:  *)
(* what it lost had been consumed before (session_state.py keeps the flag, *)
(* stepup.py the code in memory).                                          *)
StepUpBacked ==
    step_up_verified => customer_id \in forgotten \/ Consumed(customer_id)

(* Every ticket the bank raised is the session's, belongs to a running     *)
(* escalation, or comes from an attempt whose reply was lost; and an       *)
(* escalated session has its ticket.                                       *)
Escalating == {s \in Slots : Waiting(s, "escalate_to_human")}

TicketsAccounted ==
    /\ room = "live" =>
          tickets <= events["escalation"] + Cardinality(Escalating) + faults
    /\ escalated => tickets > 0 \/ restarts > 0

(* A code check the bank served is a confirmation or a failed attempt of   *)
(* the session, a running check, or an attempt that failed on the wire: no *)
(* other guess reaches a code.                                             *)
AttemptsUsed == {a \in (DOMAIN challenges) \X (1..MAX_ATTEMPTS_PER_CODE) :
                    a[2] <= challenges[a[1]].attempts_used}

GuessesAccounted ==
    room = "live" =>
        Cardinality(AttemptsUsed)
            <= failed_step_up_attempts + events["step_up_verified"]
                 + Cardinality(CodeChecks) + faults

(* What an action tool is about to tell the caller is so.  An accepted     *)
(* action, or a 409 that makes it say "the earlier block stands" and "it   *)
(* is being reviewed" (banking_agent.py:267-271, 298-302), comes from a    *)
(* bank where the card is blocked and the dispute open, unless the bank    *)
(* stopped; and a retry of what this very request has already done is      *)
(* answered with one of the two, never as not found.                       *)
Stands(t, c) == CASE t = "report_card_lost"    -> card[c] = "blocked"
                  [] t = "dispute_transaction" -> c \in disputed

AnswersHold ==
    \A s \in Slots :
        wire[s].phase = "replied" /\ call[s].tool \in ActionTools =>
            /\ wire[s].reply \in {"ok", "409"}
                 => Stands(call[s].tool, call[s].customer) \/ restarts > 0
            /\ wire[s].done => wire[s].reply \in {"ok", "409"}

(* Every tool the language model starts comes back, although the bank may  *)
(* stop and never be started again: stop_after_attempt ends the retries    *)
(* (bank_client.py:75-79) and _call turns the last failure into the        *)
(* BankAPIError that every tool handles.                                   *)
ToolsReturn == \A s \in Slots : call[s].pc = "started" ~> call[s].pc = "idle"

(* banking_agent.py:239 tells the model "That code is not correct": a code *)
(* the bank accepted from this very call is not counted as a failed one.   *)
CorrectCodeNotCounted ==
    [][\A s \in Slots :
          /\ Waiting(s, "verify_step_up_code")
          /\ failed_step_up_attempts' > failed_step_up_attempts
          /\ call'[s].pc # "waiting"
          => ~wire[s].done]_sysVars

=============================================================================
