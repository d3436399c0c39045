-------------------------------- MODULE Bank --------------------------------
(***************************************************************************)
(* The mock core bank: the state its routers keep in memory, and each      *)
(* handler the agent can reach as one step.  Handlers really run on a      *)
(* thread pool; BankThreads cuts them where threads can switch and shows   *)
(* that they are these steps while no two requests about one customer      *)
(* overlap.                                                                *)
(***************************************************************************)
EXTENDS Integers, Sequences, SequencesExt

CONSTANTS
    Customers,
    Codes,                   \* the values a one-time code can take
    MAX_ATTEMPTS_PER_CODE

VARIABLES
    challenges,              \* _challenges, newest last
    card,                    \* profile.card.status of each customer
    disputed,                \* customers whose transaction is under dispute
    tickets                  \* _escalation_counter

bankVars == <<challenges, card, disputed, tickets>>

BankInit ==
    /\ challenges = <<>>
    /\ card = [c \in Customers |-> "active"]
    /\ disputed = {}
    /\ tickets = 0

(* A restart loses everything: all state is in memory.                     *)
BankRestart ==
    /\ challenges' = <<>>
    /\ card' = [c \in Customers |-> "active"]
    /\ disputed' = {}
    /\ tickets' = 0

-----------------------------------------------------------------------------
(* Replies: 200 is "ok", except that a refused verification is a 200 that  *)
(* says "no"; the rest are status codes.                                   *)

(* verify_identity: the caller gives the details of a customer, wrong      *)
(* digits for a known account, or an unknown account.                      *)
VerifyIdentityReply(details) ==
    CASE details \in Customers       -> "ok"
      [] details = "wrong_digits"    -> "no"
      [] details = "unknown_account" -> "404"

SendStepUp(c, code) ==
    /\ challenges' = Append(challenges, [customer |-> c, code |-> code,
                                         attempts_used |-> 0, consumed |-> FALSE])
    /\ UNCHANGED <<card, disputed, tickets>>

(* _current_for: the index of the customer's newest challenge, 0 if none.  *)
CurrentFor(c) == SelectLastInSeq(challenges, LAMBDA ch : ch.customer = c)

(* A definition named Slip... is a plausible slip in the one it precedes.  *)
SlipUnlimited(ch) == ~ch.consumed

Alive(ch) == ~ch.consumed /\ ch.attempts_used < MAX_ATTEMPTS_PER_CODE

LiveCode(c) == CurrentFor(c) # 0 /\ Alive(challenges[CurrentFor(c)])

VerifyStepUpReply(c, code) ==
    IF LiveCode(c) /\ challenges[CurrentFor(c)].code = code THEN "ok" ELSE "no"

VerifyStepUp(c, code) ==
    /\ challenges' =
         IF LiveCode(c)
         THEN [challenges EXCEPT
                 ![CurrentFor(c)].attempts_used = @ + 1,
                 ![CurrentFor(c)].consumed = (challenges[CurrentFor(c)].code = code)]
         ELSE challenges
    /\ UNCHANGED <<card, disputed, tickets>>

(* report_card_lost with the right last four digits, or with wrong ones.   *)
SlipBlockedNotFound(c, digits) ==
    IF digits = "wrong_digits" \/ card[c] = "blocked" THEN "404" ELSE "ok"

ReportCardLostReply(c, digits) ==
    IF digits = "wrong_digits" THEN "404"
    ELSE IF card[c] = "blocked" THEN "409" ELSE "ok"

ReportCardLost(c, digits) ==
    /\ card' = IF digits = "wrong_digits" THEN card
               ELSE [card EXCEPT ![c] = "blocked"]
    /\ UNCHANGED <<challenges, disputed, tickets>>

(* dispute_transaction on the customer's transaction, or on an unknown one.*)
DisputeReply(c, txn) ==
    IF txn = "unknown" THEN "404" ELSE IF c \in disputed THEN "409" ELSE "ok"

Dispute(c, txn) ==
    /\ disputed' = IF txn = "unknown" THEN disputed ELSE disputed \union {c}
    /\ UNCHANGED <<challenges, card, tickets>>

CreateEscalation ==
    /\ tickets' = tickets + 1
    /\ UNCHANGED <<challenges, card, disputed>>

-----------------------------------------------------------------------------
(* The bank as its clients see it when handlers are atomic.                *)
BankNext ==
    \/ \E c \in Customers :
          \/ \E code \in Codes : SendStepUp(c, code) \/ VerifyStepUp(c, code)
          \/ ReportCardLost(c, "right_digits")
          \/ Dispute(c, "known")
    \/ CreateEscalation

=============================================================================
