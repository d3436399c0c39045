----------------------------- MODULE BankThreads -----------------------------
(***************************************************************************)
(* All handlers of the bank that change state, side by side on the thread  *)
(* pool: the code store of StepUpStore, and the card, dispute and          *)
(* escalation routers.  What these read before they change state (the      *)
(* customer, the digits, the transaction) never changes, and a request     *)
(* refused with 404 or 409 changes nothing: such requests are left out.    *)
(***************************************************************************)
EXTENDS StepUpStore

CONSTANT MaxTickets            \* bound on the escalations

ASSUME PoolAssumption == MaxTickets \in Nat

VARIABLES
    card, disputed, tickets,   \* the state of the other routers, as in Bank
    cardRefs, disputeRefs      \* history: references handed out per customer

desk == <<card, disputed, tickets, cardRefs, disputeRefs>>
poolVars == <<vars, desk>>

PoolInit ==
    /\ Init
    /\ card = [c \in Customers |-> "active"]
    /\ disputed = {}
    /\ tickets = 0
    /\ cardRefs = [c \in Customers |-> 0]
    /\ disputeRefs = [c \in Customers |-> 0]

(* A definition named Slip... is a plausible slip in the one it precedes.  *)
SlipStatusUnchecked(t, c) ==
    /\ thread[t].pc = "free"
    /\ cardRefs[c] < 2
    /\ thread' = [thread EXCEPT ![t].pc = "elsewhere", ![t].customer = c]
    /\ NoteOverlap(c)
    /\ UNCHANGED <<challenges, verifies, accepted, desk>>

(* report_card_lost finds the card active...                               *)
CheckCard(t, c) ==
    /\ thread[t].pc = "free"
    /\ card[c] = "active"
    /\ thread' = [thread EXCEPT ![t].pc = "elsewhere", ![t].customer = c]
    /\ NoteOverlap(c)
    /\ UNCHANGED <<challenges, verifies, accepted, desk>>

(* ...and blocks it: assigning to a field of the model is a call.          *)
BlockCard(t) ==
    /\ thread[t].pc = "elsewhere"
    /\ card' = [card EXCEPT ![thread[t].customer] = "blocked"]
    /\ cardRefs' = [cardRefs EXCEPT ![thread[t].customer] = @ + 1]
    /\ thread' = [thread EXCEPT ![t] = Free]
    /\ UNCHANGED <<challenges, verifies, accepted, overlapped, disputed, tickets, disputeRefs>>

(* dispute_transaction looks into the set and adds to it without a switch  *)
(* in between.                                                             *)
dispute_transaction(t, c) ==
    /\ thread[t].pc = "free"
    /\ c \notin disputed
    /\ disputed' = disputed \union {c}
    /\ disputeRefs' = [disputeRefs EXCEPT ![c] = @ + 1]
    /\ UNCHANGED <<vars, card, tickets, cardRefs>>

(* next_escalation_ref counts and formats without a switch in between.     *)
create_escalation(t) ==
    /\ thread[t].pc = "free"
    /\ tickets < MaxTickets
    /\ tickets' = tickets + 1
    /\ UNCHANGED <<vars, card, disputed, cardRefs, disputeRefs>>

PoolNext ==
    \/ StoreNext /\ UNCHANGED desk
    \/ \E t \in Threads :
          \/ \E c \in Customers : CheckCard(t, c) \/ dispute_transaction(t, c)
          \/ BlockCard(t)
          \/ create_escalation(t)

PoolSpec == PoolInit /\ [][PoolNext]_poolVars

-----------------------------------------------------------------------------
(* Properties.                                                             *)

(* A reference for a blocked card or an opened dispute is given once per   *)
(* card and transaction (the 409 of cards.py:25 and disputes.py:24): for   *)
(* cards only while no two requests about one customer overlap.            *)
OneReferenceEach ==
    \A c \in Customers :
        /\ ~overlapped => cardRefs[c] <= 1
        /\ disputeRefs[c] <= 1
        /\ card[c] = "blocked" <=> cardRefs[c] > 0

(* As long as no two requests about one customer overlap, every step of    *)
(* every interleaving is a step of the atomic handlers of Bank or none at  *)
(* all: requests about different customers do not disturb one another,     *)
(* and BankCall may treat handlers as atomic.  An attempt at a code counts *)
(* when its handler returns.                                               *)
Pending(i) == Cardinality(Comparing(i))

Atomic == INSTANCE Bank WITH
    challenges <- [i \in DOMAIN challenges |->
        [challenges[i] EXCEPT !.attempts_used = @ - Pending(i)]]

ImplementsBank ==
    /\ Atomic!BankInit
    /\ [][~overlapped' => Atomic!BankNext \/ UNCHANGED Atomic!bankVars]_poolVars

=============================================================================
