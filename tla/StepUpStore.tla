----------------------------- MODULE StepUpStore -----------------------------
(***************************************************************************)
(* routers/stepup.py on the thread pool it runs on.  The handlers are      *)
(* plain functions, so requests run on several threads.  Python switches   *)
(* threads at a call or a loop, never inside a plain assignment: checking  *)
(* alive and counting the attempt happen together, but the comparison of   *)
(* the code, and with it consumed, comes after a switch.                   *)
(***************************************************************************)
EXTENDS Integers, Sequences, SequencesExt, FiniteSets

CONSTANTS
    Threads, Customers, Codes, MAX_ATTEMPTS_PER_CODE,
    MaxChallenges,             \* bound on the codes sent
    MaxVerifies                \* bound on the verifications per run

ASSUME StoreAssumption ==
    /\ IsFiniteSet(Threads)
    /\ MAX_ATTEMPTS_PER_CODE \in Nat \ {0}
    /\ MaxChallenges \in Nat
    /\ MaxVerifies \in Nat

VARIABLES
    challenges,                \* _challenges, newest last
    thread,                    \* where each worker thread is
    verifies,                  \* verifications begun
    accepted,                  \* history: how often each code was accepted
    overlapped                 \* history: have two requests about one customer
                               \* overlapped?

vars == <<challenges, thread, verifies, accepted, overlapped>>

Free == [pc |-> "free", customer |-> "none", code |-> "none", current |-> 0]

Init ==
    /\ challenges = <<>>
    /\ thread = [t \in Threads |-> Free]
    /\ verifies = 0
    /\ accepted = <<>>
    /\ overlapped = FALSE

(* A definition named Slip... is a plausible slip in the one it precedes.  *)
SlipAttemptsUnlimited(ch) == ~ch.consumed

alive(ch) == ~ch.consumed /\ ch.attempts_used < MAX_ATTEMPTS_PER_CODE

SlipOffByOne(c) == SelectLastInSeq(challenges, LAMBDA ch : ch.customer = c) + 1

SlipNewestOfAll(c) == Len(challenges)

SlipOldest(c) == SelectInSeq(challenges, LAMBDA ch : ch.customer = c)

current_for(c) == SelectLastInSeq(challenges, LAMBDA ch : ch.customer = c)

-----------------------------------------------------------------------------
(* A free thread is about nobody.                                          *)
NoteOverlap(c) == overlapped' = (overlapped \/ \E t \in Threads : thread[t].customer = c)

(* The secret is drawn first; the append is one step.                      *)
send_step_up_code(t, c, code) ==
    /\ thread[t].pc = "free"
    /\ Len(challenges) < MaxChallenges
    /\ challenges' = Append(challenges, [customer |-> c, code |-> code,
                                         attempts_used |-> 0, consumed |-> FALSE])
    /\ accepted' = Append(accepted, 0)
    /\ NoteOverlap(c)
    /\ UNCHANGED <<thread, verifies>>

(* verify_step_up_code looks up the newest challenge of the customer...    *)
Lookup(t, c, code) ==
    /\ thread[t].pc = "free"
    /\ verifies < MaxVerifies
    /\ verifies' = verifies + 1
    /\ thread' = [thread EXCEPT ![t] = [pc |-> "found", customer |-> c, code |-> code,
                                        current |-> current_for(c)]]
    /\ NoteOverlap(c)
    /\ UNCHANGED <<challenges, accepted>>

(* ...answers "not verified" if it is absent or dead...                    *)
AnswerDead(t) ==
    /\ thread[t].pc = "found"
    /\ \/ thread[t].current = 0
       \/ thread[t].current # 0 /\ ~alive(challenges[thread[t].current])
    /\ thread' = [thread EXCEPT ![t] = Free]
    /\ UNCHANGED <<challenges, verifies, accepted, overlapped>>

SlipCountDeadToo(t) ==
    /\ thread[t].pc = "found"
    /\ thread[t].current # 0
    /\ challenges' = [challenges EXCEPT ![thread[t].current].attempts_used = @ + 1]
    /\ thread' = [thread EXCEPT ![t].pc = "counted"]
    /\ UNCHANGED <<verifies, accepted, overlapped>>

(* ...or counts the attempt...                                             *)
CountAttempt(t) ==
    /\ thread[t].pc = "found"
    /\ thread[t].current # 0
    /\ alive(challenges[thread[t].current])
    /\ challenges' = [challenges EXCEPT ![thread[t].current].attempts_used = @ + 1]
    /\ thread' = [thread EXCEPT ![t].pc = "counted"]
    /\ UNCHANGED <<verifies, accepted, overlapped>>

(* ...and then compares the code.                                          *)
Compare(t) ==
    LET i == thread[t].current IN
    /\ thread[t].pc = "counted"
    /\ IF thread[t].code = challenges[i].code
       THEN /\ challenges' = [challenges EXCEPT ![i].consumed = TRUE]
            /\ accepted' = [accepted EXCEPT ![i] = @ + 1]
       ELSE UNCHANGED <<challenges, accepted>>
    /\ thread' = [thread EXCEPT ![t] = Free]
    /\ UNCHANGED <<verifies, overlapped>>

Done ==
    /\ Len(challenges) = MaxChallenges
    /\ verifies = MaxVerifies
    /\ \A t \in Threads : thread[t].pc = "free"
    /\ UNCHANGED vars

StoreNext ==
    \/ \E t \in Threads, c \in Customers, code \in Codes :
          send_step_up_code(t, c, code) \/ Lookup(t, c, code)
    \/ \E t \in Threads : AnswerDead(t) \/ CountAttempt(t) \/ Compare(t)

Next == StoreNext \/ Done

Spec == Init /\ [][Next]_vars

-----------------------------------------------------------------------------
(* Properties.                                                             *)

(* "elsewhere": in a handler of another router.                            *)
TypeOK ==
    /\ \A i \in DOMAIN challenges :
          /\ challenges[i].customer \in Customers
          /\ challenges[i].code \in Codes
          /\ challenges[i].attempts_used \in Nat
          /\ challenges[i].consumed \in BOOLEAN
    /\ \A t \in Threads :
          /\ thread[t].pc \in {"free", "found", "counted", "elsewhere"}
          /\ thread[t].current \in 0..Len(challenges)
    /\ DOMAIN accepted = DOMAIN challenges

(* However requests interleave, a code is tried at most                    *)
(* MAX_ATTEMPTS_PER_CODE times, and every acceptance is one of the tries:  *)
(* no acceptance happens outside the limit.                                *)
Comparing(i) == {t \in Threads : thread[t].pc = "counted" /\ thread[t].current = i}

AttemptsLimited ==
    \A i \in DOMAIN challenges :
        /\ challenges[i].attempts_used <= MAX_ATTEMPTS_PER_CODE
        /\ accepted[i] + Cardinality(Comparing(i)) <= challenges[i].attempts_used

(* A request spends its attempt on, and is accepted for, a code of its own *)
(* customer, and a consumed code has been accepted (no code is burnt by a  *)
(* request for somebody else).                                             *)
OwnCodesOnly ==
    /\ \A t \in Threads : thread[t].current # 0 =>
          challenges[thread[t].current].customer = thread[t].customer
    /\ \A i \in DOMAIN challenges : challenges[i].consumed <=> accepted[i] > 0

(* Once a code is dead, no request that comes later counts on it.          *)
DeadCodesStayDead ==
    [][\A i \in DOMAIN challenges : ~alive(challenges[i]) =>
          /\ ~alive(challenges'[i])
          /\ challenges'[i].attempts_used = challenges[i].attempts_used]_vars

(* stepup.py:14: "Codes are single-use".                                   *)
SingleUse == \A i \in DOMAIN challenges : accepted[i] <= 1

=============================================================================
