--------------------------- MODULE BankCallProofs ---------------------------
(***************************************************************************)
(* What the session over the lossy network makes the bank do, and what it  *)
(* believes of it, for any bounds on faults, late requests, stops of the   *)
(* bank and other calls.                                                   *)
(***************************************************************************)
EXTENDS BankCall, CallSessionProofs, DataLemmas

Replies == {"none", "ok", "no", "404", "409"}

ArgSet == Customers \union Codes
            \union {"wrong_digits", "unknown_account", "right_digits", "known", "unknown", "none"}

WireSet == [phase : {"off", "sent", "replied"}, attempts : Nat, arg : ArgSet,
            reply : Replies, done : BOOLEAN]

(* An exchange belongs to a waiting tool, carries an argument of it, and   *)
(* says yes to a verification only for a customer the bank knows.          *)
WireFits(s) ==
    wire[s].phase # "off" =>
        /\ call[s].pc = "waiting"
        /\ call[s].tool # "end_call"
        /\ wire[s].arg \in Args(call[s].tool)
        /\ wire[s].phase = "replied" /\ wire[s].reply = "ok"
             /\ call[s].tool = "verify_identity" => wire[s].arg \in Customers

WireInv == wire \in [Slots -> WireSet] /\ \A s \in Slots : WireFits(s)

-----------------------------------------------------------------------------
LEMMA ArgsType == \A t : Args(t) \subseteq ArgSet
BY DEF Args, ArgSet

LEMMA ReplyType ==
    ASSUME NEW t, NEW c, NEW arg \in Args(t)
    PROVE  /\ ReplyTo(t, c, arg) \in Replies
           /\ t = "verify_identity" /\ ReplyTo(t, c, arg) = "ok" => arg \in Customers
<1>1. CASE t = "verify_identity"
  <2>1. ReplyTo(t, c, arg) = B!VerifyIdentityReply(arg)
    BY <1>1 DEF ReplyTo
  <2>2. arg \in Customers \/ arg = "wrong_digits" \/ arg = "unknown_account"
    BY <1>1 DEF Args
  <2>3. B!VerifyIdentityReply(arg) \in Replies
    BY <2>2 DEF B!VerifyIdentityReply, Replies
  <2>4. B!VerifyIdentityReply(arg) = "ok" => arg \in Customers
    BY <2>2 DEF B!VerifyIdentityReply
  <2>5. QED BY <2>1, <2>3, <2>4
<1>2. CASE t = "verify_step_up_code"
  BY <1>2 DEF ReplyTo, B!VerifyStepUpReply, Replies
<1>3. CASE t = "report_card_lost"
  BY <1>3 DEF ReplyTo, B!ReportCardLostReply, Replies
<1>4. CASE t = "dispute_transaction"
  BY <1>4 DEF ReplyTo, B!DisputeReply, Replies
<1>5. CASE t \notin {"verify_identity", "verify_step_up_code", "report_card_lost",
                     "dispute_transaction"}
  BY <1>5 DEF ReplyTo, Replies
<1>6. QED BY <1>1, <1>2, <1>3, <1>4, <1>5

LEMMA NoWireType == NoWire \in WireSet /\ NoWire.phase = "off"
BY DEF NoWire, WireSet, ArgSet, Replies

LEMMA WireInit == SysInit => WireInv
BY NoWireType DEF SysInit, WireInv, WireFits

(* Another slot's exchange is not touched.                                 *)
LEMMA OthersFit ==
    ASSUME WireInv, TypeOK, NEW s \in Slots, NEW u \in Slots, u # s,
           \/ call' = call
           \/ \E x : call' = [call EXCEPT ![s] = x],
           \/ wire' = wire
           \/ \E x : wire' = [wire EXCEPT ![s] = x]
    PROVE  WireFits(u)'
<1>1. call'[u] = call[u] /\ wire'[u] = wire[u]
  BY DEF WireInv, TypeOK
<1>2. QED BY <1>1 DEF WireInv, WireFits, Args

(* A slot without an exchange fits whatever its tool does.                 *)
LEMMA SlotDone ==
    ASSUME WireInv, TypeOK, NEW s \in Slots,
           call' = call \/ \E x : call' = [call EXCEPT ![s] = x],
           \/ wire' = wire /\ wire[s].phase = "off"
           \/ wire' = [wire EXCEPT ![s] = NoWire]
    PROVE  WireInv'
<1>1. wire' \in [Slots -> WireSet] /\ wire'[s].phase = "off"
  BY NoWireType DEF WireInv
<1>2. \A u \in Slots \ {s} : WireFits(u)'
  BY OthersFit
<1>3. WireFits(s)'
  BY <1>1 DEF WireFits
<1>4. QED BY <1>1, <1>2, <1>3 DEF WireInv

LEMMA WireNext == TypeOK /\ WireInv /\ [SysNext]_sysVars => WireInv'
<1> SUFFICES ASSUME TypeOK, WireInv, [SysNext]_sysVars PROVE WireInv'
  OBVIOUS
<1>t. /\ wire \in [Slots -> WireSet] /\ call \in [Slots -> CallSet]
      /\ \A s \in Slots : WireFits(s)
  BY DEF WireInv, TypeOK, CallSet, ToolSet, PcSet
<1>0. ASSUME UNCHANGED <<call, wire>> PROVE WireInv'
  BY <1>0 DEF WireInv, WireFits, Args
<1>1. ASSUME NEW s \in Slots, ModelAsks(s) PROVE WireInv'
  <2>1. \E x : call' = [call EXCEPT ![s] = x]
    BY <1>1 DEF ModelAsks, Start
  <2>2. wire' = wire /\ wire[s].phase = "off"
    BY <1>1, <1>t DEF ModelAsks, Start, WireFits
  <2>3. QED BY <2>1, <2>2, SlotDone
<1>2. ASSUME NEW s \in Slots, Local(s) PROVE WireInv'
  <2>1. \E x : call' = [call EXCEPT ![s] = x]
    BY <1>2 DEF Local, Refuse, Announced, HangUp, HungUp, Request, ReplyFailed, Fail, Finish
  <2>2. wire' = wire /\ wire[s].phase = "off"
    BY <1>2, <1>t
    DEF Local, Refuse, Announced, HangUp, HungUp, Request, ReplyFailed, Waiting, WireFits
  <2>3. QED BY <2>1, <2>2, SlotDone
<1>3. ASSUME NEW s \in Slots, Ask(s) PROVE WireInv'
  <2>1. PICK arg \in Args(call[s].tool) :
            wire' = [wire EXCEPT ![s] = [phase |-> "sent", attempts |-> 1, arg |-> arg,
                                         reply |-> "none", done |-> FALSE]]
    BY <1>3 DEF Ask
  <2> DEFINE w == [phase |-> "sent", attempts |-> 1, arg |-> arg, reply |-> "none",
                   done |-> FALSE]
             x == [call[s] EXCEPT !.pc = "waiting", !.customer = customer_id]
  <2>2. w \in WireSet /\ w.phase = "sent" /\ w.arg = arg
    BY ArgsType DEF WireSet, Replies
  <2>3. /\ call' = [call EXCEPT ![s] = x] /\ x.pc = "waiting" /\ x.tool = call[s].tool
        /\ x.tool # "end_call"
    BY <1>3, <1>t DEF Ask, Request, CallSet
  <2>4. wire' = [wire EXCEPT ![s] = w]
    BY <2>1
  <2> HIDE DEF w, x
  <2>5. wire' \in [Slots -> WireSet] /\ wire'[s] = w /\ call'[s] = x
    BY <2>2, <2>3, <2>4, <1>t
  <2>6. \A u \in Slots \ {s} : WireFits(u)'
    BY <2>3, <2>4, OthersFit
  <2>7. WireFits(s)'
    BY <2>2, <2>3, <2>5 DEF WireFits, Args
  <2>8. QED BY <2>5, <2>6, <2>7 DEF WireInv
<1>4. ASSUME NEW s \in Slots, Serve(s) PROVE WireInv'
  <2> DEFINE reply == ReplyTo(call[s].tool, call[s].customer, wire[s].arg)
             w == [wire[s] EXCEPT !.phase = "replied", !.reply = reply,
                                  !.done = @ \/ reply = "ok"]
  <2>1. /\ wire[s].phase = "sent" /\ call' = call
        /\ wire' = [wire EXCEPT ![s] = w]
    BY <1>4, <1>t DEF Serve, RequestOf, vars
  <2>2. wire[s] \in WireSet /\ wire[s].arg \in Args(call[s].tool)
    BY <2>1, <1>t DEF WireFits
  <2>3. reply \in Replies /\ (call[s].tool = "verify_identity" /\ reply = "ok"
                                => wire[s].arg \in Customers)
    BY <2>2, ReplyType
  <2> HIDE DEF reply
  <2>4. w \in WireSet /\ w.phase = "replied" /\ w.reply = reply /\ w.arg = wire[s].arg
    BY <2>2, <2>3 DEF WireSet
  <2> HIDE DEF w
  <2>5. wire' \in [Slots -> WireSet] /\ wire'[s] = w
    BY <2>1, <2>4, <1>t
  <2>6. \A u \in Slots \ {s} : WireFits(u)'
    BY <2>1, OthersFit
  <2>7. WireFits(s)'
    BY <2>1, <2>3, <2>4, <2>5, <1>t DEF WireFits, Args
  <2>8. QED BY <2>5, <2>6, <2>7 DEF WireInv
<1>5. ASSUME NEW s \in Slots, AttemptFails(s) PROVE WireInv'
  <2>1. CASE GiveUp(s)
    <3>1. wire' = [wire EXCEPT ![s] = NoWire] /\ \E x : call' = [call EXCEPT ![s] = x]
      BY <2>1 DEF GiveUp, ReplyFailed, Fail
    <3>2. QED BY <3>1, SlotDone
  <2>2. CASE RetryAttempt(s)
    <3> DEFINE w == [wire[s] EXCEPT !.phase = "sent", !.attempts = @ + 1, !.reply = "none"]
    <3>1. /\ wire[s].phase # "off" /\ call' = call
          /\ wire' = [wire EXCEPT ![s] = w]
      BY <1>5, <2>2, <1>t DEF AttemptFails, RetryAttempt, vars
    <3>2. w \in WireSet /\ w.phase = "sent" /\ w.arg = wire[s].arg
      <4> DEFINE x == [wire[s] EXCEPT !.phase = "sent"]
                 y == [x EXCEPT !.attempts = @ + 1]
      <4>1. wire[s] \in WireSet
        BY <1>t
      <4>x. x \in WireSet /\ x.phase = "sent" /\ x.arg = wire[s].arg
        BY <4>1 DEF WireSet
      <4>y. w = [y EXCEPT !.reply = "none"]
        OBVIOUS
      <4> HIDE DEF x, w
      <4>2. y \in WireSet /\ y.phase = "sent" /\ y.arg = wire[s].arg
        BY <4>x DEF WireSet
      <4> HIDE DEF y
      <4>3. QED BY <4>2, <4>y DEF WireSet, Replies
    <3> HIDE DEF w
    <3>3. wire' \in [Slots -> WireSet] /\ wire'[s] = w
      BY <3>1, <3>2, <1>t
    <3>4. \A u \in Slots \ {s} : WireFits(u)'
      BY <3>1, OthersFit
    <3>5. WireFits(s)'
      BY <3>1, <3>2, <3>3, <1>t DEF WireFits, Args
    <3>6. QED BY <3>3, <3>4, <3>5 DEF WireInv
  <2>3. QED BY <1>5, <2>1, <2>2 DEF AttemptFails
<1>6. ASSUME NEW s \in Slots, Deliver(s) PROVE WireInv'
  <2>1. wire' = [wire EXCEPT ![s] = NoWire]
    BY <1>6 DEF Deliver
  <2>2. \E x : call' = [call EXCEPT ![s] = x]
    BY <1>6
    DEF Deliver, HandleReply, IdentityConfirmed, IdentityRejected, StepUpConfirmed,
        StepUpRejected, Escalated, Answered, ReplyFailed, Announce, Finish, Fail
  <2>3. QED BY <2>1, <2>2, SlotDone
<1>7. ASSUME NEW s \in Slots, CancelTool(s) PROVE WireInv'
  <2>1. wire' = [wire EXCEPT ![s] = NoWire] /\ \E x : call' = [call EXCEPT ![s] = x]
    BY <1>7 DEF CancelTool, Cancelled
  <2>2. QED BY <2>1, SlotDone
<1>8. CASE Framework
  BY <1>0, <1>8 DEF Framework, Handoff, CallEnds, Shutdown, Done, vars
<1>9. CASE (\E r \in late : ServeLate(r)) \/ BankStops \/ BankReturns
           \/ OtherCallSendsCode \/ UNCHANGED sysVars
  BY <1>0, <1>9 DEF ServeLate, BankStops, BankReturns, OtherCallSendsCode, sysVars, vars
<1>10. QED
  BY <1>1, <1>2, <1>3, <1>4, <1>5, <1>6, <1>7, <1>8, <1>9 DEF SysNext, Progress

-----------------------------------------------------------------------------
(* Every step of the system is a step of the session or none.              *)

LEMMA SessionStep == TypeOK /\ WireInv /\ [SysNext]_sysVars => [Next]_vars
<1> SUFFICES ASSUME WireInv, [SysNext]_sysVars PROVE [Next]_vars
  OBVIOUS
<1>1. ASSUME NEW s \in Slots, ModelAsks(s) \/ Local(s) \/ Ask(s) PROVE Next
  BY <1>1 DEF ModelAsks, Local, HangUp, Ask, Next, Tool, Reply
<1>2. ASSUME NEW s \in Slots, Deliver(s) PROVE Next
  <2>1. /\ wire[s].phase = "replied" /\ HandleReply(s, wire[s].reply)
    BY <1>2 DEF Deliver
  <2>2. CASE wire[s].reply = "ok" /\ IdentityConfirmed(s, wire[s].arg)
    <3>1. wire[s].arg \in Customers
      BY <2>1, <2>2 DEF WireInv, WireFits, IdentityConfirmed, Waiting
    <3>2. QED BY <2>2, <3>1 DEF Next, Tool, Reply
  <2>3. CASE \/ IdentityRejected(s) \/ StepUpConfirmed(s) \/ StepUpRejected(s)
             \/ Escalated(s) \/ Answered(s) \/ ReplyFailed(s)
    BY <2>3 DEF Next, Tool, Reply
  <2>4. QED BY <2>1, <2>2, <2>3 DEF HandleReply
<1>3. ASSUME NEW s \in Slots, AttemptFails(s) PROVE [Next]_vars
  BY <1>3 DEF AttemptFails, RetryAttempt, GiveUp, Next, Tool, Reply
<1>4. ASSUME NEW s \in Slots, CancelTool(s) PROVE Next
  BY <1>4 DEF CancelTool, Next, Tool
<1>5. CASE Framework
  BY <1>5 DEF Framework, Next
<1>6. QED
  BY <1>1, <1>2, <1>3, <1>4, <1>5
  DEF SysNext, Progress, Serve, ServeLate, BankStops, BankReturns, OtherCallSendsCode, sysVars

LEMMA SysInitSession == SysInit => Init
BY DEF SysInit

(* All that is proved of CallSession holds of the session over the network.*)
LEMMA SessionImplemented == SysSpec => Spec
BY SysInitSession, WireInit, WireNext, SessionStep, TypeInit, TypeNext, PTL
DEF SysSpec, Spec

(* Lost, late and repeated answers included, work begins only at its tier  *)
(* and never after a lock that stops it.                                   *)
THEOREM AccessKeptOverNetwork == SysSpec => ImplementsAccess
BY SessionImplemented, AccessImplemented, PTL

-----------------------------------------------------------------------------
(* Effects on the bank.                                                    *)

Entitled(c) ==
    /\ agent = "banking" /\ customer_id = c
    /\ effective_step_up_mode = "off" \/ step_up_verified

(* What has been done at the bank, or still may be by a request nobody     *)
(* waits for, is for a customer entitled to it.                            *)
EffectInv ==
    /\ card \in [Customers -> {"active", "blocked"}]
    /\ \A c \in Customers : card[c] = "blocked" \/ c \in disputed => Entitled(c)
    /\ \A r \in late : r.tool \in ActionTools => Entitled(r.customer)

LEMMA EffectInit == SysInit => EffectInv
BY DEF SysInit, B!BankInit, EffectInv

(* The banking agent keeps its customer and a confirmed code.              *)
LEMMA EntitledStays ==
    ASSUME TypeOK, AccessInv, [Next]_vars, NEW c, Entitled(c)
    PROVE  Entitled(c)'
<1>1. agent' = "banking" /\ customer_id' = c
  BY PinnedNext DEF Entitled, Pinned, vars, authVars
<1>2. step_up_verified => step_up_verified'
  BY DEF Next, Tool, Reply, Start, Refuse, Request, IdentityConfirmed, IdentityRejected,
         StepUpConfirmed, StepUpRejected, Escalated, HungUp, Answered, ReplyFailed,
         Announced, Cancelled, Handoff, CallEnds, Shutdown, Done, vars, stepUpVars
<1>3. QED BY <1>1, <1>2 DEF Entitled, effective_step_up_mode

(* A request of a tool that waits for the bank is for an entitled customer.*)
LEMMA RequestEntitled ==
    ASSUME AccessInv, WireInv, NEW s \in Slots, wire[s].phase # "off",
           call[s].tool \in ActionTools
    PROVE  Entitled(call[s].customer)
<1>1. call[s].pc = "waiting"
  BY DEF WireInv, WireFits
<1>2. QED
  BY <1>1 DEF AccessInv, AccountRequestsAuthorised, InFlight, AccountTools, Entitled

LEMMA EffectEntitled ==
    ASSUME EffectInv, NEW t, NEW c, NEW arg, Effect(t, c, arg),
           t \in ActionTools => Entitled(c)
    PROVE  /\ card' \in [Customers -> {"active", "blocked"}]
           /\ \A d \in Customers : card'[d] = "blocked" \/ d \in disputed' => Entitled(d)
<1>1. CASE t = "report_card_lost"
  <2>1. B!ReportCardLost(c, arg) /\ Entitled(c)
    BY <1>1 DEF Effect, ActionTools
  <2>2. QED BY <2>1 DEF B!ReportCardLost, EffectInv
<1>2. CASE t = "dispute_transaction"
  <2>1. B!Dispute(c, arg) /\ Entitled(c)
    BY <1>2 DEF Effect, ActionTools
  <2>2. QED BY <2>1 DEF B!Dispute, EffectInv
<1>3. CASE t \notin {"report_card_lost", "dispute_transaction"}
  <2>1. card' = card /\ disputed' = disputed
    BY <1>3 DEF Effect, B!SendStepUp, B!VerifyStepUp, B!CreateEscalation, bank
  <2>2. QED BY <2>1 DEF EffectInv
<1>4. QED BY <1>1, <1>2, <1>3

LEMMA EffectNext ==
    TypeOK /\ AccessInv /\ WireInv /\ EffectInv /\ [SysNext]_sysVars => EffectInv'
<1> SUFFICES ASSUME TypeOK, AccessInv, WireInv, EffectInv, [SysNext]_sysVars
             PROVE  EffectInv'
  OBVIOUS
<1>e. \A c : Entitled(c) => Entitled(c)'
  BY EntitledStays, SessionStep
<1>0. ASSUME card' \in [Customers -> {"active", "blocked"}],
             \A c \in Customers : card'[c] = "blocked" \/ c \in disputed' => Entitled(c),
             \A r \in late' : r \in late \/ (r.tool \in ActionTools => Entitled(r.customer))
      PROVE  EffectInv'
  BY <1>0, <1>e DEF EffectInv
<1>1. ASSUME UNCHANGED <<card, disputed>>,
             \/ late' = late
             \/ \E s \in Slots : wire[s].phase # "off" /\ late' = late \union {RequestOf(s)}
      PROVE  EffectInv'
  <2>1. \A s \in Slots : wire[s].phase # "off" /\ RequestOf(s).tool \in ActionTools
            => Entitled(RequestOf(s).customer)
    BY RequestEntitled DEF RequestOf
  <2>2. QED BY <1>0, <1>1, <2>1 DEF EffectInv
<1>2. ASSUME NEW s \in Slots, Serve(s) PROVE EffectInv'
  <2>1. /\ Effect(call[s].tool, call[s].customer, wire[s].arg)
        /\ wire[s].phase # "off" /\ late' = late
    BY <1>2 DEF Serve, RequestOf
  <2>2. QED BY <2>1, <1>0, RequestEntitled, EffectEntitled
<1>3. ASSUME NEW r \in late, ServeLate(r) PROVE EffectInv'
  <2>1. Effect(r.tool, r.customer, r.arg) /\ late' \subseteq late
    BY <1>3 DEF ServeLate
  <2>2. r.tool \in ActionTools => Entitled(r.customer)
    BY DEF EffectInv
  <2>3. QED BY <2>1, <2>2, <1>0, EffectEntitled
<1>4. ASSUME NEW s \in Slots, AttemptFails(s) \/ CancelTool(s) PROVE EffectInv'
  BY <1>1, <1>4
  DEF AttemptFails, Unreachable, FaultOnTheWire, CancelTool, Abandon, bank
<1>5. ASSUME NEW s \in Slots, ModelAsks(s) \/ Local(s) \/ Ask(s) \/ Deliver(s)
      PROVE  EffectInv'
  BY <1>1, <1>5 DEF ModelAsks, Local, Ask, Deliver, bank
<1>6. CASE Framework \/ BankReturns \/ OtherCallSendsCode \/ UNCHANGED sysVars
  BY <1>1, <1>6 DEF Framework, BankReturns, OtherCallSendsCode, B!SendStepUp, bank, sysVars
<1>7. CASE BankStops
  BY <1>0, <1>7 DEF BankStops, B!BankRestart
<1>8. QED BY <1>2, <1>3, <1>4, <1>5, <1>6, <1>7 DEF SysNext, Progress

(* A card is blocked, or a transaction disputed, only for the customer     *)
(* this call verified and, with step-up on, after it confirmed a code:     *)
(* whatever is lost, late, retried or restarted.                           *)
THEOREM EffectsAlwaysAuthorised == SysSpec => []EffectsAuthorised
<1>1. AccessInv /\ EffectInv => EffectsAuthorised
  BY DEF AccessInv, EffectInv, Entitled, EffectsAuthorised
<1>2. SysSpec => [](TypeOK /\ AccessInv)
  BY SessionImplemented, TypeCorrect, AccessCorrect, PTL
<1>3. SysSpec => []WireInv
  BY <1>2, WireInit, WireNext, PTL DEF SysSpec
<1>4. QED BY <1>1, <1>2, <1>3, EffectInit, EffectNext, PTL DEF SysSpec

-----------------------------------------------------------------------------
(* Types of the bank and of the requests nobody waits for.                 *)

ChallengeSet == [customer : Customers, code : Codes,
                 attempts_used : 0..MAX_ATTEMPTS_PER_CODE, consumed : BOOLEAN]

BankType ==
    /\ challenges \in Seq(ChallengeSet)
    /\ disputed \subseteq Customers
    /\ tickets \in Nat

(* A request carries an argument of its tool and, if it is about an        *)
(* account, a customer.                                                    *)
RequestFits(r) ==
    /\ r.arg \in Args(r.tool)
    /\ r.tool \in AccountTools => r.customer \in Customers

LateInv == IsFiniteSet(late) /\ \A r \in late : RequestFits(r)

CountInv ==
    /\ \A s \in Slots : wire[s].attempts <= MAX_ATTEMPTS
    /\ faults \in Nat /\ restarts \in Nat

(* The bank judges the customer's newest code: dead or wrong it says no,   *)
(* and a live one spends an attempt, its last if the code is right.        *)
LEMMA VerifyMoves ==
    ASSUME challenges \in Seq(ChallengeSet), NEW c \in Customers, NEW code,
           B!VerifyStepUp(c, code)
    PROVE  \/ challenges' = challenges /\ B!VerifyStepUpReply(c, code) = "no"
           \/ \E i \in 1..Len(challenges), x \in ChallengeSet :
                 /\ challenges' = [challenges EXCEPT ![i] = x]
                 /\ challenges[i].customer = c /\ ~challenges[i].consumed
                 /\ x.customer = c
                 /\ x.attempts_used = challenges[i].attempts_used + 1
                 /\ x.consumed <=> challenges[i].code = code
                 /\ B!VerifyStepUpReply(c, code) = IF x.consumed THEN "ok" ELSE "no"
<1> DEFINE I == {i \in 1..Len(challenges) : challenges[i].customer = c}
           i == B!CurrentFor(c)
<1>1. i = IF I # {} THEN Max(I) ELSE 0
  BY DEF B!CurrentFor, B!SelectLastInSeq, B!Max, Max
<1>2. Len(challenges) \in Nat /\ I \in SUBSET (1..Len(challenges))
  OBVIOUS
<1>3. I # {} => Max(I) \in I
  BY <1>2, LargestOf
<1>4. i \in 0..Len(challenges) /\ (i # 0 => challenges[i].customer = c)
  BY <1>1, <1>2, <1>3
<1>5. CASE ~B!LiveCode(c)
  BY <1>5 DEF B!VerifyStepUp, B!VerifyStepUpReply
<1>6. CASE B!LiveCode(c)
  <2> DEFINE y == [challenges[i] EXCEPT !.attempts_used = @ + 1]
             x == [y EXCEPT !.consumed = (challenges[i].code = code)]
  <2>1. /\ i \in 1..Len(challenges) /\ challenges[i] \in ChallengeSet
        /\ ~challenges[i].consumed
        /\ challenges[i].attempts_used < MAX_ATTEMPTS_PER_CODE
    BY <1>4, <1>6 DEF B!LiveCode, B!Alive
  <2>2. /\ y \in ChallengeSet /\ y.customer = c
        /\ y.attempts_used = challenges[i].attempts_used + 1
    BY <1>4, <2>1, BankCallAssumption DEF ChallengeSet
  <2>3. challenges' = [challenges EXCEPT ![i] = x]
    BY <1>6, <2>1 DEF B!VerifyStepUp
  <2>4. B!VerifyStepUpReply(c, code) = IF challenges[i].code = code THEN "ok" ELSE "no"
    BY <1>6 DEF B!VerifyStepUpReply
  <2> HIDE DEF y, i
  <2>5. /\ x \in ChallengeSet /\ x.customer = c
        /\ x.attempts_used = challenges[i].attempts_used + 1
        /\ x.consumed <=> challenges[i].code = code
    BY <2>2 DEF ChallengeSet
  <2>6. /\ challenges[i].customer = c
        /\ B!VerifyStepUpReply(c, code) = IF x.consumed THEN "ok" ELSE "no"
    BY <1>4, <2>1, <2>4, <2>5
  <2> HIDE DEF x
  <2>7. QED BY <2>1, <2>3, <2>5, <2>6
<1>7. QED BY <1>5, <1>6

LEMMA EffectTyped ==
    ASSUME BankType, NEW t, NEW c, NEW arg \in Args(t), Effect(t, c, arg),
           t \in AccountTools => c \in Customers
    PROVE  BankType'
<1>1. CASE t = "send_step_up_code"
  <2>1. PICK code \in Codes : B!SendStepUp(c, code)
    BY <1>1 DEF Effect
  <2>2. c \in Customers
    BY <1>1 DEF AccountTools, StepUpTools
  <2>3. QED BY <2>1, <2>2, BankCallAssumption DEF B!SendStepUp, BankType, ChallengeSet
<1>2. CASE t = "verify_step_up_code"
  <2>1. B!VerifyStepUp(c, arg) /\ c \in Customers
    BY <1>2 DEF Effect, AccountTools, StepUpTools
  <2>2. challenges' \in Seq(ChallengeSet)
    BY <2>1, VerifyMoves DEF BankType
  <2>3. QED BY <2>1, <2>2 DEF B!VerifyStepUp, BankType
<1>3. CASE t = "report_card_lost"
  BY <1>3 DEF Effect, B!ReportCardLost, BankType
<1>4. CASE t = "dispute_transaction"
  BY <1>4 DEF Effect, B!Dispute, BankType, AccountTools, ActionTools
<1>5. CASE t = "escalate_to_human"
  BY <1>5 DEF Effect, B!CreateEscalation, BankType
<1>6. CASE t \notin {"send_step_up_code", "verify_step_up_code", "report_card_lost",
                     "dispute_transaction", "escalate_to_human"}
  BY <1>6 DEF Effect, bank, BankType
<1>7. QED BY <1>1, <1>2, <1>3, <1>4, <1>5, <1>6

(* A tool's request names the verified customer, who exists.               *)
LEMMA RequestTyped ==
    ASSUME TypeOK, AccessInv, WireInv, NEW s \in Slots, wire[s].phase # "off"
    PROVE  RequestFits(RequestOf(s))
<1>1. call[s].pc = "waiting" /\ wire[s].arg \in Args(call[s].tool)
  BY DEF WireInv, WireFits
<1>2. call[s].tool \in AccountTools => call[s].customer \in Customers
  BY <1>1 DEF AccessInv, AccountRequestsAuthorised, InFlight, TypeOK
<1>3. QED BY <1>1, <1>2 DEF RequestFits, RequestOf, Args

(* Who changes the bank, and what happens to the requests under way.       *)
LEMMA SysCases ==
    ASSUME [SysNext]_sysVars
    PROVE  \/ \E s \in Slots : Serve(s)
           \/ \E r \in late : ServeLate(r)
           \/ BankStops
           \/ BankReturns
           \/ OtherCallSendsCode
           \/ \E s \in Slots : AttemptFails(s) \/ Deliver(s) \/ CancelTool(s)
           \/ \E s \in Slots : Ask(s)
           \/ /\ \E s \in Slots : ModelAsks(s) \/ Local(s)
              /\ UNCHANGED <<bank, wire, late, bounds>>
           \/ Framework /\ UNCHANGED <<bank, wire, late, bounds>>
           \/ UNCHANGED sysVars
BY DEF SysNext, Progress, ModelAsks, Local, Framework

LEMMA SysTypeInit == SysInit => BankType /\ LateInv /\ CountInv
<1> SUFFICES ASSUME SysInit PROVE BankType /\ LateInv /\ CountInv
  OBVIOUS
<1>1. BankType
  BY DEF SysInit, B!BankInit, BankType
<1>2. LateInv
  BY FS_EmptySet DEF SysInit, LateInv
<1>3. CountInv
  BY BankCallAssumption DEF SysInit, CountInv, NoWire
<1>4. QED BY <1>1, <1>2, <1>3

LEMMA BankTypeNext ==
    TypeOK /\ AccessInv /\ WireInv /\ LateInv /\ BankType /\ [SysNext]_sysVars
        => BankType'
<1> SUFFICES ASSUME TypeOK, AccessInv, WireInv, LateInv, BankType, [SysNext]_sysVars
             PROVE  BankType'
  OBVIOUS
<1>1. ASSUME NEW s \in Slots, Serve(s) PROVE BankType'
  <2>1. wire[s].phase # "off" /\ Effect(call[s].tool, call[s].customer, wire[s].arg)
    BY <1>1 DEF Serve, RequestOf
  <2>2. RequestFits(RequestOf(s))
    BY <2>1, RequestTyped
  <2>3. /\ wire[s].arg \in Args(call[s].tool)
        /\ call[s].tool \in AccountTools => call[s].customer \in Customers
    BY <2>2 DEF RequestFits, RequestOf, Args
  <2>4. QED BY <2>1, <2>3, EffectTyped
<1>2. ASSUME NEW r \in late, ServeLate(r) PROVE BankType'
  BY <1>2, EffectTyped DEF ServeLate, LateInv, RequestFits
<1>3. CASE BankStops
  BY <1>3 DEF BankStops, B!BankRestart, BankType
<1>4. CASE OtherCallSendsCode
  BY <1>4, BankCallAssumption DEF OtherCallSendsCode, B!SendStepUp, BankType, ChallengeSet
<1>5. CASE UNCHANGED bank
  BY <1>5 DEF bank, BankType
<1>6. QED
  BY <1>1, <1>2, <1>3, <1>4, <1>5, SysCases
  DEF AttemptFails, Deliver, CancelTool, Ask, BankReturns, sysVars

LEMMA LateNext ==
    TypeOK /\ AccessInv /\ WireInv /\ LateInv /\ [SysNext]_sysVars => LateInv'
<1> SUFFICES ASSUME TypeOK, AccessInv, WireInv, LateInv, [SysNext]_sysVars
             PROVE  LateInv'
  OBVIOUS
<1>1. ASSUME NEW s \in Slots, Abandon(s), wire[s].phase # "off" PROVE LateInv'
  <2>1. RequestFits(RequestOf(s))
    BY <1>1, RequestTyped
  <2>2. QED BY <1>1, <2>1, FS_AddElement DEF Abandon, LateInv, RequestFits, Args
<1>2. ASSUME late' = late PROVE LateInv'
  BY <1>2 DEF LateInv, RequestFits, Args
<1>3. ASSUME NEW r \in late, ServeLate(r) PROVE LateInv'
  BY <1>3, FS_RemoveElement DEF ServeLate, LateInv, RequestFits, Args
<1>4. ASSUME NEW s \in Slots, AttemptFails(s) \/ CancelTool(s) PROVE LateInv'
  <2>1. CASE wire[s].phase # "off"
    BY <2>1, <1>1, <1>2, <1>4 DEF AttemptFails, Unreachable, FaultOnTheWire, CancelTool
  <2>2. CASE wire[s].phase = "off"
    BY <2>2, <1>2, <1>4 DEF AttemptFails, CancelTool, Abandon
  <2>3. QED BY <2>1, <2>2
<1>5. QED
  BY <1>2, <1>3, <1>4, SysCases
  DEF Serve, BankStops, BankReturns, OtherCallSendsCode, Deliver, Ask, sysVars

LEMMA CountNext == WireInv /\ CountInv /\ [SysNext]_sysVars => CountInv'
<1> SUFFICES ASSUME WireInv, CountInv, [SysNext]_sysVars PROVE CountInv'
  OBVIOUS
<1>t. wire \in [Slots -> WireSet] /\ MAX_ATTEMPTS \in Nat \ {0}
  BY BankCallAssumption DEF WireInv
<1>1. faults' \in Nat /\ restarts' \in Nat
  <2>1. CASE UNCHANGED bounds
    BY <2>1 DEF bounds, outage, CountInv
  <2>2. CASE \/ BankStops \/ BankReturns \/ OtherCallSendsCode
             \/ \E s \in Slots : AttemptFails(s)
    BY <2>2
    DEF CountInv, BankStops, BankReturns, OtherCallSendsCode, AttemptFails, Unreachable,
        FaultOnTheWire, outage
  <2>3. QED
    BY <2>1, <2>2, SysCases DEF Serve, ServeLate, Deliver, CancelTool, Ask, sysVars
<1>2. ASSUME NEW s \in Slots, Serve(s) PROVE \A u \in Slots : wire'[u].attempts <= MAX_ATTEMPTS
  BY <1>2, <1>t DEF CountInv, Serve, WireSet
<1>3. ASSUME NEW s \in Slots, AttemptFails(s)
      PROVE  \A u \in Slots : wire'[u].attempts <= MAX_ATTEMPTS
  BY <1>3, <1>t DEF CountInv, AttemptFails, RetryAttempt, GiveUp, WireSet, NoWire
<1>4. ASSUME NEW s \in Slots, Deliver(s) \/ CancelTool(s) \/ Ask(s)
      PROVE  \A u \in Slots : wire'[u].attempts <= MAX_ATTEMPTS
  BY <1>4, <1>t DEF CountInv, Deliver, CancelTool, Ask, NoWire
<1>5. ASSUME wire' = wire PROVE \A u \in Slots : wire'[u].attempts <= MAX_ATTEMPTS
  BY <1>5 DEF CountInv
<1>6. QED
  BY <1>1, <1>2, <1>3, <1>4, <1>5, SysCases
  DEF CountInv, ServeLate, BankStops, BankReturns, OtherCallSendsCode, sysVars

LEMMA SystemCorrect ==
    SysSpec => [](TypeOK /\ AccessInv /\ WireInv /\ EffectInv /\ LateInv /\ BankType
                    /\ CountInv)
<1>1. SysSpec => [](TypeOK /\ AccessInv)
  BY SessionImplemented, TypeCorrect, AccessCorrect, PTL
<1>2. SysSpec => []WireInv
  BY <1>1, WireInit, WireNext, PTL DEF SysSpec
<1>3. SysSpec => [](LateInv /\ CountInv /\ EffectInv)
  BY <1>1, <1>2, SysTypeInit, LateNext, CountNext, EffectInit, EffectNext, PTL DEF SysSpec
<1>4. SysSpec => []BankType
  BY <1>1, <1>2, <1>3, SysTypeInit, BankTypeNext, PTL DEF SysSpec
<1>5. QED BY <1>1, <1>2, <1>3, <1>4, PTL

(* The bank and the exchanges keep their types; no code takes more than    *)
(* its attempts and no request more than the client's, for any limits.     *)
THEOREM SysTypeCorrect == SysSpec => []SysTypeOK
<1>1. WireInv /\ EffectInv /\ BankType /\ CountInv => SysTypeOK
  <2> SUFFICES ASSUME WireInv, EffectInv, BankType, CountInv PROVE SysTypeOK
    OBVIOUS
  <2>1. \A i \in DOMAIN challenges : challenges[i] \in ChallengeSet
    BY DEF BankType
  <2>2. \A s \in Slots : wire[s] \in WireSet
    BY DEF WireInv
  <2>3. \A s \in Slots : wire[s].attempts \in 0..MAX_ATTEMPTS
    BY <2>2, BankCallAssumption DEF WireSet, CountInv
  <2>4. QED
    BY <2>1, <2>2, <2>3
    DEF SysTypeOK, BankType, EffectInv, WireInv, WireFits, WireSet, Replies, ChallengeSet
<1>2. QED BY <1>1, SystemCorrect, PTL

-----------------------------------------------------------------------------
(* A code the session believes in.                                         *)

Backed(c) == c \in forgotten \/ Consumed(c)

(* A yes on its way back is backed already when the bank gives it.         *)
BackedInv ==
    /\ step_up_verified => Backed(customer_id)
    /\ \A s \in Slots :
          Waiting(s, "verify_step_up_code") /\ wire[s].phase = "replied" /\ wire[s].reply = "ok"
            => Backed(call[s].customer)

LEMMA BackedInit == SysInit => BackedInv
BY NoWireType DEF SysInit, Init, BackedInv, NoWire

(* Codes are only added, and a consumed one stays consumed.                *)
CodesKept ==
    /\ Len(challenges) <= Len(challenges')
    /\ \A i \in 1..Len(challenges) :
          /\ challenges'[i].customer = challenges[i].customer
          /\ challenges[i].consumed => challenges'[i].consumed

LEMMA SendKeepsCodes ==
    ASSUME BankType, NEW c, NEW code, B!SendStepUp(c, code)
    PROVE  CodesKept
BY DEF B!SendStepUp, BankType, CodesKept

LEMMA EffectKeepsCodes ==
    ASSUME BankType, NEW t, NEW c, NEW arg \in Args(t), Effect(t, c, arg),
           t \in AccountTools => c \in Customers
    PROVE  CodesKept
<1>0. ASSUME challenges' = challenges PROVE CodesKept
  BY <1>0 DEF BankType, CodesKept
<1>1. CASE t = "send_step_up_code"
  BY <1>1, SendKeepsCodes DEF Effect
<1>2. CASE t = "verify_step_up_code"
  <2>1. B!VerifyStepUp(c, arg) /\ c \in Customers /\ challenges \in Seq(ChallengeSet)
    BY <1>2 DEF Effect, AccountTools, StepUpTools, BankType
  <2>2. CASE challenges' = challenges
    BY <2>2, <1>0
  <2>3. CASE \E i \in 1..Len(challenges), x \in ChallengeSet :
                /\ challenges' = [challenges EXCEPT ![i] = x]
                /\ challenges[i].customer = c /\ ~challenges[i].consumed
                /\ x.customer = c
    BY <2>1, <2>3 DEF CodesKept
  <2>4. QED BY <2>1, <2>2, <2>3, VerifyMoves
<1>3. CASE t \notin {"send_step_up_code", "verify_step_up_code"}
  BY <1>0, <1>3 DEF Effect, B!ReportCardLost, B!Dispute, B!CreateEscalation, bank
<1>4. QED BY <1>1, <1>2, <1>3

(* What a request that is served, in time or late, does to the bank.       *)
Serving(t) ==
    \E c, arg : /\ arg \in Args(t)
                /\ t \in AccountTools => c \in Customers
                /\ Effect(t, c, arg)

LEMMA ServeIsServing ==
    ASSUME TypeOK, AccessInv, WireInv, NEW s \in Slots, Serve(s)
    PROVE  Serving(call[s].tool) /\ UNCHANGED vars
<1>1. wire[s].phase # "off" /\ Effect(call[s].tool, call[s].customer, wire[s].arg)
  BY DEF Serve, RequestOf
<1>2. /\ wire[s].arg \in Args(call[s].tool)
      /\ call[s].tool \in AccountTools => call[s].customer \in Customers
  BY <1>1, RequestTyped DEF RequestFits, RequestOf, Args
<1>3. QED BY <1>1, <1>2 DEF Serving, Serve

LEMMA LateIsServing ==
    ASSUME LateInv, NEW r \in late, ServeLate(r)
    PROVE  Serving(r.tool) /\ UNCHANGED vars
BY DEF LateInv, RequestFits, ServeLate, Serving

LEMMA BackedStays ==
    ASSUME TypeOK, AccessInv, WireInv, LateInv, BankType, CountInv, [SysNext]_sysVars,
           NEW c, Backed(c)
    PROVE  Backed(c)'
<1>0. ASSUME CodesKept, forgotten' = forgotten PROVE Backed(c)'
  BY <1>0 DEF Backed, Consumed, CodesKept, BankType
<1>1. ASSUME NEW t, Serving(t) PROVE CodesKept
  BY <1>1, EffectKeepsCodes DEF Serving
<1>2. CASE \/ \E s \in Slots : Serve(s)
           \/ \E r \in late : ServeLate(r)
  <2>1. forgotten' = forgotten
    BY <1>2 DEF Serve, ServeLate, bounds, outage
  <2>2. QED BY <1>0, <1>1, <1>2, <2>1, ServeIsServing, LateIsServing
<1>3. CASE BankStops
  <2>1. \A i \in DOMAIN challenges : challenges[i] \in ChallengeSet
    BY DEF BankType
  <2>2. Consumed(c) => c \in Customers
    BY <2>1 DEF Consumed, ChallengeSet
  <2>3. QED BY <1>3, <2>2 DEF BankStops, Backed
<1>4. CASE OtherCallSendsCode
  BY <1>0, <1>4, SendKeepsCodes DEF OtherCallSendsCode, outage
<1>5. CASE UNCHANGED <<challenges, forgotten>>
  BY <1>5 DEF Backed, Consumed
<1>6. QED
  BY <1>2, <1>3, <1>4, <1>5, SysCases
  DEF AttemptFails, Deliver, CancelTool, Ask, BankReturns, sysVars, bank, bounds, outage

(* A served check that says yes has consumed a code of the customer.       *)
LEMMA YesConsumes ==
    ASSUME BankType, NEW c \in Customers, NEW code, B!VerifyStepUp(c, code),
           B!VerifyStepUpReply(c, code) = "ok"
    PROVE  Backed(c)'
<1>1. PICK i \in 1..Len(challenges), x \in ChallengeSet :
          /\ challenges' = [challenges EXCEPT ![i] = x]
          /\ x.customer = c /\ x.consumed
  BY VerifyMoves DEF BankType
<1>2. challenges \in Seq(ChallengeSet)
  BY DEF BankType
<1>3. i \in DOMAIN challenges' /\ challenges'[i] = x
  BY <1>1, <1>2
<1>4. QED BY <1>1, <1>3 DEF Backed, Consumed

LEMMA BackedNext ==
    TypeOK /\ AccessInv /\ WireInv /\ LateInv /\ BankType /\ CountInv /\ BackedInv
        /\ [SysNext]_sysVars => BackedInv'
<1> SUFFICES ASSUME TypeOK, AccessInv, WireInv, LateInv, BankType, CountInv, BackedInv,
                    [SysNext]_sysVars
             PROVE  BackedInv'
  OBVIOUS
<1>t. wire \in [Slots -> WireSet] /\ call \in [Slots -> CallSet]
  BY DEF WireInv, TypeOK, CallSet, ToolSet, PcSet
<1>b. \A c : Backed(c) => Backed(c)'
  BY BackedStays
<1>n. [Next]_vars
  BY SessionStep
<1> DEFINE Yes(s) == /\ Waiting(s, "verify_step_up_code")
                     /\ wire[s].phase = "replied" /\ wire[s].reply = "ok"
<1>1. step_up_verified' => Backed(customer_id)'
  <2>1. CASE step_up_verified
    <3>1. agent = "banking" /\ Backed(customer_id)
      BY <2>1 DEF AccessInv, BackedInv
    <3>2. customer_id' = customer_id
      BY <3>1, <1>n, PinnedNext DEF Pinned, vars, authVars
    <3>3. QED BY <3>1, <3>2, <1>b DEF Backed, Consumed
  <2>2. CASE ~step_up_verified /\ step_up_verified'
    <3>1. PICK s \in Slots : Deliver(s) /\ StepUpConfirmed(s)
      <4>1. ASSUME NEW s \in Slots, ~StepUpConfirmed(s),
                   \/ ModelAsks(s) \/ Local(s) \/ Ask(s) \/ AttemptFails(s) \/ Deliver(s)
                   \/ CancelTool(s)
            PROVE  step_up_verified' = step_up_verified
        BY <4>1
        DEF ModelAsks, Local, Ask, AttemptFails, Deliver, CancelTool, Start, Refuse, Request,
            Announced, HangUp, HungUp, ReplyFailed, RetryAttempt, GiveUp, HandleReply,
            IdentityConfirmed, IdentityRejected, StepUpRejected, Escalated, Answered,
            Cancelled, vars, stepUpVars
      <4>2. ASSUME NEW s \in Slots, StepUpConfirmed(s),
                   \/ ModelAsks(s) \/ Local(s) \/ Ask(s) \/ AttemptFails(s) \/ CancelTool(s)
            PROVE  step_up_verified' = step_up_verified
        BY <4>2
        DEF ModelAsks, Local, Ask, AttemptFails, CancelTool, Start, Refuse, Request,
            Announced, HangUp, HungUp, ReplyFailed, RetryAttempt, GiveUp, Cancelled, vars,
            stepUpVars
      <4>3. ASSUME Framework PROVE step_up_verified' = step_up_verified
        BY <4>3 DEF Framework, Handoff, CallEnds, Shutdown, Done, vars, stepUpVars
      <4>4. QED
        BY <4>1, <4>2, <4>3, <2>2, SysCases
        DEF Serve, ServeLate, BankStops, BankReturns, OtherCallSendsCode, sysVars, vars, stepUpVars
    <3>2. Yes(s)
      <4>1. /\ Waiting(s, "verify_step_up_code") /\ wire[s].phase = "replied"
            /\ HandleReply(s, wire[s].reply)
        BY <3>1 DEF Deliver, StepUpConfirmed
      <4>2. /\ ~\E arg : IdentityConfirmed(s, arg)
            /\ ~IdentityRejected(s) /\ ~Escalated(s) /\ ~Answered(s)
        BY <4>1
        DEF Waiting, IdentityConfirmed, IdentityRejected, Escalated, Answered, PassThrough,
            ReadTools, ActionTools
      <4>3. ~StepUpRejected(s) /\ ~ReplyFailed(s)
        BY <2>2 DEF StepUpRejected, ReplyFailed, stepUpVars
      <4>4. QED BY <4>1, <4>2, <4>3 DEF HandleReply
    <3>3. call[s].customer = customer_id /\ customer_id' = customer_id
      BY <3>1, <3>2
      DEF AccessInv, AccountRequestsAuthorised, InFlight, AccountTools, StepUpTools, Waiting,
          StepUpConfirmed, authVars
    <3>4. QED BY <3>2, <3>3, <1>b DEF BackedInv, Backed, Consumed
  <2>3. QED BY <2>1, <2>2 DEF TypeOK
<1>2. ASSUME NEW s \in Slots, Yes(s)' PROVE Backed(call[s].customer)'
  <2>1. CASE Yes(s) /\ call'[s] = call[s]
    BY <2>1, <1>b DEF BackedInv, Backed, Consumed
  <2>2. CASE Serve(s)
    <3>1. /\ call[s].tool = "verify_step_up_code" /\ call' = call
          /\ ReplyTo("verify_step_up_code", call[s].customer, wire[s].arg) = "ok"
          /\ Effect("verify_step_up_code", call[s].customer, wire[s].arg)
          /\ wire[s].phase # "off"
      BY <1>2, <2>2, <1>t DEF Serve, RequestOf, Waiting, vars, WireSet
    <3>2. /\ B!VerifyStepUp(call[s].customer, wire[s].arg)
          /\ B!VerifyStepUpReply(call[s].customer, wire[s].arg) = "ok"
      BY <3>1 DEF Effect, ReplyTo
    <3>3. call[s].customer \in Customers
      BY <3>1, RequestTyped DEF RequestFits, RequestOf, AccountTools, StepUpTools
    <3>4. QED BY <3>1, <3>2, <3>3, YesConsumes DEF Backed, Consumed
  <2>3. wire'[s].phase # "replied" \/ Serve(s) \/ (Yes(s) /\ call'[s] = call[s])
    <3>1. ASSUME NEW u \in Slots, ModelAsks(u) \/ Local(u), wire[s].phase = "replied"
          PROVE  Yes(s) /\ call'[s] = call[s]
      <4>1. wire' = wire /\ call[s].pc = "waiting" /\ call[s].tool # "end_call"
        BY <3>1 DEF ModelAsks, Local, WireInv, WireFits
      <4>2. u # s /\ \E x : call' = [call EXCEPT ![u] = x]
        BY <3>1, <4>1
        DEF ModelAsks, Local, Start, Refuse, Announced, HangUp, HungUp, Request, ReplyFailed,
            Waiting, Fail, Finish
      <4>3. QED BY <1>2, <4>1, <4>2, <1>t DEF Waiting
    <3>2. ASSUME NEW u \in Slots, u # s,
                 Ask(u) \/ Serve(u) \/ AttemptFails(u) \/ Deliver(u) \/ CancelTool(u)
          PROVE  wire'[s] = wire[s] /\ call'[s] = call[s]
      <4>1. wire'[s] = wire[s]
        BY <3>2, <1>t
        DEF Ask, Serve, AttemptFails, RetryAttempt, GiveUp, Deliver, CancelTool
      <4>2. call' = call \/ \E x : call' = [call EXCEPT ![u] = x]
        BY <3>2
        DEF Ask, Request, Serve, AttemptFails, RetryAttempt, GiveUp, Deliver, HandleReply,
            IdentityConfirmed, IdentityRejected, StepUpConfirmed, StepUpRejected, Escalated,
            Answered, ReplyFailed, Announce, Finish, Fail, CancelTool, Cancelled, vars
      <4>3. QED BY <4>1, <4>2, <3>2, <1>t
    <3>3. ASSUME Ask(s) \/ AttemptFails(s) \/ Deliver(s) \/ CancelTool(s)
          PROVE  wire'[s].phase # "replied"
      BY <3>3, <1>t
      DEF Ask, AttemptFails, RetryAttempt, GiveUp, Deliver, CancelTool, NoWire, WireSet
    <3>4. CASE UNCHANGED <<call, wire>>
      BY <3>4, <1>2 DEF Waiting
    <3>5. UNCHANGED <<call, wire>> \/ \E u \in Slots : ModelAsks(u) \/ Local(u) \/ Ask(u)
             \/ Serve(u) \/ AttemptFails(u) \/ Deliver(u) \/ CancelTool(u)
      BY SysCases
      DEF ServeLate, BankStops, BankReturns, OtherCallSendsCode, sysVars, vars, Framework, Handoff, CallEnds,
          Shutdown, Done
    <3>6. CASE wire'[s] = wire[s] /\ call'[s] = call[s]
      BY <3>6, <1>2 DEF Waiting
    <3>7. wire'[s] = wire[s] \/ wire[s].phase # "replied" \/ wire[s].phase = "replied"
      OBVIOUS
    <3>8. ASSUME NEW u \in Slots, ModelAsks(u) \/ Local(u), wire[s].phase # "replied"
          PROVE  wire'[s].phase # "replied"
      BY <3>8 DEF ModelAsks, Local
    <3>9. QED BY <3>1, <3>2, <3>3, <3>4, <3>5, <3>6, <3>8
  <2>4. QED BY <1>2, <2>1, <2>2, <2>3
<1>3. QED BY <1>1, <1>2 DEF BackedInv

(* The session believes in a code only if the bank consumed one of the     *)
(* customer's, be it forgotten since: no lost, late or repeated answer and *)
(* no stop of the bank makes it believe more.                              *)
THEOREM StepUpAlwaysBacked == SysSpec => []StepUpBacked
<1>1. BackedInv => StepUpBacked
  BY DEF BackedInv, Backed, StepUpBacked
<1>2. QED BY <1>1, SystemCorrect, BackedInit, BackedNext, PTL DEF SysSpec

-----------------------------------------------------------------------------
(* What an action tool is told.                                            *)

(* How the exchange of a slot came to be as it is after a step.            *)
LEMMA ExchangeMoves ==
    ASSUME TypeOK, WireInv, [SysNext]_sysVars, NEW s \in Slots, wire'[s].phase # "off"
    PROVE  \/ wire'[s] = wire[s] /\ call'[s] = call[s]
           \/ Serve(s)
           \/ Ask(s)
           \/ AttemptFails(s) /\ RetryAttempt(s)
<1>t. wire \in [Slots -> WireSet] /\ call \in [Slots -> CallSet]
  BY DEF WireInv, TypeOK, CallSet, ToolSet, PcSet
<1>1. ASSUME NEW u \in Slots, ModelAsks(u) \/ Local(u)
      PROVE  wire'[s] = wire[s] /\ call'[s] = call[s]
  <2>1. wire' = wire /\ call[s].pc = "waiting" /\ call[s].tool # "end_call"
    BY <1>1 DEF ModelAsks, Local, WireInv, WireFits
  <2>2. u # s /\ \E x : call' = [call EXCEPT ![u] = x]
    BY <1>1, <2>1
    DEF ModelAsks, Local, Start, Refuse, Announced, HangUp, HungUp, Request, ReplyFailed,
        Waiting, Fail, Finish
  <2>3. QED BY <2>1, <2>2, <1>t
<1>2. ASSUME NEW u \in Slots, u # s,
             Ask(u) \/ Serve(u) \/ AttemptFails(u) \/ Deliver(u) \/ CancelTool(u)
      PROVE  wire'[s] = wire[s] /\ call'[s] = call[s]
  <2>1. wire'[s] = wire[s]
    BY <1>2, <1>t DEF Ask, Serve, AttemptFails, RetryAttempt, GiveUp, Deliver, CancelTool
  <2>2. call' = call \/ \E x : call' = [call EXCEPT ![u] = x]
    BY <1>2
    DEF Ask, Request, Serve, AttemptFails, RetryAttempt, GiveUp, Deliver, HandleReply,
        IdentityConfirmed, IdentityRejected, StepUpConfirmed, StepUpRejected, Escalated,
        Answered, ReplyFailed, Announce, Finish, Fail, CancelTool, Cancelled, vars
  <2>3. QED BY <2>1, <2>2, <1>2, <1>t
<1>3. ~Deliver(s) /\ ~CancelTool(s) /\ ~(AttemptFails(s) /\ GiveUp(s))
  BY <1>t DEF Deliver, CancelTool, GiveUp, NoWire
<1>4. CASE UNCHANGED <<call, wire>>
  BY <1>4
<1>5. UNCHANGED <<call, wire>> \/ \E u \in Slots : ModelAsks(u) \/ Local(u) \/ Ask(u)
         \/ Serve(u) \/ AttemptFails(u) \/ Deliver(u) \/ CancelTool(u)
  BY SysCases
  DEF ServeLate, BankStops, BankReturns, OtherCallSendsCode, sysVars, vars, Framework,
      Handoff, CallEnds, Shutdown, Done
<1>6. QED BY <1>1, <1>2, <1>3, <1>4, <1>5 DEF AttemptFails

(* A request that was done asked for something the bank could do, and its  *)
(* last answer says that it is so.                                         *)
DoneArg(s) == wire[s].arg \notin {"wrong_digits", "unknown"}

Told(s) ==
    call[s].tool \in ActionTools =>
        /\ wire[s].done => DoneArg(s)
        /\ wire[s].phase = "replied" =>
              /\ wire[s].reply \in {"ok", "409"}
                   => Stands(call[s].tool, call[s].customer) \/ restarts > 0
              /\ wire[s].done => wire[s].reply \in {"ok", "409"}

ToldInv == \A s \in Slots : wire[s].phase # "off" => Told(s)

LEMMA ToldInit == SysInit => ToldInv
BY NoWireType DEF SysInit, ToldInv

(* A blocked card and an open dispute outlive everything but a stop.       *)
LEMMA StandsStays ==
    ASSUME TypeOK, AccessInv, WireInv, LateInv, EffectInv, CountInv, [SysNext]_sysVars,
           NEW t \in ActionTools, NEW c \in Customers, Stands(t, c) \/ restarts > 0
    PROVE  Stands(t, c)' \/ restarts' > 0
<1>1. CASE UNCHANGED <<card, disputed, restarts>>
  BY <1>1 DEF Stands, ActionTools
<1>2. ASSUME NEW tool, Serving(tool)
      PROVE  /\ card[c] = "blocked" => card'[c] = "blocked"
             /\ c \in disputed => c \in disputed'
  <2>1. PICK d, arg : Effect(tool, d, arg)
    BY <1>2 DEF Serving
  <2>2. QED
    BY <2>1
    DEF Effect, B!SendStepUp, B!VerifyStepUp, B!ReportCardLost, B!Dispute,
        B!CreateEscalation, bank, EffectInv
<1>3. CASE (\E s \in Slots : Serve(s)) \/ (\E r \in late : ServeLate(r))
  <2>1. restarts' = restarts
    BY <1>3 DEF Serve, ServeLate, bounds, outage
  <2>2. QED BY <1>2, <1>3, <2>1, ServeIsServing, LateIsServing DEF Stands, ActionTools
<1>4. CASE BankStops
  BY <1>4 DEF BankStops, CountInv
<1>5. QED
  BY <1>1, <1>3, <1>4, SysCases
  DEF AttemptFails, Deliver, CancelTool, Ask, BankReturns, OtherCallSendsCode,
      B!SendStepUp, sysVars, bank, bounds, outage

(* What the bank answers to an action is so once it has answered.          *)
LEMMA ActionServed ==
    ASSUME EffectInv, NEW t \in ActionTools, NEW c \in Customers, NEW arg \in Args(t),
           Effect(t, c, arg)
    PROVE  /\ ReplyTo(t, c, arg) \in {"ok", "409"} => Stands(t, c)'
           /\ ReplyTo(t, c, arg) = "ok" => arg \notin {"wrong_digits", "unknown"}
           /\ arg \notin {"wrong_digits", "unknown"} => ReplyTo(t, c, arg) \in {"ok", "409"}
<1>1. CASE t = "report_card_lost"
  BY <1>1
  DEF Effect, ReplyTo, Args, B!ReportCardLost, B!ReportCardLostReply, Stands, EffectInv
<1>2. CASE t = "dispute_transaction"
  BY <1>2 DEF Effect, ReplyTo, Args, B!Dispute, B!DisputeReply, Stands
<1>3. QED BY <1>1, <1>2 DEF ActionTools

LEMMA ToldNext ==
    TypeOK /\ AccessInv /\ WireInv /\ LateInv /\ EffectInv /\ CountInv /\ ToldInv
        /\ [SysNext]_sysVars => ToldInv'
<1> SUFFICES ASSUME TypeOK, AccessInv, WireInv, LateInv, EffectInv, CountInv, ToldInv,
                    [SysNext]_sysVars, NEW s \in Slots, wire'[s].phase # "off",
                    call'[s].tool \in ActionTools
             PROVE  Told(s)'
  BY DEF ToldInv, Told
<1>t. wire \in [Slots -> WireSet] /\ call \in [Slots -> CallSet]
  BY DEF WireInv, TypeOK, CallSet, ToolSet, PcSet
<1>c. ASSUME wire[s].phase # "off", call[s].tool \in ActionTools
      PROVE  call[s].customer \in Customers /\ wire[s].arg \in Args(call[s].tool)
  BY <1>c, RequestTyped DEF RequestFits, RequestOf, AccountTools, Args
<1>1. CASE wire'[s] = wire[s] /\ call'[s] = call[s]
  <2>1. Told(s) /\ call[s].customer \in Customers
    BY <1>1, <1>c DEF ToldInv
  <2>2. Stands(call[s].tool, call[s].customer) \/ restarts > 0
          => Stands(call[s].tool, call[s].customer)' \/ restarts' > 0
    BY <1>1, <2>1, StandsStays DEF Stands
  <2>3. QED BY <1>1, <2>1, <2>2 DEF Told, DoneArg, Stands
<1>2. CASE Serve(s)
  <2> DEFINE reply == ReplyTo(call[s].tool, call[s].customer, wire[s].arg)
  <2>1. /\ wire[s].phase = "sent" /\ call' = call
        /\ Effect(call[s].tool, call[s].customer, wire[s].arg)
        /\ wire'[s].arg = wire[s].arg /\ wire'[s].reply = reply
        /\ wire'[s].done <=> wire[s].done \/ reply = "ok"
    BY <1>2, <1>t DEF Serve, RequestOf, vars, WireSet
  <2>2. Told(s) /\ call[s].customer \in Customers /\ wire[s].arg \in Args(call[s].tool)
    BY <2>1, <1>c DEF ToldInv
  <2>3. /\ reply \in {"ok", "409"} => Stands(call[s].tool, call[s].customer)'
        /\ reply = "ok" => DoneArg(s)
        /\ DoneArg(s) => reply \in {"ok", "409"}
    BY <2>1, <2>2, ActionServed DEF DoneArg, Stands
  <2>4. wire[s].done => DoneArg(s)
    BY <2>1, <2>2 DEF Told
  <2> HIDE DEF reply
  <2>5. QED BY <2>1, <2>3, <2>4 DEF Told, DoneArg, Stands
<1>3. CASE Ask(s)
  <2>1. ~wire'[s].done /\ wire'[s].phase = "sent"
    BY <1>3, <1>t DEF Ask
  <2>2. QED BY <2>1 DEF Told
<1>4. CASE AttemptFails(s) /\ RetryAttempt(s)
  <2>1. /\ wire'[s].phase = "sent" /\ wire'[s].arg = wire[s].arg
        /\ wire'[s].done = wire[s].done /\ call' = call /\ wire[s].phase # "off"
    BY <1>4, <1>t DEF AttemptFails, RetryAttempt, vars, WireSet
  <2>2. Told(s)
    BY <2>1 DEF ToldInv
  <2>3. QED BY <2>1, <2>2 DEF Told, DoneArg
<1>5. QED BY <1>1, <1>2, <1>3, <1>4, ExchangeMoves

(* An action tool never tells the caller of a block or a dispute that is   *)
(* not there, unless the bank stopped, and never that what its own first   *)
(* attempt did cannot be found, whatever is lost, retried or late.         *)
THEOREM AnswersAlwaysHold == SysSpec => []AnswersHold
<1>1. ToldInv => AnswersHold
  BY DEF ToldInv, Told, AnswersHold
<1>2. QED BY <1>1, SystemCorrect, ToldInit, ToldNext, PTL DEF SysSpec

-----------------------------------------------------------------------------
(* The ledger of what the bank did: an effect of tool t is settled by the  *)
(* session, still waits to be read, or was paid for by a fault.            *)

IsServed(s, t) == Waiting(s, t) /\ wire[s].phase = "replied"

ServedBy(t) == {s \in Slots : IsServed(s, t)}

LateOf(t) == {r \in late : r.tool = t}

(* What the bank may still add to an account before the session can settle *)
(* it, less what it has added already.                                     *)
Open(t) == Cardinality(LateOf(t)) - Cardinality(ServedBy(t)) - faults

LEMMA LedgerFinite ==
    ASSUME LateInv, NEW t
    PROVE  /\ IsFiniteSet(LateOf(t)) /\ Cardinality(LateOf(t)) \in Nat
           /\ IsFiniteSet(ServedBy(t)) /\ Cardinality(ServedBy(t)) \in Nat
<1>1. LateOf(t) \subseteq late /\ ServedBy(t) \subseteq Slots
  BY DEF LateOf, ServedBy
<1>2. IsFiniteSet(LateOf(t)) /\ IsFiniteSet(ServedBy(t))
  BY <1>1, SessionAssumption, FS_Subset DEF LateInv
<1>3. QED BY <1>2, FS_CardinalityType

LEMMA ServedMoves ==
    ASSUME TypeOK, WireInv, LateInv, NEW t, NEW s \in Slots,
           call' = call \/ \E x : call' = [call EXCEPT ![s] = x],
           wire' = wire \/ \E x : wire' = [wire EXCEPT ![s] = x]
    PROVE  /\ IsServed(s, t)' /\ ~IsServed(s, t)
                => Cardinality(ServedBy(t)') = Cardinality(ServedBy(t)) + 1
           /\ ~IsServed(s, t)' /\ IsServed(s, t)
                => Cardinality(ServedBy(t)') = Cardinality(ServedBy(t)) - 1
           /\ (IsServed(s, t)' <=> IsServed(s, t))
                => Cardinality(ServedBy(t)') = Cardinality(ServedBy(t))
<1>1. \A u \in Slots \ {s} : call'[u] = call[u] /\ wire'[u] = wire[u]
  BY DEF WireInv, TypeOK
<1>2. \A u \in Slots \ {s} : IsServed(u, t)' <=> IsServed(u, t)
  BY <1>1 DEF IsServed, Waiting
<1>3. /\ IsServed(s, t)' => ServedBy(t)' = ServedBy(t) \union {s}
      /\ ~IsServed(s, t)' => ServedBy(t)' = ServedBy(t) \ {s}
  BY <1>2 DEF ServedBy
<1>4. s \in ServedBy(t) <=> IsServed(s, t)
  BY DEF ServedBy
<1>5. QED BY <1>3, <1>4, LedgerFinite, FS_AddElement, FS_RemoveElement

LEMMA LateMoves ==
    ASSUME LateInv, NEW t, NEW r
    PROVE  /\ late' = late => Cardinality(LateOf(t)') = Cardinality(LateOf(t))
           /\ late' = late \union {r}
                => Cardinality(LateOf(t)') <= Cardinality(LateOf(t)) + 1
           /\ late' = late \ {r} /\ r \in late
                => Cardinality(LateOf(t)')
                     = Cardinality(LateOf(t)) - (IF r.tool = t THEN 1 ELSE 0)
<1> DEFINE N == Cardinality(LateOf(t))
<1>1. IsFiniteSet(LateOf(t)) /\ N \in Nat
  BY LedgerFinite
<1>2. late' = late => LateOf(t)' = LateOf(t)
  BY DEF LateOf
<1>3. ASSUME late' = late \union {r} PROVE N' <= N + 1
  <2>1. LateOf(t)' = IF r.tool = t THEN LateOf(t) \union {r} ELSE LateOf(t)
    BY <1>3 DEF LateOf
  <2>2. QED BY <2>1, <1>1, FS_AddElement
<1>4. ASSUME late' = late \ {r}, r \in late
      PROVE  N' = N - (IF r.tool = t THEN 1 ELSE 0)
  <2>1. LateOf(t)' = LateOf(t) \ {r}
    BY <1>4 DEF LateOf
  <2>2. r \in LateOf(t) <=> r.tool = t
    BY <1>4 DEF LateOf
  <2>3. QED BY <2>1, <2>2, <1>1, FS_RemoveElement
<1>5. QED BY <1>2, <1>3, <1>4

(* Each step's part in the ledger of t.  Serving t may add one effect and  *)
(* closes one entry for it; an answer that arrives opens one and settles   *)
(* it; no other step of a live call opens any.                             *)
OpenMove(t) ==
    \/ /\ Open(t)' = Open(t) - 1
       /\ Serving(t) /\ UNCHANGED vars
    \/ /\ Open(t)' = Open(t) + 1
       /\ UNCHANGED bank
       /\ \E s \in Slots : Deliver(s) /\ Waiting(s, t)
    \/ /\ Open(t)' <= Open(t)
       /\ \/ UNCHANGED bank \/ BankStops \/ OtherCallSendsCode
          \/ \E other : other # t /\ Serving(other)

LEMMA OpenMoves ==
    ASSUME TypeOK, AccessInv, WireInv, LateInv, CountInv, [SysNext]_sysVars,
           NEW t, t # "end_call", room' = "live"
    PROVE  OpenMove(t)
<1> DEFINE L == Cardinality(LateOf(t))
           V == Cardinality(ServedBy(t))
<1>t. /\ wire \in [Slots -> WireSet] /\ call \in [Slots -> CallSet]
      /\ \A s \in Slots : WireFits(s)
      /\ L \in Nat /\ V \in Nat /\ faults \in Nat
  BY LedgerFinite DEF WireInv, TypeOK, CallSet, ToolSet, PcSet, CountInv
<1>1. ASSUME NEW s \in Slots, ModelAsks(s) \/ Local(s) \/ Ask(s) PROVE OpenMove(t)
  <2>1. UNCHANGED bank /\ late' = late /\ faults' = faults
    BY <1>1 DEF ModelAsks, Local, Ask, bounds
  <2>2. \E x : call' = [call EXCEPT ![s] = x]
    BY <1>1
    DEF ModelAsks, Local, Ask, Start, Refuse, Announced, HangUp, HungUp, Request,
        ReplyFailed, Fail, Finish
  <2>3. wire' = wire \/ \E x : wire' = [wire EXCEPT ![s] = x]
    BY <1>1 DEF ModelAsks, Local, Ask
  <2>4. wire[s].phase = "off"
    BY <1>1, <1>t
    DEF WireFits, ModelAsks, Local, Ask, Start, Refuse, Announced, HangUp, HungUp, Request,
        ReplyFailed, Waiting
  <2>5. ~IsServed(s, t) /\ ~IsServed(s, t)'
    BY <1>1, <2>4, <1>t DEF IsServed, ModelAsks, Local, Ask
  <2>6. V' = V
    BY <2>2, <2>3, <2>5, ServedMoves
  <2>7. L' = L
    BY <2>1, LateMoves
  <2>8. QED BY <2>1, <2>6, <2>7, <1>t DEF OpenMove, Open
<1>2. ASSUME NEW s \in Slots, Serve(s) PROVE OpenMove(t)
  <2>1. /\ UNCHANGED vars /\ late' = late /\ faults' = faults /\ Serving(call[s].tool)
        /\ call' = call
    BY <1>2, ServeIsServing DEF Serve, bounds, vars
  <2>2. L' = L
    BY <2>1, LateMoves
  <2>3. wire' = wire \/ \E x : wire' = [wire EXCEPT ![s] = x]
    BY <1>2 DEF Serve
  <2>4. /\ ~IsServed(s, t)
        /\ IsServed(s, t)' <=> call[s].tool = t
    BY <1>2, <2>1, <1>t DEF Serve, IsServed, Waiting, WireFits, WireSet
  <2>5. V' = IF call[s].tool = t THEN V + 1 ELSE V
    BY <2>1, <2>3, <2>4, ServedMoves
  <2>6. QED BY <2>1, <2>2, <2>5, <1>t DEF OpenMove, Open
<1>3. ASSUME NEW r \in late, ServeLate(r) PROVE OpenMove(t)
  <2>1. /\ UNCHANGED vars /\ faults' = faults /\ Serving(r.tool) /\ late' = late \ {r}
        /\ UNCHANGED <<call, wire>>
    BY <1>3, LateIsServing DEF ServeLate, bounds, vars
  <2>2. ServedBy(t)' = ServedBy(t)
    BY <2>1 DEF ServedBy, IsServed, Waiting
  <2>3. L' = L - (IF r.tool = t THEN 1 ELSE 0)
    BY <2>1, LateMoves
  <2>4. QED BY <2>1, <2>2, <2>3, <1>t DEF OpenMove, Open
<1>4. ASSUME NEW s \in Slots, AttemptFails(s) PROVE OpenMove(t)
  <2>1. UNCHANGED bank
    BY <1>4 DEF AttemptFails
  <2>2. \/ faults' = faults /\ L' = L /\ wire[s].phase = "sent"
        \/ faults' = faults + 1 /\ L' = L
        \/ faults' = faults + 1 /\ L' <= L + 1 /\ wire[s].phase = "sent"
    BY <1>4, LateMoves DEF AttemptFails, Unreachable, FaultOnTheWire, Abandon
  <2>3. /\ call' = call \/ \E x : call' = [call EXCEPT ![s] = x]
        /\ wire' = wire \/ \E x : wire' = [wire EXCEPT ![s] = x]
    BY <1>4 DEF AttemptFails, RetryAttempt, GiveUp, ReplyFailed, Fail, vars
  <2>4. ~IsServed(s, t)'
    BY <1>4, <1>t DEF AttemptFails, RetryAttempt, GiveUp, NoWire, IsServed, WireSet
  <2>5. wire[s].phase = "sent" => ~IsServed(s, t)
    BY DEF IsServed
  <2>6. V' = IF IsServed(s, t) THEN V - 1 ELSE V
    BY <2>3, <2>4, ServedMoves
  <2>7. IsFiniteSet(late') /\ LateOf(t)' \subseteq late'
    BY LateNext DEF LateInv, LateOf
  <2>8. L' \in Nat
    BY <2>7, FS_Subset, FS_CardinalityType
  <2>9. QED BY <2>1, <2>2, <2>5, <2>6, <2>8, <1>t DEF OpenMove, Open
<1>5. ASSUME NEW s \in Slots, Deliver(s) PROVE OpenMove(t)
  <2>1. UNCHANGED bank /\ late' = late /\ faults' = faults
    BY <1>5 DEF Deliver, bounds
  <2>2. wire' = [wire EXCEPT ![s] = NoWire] /\ \E x : call' = [call EXCEPT ![s] = x]
    BY <1>5
    DEF Deliver, HandleReply, IdentityConfirmed, IdentityRejected, StepUpConfirmed,
        StepUpRejected, Escalated, Answered, ReplyFailed, Announce, Finish, Fail
  <2>3. ~IsServed(s, t)' /\ (IsServed(s, t) <=> Waiting(s, t))
    BY <1>5, <2>2, <1>t DEF Deliver, IsServed, NoWire
  <2>4. V' = IF Waiting(s, t) THEN V - 1 ELSE V
    BY <2>2, <2>3, ServedMoves
  <2>5. L' = L
    BY <2>1, LateMoves
  <2>6. QED BY <1>5, <2>1, <2>4, <2>5, <1>t DEF OpenMove, Open
<1>6. ASSUME NEW s \in Slots, CancelTool(s) PROVE FALSE
  BY <1>6 DEF CancelTool, Cancelled
<1>7. ASSUME UNCHANGED <<call, wire, late, faults>>,
             UNCHANGED bank \/ BankStops \/ OtherCallSendsCode
      PROVE  OpenMove(t)
  <2>1. LateOf(t)' = LateOf(t) /\ ServedBy(t)' = ServedBy(t)
    BY <1>7 DEF LateOf, ServedBy, IsServed, Waiting
  <2>2. QED BY <1>7, <2>1, <1>t DEF OpenMove, Open
<1>8. CASE Framework /\ UNCHANGED <<bank, wire, late, bounds>>
  BY <1>7, <1>8 DEF Framework, Handoff, CallEnds, Shutdown, Done, vars, bounds
<1>9. CASE BankStops \/ BankReturns \/ OtherCallSendsCode \/ UNCHANGED sysVars
  BY <1>7, <1>9 DEF BankStops, BankReturns, OtherCallSendsCode, sysVars, vars, bounds
<1>10. QED
  BY <1>1, <1>2, <1>3, <1>4, <1>5, <1>6, <1>8, <1>9, SysCases

(* The counters an answer is settled by never fall, and a closed room      *)
(* stays closed.                                                           *)
LEMMA SettledGrows ==
    ASSUME TypeOK, [Next]_vars
    PROVE  /\ failed_step_up_attempts' >= failed_step_up_attempts
           /\ \A e \in {"escalation", "step_up_verified"} : events'[e] >= events[e]
           /\ room' = "live" => room = "live"
<1>t. /\ failed_step_up_attempts \in Nat /\ events \in [EventTypes -> Nat]
      /\ {"escalation", "step_up_verified", "identity_verified", "security_lockout",
          "tool_call_finished"} \subseteq EventTypes
  BY DEF TypeOK, EventTypes
<1>1. ASSUME NEW s \in Slots, Quiet(s) PROVE
          /\ failed_step_up_attempts' = failed_step_up_attempts
          /\ \A e \in {"escalation", "step_up_verified"} : events'[e] = events[e]
          /\ room' = "live" => room = "live"
  <2>1. room' = "live" => room = "live"
    BY <1>1 DEF Quiet, Refuse, Request, Answered, ReplyFailed, HungUp, Announced, Cancelled,
                Start
  <2>2. QED BY <1>1, <2>1, QuietLogs DEF stepUpVars
<1>2. ASSUME NEW s \in Slots,
             \/ IdentityRejected(s) \/ StepUpConfirmed(s) \/ StepUpRejected(s)
             \/ Escalated(s) \/ \E c \in Customers : IdentityConfirmed(s, c)
      PROVE  /\ room' = room
             /\ failed_step_up_attempts' \in {failed_step_up_attempts,
                                              failed_step_up_attempts + 1}
             /\ \E e \in EventTypes : events' = Logged(events, e)
  BY <1>2, <1>t
  DEF IdentityRejected, StepUpConfirmed, StepUpRejected, Escalated, IdentityConfirmed,
      Announce, Finish, stepUpVars
<1>3. \A e \in EventTypes : events' = Logged(events, e)
          => \A o \in EventTypes : events'[o] >= events[o]
  BY <1>t DEF Logged
<1>4. CASE Shutdown \/ Handoff \/ CallEnds \/ UNCHANGED vars
  BY <1>4, <1>t DEF Shutdown, Handoff, CallEnds, vars, stepUpVars
<1>5. QED BY <1>1, <1>2, <1>3, <1>4, <1>t, NextCases

-----------------------------------------------------------------------------
(* Tickets and guesses.                                                    *)

(* What the bank answers to a check or an escalation is never an error.    *)
AnswerInv ==
    \A s \in Slots :
        wire[s].phase = "replied" =>
            /\ call[s].tool = "verify_step_up_code" => wire[s].reply \in {"ok", "no"}
            /\ call[s].tool = "escalate_to_human" => wire[s].reply = "ok"

LEMMA AnswerInit == SysInit => AnswerInv
BY NoWireType DEF SysInit, AnswerInv

LEMMA AnswerNext == TypeOK /\ WireInv /\ AnswerInv /\ [SysNext]_sysVars => AnswerInv'
<1> SUFFICES ASSUME TypeOK, WireInv, AnswerInv, [SysNext]_sysVars, NEW s \in Slots,
                    wire'[s].phase = "replied"
             PROVE  /\ call'[s].tool = "verify_step_up_code" => wire'[s].reply \in {"ok", "no"}
                    /\ call'[s].tool = "escalate_to_human" => wire'[s].reply = "ok"
  BY DEF AnswerInv
<1>t. /\ wire \in [Slots -> WireSet] /\ call \in [Slots -> CallSet]
      /\ \A u \in Slots : WireFits(u)
  BY DEF WireInv, TypeOK, CallSet, ToolSet, PcSet
<1>0. CASE wire'[s] = wire[s] /\ call'[s] = call[s]
  BY <1>0 DEF AnswerInv
<1>1. ASSUME NEW u \in Slots, ModelAsks(u) \/ Local(u) PROVE wire'[s] = wire[s] /\ call'[s] = call[s]
  <2>1. wire' = wire /\ call[s].pc = "waiting" /\ call[s].tool # "end_call"
    BY <1>1, <1>t DEF ModelAsks, Local, WireFits
  <2>2. u # s /\ \E x : call' = [call EXCEPT ![u] = x]
    BY <1>1, <2>1
    DEF ModelAsks, Local, Start, Refuse, Announced, HangUp, HungUp, Request, ReplyFailed,
        Waiting, Fail, Finish
  <2>3. QED BY <2>1, <2>2, <1>t
<1>2. ASSUME NEW u \in Slots, Ask(u) \/ AttemptFails(u) \/ Deliver(u) \/ CancelTool(u)
      PROVE  wire'[s] = wire[s] /\ call'[s] = call[s]
  <2>1. wire'[u].phase # "replied" /\ (u # s => wire'[s] = wire[s])
    BY <1>2, <1>t
    DEF Ask, AttemptFails, RetryAttempt, GiveUp, Deliver, CancelTool, NoWire, WireSet
  <2>2. call' = call \/ \E x : call' = [call EXCEPT ![u] = x]
    BY <1>2
    DEF Ask, Request, AttemptFails, RetryAttempt, GiveUp, Deliver, HandleReply,
        IdentityConfirmed, IdentityRejected, StepUpConfirmed, StepUpRejected, Escalated,
        Answered, ReplyFailed, Announce, Finish, Fail, CancelTool, Cancelled, vars
  <2>3. QED BY <2>1, <2>2, <1>t
<1>3. ASSUME NEW u \in Slots, Serve(u)
      PROVE  \/ wire'[s] = wire[s] /\ call'[s] = call[s]
             \/ /\ call'[s].tool = "verify_step_up_code" => wire'[s].reply \in {"ok", "no"}
                /\ call'[s].tool = "escalate_to_human" => wire'[s].reply = "ok"
  <2>1. /\ call' = call
        /\ u # s => wire'[s] = wire[s]
        /\ u = s => wire'[s].reply = ReplyTo(call[s].tool, call[s].customer, wire[s].arg)
    BY <1>3, <1>t DEF Serve, RequestOf, vars, WireSet
  <2>2. /\ call[s].tool = "verify_step_up_code"
              => ReplyTo(call[s].tool, call[s].customer, wire[s].arg) \in {"ok", "no"}
        /\ call[s].tool = "escalate_to_human"
              => ReplyTo(call[s].tool, call[s].customer, wire[s].arg) = "ok"
    BY DEF ReplyTo, B!VerifyStepUpReply
  <2>3. QED BY <2>1, <2>2
<1>4. QED
  BY <1>0, <1>1, <1>2, <1>3, SysCases
  DEF ServeLate, BankStops, BankReturns, OtherCallSendsCode, sysVars, vars, Framework, Handoff, CallEnds,
      Shutdown, Done

LEMMA EscalationSettles ==
    ASSUME TypeOK, AnswerInv, NEW s \in Slots, Deliver(s), Waiting(s, "escalate_to_human")
    PROVE  Escalated(s) /\ events'["escalation"] = events["escalation"] + 1
<1>1. HandleReply(s, "ok")
  BY DEF Deliver, AnswerInv, Waiting
<1>2. Escalated(s)
  BY <1>1
  DEF HandleReply, Waiting, IdentityConfirmed, StepUpConfirmed, Answered, PassThrough,
      ReadTools, ActionTools
<1>3. QED BY <1>2, LogsOne DEF Escalated, Announce, EventTypes

LEMMA CheckSettles ==
    ASSUME TypeOK, AnswerInv, NEW s \in Slots, Deliver(s), Waiting(s, "verify_step_up_code")
    PROVE  failed_step_up_attempts' + events'["step_up_verified"]
             = failed_step_up_attempts + events["step_up_verified"] + 1
<1>1. HandleReply(s, "ok") \/ HandleReply(s, "no")
  BY DEF Deliver, AnswerInv, Waiting
<1>2. StepUpConfirmed(s) \/ StepUpRejected(s)
  BY <1>1
  DEF HandleReply, Waiting, IdentityConfirmed, IdentityRejected, Escalated, Answered,
      PassThrough, ReadTools, ActionTools
<1>t. /\ failed_step_up_attempts \in Nat /\ events["step_up_verified"] \in Nat
      /\ {"step_up_verified", "security_lockout", "tool_call_finished"} \subseteq EventTypes
  BY DEF TypeOK, EventTypes
<1>3. CASE StepUpConfirmed(s)
  BY <1>3, <1>t, LogsOne DEF StepUpConfirmed, Announce
<1>4. CASE StepUpRejected(s)
  <2>1. failed_step_up_attempts' = failed_step_up_attempts + 1
    BY <1>4 DEF StepUpRejected
  <2>2. events'["step_up_verified"] = events["step_up_verified"]
    BY <1>4, <1>t, LogsOne DEF StepUpRejected, Announce, Finish
  <2>3. QED BY <2>1, <2>2, <1>t
<1>5. QED BY <1>2, <1>3, <1>4

(* The two ledgers.                                                        *)
TicketInv ==
    /\ room = "live" => tickets + Open("escalate_to_human") <= events["escalation"]
    /\ escalated \/ (\E s \in Slots : IsServed(s, "escalate_to_human"))
         => tickets > 0 \/ restarts > 0

GuessInv ==
    room = "live" =>
        Cardinality(AttemptsUsed) + Open("verify_step_up_code")
            <= failed_step_up_attempts + events["step_up_verified"]

LEMMA OpenInit == ASSUME SysInit, NEW t PROVE Open(t) = 0 /\ \A s \in Slots : ~IsServed(s, t)
<1>1. \A s \in Slots : ~IsServed(s, t)
  BY NoWireType DEF SysInit, IsServed
<1>2. LateOf(t) = {} /\ ServedBy(t) = {}
  BY <1>1 DEF SysInit, LateOf, ServedBy
<1>3. QED BY <1>1, <1>2, FS_EmptySet DEF SysInit, Open

LEMMA OpenType == LateInv /\ CountInv => \A t : Open(t) \in Int
BY LedgerFinite DEF Open, CountInv

LEMMA OpenTypeNext ==
    ASSUME TypeOK, AccessInv, WireInv, LateInv, CountInv, [SysNext]_sysVars, NEW t
    PROVE  Open(t)' \in Int
<1>1. IsFiniteSet(late') /\ faults' \in Nat
  BY LateNext, CountNext DEF LateInv, CountInv
<1>2. LateOf(t)' \subseteq late' /\ ServedBy(t)' \subseteq Slots
  BY DEF LateOf, ServedBy
<1>3. Cardinality(LateOf(t)') \in Nat /\ Cardinality(ServedBy(t)') \in Nat
  BY <1>1, <1>2, SessionAssumption, FS_Subset, FS_CardinalityType
<1>4. QED BY <1>1, <1>3 DEF Open

LEMMA TicketInit == SysInit => TicketInv
<1> SUFFICES ASSUME SysInit PROVE TicketInv
  OBVIOUS
<1>1. /\ tickets = 0 /\ escalated = FALSE /\ events["escalation"] = 0
  BY DEF SysInit, Init, B!BankInit, EventTypes
<1>2. Open("escalate_to_human") = 0 /\ \A s \in Slots : ~IsServed(s, "escalate_to_human")
  BY OpenInit
<1>3. QED BY <1>1, <1>2 DEF TicketInv

LEMMA TicketNext ==
    TypeOK /\ AccessInv /\ WireInv /\ LateInv /\ BankType /\ CountInv /\ AnswerInv
        /\ TicketInv /\ [SysNext]_sysVars => TicketInv'
<1> SUFFICES ASSUME TypeOK, AccessInv, WireInv, LateInv, BankType, CountInv, AnswerInv,
                    TicketInv, [SysNext]_sysVars
             PROVE  TicketInv'
  OBVIOUS
<1> DEFINE t == "escalate_to_human"
           O == Open(t)
<1>t. /\ tickets \in Nat /\ restarts \in Nat /\ O \in Int /\ events["escalation"] \in Nat
      /\ wire \in [Slots -> WireSet] /\ call \in [Slots -> CallSet]
  BY OpenType DEF BankType, CountInv, TypeOK, EventTypes, WireInv, CallSet, ToolSet, PcSet
<1>n. [Next]_vars
  BY SessionStep
<1>s. \A other : Serving(other) => tickets' = IF other = t THEN tickets + 1 ELSE tickets
  BY DEF Serving, Effect, B!SendStepUp, B!VerifyStepUp, B!ReportCardLost, B!Dispute,
         B!CreateEscalation, bank
<1>1. ASSUME room' = "live" PROVE tickets' + O' <= events'["escalation"]
  <2>1. /\ events'["escalation"] >= events["escalation"] /\ room = "live"
        /\ events'["escalation"] \in Nat
    BY <1>1, <1>n, SettledGrows, TypeNext DEF TypeOK, EventTypes
  <2>2. tickets + O <= events["escalation"]
    BY <2>1 DEF TicketInv
  <2>3. OpenMove(t)
    BY <1>1, OpenMoves
  <2>o. O' \in Int
    BY OpenTypeNext
  <2>4. CASE O' = O - 1 /\ Serving(t) /\ UNCHANGED vars
    BY <2>2, <2>4, <1>s, <1>t DEF vars
  <2>5. CASE /\ O' = O + 1 /\ UNCHANGED bank
             /\ \E s \in Slots : Deliver(s) /\ Waiting(s, t)
    BY <2>2, <2>5, EscalationSettles, <1>t DEF bank
  <2>6. CASE O' <= O /\ (\/ UNCHANGED bank \/ BankStops \/ OtherCallSendsCode
                         \/ \E other : other # t /\ Serving(other))
    <3>1. tickets' <= tickets /\ tickets' \in Nat
      <4>0. OtherCallSendsCode => tickets' = tickets
        BY DEF OtherCallSendsCode, B!SendStepUp
      <4>1. CASE UNCHANGED bank \/ OtherCallSendsCode
        BY <4>0, <4>1, <1>t DEF bank
      <4>2. CASE BankStops
        BY <4>2, <1>t DEF BankStops, B!BankRestart
      <4>3. CASE \E other : other # t /\ Serving(other)
        BY <4>3, <1>s, <1>t
      <4>4. QED BY <2>6, <4>1, <4>2, <4>3
    <3>2. QED BY <2>1, <2>2, <2>6, <2>o, <3>1, <1>t
  <2>7. QED BY <2>3, <2>4, <2>5, <2>6 DEF OpenMove
<1>2. ASSUME tickets > 0 \/ restarts > 0 PROVE tickets' > 0 \/ restarts' > 0
  <2>1. CASE \E s \in Slots : Serve(s)
    <3>1. restarts' = restarts
      BY <2>1 DEF Serve, bounds, outage
    <3>2. QED BY <2>1, <3>1, <1>2, <1>s, <1>t, ServeIsServing
  <2>2. CASE \E r \in late : ServeLate(r)
    <3>1. restarts' = restarts
      BY <2>2 DEF ServeLate, bounds, outage
    <3>2. QED BY <2>2, <3>1, <1>2, <1>s, <1>t, LateIsServing
  <2>3. CASE BankStops
    BY <2>3, <1>t DEF BankStops
  <2>4. CASE UNCHANGED <<tickets, restarts>>
    BY <2>4, <1>2
  <2>5. QED
    BY <2>1, <2>2, <2>3, <2>4, SysCases
    DEF BankReturns, OtherCallSendsCode, B!SendStepUp, AttemptFails, Deliver, CancelTool,
        Ask, sysVars, bank, bounds, outage
<1>3. ASSUME \/ escalated' /\ ~escalated
             \/ \E s \in Slots : IsServed(s, t)' /\ ~IsServed(s, t)
      PROVE  \/ \E s \in Slots : IsServed(s, t)
             \/ \E s \in Slots : Serve(s) /\ call[s].tool = t
  <2>1. ASSUME NEW s \in Slots, Deliver(s), escalated', ~escalated PROVE IsServed(s, t)
    BY <2>1
    DEF Deliver, HandleReply, IdentityConfirmed, IdentityRejected, StepUpConfirmed,
        StepUpRejected, Answered, ReplyFailed, Escalated, IsServed
  <2>2. ASSUME NEW s \in Slots, ModelAsks(s) \/ Local(s) \/ Ask(s) \/ AttemptFails(s)
                 \/ CancelTool(s) \/ Serve(s)
        PROVE  escalated' = escalated
    BY <2>2
    DEF ModelAsks, Local, Ask, AttemptFails, CancelTool, Serve, Start, Refuse, Request,
        Announced, HangUp, HungUp, ReplyFailed, RetryAttempt, GiveUp, Cancelled, vars
  <2>3. ASSUME NEW s \in Slots, NEW u \in Slots, IsServed(u, t)', ~IsServed(u, t),
               \/ ModelAsks(s) \/ Local(s) \/ Ask(s) \/ AttemptFails(s) \/ CancelTool(s)
               \/ Deliver(s)
        PROVE  FALSE
    <3>1. CASE u = s
      <4>1. CASE ModelAsks(s) \/ Local(s)
        <5>1. wire[s].phase = "replied" /\ wire' = wire
          BY <2>3, <3>1, <4>1 DEF ModelAsks, Local, IsServed
        <5>2. call[s].pc = "waiting" /\ call[s].tool # "end_call"
          BY <5>1 DEF WireInv, WireFits
        <5>3. QED
          BY <4>1, <5>2
          DEF ModelAsks, Local, Start, Refuse, Announced, HangUp, HungUp, Request,
              ReplyFailed, Waiting
      <4>2. CASE Ask(s) \/ AttemptFails(s) \/ CancelTool(s) \/ Deliver(s)
        BY <2>3, <3>1, <4>2, <1>t
        DEF Ask, AttemptFails, RetryAttempt, GiveUp, Deliver, CancelTool, NoWire, WireSet,
            IsServed
      <4>3. QED BY <2>3, <4>1, <4>2
    <3>2. CASE u # s
      <4>1. /\ call' = call \/ \E x : call' = [call EXCEPT ![s] = x]
            /\ wire' = wire \/ \E x : wire' = [wire EXCEPT ![s] = x]
        BY <2>3
        DEF ModelAsks, Local, Ask, Start, Request, Refuse, Announced, HangUp, HungUp,
            AttemptFails, RetryAttempt, GiveUp, Deliver, HandleReply, IdentityConfirmed,
            IdentityRejected, StepUpConfirmed, StepUpRejected, Escalated, Answered,
            ReplyFailed, Announce, Finish, Fail, CancelTool, Cancelled, vars
      <4>2. call'[u] = call[u] /\ wire'[u] = wire[u]
        BY <3>2, <4>1, <1>t
      <4>3. QED BY <2>3, <4>2 DEF IsServed, Waiting
    <3>3. QED BY <3>1, <3>2
  <2>4. ASSUME NEW s \in Slots, NEW u \in Slots, IsServed(u, t)', ~IsServed(u, t), Serve(s)
        PROVE  u = s /\ call[s].tool = t
    BY <2>4, <1>t DEF Serve, IsServed, Waiting, vars
  <2>5. CASE UNCHANGED <<call, wire, escalated>>
    BY <2>5, <1>3 DEF IsServed, Waiting
  <2>6. UNCHANGED <<call, wire, escalated>> \/ \E u \in Slots : ModelAsks(u) \/ Local(u)
           \/ Ask(u) \/ Serve(u) \/ AttemptFails(u) \/ Deliver(u) \/ CancelTool(u)
    BY SysCases
    DEF ServeLate, BankStops, BankReturns, OtherCallSendsCode, sysVars, vars, Framework, Handoff, CallEnds,
        Shutdown, Done
  <2>7. QED BY <1>3, <2>1, <2>2, <2>3, <2>4, <2>5, <2>6
<1>4. ASSUME escalated' \/ \E s \in Slots : IsServed(s, t)'
      PROVE  tickets' > 0 \/ restarts' > 0
  <2>1. CASE escalated \/ \E s \in Slots : IsServed(s, t)
    BY <2>1, <1>2 DEF TicketInv
  <2>2. CASE \E s \in Slots : Serve(s) /\ call[s].tool = t
    BY <2>2, <1>s, <1>t, ServeIsServing
  <2>3. QED BY <1>3, <1>4, <2>1, <2>2
<1>5. QED BY <1>1, <1>4 DEF TicketInv

(* Every ticket of the bank is one the session knows of, is on its way to  *)
(* it, or was raised by an attempt whose answer was lost.                  *)
THEOREM TicketsAlwaysAccounted == SysSpec => []TicketsAccounted
<1>1. TypeOK /\ LateInv /\ BankType /\ CountInv /\ TicketInv => TicketsAccounted
  <2> SUFFICES ASSUME TypeOK, LateInv, BankType, CountInv, TicketInv PROVE TicketsAccounted
    OBVIOUS
  <2> DEFINE t == "escalate_to_human"
  <2>1. ServedBy(t) \subseteq Escalating /\ IsFiniteSet(Escalating)
    BY SessionAssumption, FS_Subset DEF ServedBy, IsServed, Escalating
  <2>2. Cardinality(ServedBy(t)) <= Cardinality(Escalating) /\ Cardinality(Escalating) \in Nat
    BY <2>1, FS_Subset, FS_CardinalityType
  <2>3. Cardinality(ServedBy(t)) \in Nat /\ Cardinality(LateOf(t)) \in Nat
    BY LedgerFinite
  <2>4. tickets \in Nat /\ faults \in Nat /\ events["escalation"] \in Nat
    BY DEF BankType, CountInv, TypeOK, EventTypes
  <2>5. QED BY <2>2, <2>3, <2>4 DEF TicketInv, Open, TicketsAccounted
<1>2. QED
  BY <1>1, SystemCorrect, AnswerInit, AnswerNext, TicketInit, TicketNext, PTL DEF SysSpec

(* The attempts spent on a list of codes are finitely many; a new code has *)
(* none, and a served check spends at most one.                            *)
Spent(list) == {a \in (DOMAIN list) \X (1..MAX_ATTEMPTS_PER_CODE) :
                    a[2] <= list[a[1]].attempts_used}

LEMMA UsedIsSpent == AttemptsUsed = Spent(challenges) /\ AttemptsUsed' = Spent(challenges')
BY DEF AttemptsUsed, Spent

LEMMA SpentMember ==
    ASSUME NEW list, NEW a
    PROVE  a \in Spent(list) <=>
             \E i \in DOMAIN list, n \in 1..MAX_ATTEMPTS_PER_CODE :
                 a = <<i, n>> /\ n <= list[i].attempts_used
BY DEF Spent

LEMMA SpentFinite ==
    ASSUME NEW list \in Seq(ChallengeSet)
    PROVE  IsFiniteSet(Spent(list)) /\ Cardinality(Spent(list)) \in Nat
<1>1. DOMAIN list = 1..Len(list) /\ Len(list) \in Nat /\ MAX_ATTEMPTS_PER_CODE \in Nat
  BY BankCallAssumption
<1>2. IsFiniteSet(DOMAIN list)
  BY <1>1, FS_Interval
<1>3. IsFiniteSet(1..MAX_ATTEMPTS_PER_CODE)
  BY <1>1, FS_Interval
<1>4. IsFiniteSet((DOMAIN list) \X (1..MAX_ATTEMPTS_PER_CODE))
  BY <1>2, <1>3, FS_Product
<1>5. Spent(list) \subseteq (DOMAIN list) \X (1..MAX_ATTEMPTS_PER_CODE)
  BY DEF Spent
<1>6. IsFiniteSet(Spent(list))
  BY <1>4, <1>5, FS_Subset
<1>7. QED BY <1>6, FS_CardinalityType

LEMMA AttemptsFinite ==
    ASSUME BankType
    PROVE  IsFiniteSet(AttemptsUsed) /\ Cardinality(AttemptsUsed) \in Nat
BY UsedIsSpent, SpentFinite DEF BankType

LEMMA SendSpendsNone ==
    ASSUME BankType, NEW c, NEW code, B!SendStepUp(c, code)
    PROVE  AttemptsUsed' = AttemptsUsed
<1> DEFINE x == [customer |-> c, code |-> code, attempts_used |-> 0, consumed |-> FALSE]
<1>1. challenges' = Append(challenges, x) /\ challenges \in Seq(ChallengeSet)
  BY DEF B!SendStepUp, BankType
<1>2. x.attempts_used = 0
  OBVIOUS
<1> HIDE DEF x
<1>3. /\ DOMAIN challenges = 1..Len(challenges) /\ Len(challenges) \in Nat
      /\ DOMAIN challenges' = 1..(Len(challenges) + 1)
      /\ \A i \in 1..Len(challenges) : challenges'[i] = challenges[i]
      /\ challenges'[Len(challenges) + 1] = x
  BY <1>1
<1>4. ASSUME NEW i \in DOMAIN challenges', NEW n \in 1..MAX_ATTEMPTS_PER_CODE,
             n <= challenges'[i].attempts_used
      PROVE  i \in DOMAIN challenges
  BY <1>2, <1>3, <1>4, BankCallAssumption
<1>5. \A i, n : i \in DOMAIN challenges' /\ n \in 1..MAX_ATTEMPTS_PER_CODE
                   /\ n <= challenges'[i].attempts_used
          <=> i \in DOMAIN challenges /\ n \in 1..MAX_ATTEMPTS_PER_CODE
                   /\ n <= challenges[i].attempts_used
  BY <1>3, <1>4
<1>6. \A a : a \in Spent(challenges') <=> a \in Spent(challenges)
  BY <1>5, SpentMember
<1>7. QED BY <1>6, UsedIsSpent

LEMMA CheckSpendsOne ==
    ASSUME BankType, NEW c \in Customers, NEW code, B!VerifyStepUp(c, code)
    PROVE  Cardinality(AttemptsUsed') <= Cardinality(AttemptsUsed) + 1
<1>1. CASE challenges' = challenges
  BY <1>1, AttemptsFinite DEF AttemptsUsed
<1>2. CASE \E i \in 1..Len(challenges), x \in ChallengeSet :
              /\ challenges' = [challenges EXCEPT ![i] = x]
              /\ x.attempts_used = challenges[i].attempts_used + 1
  <2>1. PICK i \in 1..Len(challenges), x \in ChallengeSet :
              /\ challenges' = [challenges EXCEPT ![i] = x]
              /\ x.attempts_used = challenges[i].attempts_used + 1
    BY <1>2
  <2>t. /\ challenges \in Seq(ChallengeSet) /\ challenges[i] \in ChallengeSet
        /\ MAX_ATTEMPTS_PER_CODE \in Nat
    BY BankCallAssumption DEF BankType
  <2>2. /\ DOMAIN challenges' = DOMAIN challenges /\ challenges'[i] = x
        /\ \A j \in DOMAIN challenges : j # i => challenges'[j] = challenges[j]
    BY <2>1, <2>t
  <2>u. challenges[i].attempts_used \in Nat
    BY <2>t DEF ChallengeSet
  <2>3. ASSUME NEW j \in DOMAIN challenges, NEW n \in 1..MAX_ATTEMPTS_PER_CODE,
               n <= challenges'[j].attempts_used
        PROVE  n <= challenges[j].attempts_used \/ (j = i /\ n = x.attempts_used)
    BY <2>1, <2>2, <2>3, <2>t, <2>u
  <2> DEFINE more == Spent(challenges) \union {<<i, x.attempts_used>>}
  <2>4. ASSUME NEW a \in Spent(challenges') PROVE a \in more
    <3>1. PICK j \in DOMAIN challenges, n \in 1..MAX_ATTEMPTS_PER_CODE :
              a = <<j, n>> /\ n <= challenges'[j].attempts_used
      BY <2>2, <2>4, SpentMember
    <3>2. QED BY <2>3, <3>1, SpentMember
  <2>5. IsFiniteSet(Spent(challenges)) /\ Cardinality(Spent(challenges)) \in Nat
    BY <2>t, SpentFinite
  <2>6. IsFiniteSet(more) /\ Cardinality(more) <= Cardinality(Spent(challenges)) + 1
    <3>1. /\ IsFiniteSet(more)
          /\ Cardinality(more) = IF <<i, x.attempts_used>> \in Spent(challenges)
                                 THEN Cardinality(Spent(challenges))
                                 ELSE Cardinality(Spent(challenges)) + 1
      BY <2>5, FS_AddElement
    <3>2. QED BY <2>5, <3>1
  <2>7. Spent(challenges') \subseteq more
    BY <2>4
  <2> HIDE DEF more
  <2>8. IsFiniteSet(Spent(challenges')) /\ Cardinality(Spent(challenges')) <= Cardinality(more)
    BY <2>6, <2>7, FS_Subset
  <2>9. Cardinality(Spent(challenges')) \in Nat /\ Cardinality(more) \in Nat
    BY <2>6, <2>8, FS_CardinalityType
  <2>10. QED BY <2>5, <2>6, <2>8, <2>9, UsedIsSpent
<1>3. QED BY <1>1, <1>2, VerifyMoves DEF BankType

LEMMA GuessInit == SysInit => GuessInv
<1> SUFFICES ASSUME SysInit PROVE GuessInv
  OBVIOUS
<1>1. /\ challenges = <<>> /\ failed_step_up_attempts = 0 /\ events["step_up_verified"] = 0
  BY DEF SysInit, Init, B!BankInit, EventTypes
<1>2. AttemptsUsed = {}
  BY <1>1, UsedIsSpent, SpentMember
<1>3. Cardinality(AttemptsUsed) = 0
  BY <1>2, FS_EmptySet
<1>4. QED BY <1>1, <1>3, OpenInit DEF GuessInv

LEMMA GuessNext ==
    TypeOK /\ AccessInv /\ WireInv /\ LateInv /\ BankType /\ CountInv /\ AnswerInv
        /\ GuessInv /\ [SysNext]_sysVars => GuessInv'
<1> SUFFICES ASSUME TypeOK, AccessInv, WireInv, LateInv, BankType, CountInv, AnswerInv,
                    GuessInv, [SysNext]_sysVars, room' = "live"
             PROVE  Cardinality(AttemptsUsed') + Open("verify_step_up_code")'
                      <= failed_step_up_attempts' + events'["step_up_verified"]
  BY DEF GuessInv
<1> DEFINE t == "verify_step_up_code"
           O == Open(t)
           N == Cardinality(AttemptsUsed)
           Settled == failed_step_up_attempts + events["step_up_verified"]
<1>1. TypeOK' /\ BankType' /\ [Next]_vars
  BY SessionStep, TypeNext, BankTypeNext
<1>2. N \in Nat /\ O \in Int /\ Settled \in Nat
  BY AttemptsFinite, OpenType DEF TypeOK, EventTypes
<1>3. failed_step_up_attempts' \in Nat /\ events'["step_up_verified"] \in Nat
  BY <1>1 DEF TypeOK, EventTypes
<1>4. room = "live" /\ Settled' >= Settled
  <2>1. /\ room = "live"
        /\ failed_step_up_attempts' >= failed_step_up_attempts
        /\ events'["step_up_verified"] >= events["step_up_verified"]
    BY <1>1, SettledGrows
  <2>2. QED BY <2>1, <1>3 DEF TypeOK, EventTypes
<1>5. N + O <= Settled
  BY <1>4 DEF GuessInv
<1>6. O' \in Int
  BY OpenTypeNext
<1>7. OpenMove(t)
  BY OpenMoves
<1>8. ASSUME UNCHANGED challenges PROVE N' = N
  BY <1>8 DEF AttemptsUsed
<1>9. CASE O' = O - 1 /\ Serving(t) /\ UNCHANGED vars
  <2>1. N' <= N + 1
    BY <1>9, CheckSpendsOne DEF Serving, Effect, AccountTools, StepUpTools
  <2>2. N' \in Nat
    BY <1>1, UsedIsSpent, SpentFinite DEF BankType
  <2>3. Settled' = Settled
    BY <1>9 DEF vars, stepUpVars
  <2>4. QED BY <1>2, <1>5, <1>6, <1>9, <2>1, <2>2, <2>3
<1>10. CASE /\ O' = O + 1 /\ UNCHANGED bank
            /\ \E s \in Slots : Deliver(s) /\ Waiting(s, t)
  <2>1. N' = N /\ Settled' = Settled + 1
    BY <1>8, <1>10, CheckSettles DEF bank
  <2>2. QED BY <1>2, <1>5, <1>6, <1>10, <2>1
<1>11. CASE O' <= O /\ (\/ UNCHANGED bank \/ BankStops \/ OtherCallSendsCode
                        \/ \E other : other # t /\ Serving(other))
  <2>1. N' = N \/ N' = 0
    <3>1. CASE UNCHANGED bank
      BY <1>8, <3>1 DEF bank
    <3>2. CASE BankStops
      <4>1. AttemptsUsed' = {}
        BY <3>2, UsedIsSpent, SpentMember DEF BankStops, B!BankRestart
      <4>2. QED BY <4>1, FS_EmptySet
    <3>3. CASE OtherCallSendsCode
      BY <3>3, SendSpendsNone DEF OtherCallSendsCode
    <3>4. CASE \E other : other # t /\ Serving(other)
      <4>1. PICK other, c, arg : other # t /\ Effect(other, c, arg)
        BY <3>4 DEF Serving
      <4>2. CASE other = "send_step_up_code"
        BY <4>1, <4>2, SendSpendsNone DEF Effect
      <4>3. CASE other # "send_step_up_code"
        <5>1. UNCHANGED challenges
          BY <4>1, <4>3 DEF Effect, B!ReportCardLost, B!Dispute, B!CreateEscalation, bank
        <5>2. QED BY <1>8, <5>1
      <4>4. QED BY <4>2, <4>3
    <3>5. QED BY <1>11, <3>1, <3>2, <3>3, <3>4
  <2>2. Settled' \in Nat
    BY <1>3
  <2>3. QED BY <1>2, <1>4, <1>5, <1>6, <1>11, <2>1, <2>2
<1>12. QED BY <1>7, <1>9, <1>10, <1>11 DEF OpenMove

(* Every attempt a code has lost is a guess the session counted, one it    *)
(* still waits for, or one a fault of the wire hid from it.                *)
THEOREM GuessesAlwaysAccounted == SysSpec => []GuessesAccounted
<1>1. TypeOK /\ LateInv /\ BankType /\ CountInv /\ GuessInv => GuessesAccounted
  <2> SUFFICES ASSUME TypeOK, LateInv, BankType, CountInv, GuessInv PROVE GuessesAccounted
    OBVIOUS
  <2> DEFINE t == "verify_step_up_code"
  <2>1. ServedBy(t) \subseteq CodeChecks
    BY DEF ServedBy, IsServed, CodeChecks
  <2>2. Cardinality(ServedBy(t)) <= Cardinality(CodeChecks) /\ Cardinality(CodeChecks) \in Nat
    BY <2>1, ChecksCounted, FS_Subset
  <2>3. Cardinality(ServedBy(t)) \in Nat /\ Cardinality(LateOf(t)) \in Nat
    BY LedgerFinite
  <2>4. /\ Cardinality(AttemptsUsed) \in Nat /\ faults \in Nat
        /\ events["step_up_verified"] \in Nat /\ failed_step_up_attempts \in Nat
    BY AttemptsFinite DEF CountInv, TypeOK, EventTypes
  <2>5. QED BY <2>2, <2>3, <2>4 DEF GuessInv, Open, GuessesAccounted
<1>2. QED
  BY <1>1, SystemCorrect, AnswerInit, AnswerNext, GuessInit, GuessNext, PTL DEF SysSpec

=============================================================================
