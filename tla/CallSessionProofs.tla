-------------------------- MODULE CallSessionProofs --------------------------
(***************************************************************************)
(* Theorems about CallSession, for every set of coroutines and customers,  *)
(* every step-up policy and every bound on the tool calls: types, access   *)
(* and the promise of TieredAuth, locks, events and the record.            *)
(***************************************************************************)
EXTENDS CallSession, FiniteSetTheorems, TLAPS

ToolSet == AllTools \union {"none"}
PcSet == {"idle", "started", "waiting", "announcing"}
CallSet == [tool : ToolSet, pc : PcSet, customer : Customers \union {NoCustomer}]
RecordSet == [outcome : Outcomes \union {"none"}, verified : BOOLEAN,
              step_up_verified : BOOLEAN, events : [EventTypes -> Nat]]

-----------------------------------------------------------------------------
(* What a step does to one coroutine and to the log.                       *)

LEMMA LoggedType ==
    ASSUME NEW log \in [EventTypes -> Nat], NEW e \in EventTypes
    PROVE  Logged(log, e) \in [EventTypes -> Nat]
BY DEF Logged

LEMMA IdleType == Idle \in CallSet
BY DEF Idle, CallSet, ToolSet, PcSet

LEMMA FinishType ==
    ASSUME TypeOK, NEW s \in Slots, Finish(s) \/ Fail(s)
    PROVE  call' \in [Slots -> CallSet] /\ events' \in [EventTypes -> Nat]
<1>1. call' = [call EXCEPT ![s] = Idle]
  BY DEF Finish, Fail
<1>2. call \in [Slots -> CallSet]
  BY DEF TypeOK, CallSet, ToolSet, PcSet
<1>3. call' \in [Slots -> CallSet]
  BY <1>1, <1>2, IdleType
<1>4. events' \in [EventTypes -> Nat]
  BY LoggedType DEF Finish, Fail, TypeOK, EventTypes
<1>5. QED BY <1>3, <1>4

LEMMA AnnounceType ==
    ASSUME TypeOK, NEW s \in Slots, NEW e \in EventTypes, Announce(s, e)
    PROVE  call' \in [Slots -> CallSet] /\ events' \in [EventTypes -> Nat]
<1>1. call' = [call EXCEPT ![s].pc = "announcing"]
  BY DEF Announce
<1>2. call \in [Slots -> CallSet]
  BY DEF TypeOK, CallSet, ToolSet, PcSet
<1>3. call' \in [Slots -> CallSet]
  BY <1>1, <1>2 DEF CallSet, PcSet
<1>4. events' \in [EventTypes -> Nat]
  BY LoggedType DEF Announce, TypeOK
<1>5. QED BY <1>3, <1>4

LEMMA RecordType == TypeOK => build_call_record \in RecordSet
<1>1. derive_outcome \in Outcomes
  BY DEF derive_outcome, Outcomes
<1>2. QED BY <1>1 DEF build_call_record, RecordSet, TypeOK

-----------------------------------------------------------------------------
LEMMA TypeInit == Init => TypeOK
<1> SUFFICES ASSUME Init PROVE TypeOK
  OBVIOUS
<1>1. call \in [Slots -> CallSet]
  BY IdleType DEF Init
<1>2. record \in RecordSet
  BY DEF Init, NoRecord, RecordSet
<1>3. QED
  BY <1>1, <1>2 DEF Init, TypeOK, CallSet, ToolSet, PcSet, RecordSet

LEMMA TypeNext == TypeOK /\ [Next]_vars => TypeOK'
<1> SUFFICES ASSUME TypeOK, [Next]_vars PROVE TypeOK'
  OBVIOUS
<1> DEFINE CallOK == call \in [Slots -> CallSet]
           LogOK  == events \in [EventTypes -> Nat]
<1>0. CallOK /\ LogOK
  BY DEF TypeOK, CallSet, ToolSet, PcSet
<1>a. ASSUME CallOK', LogOK',
             UNCHANGED <<agent, handoff, authVars, stepUpVars, escalated, room,
                         record>>
      PROVE  TypeOK'
  BY <1>a DEF TypeOK, authVars, stepUpVars, CallSet, ToolSet, PcSet
<1>1. ASSUME NEW s \in Slots, NEW t \in Tools, Start(s, t) PROVE TypeOK'
  <2>1. t \in ToolSet
    BY SessionAssumption DEF ToolSet
  <2>2. CallOK'
    BY <1>0, <1>1, <2>1 DEF Start, CallSet, PcSet
  <2>3. LogOK'
    BY <1>0, <1>1, LoggedType DEF Start, EventTypes
  <2>4. QED BY <1>1, <1>a, <2>2, <2>3 DEF Start
<1>2. ASSUME NEW s \in Slots, Refuse(s) PROVE TypeOK'
  BY <1>2, <1>a, FinishType DEF Refuse
<1>3. ASSUME NEW s \in Slots, Request(s) PROVE TypeOK'
  <2>1. CallOK'
    BY <1>0, <1>3 DEF Request, CallSet, PcSet, TypeOK
  <2>2. QED BY <1>0, <1>3, <1>a, <2>1 DEF Request
<1>4. ASSUME NEW s \in Slots, NEW c \in Customers, IdentityConfirmed(s, c)
      PROVE  TypeOK'
  <2>1. CallOK' /\ LogOK'
    BY <1>4, AnnounceType DEF IdentityConfirmed, EventTypes
  <2>2. QED
    BY <1>4, <2>1 DEF IdentityConfirmed, TypeOK, stepUpVars, CallSet, ToolSet, PcSet
<1>5. ASSUME NEW s \in Slots, IdentityRejected(s) PROVE TypeOK'
  <2>1. CallOK' /\ LogOK'
    BY <1>5, AnnounceType, FinishType DEF IdentityRejected, EventTypes
  <2>2. locked_out' \in BOOLEAN
    BY <1>5 DEF IdentityRejected
  <2>3. QED
    BY <1>5, <2>1, <2>2 DEF IdentityRejected, TypeOK, stepUpVars, CallSet, ToolSet, PcSet
<1>6. ASSUME NEW s \in Slots, StepUpConfirmed(s) PROVE TypeOK'
  <2>1. CallOK' /\ LogOK'
    BY <1>6, AnnounceType DEF StepUpConfirmed, EventTypes
  <2>2. QED
    BY <1>6, <2>1 DEF StepUpConfirmed, TypeOK, authVars, CallSet, ToolSet, PcSet
<1>7. ASSUME NEW s \in Slots, StepUpRejected(s) PROVE TypeOK'
  <2>1. CallOK' /\ LogOK'
    BY <1>7, AnnounceType, FinishType DEF StepUpRejected, EventTypes
  <2>2. step_up_locked' \in BOOLEAN
    BY <1>7 DEF StepUpRejected, TypeOK
  <2>3. QED
    BY <1>7, <2>1, <2>2 DEF StepUpRejected, TypeOK, authVars, CallSet, ToolSet, PcSet
<1>8. ASSUME NEW s \in Slots, Escalated(s) PROVE TypeOK'
  <2>1. CallOK' /\ LogOK'
    BY <1>8, AnnounceType DEF Escalated, EventTypes
  <2>2. QED
    BY <1>8, <2>1 DEF Escalated, TypeOK, authVars, stepUpVars, CallSet, ToolSet, PcSet
<1>9. ASSUME NEW s \in Slots, HungUp(s) PROVE TypeOK'
  <2>1. CallOK' /\ LogOK'
    BY <1>9, FinishType DEF HungUp
  <2>2. QED
    BY <1>9, <2>1 DEF HungUp, TypeOK, authVars, stepUpVars, CallSet, ToolSet, PcSet
<1>10. ASSUME NEW s \in Slots, Answered(s) \/ ReplyFailed(s) \/ Announced(s)
       PROVE  TypeOK'
  BY <1>10, <1>a, FinishType DEF Answered, ReplyFailed, Announced
<1>11. ASSUME NEW s \in Slots, Cancelled(s) PROVE TypeOK'
  <2>1. CallOK'
    BY <1>0, <1>11, IdleType DEF Cancelled
  <2>2. QED BY <1>0, <1>11, <1>a, <2>1 DEF Cancelled
<1>12. CASE Handoff
  BY <1>12 DEF Handoff, TypeOK, authVars, stepUpVars
<1>13. CASE CallEnds
  BY <1>13 DEF CallEnds, TypeOK, authVars, stepUpVars
<1>14. CASE Shutdown
  <2>1. record' \in RecordSet
    BY <1>14, RecordType DEF Shutdown
  <2>2. QED BY <1>14, <2>1 DEF Shutdown, TypeOK, authVars, stepUpVars, RecordSet
<1>15. CASE UNCHANGED vars
  BY <1>15 DEF vars, authVars, stepUpVars, TypeOK
<1>16. QED
  BY <1>1, <1>2, <1>3, <1>4, <1>5, <1>6, <1>7, <1>8, <1>9, <1>10, <1>11, <1>12,
     <1>13, <1>14, <1>15 DEF Next, Tool, Reply, Done

(* Every variable of a call keeps the type the code gives it.              *)
THEOREM TypeCorrect == Spec => []TypeOK
BY TypeInit, TypeNext, PTL DEF Spec

-----------------------------------------------------------------------------
(* Access.  A step either leaves the slots as they are, or moves one slot; *)
(* the lemmas below say what AccessInv needs of that slot.                 *)

SlotAccess(s) ==
    /\ call[s].pc # "idle" /\ call[s].tool = "verify_identity" => agent = "identity"
    /\ call[s].pc # "idle" /\ call[s].tool \in AccountTools => agent = "banking"
    /\ InFlight(s) /\ call[s].tool \in AccountTools
         => verified /\ call[s].customer = customer_id
    /\ InFlight(s) /\ call[s].tool \in ActionTools
         => effective_step_up_mode = "off" \/ step_up_verified
    /\ InFlight(s) /\ call[s].tool \in ReadTools
         => effective_step_up_mode # "always" \/ step_up_verified

SessionAccess ==
    /\ verified <=> customer_id # NoCustomer
    /\ handoff \/ agent = "banking" => verified
    /\ step_up_verified => agent = "banking"

LEMMA AccessInvParts ==
    AccessInv <=> SessionAccess /\ \A s \in Slots : SlotAccess(s)
BY DEF AccessInv, SessionAccess, SlotAccess, AccountRequestsAuthorised

LEMMA AccessInit == Init => AccessInv
BY AccessInvParts DEF Init, SessionAccess, SlotAccess, Idle, InFlight

(* A slot that comes to rest, or moves on to announcing, keeps its access. *)
LEMMA SlotMoves ==
    ASSUME TypeOK, NEW s \in Slots, NEW u \in Slots,
           SlotAccess(u),
           \/ call' = [call EXCEPT ![s] = Idle]
           \/ call[s].pc = "waiting" /\ call' = [call EXCEPT ![s].pc = "announcing"],
           UNCHANGED <<agent, verified, customer_id>>,
           step_up_verified => step_up_verified'
    PROVE  SlotAccess(u)'
<1>1. call \in [Slots -> CallSet]
  BY DEF TypeOK, CallSet, ToolSet, PcSet
<1>2. /\ InFlight(u)' => InFlight(u) /\ call'[u].customer = call[u].customer
      /\ call'[u].pc # "idle" => call[u].pc # "idle" /\ call'[u].tool = call[u].tool
  BY <1>1 DEF InFlight, Idle, CallSet, PcSet
<1>3. InFlight(u)' => call'[u].pc # "idle"
  BY DEF InFlight
<1>4. QED
  BY <1>2, <1>3 DEF SlotAccess, effective_step_up_mode

LEMMA AccessNext == TypeOK /\ AccessInv /\ [Next]_vars => AccessInv'
<1> SUFFICES ASSUME TypeOK, AccessInv, [Next]_vars PROVE AccessInv'
  OBVIOUS
<1>0. SessionAccess /\ \A s \in Slots : SlotAccess(s)
  BY AccessInvParts
<1> SUFFICES SessionAccess' /\ \A u \in Slots : SlotAccess(u)'
  BY DEF AccessInv, SessionAccess, SlotAccess, AccountRequestsAuthorised
<1>t. call \in [Slots -> CallSet]
  BY DEF TypeOK, CallSet, ToolSet, PcSet
<1>1. ASSUME NEW s \in Slots, NEW t \in Tools, Start(s, t)
      PROVE  SessionAccess' /\ \A u \in Slots : SlotAccess(u)'
  <2>1. SessionAccess'
    BY <1>0, <1>1 DEF Start, SessionAccess, authVars, stepUpVars
  <2>2. ASSUME NEW u \in Slots PROVE SlotAccess(u)'
    <3>1. CASE u # s
      BY <3>1, <1>0, <1>1, <1>t
      DEF Start, SlotAccess, InFlight, authVars, stepUpVars, effective_step_up_mode
    <3>2. CASE u = s
      <4>1. call'[u].pc = "started" /\ call'[u].tool = t
        BY <3>2, <1>1, <1>t DEF Start, CallSet
      <4>2. t = "verify_identity" => agent = "identity"
        BY <1>1, SessionAssumption
        DEF Start, ToolsOf, SupportTools, ReadTools, ActionTools, StepUpToolsKept, StepUpTools
      <4>3. t \in AccountTools => agent = "banking"
        BY <1>1
        DEF Start, ToolsOf, SupportTools, AccountTools, ReadTools, ActionTools,
            StepUpTools, TypeOK
      <4>4. QED BY <4>1, <4>2, <4>3, <1>1 DEF Start, SlotAccess, InFlight
    <3>3. QED BY <3>1, <3>2
  <2>3. QED BY <2>1, <2>2
<1>2. ASSUME NEW s \in Slots,
             Refuse(s) \/ Answered(s) \/ ReplyFailed(s) \/ Announced(s)
               \/ Cancelled(s) \/ HungUp(s) \/ Escalated(s) \/ IdentityRejected(s)
               \/ StepUpRejected(s)
      PROVE  SessionAccess' /\ \A u \in Slots : SlotAccess(u)'
  <2>1. /\ UNCHANGED <<agent, handoff, verified, customer_id, step_up_verified>>
        /\ \/ call' = [call EXCEPT ![s] = Idle]
           \/ call[s].pc = "waiting" /\ call' = [call EXCEPT ![s].pc = "announcing"]
    BY <1>2
    DEF Refuse, Answered, ReplyFailed, Announced, Cancelled, HungUp, Escalated,
        IdentityRejected, StepUpRejected, Finish, Fail, Announce, Waiting, authVars,
        stepUpVars
  <2>2. SessionAccess'
    BY <2>1, <1>0 DEF SessionAccess
  <2>3. QED BY <2>1, <2>2, <1>0, SlotMoves
<1>3. ASSUME NEW s \in Slots, Request(s)
      PROVE  SessionAccess' /\ \A u \in Slots : SlotAccess(u)'
  <2>1. SessionAccess'
    BY <1>0, <1>3 DEF Request, SessionAccess, authVars, stepUpVars
  <2>2. ASSUME NEW u \in Slots PROVE SlotAccess(u)'
    <3>1. CASE u # s
      BY <3>1, <1>0, <1>3, <1>t
      DEF Request, SlotAccess, InFlight, authVars, stepUpVars, effective_step_up_mode
    <3>2. CASE u = s
      <4>1. /\ call'[u].pc = "waiting"
            /\ call'[u].tool = call[u].tool
            /\ call'[u].customer = customer_id
            /\ call[u].pc = "started"
        BY <3>2, <1>3, <1>t DEF Request, CallSet
      <4>2. UNCHANGED <<agent, verified, customer_id, step_up_verified>>
        BY <1>3 DEF Request, authVars, stepUpVars
      <4>3. Admits(call[u].tool)
        BY <1>3, <3>2 DEF Request
      <4>4. call[u].tool \in AccountTools => verified
        BY <4>3 DEF Admits, action_admitted, AccountTools, require_read_access, require_step_up,
                    require_verified, code_exchange_open
      <4>5. call[u].tool \in ActionTools
              => effective_step_up_mode = "off" \/ step_up_verified
        BY <4>3 DEF Admits, action_admitted, require_step_up
      <4>6. call[u].tool \in ReadTools
              => effective_step_up_mode # "always" \/ step_up_verified
        BY <4>3 DEF Admits, require_read_access, require_step_up
      <4>7. SlotAccess(u)
        BY <1>0
      <4>8. QED
        BY <4>1, <4>2, <4>4, <4>5, <4>6, <4>7 DEF SlotAccess, effective_step_up_mode
    <3>3. QED BY <3>1, <3>2
  <2>3. QED BY <2>1, <2>2
<1>4. ASSUME NEW s \in Slots, NEW c \in Customers, IdentityConfirmed(s, c)
      PROVE  SessionAccess' /\ \A u \in Slots : SlotAccess(u)'
  <2>1. call[s].pc = "waiting" /\ call[s].tool = "verify_identity"
    BY <1>4 DEF IdentityConfirmed, Waiting
  <2>2. agent = "identity" /\ ~step_up_verified
    BY <2>1, <1>0 DEF SlotAccess, SessionAccess
  <2>3. SessionAccess'
    BY <1>4, <1>0, <2>2, SessionAssumption
    DEF IdentityConfirmed, SessionAccess, stepUpVars
  <2>4. ASSUME NEW u \in Slots PROVE SlotAccess(u)'
    <3>1. call'[u].pc # "idle" => call[u].pc # "idle" /\ call'[u].tool = call[u].tool
      BY <1>4, <1>t, <2>1 DEF IdentityConfirmed, Announce, CallSet
    <3>2. call[u].pc # "idle" => call[u].tool \notin AccountTools
      BY <1>0, <2>2 DEF SlotAccess
    <3>3. InFlight(u)' => call'[u].pc # "idle"
      BY DEF InFlight
    <3>4. ActionTools \subseteq AccountTools /\ ReadTools \subseteq AccountTools
      BY DEF AccountTools
    <3>5. agent' = "identity"
      BY <1>4, <2>2 DEF IdentityConfirmed
    <3>6. QED BY <3>1, <3>2, <3>3, <3>4, <3>5 DEF SlotAccess
  <2>5. QED BY <2>3, <2>4
<1>5. ASSUME NEW s \in Slots, StepUpConfirmed(s)
      PROVE  SessionAccess' /\ \A u \in Slots : SlotAccess(u)'
  <2>1. call[s].pc = "waiting" /\ call[s].tool = "verify_step_up_code"
    BY <1>5 DEF StepUpConfirmed, Waiting
  <2>2. agent = "banking"
    BY <2>1, <1>0 DEF SlotAccess, AccountTools, StepUpTools
  <2>3. SessionAccess'
    BY <1>5, <1>0, <2>2 DEF StepUpConfirmed, SessionAccess, authVars
  <2>4. UNCHANGED <<agent, verified, customer_id>> /\ step_up_verified'
    BY <1>5 DEF StepUpConfirmed, authVars
  <2>5. call' = [call EXCEPT ![s].pc = "announcing"]
    BY <1>5 DEF StepUpConfirmed, Announce
  <2>6. QED BY <2>1, <2>3, <2>4, <2>5, <1>0, SlotMoves
<1>6. CASE Handoff
  <2>1. \A u \in Slots : call'[u].pc = "idle"
    BY <1>6 DEF Handoff, AllIdle
  <2>2. SessionAccess'
    BY <1>6, <1>0 DEF Handoff, SessionAccess, authVars, stepUpVars
  <2>3. QED BY <2>1, <2>2 DEF SlotAccess, InFlight
<1>7. ASSUME UNCHANGED <<agent, handoff, call, verified, customer_id, step_up_verified>>
      PROVE  SessionAccess' /\ \A u \in Slots : SlotAccess(u)'
  BY <1>7, <1>0 DEF SessionAccess, SlotAccess, InFlight, effective_step_up_mode
<1>8. CASE CallEnds \/ Shutdown \/ UNCHANGED vars
  BY <1>7, <1>8 DEF CallEnds, Shutdown, vars, authVars, stepUpVars
<1>9. QED
  BY <1>1, <1>2, <1>3, <1>4, <1>5, <1>6, <1>8 DEF Next, Tool, Reply, Done

(* The inductive invariant holds in every reachable state: the tools of    *)
(* the two agents never overlap, and the flags that admitted them stand.   *)
THEOREM AccessCorrect == Spec => []AccessInv
BY TypeCorrect, AccessInit, AccessNext, PTL DEF Spec

(* Every account request on its way to the bank was admitted for the       *)
(* customer who is verified now, at the tier the policy asks for.          *)
THEOREM RequestsAuthorised == Spec => []AccountRequestsAuthorised
<1>1. AccessInv => AccountRequestsAuthorised
  BY DEF AccessInv
<1>2. QED BY <1>1, AccessCorrect, PTL

(* Under the banking agent the customer never changes: by AccessInv no     *)
(* verify_identity runs then, and nothing else assigns customer_id.        *)
Pinned == agent = "banking" => agent' = "banking" /\ verified
                                 /\ customer_id' = customer_id

LEMMA PinnedNext == TypeOK /\ AccessInv /\ [Next]_vars => [Pinned]_vars
<1> SUFFICES ASSUME AccessInv, Next PROVE Pinned
  OBVIOUS
<1>1. agent = "banking" => verified
  BY DEF AccessInv
<1>2. ASSUME NEW s \in Slots, NEW c \in Customers, IdentityConfirmed(s, c)
      PROVE  agent = "identity"
  BY <1>2 DEF IdentityConfirmed, Waiting, AccessInv
<1>3. \/ \E s \in Slots, c \in Customers : IdentityConfirmed(s, c)
      \/ Handoff
      \/ UNCHANGED <<agent, customer_id>>
  BY DEF Next, Tool, Reply, Start, Refuse, Request, IdentityRejected,
         StepUpConfirmed, StepUpRejected, Escalated, HungUp, Answered, ReplyFailed,
         Announced, Cancelled, CallEnds, Shutdown, Done, vars, authVars
<1>4. Handoff /\ agent = "banking" => agent' = "banking" /\ customer_id' = customer_id
  BY DEF Handoff, authVars
<1>5. QED BY <1>1, <1>2, <1>3, <1>4 DEF Pinned

(* Once the banking agent holds the conversation, its customer stays.      *)
THEOREM CustomerNeverSwapped == Spec => CustomerPinned
<1>1. Spec => [][Pinned]_vars
  BY PinnedNext, TypeCorrect, AccessCorrect, PTL DEF Spec
<1>2. QED BY <1>1 DEF CustomerPinned, Pinned

-----------------------------------------------------------------------------
(* The session implements the access promise of TieredAuth.                *)

Working == [s \in Slots |-> IF InFlight(s) THEN KindOf(call[s].tool) ELSE "none"]

WorkKinds == {"read", "code", "action"}

-----------------------------------------------------------------------------
LEMMA KindOfTool ==
    ASSUME NEW t
    PROVE  /\ t \in ReadTools   <=> KindOf(t) = "read"
           /\ t \in StepUpTools <=> KindOf(t) = "code"
           /\ t \in ActionTools <=> KindOf(t) = "action"
           /\ t \notin AccountTools <=> KindOf(t) = "none"
           /\ KindOf(t) \in WorkKinds \union {"none"}
BY DEF KindOf, ReadTools, StepUpTools, ActionTools, AccountTools, WorkKinds

LEMMA RankOfTier ==
    /\ Access!Rank["none"] = 0
    /\ Access!Rank["identified"] = 1
    /\ Access!Rank["stepped_up"] = 2
BY DEF Access!Rank, Access!Tiers

(* A slot that is idle or has just started does no work on an account.     *)
LEMMA WorkUnchanged ==
    ASSUME TypeOK, NEW s \in Slots, NEW c \in CallSet,
           call' = [call EXCEPT ![s] = c],
           \/ ~InFlight(s) /\ c.pc \in {"idle", "started"}
           \/ InFlight(s) /\ c.pc = "announcing" /\ c.tool = call[s].tool
           \/ call[s].tool \notin AccountTools /\ c.pc = "idle"
           \/ ~InFlight(s) /\ c.tool \notin AccountTools
    PROVE  Working' = Working
<1>1. call \in [Slots -> CallSet]
  BY DEF TypeOK, CallSet, ToolSet, PcSet
<1>2. ASSUME NEW u \in Slots
      PROVE  (IF InFlight(u) THEN KindOf(call[u].tool) ELSE "none")'
               = IF InFlight(u) THEN KindOf(call[u].tool) ELSE "none"
  <2>1. CASE u # s
    BY <2>1, <1>1 DEF InFlight, KindOf
  <2>2. CASE u = s
    <3>1. call'[u] = c
      BY <2>2, <1>1
    <3>2. /\ call[u].tool \notin AccountTools => KindOf(call[u].tool) = "none"
          /\ c.tool \notin AccountTools => KindOf(c.tool) = "none"
      BY KindOfTool
    <3>3. InFlight(u)' <=> c.pc \in {"waiting", "announcing"}
      BY <3>1 DEF InFlight
    <3>4. KindOf(call[u].tool)' = KindOf(c.tool)
      BY <3>1 DEF KindOf
    <3>5. QED BY <2>2, <3>2, <3>3, <3>4
  <2>3. QED BY <2>1, <2>2
<1>3. QED BY <1>2 DEF Working

(* A tool that announces an event still works at what it worked at.        *)
LEMMA AnnouncingWorks ==
    ASSUME TypeOK, NEW s \in Slots, call[s].pc = "waiting",
           call' = [call EXCEPT ![s].pc = "announcing"]
    PROVE  Working' = Working
<1>1. call \in [Slots -> CallSet]
  BY DEF TypeOK, CallSet, ToolSet, PcSet
<1>2. [call[s] EXCEPT !.pc = "announcing"] \in CallSet
  BY <1>1 DEF CallSet, PcSet
<1>3. QED BY <1>1, <1>2, WorkUnchanged DEF InFlight, CallSet

(* A slot that becomes idle ends its work; one that asks the bank begins it.*)
LEMMA WorkEnds ==
    ASSUME TypeOK, NEW s \in Slots, call' = [call EXCEPT ![s] = Idle]
    PROVE  Working' = [Working EXCEPT ![s] = "none"]
<1>1. call \in [Slots -> CallSet]
  BY DEF TypeOK, CallSet, ToolSet, PcSet
<1>2. ASSUME NEW u \in Slots
      PROVE  (IF InFlight(u) THEN KindOf(call[u].tool) ELSE "none")'
               = IF u = s THEN "none" ELSE Working[u]
  BY <1>1 DEF Working, InFlight, KindOf, Idle
<1>3. QED BY <1>2 DEF Working

LEMMA WorkBegins ==
    ASSUME TypeOK, NEW s \in Slots, NEW c,
           call[s].pc = "started",
           call' = [call EXCEPT ![s].pc = "waiting", ![s].customer = c]
    PROVE  /\ Working[s] = "none"
           /\ Working' = [Working EXCEPT ![s] = KindOf(call[s].tool)]
<1>1. call \in [Slots -> CallSet]
  BY DEF TypeOK, CallSet, ToolSet, PcSet
<1>2. ASSUME NEW u \in Slots
      PROVE  (IF InFlight(u) THEN KindOf(call[u].tool) ELSE "none")'
               = IF u = s THEN KindOf(call[s].tool) ELSE Working[u]
  <2>1. CASE u # s
    BY <2>1, <1>1 DEF Working, InFlight, KindOf
  <2>2. CASE u = s
    <3>1. call'[u].pc = "waiting" /\ call'[u].tool = call[u].tool
      BY <2>2, <1>1 DEF CallSet
    <3>2. QED BY <2>2, <3>1 DEF InFlight, KindOf
  <2>3. QED BY <2>1, <2>2
<1>3. QED BY <1>2 DEF Working, InFlight

-----------------------------------------------------------------------------
(* With step-up off there is no code tool, and hence never a lock: that is  *)
(* why a lock may be said to stop actions under every policy.              *)
NoCodesWhenOff ==
    effective_step_up_mode = "off" =>
        /\ ~step_up_locked
        /\ \A s \in Slots : call[s].pc # "idle" => call[s].tool \notin StepUpTools

LEMMA NoCodesInit == Init => NoCodesWhenOff
BY DEF Init, NoCodesWhenOff, Idle

LEMMA NoCodesNext == TypeOK /\ NoCodesWhenOff /\ [Next]_vars => NoCodesWhenOff'
<1> SUFFICES ASSUME TypeOK, NoCodesWhenOff, [Next]_vars,
                    effective_step_up_mode = "off"
             PROVE  /\ ~step_up_locked'
                    /\ \A u \in Slots : call'[u].pc # "idle"
                                            => call'[u].tool \notin StepUpTools
  BY DEF NoCodesWhenOff, effective_step_up_mode
<1>0. /\ ~step_up_locked
      /\ \A u \in Slots : call[u].pc # "idle" => call[u].tool \notin StepUpTools
  BY DEF NoCodesWhenOff
<1>t. call \in [Slots -> CallSet]
  BY DEF TypeOK, CallSet, ToolSet, PcSet
<1>1. ASSUME NEW s \in Slots, NEW t \in Tools, Start(s, t)
      PROVE  ~step_up_locked' /\ \A u \in Slots : call'[u].pc # "idle"
                                            => call'[u].tool \notin StepUpTools
  <2>1. t \notin StepUpTools
    BY <1>1 DEF Start, ToolsOf, SupportTools, ReadTools, ActionTools, StepUpToolsKept,
                StepUpTools
  <2>2. QED BY <1>0, <1>1, <1>t, <2>1 DEF Start, stepUpVars
<1>2. ASSUME NEW s \in Slots, Refuse(s) \/ Request(s) \/ Reply(s) \/ Announced(s)
                                 \/ Cancelled(s)
      PROVE  ~step_up_locked' /\ \A u \in Slots : call'[u].pc # "idle"
                                            => call'[u].tool \notin StepUpTools
  <2>1. ~StepUpRejected(s)
    BY <1>0 DEF StepUpRejected, Waiting, StepUpTools
  <2>2. step_up_locked' = step_up_locked
    BY <1>2, <2>1
    DEF Refuse, Request, Reply, Announced, Cancelled, IdentityConfirmed, IdentityRejected,
        StepUpConfirmed, Escalated, HungUp, Answered, ReplyFailed, stepUpVars
  <2>3. /\ \A u \in Slots \ {s} : call'[u] = call[u]
        /\ call[s].pc # "idle"
        /\ call'[s].pc # "idle" => call'[s].tool = call[s].tool
    BY <1>2, <1>t
    DEF Refuse, Request, Reply, Announced, Cancelled, IdentityConfirmed, IdentityRejected,
        StepUpConfirmed, StepUpRejected, Escalated, HungUp, Answered, ReplyFailed,
        Finish, Fail, Announce, Waiting, Idle, CallSet
  <2>4. QED BY <1>0, <2>2, <2>3
<1>3. CASE Handoff \/ CallEnds \/ Shutdown \/ UNCHANGED vars
  BY <1>0, <1>3 DEF Handoff, CallEnds, Shutdown, vars, stepUpVars
<1>4. QED BY <1>1, <1>2, <1>3 DEF Next, Tool, Done

-----------------------------------------------------------------------------
LEMMA AccessStart == Init => Access!Init
BY DEF Init, Access!Init, Tier, InFlight, Idle

LEMMA AccessStep ==
    TypeOK /\ AccessInv /\ NoCodesWhenOff /\ [Next]_vars
        => [Access!Next]_(Access!authState)
<1> SUFFICES ASSUME TypeOK, AccessInv, NoCodesWhenOff, [Next]_vars
             PROVE  Access!Next \/ UNCHANGED Access!authState
  OBVIOUS
<1>t. call \in [Slots -> CallSet]
  BY DEF TypeOK, CallSet, ToolSet, PcSet
<1>a. SessionAccess /\ \A s \in Slots : SlotAccess(s)
  BY AccessInvParts
<1>0. ASSUME Working' = Working, Tier' = Tier, step_up_locked' = step_up_locked
      PROVE  UNCHANGED Access!authState
  BY <1>0 DEF Access!authState, Working
<1>e. ASSUME NEW s \in Slots, Working' = [Working EXCEPT ![s] = "none"],
             Tier' = Tier, step_up_locked' = step_up_locked
      PROVE  Access!Next
  BY <1>e DEF Access!Next, Access!End, Working
<1>1. ASSUME NEW s \in Slots, NEW t \in Tools, Start(s, t)
      PROVE  UNCHANGED Access!authState
  <2>1. [tool |-> t, pc |-> "started", customer |-> NoCustomer] \in CallSet
    BY SessionAssumption DEF CallSet, ToolSet, PcSet
  <2>2. Working' = Working
    BY <1>1, <2>1, WorkUnchanged DEF Start, InFlight
  <2>3. QED BY <1>0, <1>1, <2>2 DEF Start, Tier, authVars, stepUpVars
<1>2. ASSUME NEW s \in Slots,
             Refuse(s) \/ Answered(s) \/ ReplyFailed(s) \/ Announced(s)
               \/ Cancelled(s) \/ HungUp(s)
      PROVE  Access!Next
  <2>1. call' = [call EXCEPT ![s] = Idle]
    BY <1>2 DEF Refuse, Answered, ReplyFailed, Announced, Cancelled, HungUp, Finish, Fail
  <2>2. Tier' = Tier /\ step_up_locked' = step_up_locked
    BY <1>2 DEF Refuse, Answered, ReplyFailed, Announced, Cancelled, HungUp, Tier,
                authVars, stepUpVars
  <2>3. QED BY <1>e, <2>1, <2>2, WorkEnds
<1>3. ASSUME NEW s \in Slots, Request(s)
      PROVE  Access!Next \/ UNCHANGED Access!authState
  <2> DEFINE k == KindOf(call[s].tool)
  <2>1. Working[s] = "none" /\ Working' = [Working EXCEPT ![s] = k]
    BY <1>3, WorkBegins DEF Request
  <2>2. Tier' = Tier /\ step_up_locked' = step_up_locked
    BY <1>3 DEF Request, Tier, authVars, stepUpVars
  <2>3. CASE k = "none"
    <3>1. Working' = Working
      BY <2>1, <2>3 DEF Working
    <3>2. QED BY <1>0, <2>2, <3>1
  <2>4. CASE k # "none"
    <3>1. k \in WorkKinds
      BY <2>4, KindOfTool
    <3>2. Admits(call[s].tool) /\ verified
      BY <1>3, <2>4, KindOfTool
      DEF Request, Admits, action_admitted, AccountTools, require_read_access, require_step_up,
          require_verified, code_exchange_open
    <3>3. Access!Allowed(k)
      <4>1. CASE k = "read"
        BY <4>1, <3>2, KindOfTool, RankOfTier
        DEF Access!Allowed, Admits, require_read_access, require_step_up,
            require_verified, Tier, WorkNeeds, TierAfter, LockStops,
            effective_step_up_mode
      <4>2. CASE k = "code"
        BY <4>2, <3>2, KindOfTool, RankOfTier
        DEF Access!Allowed, Admits, code_exchange_open, require_verified, Tier,
            WorkNeeds, TierAfter
      <4>3. CASE k = "action"
        BY <4>3, <3>2, KindOfTool, RankOfTier
        DEF Access!Allowed, Admits, action_admitted, require_step_up, require_verified, Tier,
            WorkNeeds, TierAfter, NoCodesWhenOff
      <4>4. QED BY <3>1, <4>1, <4>2, <4>3 DEF WorkKinds
    <3>4. Access!Begin(s, k)
      BY <2>1, <2>2, <3>3 DEF Access!Begin, Working
    <3>5. QED BY <3>1, <3>4 DEF Access!Next, WorkKinds
  <2>5. QED BY <2>3, <2>4
<1>4. ASSUME NEW s \in Slots, NEW c \in Customers, IdentityConfirmed(s, c)
      PROVE  Access!Next \/ UNCHANGED Access!authState
  <2>1. /\ Waiting(s, "verify_identity")
        /\ call' = [call EXCEPT ![s].pc = "announcing"]
    BY <1>4 DEF IdentityConfirmed, Announce
  <2>2. Working' = Working
    BY <2>1, AnnouncingWorks DEF Waiting
  <2>3. ~step_up_verified
    BY <2>1, <1>a DEF SlotAccess, SessionAccess, Waiting
  <2>4. verified' /\ UNCHANGED <<step_up_verified, step_up_locked>>
    BY <1>4 DEF IdentityConfirmed, stepUpVars
  <2>5. CASE verified
    BY <2>2, <2>4, <2>5, <1>0 DEF Tier
  <2>6. CASE ~verified
    <3>1. Tier = "none" /\ Tier' = "identified"
      BY <2>3, <2>4, <2>6 DEF Tier
    <3>2. Access!Climb("identified")
      BY <2>2, <2>4, <3>1, RankOfTier DEF Access!Climb, Working
    <3>3. QED BY <3>2 DEF Access!Next, Access!Tiers
  <2>7. QED BY <2>5, <2>6
<1>5. ASSUME NEW s \in Slots, StepUpConfirmed(s)
      PROVE  Access!Next \/ UNCHANGED Access!authState
  <2>1. /\ Waiting(s, "verify_step_up_code")
        /\ call' = [call EXCEPT ![s].pc = "announcing"]
    BY <1>5 DEF StepUpConfirmed, Announce
  <2>2. Working' = Working
    BY <2>1, AnnouncingWorks DEF Waiting
  <2>3. verified
    BY <2>1, <1>a DEF SlotAccess, Waiting, InFlight, AccountTools, StepUpTools
  <2>4. step_up_verified' /\ verified' = verified /\ step_up_locked' = step_up_locked
    BY <1>5 DEF StepUpConfirmed, authVars
  <2>5. CASE step_up_verified
    BY <2>2, <2>4, <2>5, <1>0 DEF Tier
  <2>6. CASE ~step_up_verified
    <3>1. Tier = "identified" /\ Tier' = "stepped_up"
      BY <2>3, <2>4, <2>6 DEF Tier
    <3>2. Access!Climb("stepped_up")
      BY <2>2, <2>4, <3>1, RankOfTier DEF Access!Climb, Working
    <3>3. QED BY <3>2 DEF Access!Next, Access!Tiers
  <2>7. QED BY <2>5, <2>6
<1>6. ASSUME NEW s \in Slots, StepUpRejected(s)
      PROVE  Access!Next \/ UNCHANGED Access!authState
  <2>1. Waiting(s, "verify_step_up_code")
    BY <1>6 DEF StepUpRejected
  <2>2. Tier' = Tier
    BY <1>6 DEF StepUpRejected, Tier, authVars
  <2>3. verified
    BY <2>1, <1>a DEF SlotAccess, Waiting, InFlight, AccountTools, StepUpTools
  <2>4. CASE /\ call' = [call EXCEPT ![s].pc = "announcing"]
             /\ step_up_locked' = TRUE
    <3>1. Working' = Working
      BY <2>1, <2>4, AnnouncingWorks DEF Waiting
    <3>2. Tier # "none"
      BY <2>3 DEF Tier
    <3>3. Access!Lock
      BY <2>2, <2>4, <3>1, <3>2 DEF Access!Lock, Working
    <3>4. QED BY <3>3 DEF Access!Next
  <2>5. CASE /\ call' = [call EXCEPT ![s] = Idle]
             /\ step_up_locked' = step_up_locked
    BY <2>2, <2>5, <1>e, WorkEnds
  <2>6. QED BY <1>6, <2>4, <2>5 DEF StepUpRejected, Announce, Finish
<1>7. ASSUME NEW s \in Slots, IdentityRejected(s) \/ Escalated(s)
      PROVE  Access!Next \/ UNCHANGED Access!authState
  <2>1. Waiting(s, "verify_identity") \/ Waiting(s, "escalate_to_human")
    BY <1>7 DEF IdentityRejected, Escalated
  <2>2. Tier' = Tier /\ step_up_locked' = step_up_locked
    BY <1>7 DEF IdentityRejected, Escalated, Tier, authVars, stepUpVars
  <2>3. CASE call' = [call EXCEPT ![s].pc = "announcing"]
    BY <2>1, <2>2, <2>3, <1>0, AnnouncingWorks DEF Waiting
  <2>4. CASE call' = [call EXCEPT ![s] = Idle]
    BY <2>2, <2>4, <1>e, WorkEnds
  <2>5. QED BY <1>7, <2>3, <2>4 DEF IdentityRejected, Escalated, Announce, Finish
<1>8. CASE Handoff \/ CallEnds \/ Shutdown \/ UNCHANGED vars
  <2>1. UNCHANGED <<call, verified, step_up_verified, step_up_locked>>
    BY <1>8 DEF Handoff, CallEnds, Shutdown, vars, authVars, stepUpVars
  <2>2. Working' = Working
    BY <2>1 DEF Working, InFlight, KindOf
  <2>3. QED BY <2>1, <2>2, <1>0 DEF Tier
<1>9. QED
  BY <1>1, <1>2, <1>3, <1>4, <1>5, <1>6, <1>7, <1>8 DEF Next, Tool, Reply, Done

(* Work on an account begins only at its tier and, where a lock stops it,  *)
(* never after the lock, however the tools of a turn interleave: every     *)
(* session is a behaviour of TieredAuth.                                   *)
THEOREM AccessImplemented == Spec => ImplementsAccess
BY TypeCorrect, AccessCorrect, NoCodesInit, NoCodesNext, AccessStart, AccessStep, PTL
DEF Spec, ImplementsAccess, Access!Spec

-----------------------------------------------------------------------------
(* The event log, the counters and the record tell one story.             *)

(* The steps of a tool that touch neither a lock nor its attempts.         *)
Quiet(s) ==
    \/ Refuse(s) \/ Request(s) \/ Answered(s) \/ ReplyFailed(s) \/ HungUp(s)
    \/ Announced(s) \/ Cancelled(s) \/ \E t \in Tools : Start(s, t)

LEMMA NextCases ==
    ASSUME [Next]_vars
    PROVE  \/ \E s \in Slots : Quiet(s) \/ IdentityRejected(s) \/ StepUpConfirmed(s)
                                 \/ StepUpRejected(s) \/ Escalated(s)
                                 \/ \E c \in Customers : IdentityConfirmed(s, c)
           \/ Shutdown
           \/ Handoff \/ CallEnds \/ UNCHANGED vars
BY DEF Next, Tool, Reply, Done, Quiet

(* A quiet step logs a tool event or nothing.                              *)
LEMMA QuietLogs ==
    ASSUME TypeOK, NEW s \in Slots, Quiet(s)
    PROVE  /\ UNCHANGED <<authVars, stepUpVars, escalated, record>>
           /\ \A e \in {"identity_verified", "step_up_verified", "escalation",
                        "security_lockout"} : events'[e] = events[e]
BY DEF Quiet, Refuse, Request, Answered, ReplyFailed, HungUp, Announced, Cancelled, Start,
       Finish, Fail, Logged, TypeOK, EventTypes, authVars, stepUpVars

LEMMA LogsOne ==
    ASSUME TypeOK, NEW e \in EventTypes, events' = Logged(events, e)
    PROVE  /\ events'[e] = events[e] + 1
           /\ \A other \in EventTypes \ {e} : events'[other] = events[other]
BY DEF Logged, TypeOK

-----------------------------------------------------------------------------
(* Locks and lockout events.                                               *)

LEMMA LockoutsInit == Init => LockoutsAnnounced
BY SessionAssumption
DEF Init, LockoutsAnnounced, IdentityLockouts, StepUpLockouts, EventTypes

LEMMA LockoutsNext == TypeOK /\ LockoutsAnnounced /\ [Next]_vars => LockoutsAnnounced'
<1> SUFFICES ASSUME TypeOK, LockoutsAnnounced, [Next]_vars PROVE LockoutsAnnounced'
  OBVIOUS
<1>t. /\ failed_verification_attempts \in Nat /\ locked_out \in BOOLEAN
      /\ failed_step_up_attempts \in Nat /\ step_up_locked \in BOOLEAN
      /\ events["security_lockout"] \in Nat
      /\ MAX_VERIFICATION_ATTEMPTS \in Nat \ {0} /\ MAX_STEP_UP_ATTEMPTS \in Nat \ {0}
  BY SessionAssumption DEF TypeOK, EventTypes
<1>0. ASSUME UNCHANGED <<failed_verification_attempts, locked_out,
                         failed_step_up_attempts, step_up_locked>>,
             events'["security_lockout"] = events["security_lockout"]
      PROVE  LockoutsAnnounced'
  BY <1>0 DEF LockoutsAnnounced, IdentityLockouts, StepUpLockouts
<1>1. ASSUME NEW s \in Slots, Quiet(s) PROVE LockoutsAnnounced'
  BY <1>0, <1>1, QuietLogs DEF authVars, stepUpVars
<1>2. ASSUME NEW s \in Slots, NEW c \in Customers, IdentityConfirmed(s, c)
      PROVE  LockoutsAnnounced'
  BY <1>0, <1>2, LogsOne DEF IdentityConfirmed, Announce, EventTypes, stepUpVars
<1>3. ASSUME NEW s \in Slots, StepUpConfirmed(s) \/ Escalated(s)
      PROVE  LockoutsAnnounced'
  BY <1>0, <1>3, LogsOne
  DEF StepUpConfirmed, Escalated, Announce, EventTypes, authVars, stepUpVars
<1>4. ASSUME NEW s \in Slots, IdentityRejected(s) PROVE LockoutsAnnounced'
  <2>1. UNCHANGED <<failed_step_up_attempts, step_up_locked>>
    BY <1>4 DEF IdentityRejected, stepUpVars
  <2>2. events'["security_lockout"]
          = IF locked_out' /\ ~locked_out THEN events["security_lockout"] + 1
                                          ELSE events["security_lockout"]
    BY <1>4, LogsOne DEF IdentityRejected, Announce, Finish, EventTypes
  <2>3. /\ failed_verification_attempts' = failed_verification_attempts + 1
        /\ locked_out' <=> (locked_out \/ failed_verification_attempts'
                                            >= MAX_VERIFICATION_ATTEMPTS)
    BY <1>4, Zenon DEF IdentityRejected
  <2>4. locked_out' <=> failed_verification_attempts' >= MAX_VERIFICATION_ATTEMPTS
    BY <2>3, <1>t DEF LockoutsAnnounced
  <2>5. locked_out => locked_out'
    BY <2>3
  <2>6. QED
    BY <2>1, <2>2, <2>4, <2>5, <1>t DEF LockoutsAnnounced, IdentityLockouts, StepUpLockouts
<1>5. ASSUME NEW s \in Slots, StepUpRejected(s) PROVE LockoutsAnnounced'
  <2>1. UNCHANGED <<failed_verification_attempts, locked_out>>
    BY <1>5 DEF StepUpRejected, authVars
  <2>2. failed_step_up_attempts' = failed_step_up_attempts + 1
    BY <1>5 DEF StepUpRejected
  <2>3. CASE failed_step_up_attempts' >= MAX_STEP_UP_ATTEMPTS
    <3>1. step_up_locked' = TRUE
          /\ events'["security_lockout"] = events["security_lockout"] + 1
      BY <1>5, <2>3, LogsOne DEF StepUpRejected, Announce, EventTypes
    <3>2. QED
      BY <2>1, <2>2, <2>3, <3>1, <1>t
      DEF LockoutsAnnounced, IdentityLockouts, StepUpLockouts
  <2>4. CASE ~(failed_step_up_attempts' >= MAX_STEP_UP_ATTEMPTS)
    <3>1. step_up_locked' = step_up_locked
          /\ events'["security_lockout"] = events["security_lockout"]
      BY <1>5, <2>4, LogsOne DEF StepUpRejected, Finish, EventTypes
    <3>2. QED
      BY <2>1, <2>2, <2>4, <3>1, <1>t
      DEF LockoutsAnnounced, IdentityLockouts, StepUpLockouts
  <2>5. QED BY <2>3, <2>4
<1>6. CASE Handoff \/ CallEnds \/ Shutdown \/ UNCHANGED vars
  BY <1>0, <1>6 DEF Handoff, CallEnds, Shutdown, vars, authVars, stepUpVars
<1>7. QED BY <1>1, <1>2, <1>3, <1>4, <1>5, <1>6, NextCases

(* Locks and lockout events agree, however many tools fail side by side:   *)
(* one event for the identity lockout, one for each rejection past the     *)
(* limit of the codes.                                                     *)
THEOREM LockoutsAlwaysAnnounced == Spec => []LockoutsAnnounced
BY TypeCorrect, LockoutsInit, LockoutsNext, PTL DEF Spec

-----------------------------------------------------------------------------
(* Flags, log and record.                                                  *)

(* RecordConsistent is inductive together with the agreement of flags and  *)
(* log it copies; step-up is locked only for a verified caller.            *)
FlagsLogged ==
    /\ escalated <=> events["escalation"] > 0
    /\ verified <=> events["identity_verified"] > 0
    /\ step_up_verified <=> events["step_up_verified"] > 0
    /\ step_up_locked => verified

LEMMA FlagsInit == Init => FlagsLogged /\ RecordConsistent
BY DEF Init, FlagsLogged, RecordConsistent, EventTypes

LEMMA FlagsNext ==
    TypeOK /\ AccessInv /\ FlagsLogged /\ [Next]_vars => FlagsLogged'
<1> SUFFICES ASSUME TypeOK, AccessInv, FlagsLogged, [Next]_vars PROVE FlagsLogged'
  OBVIOUS
<1>t. \A e \in {"escalation", "identity_verified", "step_up_verified"} :
          e \in EventTypes /\ events[e] \in Nat
  BY DEF TypeOK, EventTypes
<1>0. ASSUME UNCHANGED <<verified, step_up_verified, step_up_locked, escalated>>,
             \A e \in {"escalation", "identity_verified", "step_up_verified"} :
                 events'[e] = events[e]
      PROVE  FlagsLogged'
  BY <1>0 DEF FlagsLogged
<1>1. ASSUME NEW s \in Slots, Quiet(s) PROVE FlagsLogged'
  BY <1>0, <1>1, QuietLogs DEF authVars, stepUpVars
<1>2. ASSUME NEW s \in Slots, NEW c \in Customers, IdentityConfirmed(s, c)
      PROVE  FlagsLogged'
  <2>1. /\ events'["identity_verified"] = events["identity_verified"] + 1
        /\ events'["escalation"] = events["escalation"]
        /\ events'["step_up_verified"] = events["step_up_verified"]
    BY <1>2, LogsOne DEF IdentityConfirmed, Announce, EventTypes
  <2>2. verified' /\ UNCHANGED <<step_up_verified, step_up_locked, escalated>>
    BY <1>2 DEF IdentityConfirmed, stepUpVars
  <2>3. QED BY <2>1, <2>2, <1>t DEF FlagsLogged
<1>3. ASSUME NEW s \in Slots, StepUpConfirmed(s) PROVE FlagsLogged'
  <2>1. /\ events'["step_up_verified"] = events["step_up_verified"] + 1
        /\ events'["escalation"] = events["escalation"]
        /\ events'["identity_verified"] = events["identity_verified"]
    BY <1>3, LogsOne DEF StepUpConfirmed, Announce, EventTypes
  <2>2. step_up_verified' /\ UNCHANGED <<verified, step_up_locked, escalated>>
    BY <1>3 DEF StepUpConfirmed, authVars
  <2>3. QED BY <2>1, <2>2, <1>t DEF FlagsLogged
<1>4. ASSUME NEW s \in Slots, Escalated(s) PROVE FlagsLogged'
  <2>1. /\ events'["escalation"] = events["escalation"] + 1
        /\ events'["step_up_verified"] = events["step_up_verified"]
        /\ events'["identity_verified"] = events["identity_verified"]
    BY <1>4, LogsOne DEF Escalated, Announce, EventTypes
  <2>2. escalated' /\ UNCHANGED <<verified, step_up_verified, step_up_locked>>
    BY <1>4 DEF Escalated, authVars, stepUpVars
  <2>3. QED BY <2>1, <2>2, <1>t DEF FlagsLogged
<1>5. ASSUME NEW s \in Slots, IdentityRejected(s) PROVE FlagsLogged'
  <2>1. \A e \in {"escalation", "identity_verified", "step_up_verified"} :
            events'[e] = events[e]
    BY <1>5, LogsOne DEF IdentityRejected, Announce, Finish, EventTypes
  <2>2. QED BY <1>0, <1>5, <2>1 DEF IdentityRejected, stepUpVars
<1>6. ASSUME NEW s \in Slots, StepUpRejected(s) PROVE FlagsLogged'
  <2>1. \A e \in {"escalation", "identity_verified", "step_up_verified"} :
            events'[e] = events[e]
    BY <1>6, LogsOne DEF StepUpRejected, Announce, Finish, EventTypes
  <2>2. verified
    BY <1>6 DEF StepUpRejected, Waiting, AccessInv, AccountRequestsAuthorised, InFlight,
                AccountTools, StepUpTools
  <2>3. UNCHANGED <<verified, step_up_verified, escalated>>
    BY <1>6 DEF StepUpRejected, authVars
  <2>4. QED BY <2>1, <2>2, <2>3 DEF FlagsLogged
<1>7. CASE Handoff \/ CallEnds \/ Shutdown \/ UNCHANGED vars
  BY <1>0, <1>7 DEF Handoff, CallEnds, Shutdown, vars, authVars, stepUpVars
<1>8. QED BY <1>1, <1>2, <1>3, <1>4, <1>5, <1>6, <1>7, NextCases

(* What build_call_record puts together is consistent at any moment.       *)
LEMMA RecordBuilt ==
    ASSUME TypeOK, AccessInv, LockoutsAnnounced, FlagsLogged, record' = build_call_record
    PROVE  RecordConsistent'
<1>1. /\ record'.outcome = derive_outcome /\ record'.events = events
      /\ record'.verified = verified /\ record'.step_up_verified = step_up_verified
  BY DEF build_call_record
<1>2. /\ derive_outcome = "escalated" <=> escalated
      /\ derive_outcome = "verification_failed" => locked_out
      /\ derive_outcome = "contained" => verified
      /\ derive_outcome = "abandoned" => ~escalated /\ ~locked_out /\ ~verified
  BY DEF derive_outcome
<1>3. step_up_verified => verified
  BY DEF AccessInv
<1>4. /\ locked_out => events["security_lockout"] > 0
      /\ ~locked_out /\ ~step_up_locked => events["security_lockout"] = 0
  <2>1. failed_step_up_attempts \in Nat /\ MAX_STEP_UP_ATTEMPTS \in Nat \ {0}
    BY SessionAssumption DEF TypeOK
  <2>2. QED BY <2>1 DEF LockoutsAnnounced, IdentityLockouts, StepUpLockouts
<1>5. QED BY <1>1, <1>2, <1>3, <1>4 DEF FlagsLogged, RecordConsistent

LEMMA RecordNext ==
    /\ TypeOK /\ AccessInv /\ LockoutsAnnounced /\ FlagsLogged /\ RecordConsistent
    /\ [Next]_vars
    => RecordConsistent'
<1> SUFFICES ASSUME TypeOK, AccessInv, LockoutsAnnounced, FlagsLogged,
                    RecordConsistent, [Next]_vars
             PROVE  RecordConsistent'
  OBVIOUS
<1>1. CASE Shutdown
  BY <1>1, RecordBuilt DEF Shutdown
<1>2. CASE record' = record
  BY <1>2 DEF RecordConsistent
<1>3. ASSUME NEW s \in Slots, Quiet(s) PROVE record' = record
  BY <1>3, QuietLogs
<1>4. ASSUME NEW s \in Slots,
             \/ IdentityRejected(s) \/ StepUpConfirmed(s) \/ StepUpRejected(s)
             \/ Escalated(s) \/ \E c \in Customers : IdentityConfirmed(s, c)
      PROVE  record' = record
  BY <1>4 DEF IdentityRejected, StepUpConfirmed, StepUpRejected, Escalated,
              IdentityConfirmed
<1>5. CASE Handoff \/ CallEnds \/ UNCHANGED vars
  BY <1>2, <1>5 DEF Handoff, CallEnds, vars
<1>6. QED BY <1>1, <1>2, <1>3, <1>4, <1>5, NextCases

(* The record that is posted agrees with the events it copies, whatever    *)
(* tools are in the middle of their work when it is built.                 *)
THEOREM RecordTellsOneStory == Spec => []RecordConsistent
BY TypeCorrect, AccessCorrect, LockoutsAlwaysAnnounced, FlagsInit, FlagsNext, RecordNext,
   PTL DEF Spec

-----------------------------------------------------------------------------
(* Started events and the tools still running.                             *)

LEMMA RunningMoves ==
    ASSUME TypeOK, NEW s \in Slots, NEW c \in CallSet, call' = [call EXCEPT ![s] = c]
    PROVE  /\ Cardinality(Running) \in Nat /\ Cardinality(Running') \in Nat
           /\ call[s].pc = "idle" /\ c.pc # "idle"
                => Cardinality(Running') = Cardinality(Running) + 1
           /\ call[s].pc # "idle" /\ c.pc = "idle"
                => Cardinality(Running') = Cardinality(Running) - 1
           /\ (call[s].pc = "idle" <=> c.pc = "idle")
                => Cardinality(Running') = Cardinality(Running)
<1>1. call \in [Slots -> CallSet]
  BY DEF TypeOK, CallSet, ToolSet, PcSet
<1>2. IsFiniteSet(Running)
  BY SessionAssumption, FS_Subset DEF Running
<1>3. IsFiniteSet(Running \union {s}) /\ IsFiniteSet(Running \ {s})
  BY <1>2, FS_AddElement, FS_RemoveElement
<1>4. /\ call'[s] = c
      /\ \A u \in Slots \ {s} : call'[u] = call[u]
  BY <1>1
<1>5. Running' = IF c.pc = "idle" THEN Running \ {s} ELSE Running \union {s}
  BY <1>4 DEF Running
<1>6. s \in Running <=> call[s].pc # "idle"
  BY DEF Running
<1>7. Cardinality(Running) \in Nat
  BY <1>2, FS_CardinalityType
<1>8. Cardinality(Running') \in Nat
  BY <1>3, <1>5, FS_CardinalityType
<1>9. CASE c.pc = "idle"
  <2>1. Cardinality(Running')
          = IF s \in Running THEN Cardinality(Running) - 1 ELSE Cardinality(Running)
    BY <1>2, <1>5, <1>9, FS_RemoveElement
  <2>2. QED BY <1>6, <1>7, <1>8, <1>9, <2>1
<1>10. CASE c.pc # "idle"
  <2>1. Cardinality(Running')
          = IF s \in Running THEN Cardinality(Running) ELSE Cardinality(Running) + 1
    BY <1>2, <1>5, <1>10, FS_AddElement
  <2>2. QED BY <1>6, <1>7, <1>8, <1>10, <2>1
<1>11. QED BY <1>9, <1>10

LEMMA MatchedInit == Init => StartedEventsMatched
<1> SUFFICES ASSUME Init PROVE StartedEventsMatched
  OBVIOUS
<1>1. Running = {}
  BY DEF Init, Idle, Running
<1>2. Cardinality(Running) = 0
  BY <1>1, FS_EmptySet
<1>3. QED BY <1>2 DEF Init, StartedEventsMatched, Accounted, EventTypes

LEMMA MatchedNext == TypeOK /\ StartedEventsMatched /\ [Next]_vars => StartedEventsMatched'
<1> SUFFICES ASSUME TypeOK, StartedEventsMatched, [Next]_vars PROVE StartedEventsMatched'
  OBVIOUS
<1> DEFINE Started  == events["tool_call_started"]
           Finished == events["tool_call_finished"]
           Failed   == events["tool_call_failed"]
           N        == Cardinality(Running)
<1>t. /\ Started \in Nat /\ Finished \in Nat /\ Failed \in Nat
      /\ call \in [Slots -> CallSet]
      /\ {"tool_call_started", "tool_call_finished", "tool_call_failed"} \subseteq EventTypes
  BY DEF TypeOK, EventTypes, CallSet, ToolSet, PcSet
<1>n. N \in Nat
  BY SessionAssumption, FS_Subset, FS_CardinalityType DEF Running
<1>0. ASSUME N' \in Nat, UNCHANGED <<Started, Finished, Failed, N>>,
             room = "live" \/ room' = room
      PROVE  StartedEventsMatched'
  BY <1>0, <1>t DEF StartedEventsMatched, Accounted, TypeOK
<1>1. ASSUME NEW s \in Slots, NEW t \in Tools, Start(s, t) PROVE StartedEventsMatched'
  <2> DEFINE c == [tool |-> t, pc |-> "started", customer |-> NoCustomer]
  <2>1. c \in CallSet
    BY SessionAssumption DEF CallSet, ToolSet, PcSet
  <2>2. call' = [call EXCEPT ![s] = c] /\ call[s].pc = "idle" /\ c.pc # "idle"
    BY <1>1 DEF Start
  <2>3. N' = N + 1
    BY ONLY TypeOK, <2>1, <2>2, RunningMoves
  <2>4. Started' = Started + 1 /\ Finished' = Finished /\ Failed' = Failed
    BY <1>1, <1>t, LogsOne DEF Start
  <2>5. room' = room
    BY <1>1 DEF Start
  <2>6. QED BY <2>3, <2>4, <2>5, <1>t, <1>n DEF StartedEventsMatched, Accounted
<1>2. ASSUME NEW s \in Slots, call[s].pc # "idle", Finish(s) \/ Fail(s),
             room' \in {room, "closed"}
      PROVE  StartedEventsMatched'
  <2>1. N' = N - 1 /\ N' \in Nat
    BY <1>2, IdleType, RunningMoves DEF Finish, Fail, Idle
  <2>2. /\ Started' = Started
        /\ \/ Finished' = Finished + 1 /\ Failed' = Failed
           \/ Finished' = Finished /\ Failed' = Failed + 1
    BY <1>2, <1>t, LogsOne DEF Finish, Fail
  <2>3. QED BY <2>1, <2>2, <1>2, <1>t, <1>n DEF StartedEventsMatched, Accounted
<1>3. ASSUME NEW s \in Slots, call[s].pc = "waiting", room' = room,
             NEW e \in EventTypes \ {"tool_call_started", "tool_call_finished",
                                     "tool_call_failed"},
             Announce(s, e)
      PROVE  StartedEventsMatched'
  <2> DEFINE c == [call[s] EXCEPT !.pc = "announcing"]
  <2>1. c \in CallSet /\ c.pc = "announcing"
    BY <1>t DEF CallSet, PcSet
  <2>2. call' = [call EXCEPT ![s] = c]
    BY <1>3 DEF Announce
  <2>3. N' = N /\ N' \in Nat
    BY <2>1, <2>2, <1>3, RunningMoves
  <2>4. UNCHANGED <<Started, Finished, Failed>>
    BY <1>3, <1>t, LogsOne DEF Announce
  <2>5. QED BY <2>3, <2>4, <1>0, <1>3
<1>4. ASSUME NEW s \in Slots, Request(s) PROVE StartedEventsMatched'
  <2> DEFINE c == [call[s] EXCEPT !.pc = "waiting", !.customer = customer_id]
  <2>1. c \in CallSet /\ c.pc = "waiting"
    BY <1>t DEF CallSet, PcSet, TypeOK
  <2>2. call' = [call EXCEPT ![s] = c] /\ call[s].pc # "idle"
    BY <1>4 DEF Request
  <2>3. N' = N /\ N' \in Nat
    BY <2>1, <2>2, RunningMoves
  <2>4. QED BY <2>3, <1>0, <1>4 DEF Request
<1>5. ASSUME NEW s \in Slots, Cancelled(s) PROVE StartedEventsMatched'
  <2>1. N' = N - 1 /\ N' \in Nat
    BY <1>5, IdleType, RunningMoves DEF Cancelled, Idle
  <2>2. room' = "closed" /\ events' = events
    BY <1>5 DEF Cancelled
  <2>3. QED BY <2>1, <2>2, <1>t, <1>n DEF StartedEventsMatched, Accounted
<1>6. ASSUME NEW s \in Slots,
             Refuse(s) \/ Answered(s) \/ ReplyFailed(s) \/ HungUp(s) \/ Announced(s)
      PROVE  StartedEventsMatched'
  BY <1>2, <1>6 DEF Refuse, Answered, ReplyFailed, HungUp, Announced, Waiting
<1>7. ASSUME NEW s \in Slots,
             \/ IdentityRejected(s) \/ StepUpConfirmed(s) \/ StepUpRejected(s)
             \/ Escalated(s) \/ \E c \in Customers : IdentityConfirmed(s, c)
      PROVE  StartedEventsMatched'
  <2>1. call[s].pc = "waiting" /\ room' = room
    BY <1>7 DEF IdentityRejected, StepUpConfirmed, StepUpRejected, Escalated,
                IdentityConfirmed, Waiting
  <2>2. \/ Finish(s)
        \/ \E e \in {"security_lockout", "step_up_verified", "escalation",
                    "identity_verified"} : Announce(s, e)
    BY <1>7 DEF IdentityRejected, StepUpConfirmed, StepUpRejected, Escalated,
                IdentityConfirmed
  <2>3. {"security_lockout", "step_up_verified", "escalation", "identity_verified"}
          \subseteq EventTypes \ {"tool_call_started", "tool_call_finished",
                                  "tool_call_failed"}
    BY DEF EventTypes
  <2>4. QED BY <2>1, <2>2, <2>3, <1>2, <1>3
<1>8. CASE Handoff \/ CallEnds \/ Shutdown \/ UNCHANGED vars
  <2>1. Running' = Running /\ events' = events /\ room' \in {room, "closed"}
    BY <1>8 DEF Handoff, CallEnds, Shutdown, vars, Running
  <2>2. QED BY <2>1, <1>n, <1>t DEF StartedEventsMatched, Accounted, TypeOK
<1>9. QED BY <1>1, <1>4, <1>5, <1>6, <1>7, <1>8, NextCases DEF Quiet

(* A started event is alone only if its tool was cancelled after the call  *)
(* had ended, for any number of tools side by side.                        *)
THEOREM StartedAlwaysMatched == Spec => []StartedEventsMatched
BY TypeCorrect, MatchedInit, MatchedNext, PTL DEF Spec

-----------------------------------------------------------------------------
(* Code checks side by side.                                               *)

LEMMA ChecksCounted ==
    /\ IsFiniteSet(CodeChecks)
    /\ Cardinality(CodeChecks) \in Nat /\ Cardinality(Slots) \in Nat
    /\ Cardinality(CodeChecks) <= Cardinality(Slots)
<1>1. CodeChecks \subseteq Slots
  BY DEF CodeChecks
<1>2. IsFiniteSet(CodeChecks) /\ Cardinality(CodeChecks) <= Cardinality(Slots)
  BY <1>1, SessionAssumption, FS_Subset
<1>3. QED BY <1>2, SessionAssumption, FS_CardinalityType

LEMMA ChecksInit == Init => CodeAttemptsBounded
<1> SUFFICES ASSUME Init PROVE CodeAttemptsBounded
  OBVIOUS
<1>1. MAX_STEP_UP_ATTEMPTS \in Nat \ {0}
  BY SessionAssumption
<1>2. QED BY <1>1, ChecksCounted DEF Init, CodeAttemptsBounded

LEMMA ChecksNext ==
    TypeOK /\ LockoutsAnnounced /\ CodeAttemptsBounded /\ [Next]_vars
        => CodeAttemptsBounded'
<1> SUFFICES ASSUME TypeOK, LockoutsAnnounced, CodeAttemptsBounded, [Next]_vars
             PROVE  CodeAttemptsBounded'
  OBVIOUS
<1>t. /\ failed_step_up_attempts \in Nat /\ MAX_STEP_UP_ATTEMPTS \in Nat \ {0}
      /\ call \in [Slots -> CallSet]
  BY SessionAssumption DEF TypeOK, CallSet, ToolSet, PcSet
<1> DEFINE N == Cardinality(CodeChecks)
<1>n. /\ IsFiniteSet(CodeChecks) /\ N \in Nat /\ Cardinality(Slots) \in Nat
      /\ CodeChecks' \subseteq Slots /\ IsFiniteSet(CodeChecks') /\ N' \in Nat
      /\ N' <= Cardinality(Slots)
  <2>1. CodeChecks' \subseteq Slots
    BY DEF CodeChecks
  <2>2. IsFiniteSet(CodeChecks') /\ N' <= Cardinality(Slots)
    BY <2>1, SessionAssumption, FS_Subset
  <2>3. QED BY <2>1, <2>2, ChecksCounted, FS_CardinalityType
<1>0. ASSUME failed_step_up_attempts' = failed_step_up_attempts,
             CodeChecks' \subseteq CodeChecks
      PROVE  CodeAttemptsBounded'
  <2>1. N' <= N
    BY <1>0, <1>n, FS_Subset
  <2>2. QED BY <2>1, <1>0, <1>n, <1>t DEF CodeAttemptsBounded
<1>1. ASSUME NEW s \in Slots, Request(s) PROVE CodeAttemptsBounded'
  <2>1. failed_step_up_attempts' = failed_step_up_attempts
    BY <1>1 DEF Request, stepUpVars
  <2>2. CASE call[s].tool = "verify_step_up_code"
    <3>1. ~step_up_locked
      BY <1>1, <2>2 DEF Request, Admits, StepUpTools, code_exchange_open
    <3>2. failed_step_up_attempts <= MAX_STEP_UP_ATTEMPTS - 1
      BY <3>1, <1>t DEF LockoutsAnnounced
    <3>3. QED BY <2>1, <3>2, <1>n, <1>t DEF CodeAttemptsBounded
  <2>3. CASE call[s].tool # "verify_step_up_code"
    <3>1. CodeChecks' \subseteq CodeChecks
      BY <1>1, <2>3, <1>t DEF Request, CodeChecks, Waiting, CallSet
    <3>2. QED BY <2>1, <3>1, <1>0
  <2>4. QED BY <2>2, <2>3
<1>2. ASSUME NEW s \in Slots, StepUpRejected(s) PROVE CodeAttemptsBounded'
  <2>1. s \in CodeChecks
    BY <1>2 DEF StepUpRejected, CodeChecks
  <2>2. CodeChecks' = CodeChecks \ {s}
    BY <1>2, <1>t DEF StepUpRejected, Announce, Finish, CodeChecks, Waiting, Idle, CallSet
  <2>3. N' = N - 1
    BY <2>1, <2>2, <1>n, FS_RemoveElement
  <2>4. failed_step_up_attempts' = failed_step_up_attempts + 1
    BY <1>2 DEF StepUpRejected
  <2>5. QED BY <2>3, <2>4, <1>n, <1>t DEF CodeAttemptsBounded
<1>3. ASSUME NEW s \in Slots,
             \/ Quiet(s) /\ ~Request(s)
             \/ IdentityRejected(s) \/ StepUpConfirmed(s) \/ Escalated(s)
             \/ \E c \in Customers : IdentityConfirmed(s, c)
      PROVE  CodeAttemptsBounded'
  <2>1. failed_step_up_attempts' = failed_step_up_attempts
    BY <1>3 DEF Quiet, Refuse, Answered, ReplyFailed, HungUp, Announced, Cancelled, Start,
                IdentityRejected, StepUpConfirmed, Escalated, IdentityConfirmed, stepUpVars
  <2>2. /\ call'[s].pc # "waiting"
        /\ \A u \in Slots \ {s} : call'[u] = call[u]
    BY <1>3, <1>t
    DEF Quiet, Refuse, Answered, ReplyFailed, HungUp, Announced, Cancelled, Start,
        IdentityRejected, StepUpConfirmed, Escalated, IdentityConfirmed, Finish, Fail,
        Announce, Idle, CallSet
  <2>3. CodeChecks' \subseteq CodeChecks
    BY <2>2 DEF CodeChecks, Waiting
  <2>4. QED BY <1>0, <2>1, <2>3
<1>4. CASE Handoff \/ CallEnds \/ Shutdown \/ UNCHANGED vars
  BY <1>0, <1>4 DEF Handoff, CallEnds, Shutdown, vars, stepUpVars, CodeChecks, Waiting
<1>5. QED BY <1>1, <1>2, <1>3, <1>4, NextCases

(* However many code checks run side by side, the attempts exceed the      *)
(* limit at most by the checks under way when the lock was set.            *)
THEOREM CodeAttemptsAlwaysBounded == Spec => []CodeAttemptsBounded
BY TypeCorrect, LockoutsAlwaysAnnounced, ChecksInit, ChecksNext, PTL DEF Spec

=============================================================================
