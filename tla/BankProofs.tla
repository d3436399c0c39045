----------------------------- MODULE BankProofs -----------------------------
(***************************************************************************)
(* The bank on its pool of threads implements the bank of atomic handlers  *)
(* of Bank, while no two requests about one customer overlap: the step of  *)
(* the atomic verification is the comparison, every earlier one is a       *)
(* stutter.                                                                *)
(***************************************************************************)
EXTENDS PoolProofs

(* The codes as the atomic bank has them: an attempt counts when its       *)
(* request is answered.                                                    *)
Mapped == [i \in DOMAIN challenges |->
              [challenges[i] EXCEPT !.attempts_used = @ - Pending(i)]]

AtomicChallenge ==
    [customer : Customers, code : Codes, attempts_used : Int, consumed : BOOLEAN]

-----------------------------------------------------------------------------
LEMMA SameChallenge ==
    ASSUME NEW x \in AtomicChallenge, NEW y \in AtomicChallenge,
           x.customer = y.customer, x.code = y.code,
           x.attempts_used = y.attempts_used, x.consumed = y.consumed
    PROVE  x = y
BY DEF AtomicChallenge

Tried(x, b) == [x EXCEPT !.attempts_used = @ + 1, !.consumed = b]

LEMMA TriedChallenge ==
    ASSUME NEW x \in AtomicChallenge, NEW b \in BOOLEAN
    PROVE  /\ Tried(x, b) \in AtomicChallenge
           /\ Tried(x, b).customer = x.customer /\ Tried(x, b).code = x.code
           /\ Tried(x, b).attempts_used = x.attempts_used + 1
           /\ Tried(x, b).consumed = b
<1> DEFINE y == [x EXCEPT !.attempts_used = @ + 1]
<1>1. /\ y \in AtomicChallenge /\ y.customer = x.customer /\ y.code = x.code
      /\ y.attempts_used = x.attempts_used + 1
  BY DEF AtomicChallenge
<1>2. Tried(x, b) = [y EXCEPT !.consumed = b]
  BY DEF Tried
<1> HIDE DEF y
<1>3. QED BY <1>1, <1>2 DEF AtomicChallenge

LEMMA SeqIsFunction ==
    ASSUME NEW S, NEW s \in Seq(S), NEW m, Len(s) = m
    PROVE  s \in [1..m -> S]
OBVIOUS

MappedFacts ==
    /\ Mapped \in Seq(AtomicChallenge)
    /\ Len(Mapped) = Len(challenges)
    /\ \A i \in 1..Len(challenges) :
          /\ Mapped[i].customer = challenges[i].customer
          /\ Mapped[i].code = challenges[i].code
          /\ Mapped[i].consumed = challenges[i].consumed
          /\ Mapped[i].attempts_used = challenges[i].attempts_used - Pending(i)

LEMMA MappedType == StoreType => MappedFacts
<1> SUFFICES ASSUME StoreType PROVE MappedFacts
  OBVIOUS
<1>1. Len(challenges) \in Nat /\ DOMAIN challenges = 1..Len(challenges)
      /\ \A i \in 1..Len(challenges) : challenges[i] \in Challenge
  BY DEF StoreType
<1>2. \A i : Pending(i) \in Nat
  BY ComparingFinite DEF Pending
<1>3. ASSUME NEW i \in 1..Len(challenges)
      PROVE  /\ Mapped[i] \in AtomicChallenge
             /\ Mapped[i].customer = challenges[i].customer
             /\ Mapped[i].code = challenges[i].code
             /\ Mapped[i].consumed = challenges[i].consumed
             /\ Mapped[i].attempts_used = challenges[i].attempts_used - Pending(i)
  BY <1>1, <1>2 DEF Mapped, Challenge, AtomicChallenge
<1>4. Mapped \in [1..Len(challenges) -> AtomicChallenge]
  BY <1>1, <1>3 DEF Mapped
<1>5. QED BY <1>1, <1>3, <1>4 DEF MappedFacts

LEMMA MappedTypeNext == StoreType' => MappedFacts'
BY MappedType, PTL

(* Both banks agree on the newest code of a customer.                      *)
LEMMA SameNewest ==
    ASSUME StoreType, NEW c
    PROVE  Atomic!CurrentFor(c) = current_for(c)
<1> DEFINE I(s) == {i \in 1..Len(s) : s[i].customer = c}
<1>1. current_for(c) = IF I(challenges) # {} THEN Max(I(challenges)) ELSE 0
  BY DEF current_for, SelectLastInSeq
<1>2. Atomic!CurrentFor(c) = IF I(Mapped) # {} THEN Max(I(Mapped)) ELSE 0
  BY DEF Atomic!CurrentFor, Atomic!SelectLastInSeq, SelectLastInSeq, Atomic!Max, Max, Mapped
<1>3. I(Mapped) = I(challenges)
  BY MappedType DEF MappedFacts
<1>4. QED BY <1>1, <1>2, <1>3

(* When the codes change only by attempts of requests still under way, the *)
(* atomic bank sees no change.                                             *)
LEMMA NotYetSeen ==
    ASSUME StoreType, StoreType', Len(challenges') = Len(challenges),
           \A i \in 1..Len(challenges) :
               /\ challenges'[i].customer = challenges[i].customer
               /\ challenges'[i].code = challenges[i].code
               /\ challenges'[i].consumed = challenges[i].consumed
               /\ challenges'[i].attempts_used - Pending(i)'
                    = challenges[i].attempts_used - Pending(i)
    PROVE  Mapped' = Mapped
<1>1. /\ Mapped \in Seq(AtomicChallenge) /\ Mapped' \in Seq(AtomicChallenge)
      /\ Len(Mapped') = Len(Mapped)
  BY MappedType, MappedTypeNext DEF MappedFacts
<1>2. \A i \in 1..Len(challenges) :
          /\ Mapped'[i].customer = Mapped[i].customer
          /\ Mapped'[i].code = Mapped[i].code
          /\ Mapped'[i].consumed = Mapped[i].consumed
          /\ Mapped'[i].attempts_used = Mapped[i].attempts_used
  BY MappedType, MappedTypeNext DEF MappedFacts
<1>3. ASSUME NEW i \in 1..Len(Mapped) PROVE Mapped'[i] = Mapped[i]
  <2>1. Mapped[i] \in AtomicChallenge /\ Mapped'[i] \in AtomicChallenge
    BY <1>1
  <2>2. /\ Mapped'[i].customer = Mapped[i].customer /\ Mapped'[i].code = Mapped[i].code
        /\ Mapped'[i].consumed = Mapped[i].consumed
        /\ Mapped'[i].attempts_used = Mapped[i].attempts_used
    BY <1>1, <1>2, MappedType DEF MappedFacts
  <2>3. QED BY <2>1, <2>2 DEF AtomicChallenge
<1>4. QED BY <1>1, <1>3

-----------------------------------------------------------------------------
(* Each step of the pool is a step of the atomic bank, or none.            *)

LEMMA CodesSentAtOnce ==
    ASSUME PoolInv, PoolInv', NEW t \in Threads, NEW c \in Customers, NEW code \in Codes,
           send_step_up_code(t, c, code), UNCHANGED desk
    PROVE  Atomic!SendStepUp(c, code)
<1> DEFINE new == [customer |-> c, code |-> code, attempts_used |-> 0, consumed |-> FALSE]
           n == Len(challenges)
<1>1. StoreType /\ StoreType' /\ n \in Nat
  BY DEF PoolInv, StoreType
<1>2. /\ challenges' = Append(challenges, new) /\ thread' = thread
      /\ Len(challenges') = n + 1 /\ challenges'[n + 1] = new
      /\ \A i \in 1..n : challenges'[i] = challenges[i]
  BY <1>1 DEF send_step_up_code, StoreType
<1>3. \A i : Pending(i)' = Pending(i)
  BY <1>2 DEF Pending, Comparing
<1>4. Pending(n + 1) = 0
  <2>1. Comparing(n + 1) = {}
    BY <1>1 DEF Comparing, StoreType
  <2>2. QED BY <2>1, FS_EmptySet DEF Pending
<1>5. /\ Mapped \in Seq(AtomicChallenge) /\ Mapped' \in Seq(AtomicChallenge)
      /\ Len(Mapped) = n /\ Len(Mapped') = n + 1
      /\ Append(Mapped, new) \in Seq(AtomicChallenge)
  BY <1>1, <1>2, MappedType, MappedTypeNext DEF AtomicChallenge, MappedFacts
<1>6. ASSUME NEW i \in 1..(n + 1) PROVE Mapped'[i] = Append(Mapped, new)[i]
  <2>1. Mapped'[i] \in AtomicChallenge /\ Append(Mapped, new)[i] \in AtomicChallenge
    BY <1>5
  <2>2. /\ Mapped'[i].customer = challenges'[i].customer
        /\ Mapped'[i].code = challenges'[i].code
        /\ Mapped'[i].consumed = challenges'[i].consumed
        /\ Mapped'[i].attempts_used = challenges'[i].attempts_used - Pending(i)'
    BY <1>1, <1>2, MappedTypeNext DEF MappedFacts
  <2>3. CASE i = n + 1
    <3>1. Append(Mapped, new)[i] = new
      BY <1>1, <1>5, <2>3
    <3>2. /\ Mapped'[i].customer = new.customer /\ Mapped'[i].code = new.code
          /\ Mapped'[i].consumed = new.consumed
          /\ Mapped'[i].attempts_used = new.attempts_used
      <4>1. challenges'[i] = new /\ Pending(i)' = 0
        BY <2>3, <1>2, <1>3, <1>4
      <4>2. QED BY <2>2, <4>1
    <3>3. QED BY <2>1, <3>1, <3>2, SameChallenge
  <2>4. CASE i \in 1..n
    <3>1. /\ Mapped[i].customer = challenges[i].customer
          /\ Mapped[i].code = challenges[i].code
          /\ Mapped[i].consumed = challenges[i].consumed
          /\ Mapped[i].attempts_used = challenges[i].attempts_used - Pending(i)
      BY <1>1, <2>4, MappedType DEF MappedFacts
    <3>2. Append(Mapped, new)[i] = Mapped[i]
      BY <1>1, <1>5, <2>4
    <3>3. /\ Mapped'[i].customer = Mapped[i].customer /\ Mapped'[i].code = Mapped[i].code
          /\ Mapped'[i].consumed = Mapped[i].consumed
          /\ Mapped'[i].attempts_used = Mapped[i].attempts_used
      BY <2>2, <2>4, <3>1, <1>2, <1>3
    <3>4. QED BY <2>1, <3>2, <3>3, SameChallenge
  <2>5. i = n + 1 \/ i \in 1..n
    BY <1>1
  <2>6. QED BY <2>3, <2>4, <2>5
<1>7. Mapped' = Append(Mapped, new)
  <2> HIDE DEF new
  <2>1. /\ Mapped' \in [1..(n + 1) -> AtomicChallenge]
        /\ Append(Mapped, new) \in [1..(n + 1) -> AtomicChallenge]
    <3>1. Len(Append(Mapped, new)) = n + 1
      BY <1>1, <1>5
    <3>2. QED BY <3>1, <1>5, SeqIsFunction
  <2>2. QED BY <1>6, <2>1
<1>8. QED BY <1>7 DEF Atomic!SendStepUp, desk, Mapped

LEMMA AttemptsNotYetSeen ==
    ASSUME PoolInv, PoolInv', NEW t \in Threads, CountAttempt(t)
    PROVE  Mapped' = Mapped
<1> DEFINE k == thread[t].current
           new == [thread[t] EXCEPT !.pc = "counted"]
<1>1. StoreType /\ StoreType' /\ DOMAIN challenges = 1..Len(challenges)
      /\ thread[t] \in ThreadState /\ k \in 1..Len(challenges)
  BY DEF PoolInv, StoreType, CountAttempt
<1>2. /\ thread[t].pc = "found" /\ new.pc = "counted" /\ new.current = k
      /\ thread' = [thread EXCEPT ![t] = new]
      /\ challenges' = [challenges EXCEPT ![k].attempts_used = @ + 1]
  BY <1>1 DEF CountAttempt, ThreadState
<1> HIDE DEF new
<1>3. ASSUME NEW i \in 1..Len(challenges)
      PROVE  Pending(i)' = IF i = k THEN Pending(i) + 1 ELSE Pending(i)
  <2>1. \A j : Comparing(j)' = IF j = k THEN Comparing(j) \union {t} ELSE Comparing(j)
    <3>1. /\ StoreType /\ thread' = [thread EXCEPT ![t] = new]
          /\ thread[t].pc # "counted" /\ new.pc = "counted" /\ new.current = k
      BY <1>1, <1>2
    <3> HIDE DEF k
    <3>2. QED BY ONLY <3>1, ComparingMoves, StoreAssumption
  <2>2. t \notin Comparing(i)
    BY <1>2 DEF Comparing
  <2>3. QED BY <2>1, <2>2, ComparingFinite, FS_AddElement DEF Pending
<1>4. /\ Len(challenges') = Len(challenges)
      /\ \A i \in 1..Len(challenges) :
            /\ challenges'[i].customer = challenges[i].customer
            /\ challenges'[i].code = challenges[i].code
            /\ challenges'[i].consumed = challenges[i].consumed
            /\ challenges'[i].attempts_used =
                  IF i = k THEN challenges[i].attempts_used + 1
                           ELSE challenges[i].attempts_used
  BY <1>1, <1>2 DEF StoreType, Challenge
<1>5. \A i \in 1..Len(challenges) : challenges[i].attempts_used \in Nat /\ Pending(i) \in Nat
  <2>1. \A i \in 1..Len(challenges) : challenges[i] \in Challenge
    BY <1>1 DEF StoreType
  <2>2. QED BY <2>1, ComparingFinite DEF Pending, Challenge
<1>6. \A i \in 1..Len(challenges) :
          challenges'[i].attempts_used - Pending(i)' = challenges[i].attempts_used - Pending(i)
  <2> TAKE i \in 1..Len(challenges)
  <2>1. CASE i = k
    <3>1. /\ challenges'[i].attempts_used = challenges[i].attempts_used + 1
          /\ Pending(i)' = Pending(i) + 1
      BY <2>1, <1>3, <1>4
    <3>2. QED BY <3>1, <1>5
  <2>2. CASE i # k
    BY <2>2, <1>3, <1>4
  <2>3. QED BY <2>1, <2>2
<1>7. QED BY <1>1, <1>4, <1>6, NotYetSeen

(* The comparison is the atomic verification: nobody sent its customer a   *)
(* newer code, and nobody consumed the one it compares.                    *)
LEMMA ComparedAtOnce ==
    ASSUME PoolInv, PoolInv', ~overlapped, NEW t \in Threads, Compare(t), UNCHANGED desk,
           NEW c, NEW code, thread[t].customer = c, thread[t].code = code
    PROVE  Atomic!VerifyStepUp(c, code)
<1> DEFINE k == thread[t].current
           n == Len(challenges)
           right == challenges[k].code = code
<1>1. /\ StoreType /\ StoreType' /\ n \in Nat /\ DOMAIN challenges = 1..n
      /\ \A i \in 1..n : challenges[i] \in Challenge /\ Pending(i) \in Nat
  BY ComparingFinite DEF PoolInv, StoreType, Pending
<1>2. thread[t].pc = "counted" /\ k \in 1..n /\ k = current_for(c) /\ ~challenges[k].consumed
  BY <1>1 DEF Compare, PoolInv, StoreType, Alone
<1>3. /\ thread' = [thread EXCEPT ![t] = Free]
      /\ IF right THEN challenges' = [challenges EXCEPT ![k].consumed = TRUE]
                  ELSE challenges' = challenges
  BY DEF Compare
<1>4. ASSUME NEW i \in 1..n
      PROVE  Pending(i)' = IF i = k THEN Pending(i) - 1 ELSE Pending(i)
  <2>1. Comparing(i)' = Comparing(i) \ {t}
    BY <1>1, <1>2, <1>3, FreeType, ComparingMoves
  <2>2. t \in Comparing(i) <=> i = k
    BY <1>2 DEF Comparing
  <2>3. CASE i = k
    BY <2>1, <2>2, <2>3, ComparingFinite, FS_RemoveElement DEF Pending
  <2>4. CASE i # k
    <3>1. Comparing(i)' = Comparing(i)
      BY <2>1, <2>2, <2>4
    <3>2. QED BY <3>1, <2>4 DEF Pending
  <2>5. QED BY <2>3, <2>4
<1>5. /\ Len(challenges') = n
      /\ \A i \in 1..n : /\ challenges'[i].customer = challenges[i].customer
                         /\ challenges'[i].code = challenges[i].code
                         /\ challenges'[i].attempts_used = challenges[i].attempts_used
                         /\ i # k => challenges'[i].consumed = challenges[i].consumed
      /\ challenges'[k].consumed = right
  <2>1. CASE right
    <3>0. challenges' = [challenges EXCEPT ![k].consumed = TRUE]
      BY <2>1, <1>3
    <3>1. /\ challenges'[k] = [challenges[k] EXCEPT !.consumed = TRUE]
          /\ \A i \in (1..n) \ {k} : challenges'[i] = challenges[i]
      BY <3>0, <1>1, <1>2
    <3>n. Len(challenges') = n
      BY <3>0, <1>1, <1>2 DEF StoreType
    <3>2. challenges[k] \in Challenge
      BY <1>1, <1>2
    <3>3. QED BY <2>1, <3>1, <3>n, <3>2 DEF Challenge
  <2>2. CASE ~right
    BY <2>2, <1>1, <1>2, <1>3 DEF Challenge
  <2>3. QED BY <2>1, <2>2
<1>6. Pending(k) \in Nat \ {0}
  <2>1. t \in Comparing(k)
    BY <1>2 DEF Comparing
  <2>2. QED BY <2>1, <1>1, <1>2, ComparingFinite, FS_EmptySet DEF Pending
<1>7. Mapped[k].attempts_used < MAX_ATTEMPTS_PER_CODE /\ ~Mapped[k].consumed
  <2>1. challenges[k].attempts_used \in Nat
        /\ challenges[k].attempts_used <= MAX_ATTEMPTS_PER_CODE
    BY <1>1, <1>2 DEF PoolInv, AttemptsLimited, Challenge
  <2>2. /\ Mapped[k].attempts_used = challenges[k].attempts_used - Pending(k)
        /\ Mapped[k].consumed = challenges[k].consumed
    BY <1>1, <1>2, MappedType DEF MappedFacts
  <2>3. QED BY <2>1, <2>2, <1>2, <1>6, StoreAssumption
<1> DEFINE Verified == [Mapped EXCEPT ![k].attempts_used = @ + 1,
                                      ![k].consumed = (Mapped[k].code = code)]
<1>8. /\ Mapped \in [1..n -> AtomicChallenge] /\ Mapped' \in [1..n -> AtomicChallenge]
  <2>1. /\ Mapped \in Seq(AtomicChallenge) /\ Len(Mapped) = n
        /\ Mapped' \in Seq(AtomicChallenge) /\ Len(Mapped') = n
    BY <1>1, <1>5, MappedType, MappedTypeNext DEF MappedFacts
  <2>2. QED BY <2>1, SeqIsFunction
<1>9. /\ Verified \in [1..n -> AtomicChallenge]
      /\ \A i \in 1..n :
            /\ Verified[i].customer = Mapped[i].customer
            /\ Verified[i].code = Mapped[i].code
            /\ i # k => Verified[i] = Mapped[i]
      /\ Verified[k].attempts_used = Mapped[k].attempts_used + 1
      /\ Verified[k].consumed = (Mapped[k].code = code)
  <2> DEFINE verified == Tried(Mapped[k], Mapped[k].code = code)
  <2>1. Verified = [Mapped EXCEPT ![k] = verified]
    BY <1>2, <1>8 DEF Tried
  <2>2. /\ verified \in AtomicChallenge
        /\ verified.customer = Mapped[k].customer /\ verified.code = Mapped[k].code
        /\ verified.attempts_used = Mapped[k].attempts_used + 1
        /\ verified.consumed = (Mapped[k].code = code)
    <3>1. Mapped[k] \in AtomicChallenge
      BY <1>2, <1>8
    <3>2. (Mapped[k].code = code) \in BOOLEAN
      OBVIOUS
    <3>3. QED BY <3>1, <3>2, TriedChallenge
  <2> HIDE DEF verified, Verified
  <2>3. QED BY <2>1, <2>2, <1>2, <1>8
<1>10. ASSUME NEW i \in 1..n PROVE Mapped'[i] = Verified[i]
  <2> HIDE DEF Verified
  <2>1. /\ Mapped[i].customer = challenges[i].customer
        /\ Mapped[i].code = challenges[i].code
        /\ Mapped[i].consumed = challenges[i].consumed
        /\ Mapped[i].attempts_used = challenges[i].attempts_used - Pending(i)
    BY <1>1, MappedType DEF MappedFacts
  <2>2. /\ Mapped'[i].customer = challenges'[i].customer
        /\ Mapped'[i].code = challenges'[i].code
        /\ Mapped'[i].consumed = challenges'[i].consumed
        /\ Mapped'[i].attempts_used = challenges'[i].attempts_used - Pending(i)'
    BY <1>1, <1>5, MappedTypeNext DEF MappedFacts
  <2>3. challenges[i].attempts_used \in Nat /\ Pending(i) \in Nat
    BY <1>1 DEF Challenge
  <2>4. Mapped'[i].attempts_used = Verified[i].attempts_used
    <3>1. CASE i = k
      <4>1. /\ Pending(i)' = Pending(i) - 1
            /\ challenges'[i].attempts_used = challenges[i].attempts_used
            /\ Verified[i].attempts_used = Mapped[i].attempts_used + 1
        BY <3>1, <1>4, <1>5, <1>9
      <4>2. QED BY <4>1, <2>1, <2>2, <2>3
    <3>2. CASE i # k
      BY <3>2, <2>1, <2>2, <1>4, <1>5, <1>9
    <3>3. QED BY <3>1, <3>2
  <2>5. Mapped'[i].consumed = Verified[i].consumed
    <3>1. CASE i = k
      BY <3>1, <2>1, <2>2, <1>5, <1>9
    <3>2. CASE i # k
      BY <3>2, <2>1, <2>2, <1>5, <1>9
    <3>3. QED BY <3>1, <3>2
  <2>6. Mapped'[i].customer = Verified[i].customer /\ Mapped'[i].code = Verified[i].code
    BY <2>1, <2>2, <1>5, <1>9
  <2>7. Mapped'[i] \in AtomicChallenge /\ Verified[i] \in AtomicChallenge
    BY <1>8, <1>9
  <2>8. QED BY <2>4, <2>5, <2>6, <2>7, SameChallenge
<1>11. Mapped' = Verified
  <2> HIDE DEF Verified
  <2>1. QED BY <1>8, <1>9, <1>10
<1>12. Atomic!CurrentFor(c) = k
  BY <1>1, <1>2, SameNewest
<1>13. Atomic!LiveCode(c)
  <2>1. Mapped[k].attempts_used < MAX_ATTEMPTS_PER_CODE /\ ~Mapped[k].consumed /\ k # 0
    BY <1>2, <1>7
  <2>2. QED BY <2>1, <1>12 DEF Atomic!LiveCode, Atomic!Alive, Mapped
<1>14. QED BY <1>11, <1>12, <1>13 DEF Atomic!VerifyStepUp, desk, Mapped

(* A step that changes neither the codes nor who compares is a stutter of  *)
(* the atomic code store.                                                  *)
LEMMA StoreStutters ==
    ASSUME StoreType, StoreType', challenges' = challenges,
           \A i : Comparing(i)' = Comparing(i)
    PROVE  Mapped' = Mapped
BY NotYetSeen DEF Pending

LEMMA StepImplemented ==
    PoolInv /\ PoolInv' /\ [PoolNext]_poolVars
        => (~overlapped' => Atomic!BankNext \/ UNCHANGED Atomic!bankVars)
<1> SUFFICES ASSUME PoolInv, PoolInv', [PoolNext]_poolVars, ~overlapped'
             PROVE  Atomic!BankNext \/ UNCHANGED Atomic!bankVars
  OBVIOUS
<1>i. StoreType /\ StoreType' /\ DeskType
  BY DEF PoolInv
<1>0. ASSUME Mapped' = Mapped, UNCHANGED desk PROVE UNCHANGED Atomic!bankVars
  BY <1>0 DEF Atomic!bankVars, Mapped, desk
<1>s. ASSUME NEW t \in Threads, NEW new, thread' = [thread EXCEPT ![t] = new],
             thread[t].pc # "counted", new.pc # "counted", challenges' = challenges
      PROVE  Mapped' = Mapped
  <2>1. \A i : Comparing(i)' = Comparing(i)
    BY <1>i, <1>s, ComparingMoves
  <2>2. QED BY <2>1, <1>i, <1>s, StoreStutters
<1>1. ASSUME NEW t \in Threads, NEW c \in Customers, NEW code \in Codes,
             send_step_up_code(t, c, code), UNCHANGED desk
      PROVE  Atomic!BankNext
  BY <1>1, CodesSentAtOnce DEF Atomic!BankNext
<1>2. ASSUME NEW t \in Threads, NEW c \in Customers, NEW code \in Codes,
             Lookup(t, c, code)
      PROVE  Mapped' = Mapped
  <2> DEFINE new == [pc |-> "found", customer |-> c, code |-> code,
                     current |-> current_for(c)]
  <2>1. /\ thread' = [thread EXCEPT ![t] = new] /\ challenges' = challenges
        /\ thread[t].pc # "counted" /\ new.pc # "counted"
    BY <1>2 DEF Lookup
  <2> HIDE DEF new
  <2>2. QED BY <2>1, <1>s
<1>3. ASSUME NEW t \in Threads, AnswerDead(t) PROVE Mapped' = Mapped
  <2>1. /\ thread' = [thread EXCEPT ![t] = Free] /\ challenges' = challenges
        /\ thread[t].pc # "counted" /\ Free.pc # "counted"
    BY <1>3, FreeType DEF AnswerDead
  <2>2. QED BY <2>1, <1>s
<1>4. ASSUME NEW t \in Threads, CountAttempt(t) PROVE Mapped' = Mapped
  BY <1>4, AttemptsNotYetSeen
<1>5. ASSUME NEW t \in Threads, Compare(t), UNCHANGED desk PROVE Atomic!BankNext
  <2>1. ~overlapped
    BY <1>5 DEF Compare
  <2>2. PICK c \in Customers, code \in Codes : thread[t].customer = c /\ thread[t].code = code
    BY <1>5, <1>i DEF Compare, DeskType, Busy
  <2>3. Atomic!VerifyStepUp(c, code)
    BY <2>1, <2>2, <1>5, ComparedAtOnce
  <2>4. QED BY <2>3 DEF Atomic!BankNext
<1>6. ASSUME NEW t \in Threads, NEW c \in Customers, CheckCard(t, c)
      PROVE  Mapped' = Mapped /\ UNCHANGED desk
  <2> DEFINE new == [thread[t] EXCEPT !.pc = "elsewhere", !.customer = c]
  <2>0. thread[t] \in ThreadState
    BY <1>i DEF StoreType
  <2>1. /\ thread' = [thread EXCEPT ![t] = new] /\ challenges' = challenges
        /\ thread[t].pc # "counted" /\ new.pc # "counted"
    BY <1>6, <2>0 DEF CheckCard, ThreadState
  <2> HIDE DEF new
  <2>2. Mapped' = Mapped
    BY <2>1, <1>s
  <2>3. QED BY <2>2, <1>6 DEF CheckCard
<1>7. ASSUME NEW t \in Threads, BlockCard(t) PROVE Atomic!BankNext
  <2> DEFINE c == thread[t].customer
  <2>1. /\ thread' = [thread EXCEPT ![t] = Free] /\ challenges' = challenges
        /\ thread[t].pc # "counted" /\ Free.pc # "counted" /\ c \in Customers
    BY <1>7, <1>i, FreeType DEF BlockCard, DeskType, Busy
  <2>2. Mapped' = Mapped
    BY <2>1, <1>s
  <2>3. Atomic!ReportCardLost(c, "right_digits")
    BY <2>2, <1>7 DEF BlockCard, Atomic!ReportCardLost, Mapped
  <2>4. QED BY <2>1, <2>3 DEF Atomic!BankNext
<1>8. ASSUME UNCHANGED vars PROVE Mapped' = Mapped
  <2>1. \A i : Comparing(i)' = Comparing(i)
    BY <1>8 DEF Comparing, vars
  <2>2. QED BY <2>1, <1>8, <1>i, StoreStutters DEF vars
<1>9. ASSUME NEW t \in Threads, NEW c \in Customers, dispute_transaction(t, c)
      PROVE  Atomic!BankNext
  <2>1. Mapped' = Mapped
    BY <1>8, <1>9 DEF dispute_transaction
  <2>2. Atomic!Dispute(c, "known")
    BY <2>1, <1>9 DEF dispute_transaction, Atomic!Dispute, Mapped
  <2>3. QED BY <2>2 DEF Atomic!BankNext
<1>10. ASSUME NEW t \in Threads, create_escalation(t) PROVE Atomic!BankNext
  <2>1. Mapped' = Mapped
    BY <1>8, <1>10 DEF create_escalation
  <2>2. Atomic!CreateEscalation
    BY <2>1, <1>10 DEF create_escalation, Atomic!CreateEscalation, Mapped
  <2>3. QED BY <2>2 DEF Atomic!BankNext
<1>11. CASE UNCHANGED poolVars
  BY <1>0, <1>8, <1>11 DEF poolVars, desk
<1>12. QED
  BY <1>0, <1>1, <1>2, <1>3, <1>4, <1>5, <1>6, <1>7, <1>9, <1>10, <1>11
  DEF PoolNext, StoreNext

(* The bank on its pool of threads implements the bank of atomic handlers  *)
(* that BankCall composes with the agent, for any number of threads,       *)
(* customers and codes, while no two requests about one customer overlap.  *)
THEOREM PoolImplementsBank == PoolSpec => ImplementsBank
<1>1. PoolInit => Atomic!BankInit
  <2> SUFFICES ASSUME PoolInit PROVE Atomic!BankInit
    OBVIOUS
  <2>1. StoreType /\ Len(challenges) = 0
    BY StoreTypeInit DEF PoolInit, Init
  <2>2. Mapped = <<>>
    BY <2>1, MappedType DEF MappedFacts
  <2>3. QED BY <2>2 DEF PoolInit, Atomic!BankInit, Mapped
<1>2. PoolInv /\ PoolInv' /\ [PoolNext]_poolVars
        => [~overlapped' => Atomic!BankNext \/ UNCHANGED Atomic!bankVars]_poolVars
  BY StepImplemented
<1>3. QED BY <1>1, <1>2, PoolInvInit, PoolInvNext, PTL DEF PoolSpec, ImplementsBank

=============================================================================
