----------------------------- MODULE PoolProofs -----------------------------
(***************************************************************************)
(* The code store and the card and dispute routers on a pool of any number *)
(* of threads, for any customers, codes and limits: types, the limit, the  *)
(* death and the ownership of codes, and what each request has to itself   *)
(* while no two requests about one customer overlap.                       *)
(***************************************************************************)
EXTENDS BankThreads, DataLemmas

Challenge == [customer : Customers, code : Codes, attempts_used : Nat, consumed : BOOLEAN]

ThreadState == [pc : {"free", "found", "counted", "elsewhere"},
                customer : Customers \union {"none"}, code : Codes \union {"none"},
                current : Nat]

-----------------------------------------------------------------------------
(* The newest challenge of a customer.                                     *)

LEMMA CurrentFor ==
    ASSUME challenges \in Seq(Challenge), NEW c
    PROVE  /\ current_for(c) \in 0..Len(challenges)
           /\ current_for(c) # 0 => challenges[current_for(c)].customer = c
<1> DEFINE I == {i \in 1..Len(challenges) : challenges[i].customer = c}
<1>1. current_for(c) = IF I # {} THEN Max(I) ELSE 0
  BY DEF current_for, SelectLastInSeq
<1>2. Len(challenges) \in Nat /\ I \in SUBSET (1..Len(challenges))
  OBVIOUS
<1>3. I # {} => Max(I) \in I
  BY <1>2, LargestOf
<1>4. QED BY <1>1, <1>2, <1>3

-----------------------------------------------------------------------------
(* Types of the pool: the codes' types are what TypeOK says and more.      *)

StoreType ==
    /\ challenges \in Seq(Challenge)
    /\ accepted \in Seq(Nat) /\ Len(accepted) = Len(challenges)
    /\ thread \in [Threads -> ThreadState]
    /\ \A t \in Threads : thread[t].current \in 0..Len(challenges)
    /\ \A t \in Threads : thread[t].pc = "counted" => thread[t].current # 0
    /\ \A t \in Threads : thread[t].pc \in {"free", "elsewhere"} => thread[t].current = 0

(* What a step of the pool does to the store, the desk's steps included.   *)
LEMMA PoolCases ==
    ASSUME [PoolNext]_poolVars
    PROVE  \/ \E t \in Threads, c \in Customers, code \in Codes :
                 send_step_up_code(t, c, code) \/ Lookup(t, c, code)
           \/ \E t \in Threads : CountAttempt(t) \/ Compare(t)
           \/ /\ UNCHANGED <<challenges, accepted>>
              /\ \E t \in Threads :
                    \/ thread' = [thread EXCEPT ![t] = Free] /\ thread[t].pc # "counted"
                    \/ \E c \in Customers : /\ thread[t].pc = "free"
                                            /\ thread' = [thread EXCEPT
                                                 ![t].pc = "elsewhere", ![t].customer = c]
           \/ UNCHANGED <<challenges, accepted, thread>>
BY DEF PoolNext, StoreNext, AnswerDead, CheckCard, BlockCard, dispute_transaction,
       create_escalation, poolVars, vars

LEMMA FreeType == Free \in ThreadState /\ Free.current = 0 /\ Free.pc = "free"
BY DEF Free, ThreadState

LEMMA StoreTypeInit == PoolInit => StoreType
<1> SUFFICES ASSUME PoolInit PROVE StoreType
  OBVIOUS
<1>1. challenges = <<>> /\ accepted = <<>> /\ thread = [t \in Threads |-> Free]
  BY DEF PoolInit, Init
<1>2. challenges \in Seq(Challenge) /\ accepted \in Seq(Nat) /\ Len(challenges) = 0
  BY <1>1
<1>3. QED BY <1>1, <1>2, FreeType DEF StoreType

LEMMA StoreTypeNext == StoreType /\ [PoolNext]_poolVars => StoreType'
<1> SUFFICES ASSUME StoreType, [PoolNext]_poolVars PROVE StoreType'
  OBVIOUS
<1>t. /\ challenges \in Seq(Challenge) /\ Len(challenges) \in Nat
      /\ accepted \in Seq(Nat) /\ Len(accepted) = Len(challenges)
      /\ thread \in [Threads -> ThreadState]
      /\ \A t \in Threads : thread[t].current \in 0..Len(challenges)
      /\ \A t \in Threads : thread[t].pc = "counted" => thread[t].current # 0
      /\ \A t \in Threads : thread[t].pc \in {"free", "elsewhere"} => thread[t].current = 0
  BY DEF StoreType
<1>1. ASSUME NEW t \in Threads, NEW c \in Customers, NEW code \in Codes,
             send_step_up_code(t, c, code)
      PROVE  StoreType'
  <2> DEFINE new == [customer |-> c, code |-> code, attempts_used |-> 0, consumed |-> FALSE]
  <2>1. new \in Challenge
    BY DEF Challenge
  <2>2. challenges' = Append(challenges, new) /\ accepted' = Append(accepted, 0)
        /\ thread' = thread
    BY <1>1 DEF send_step_up_code
  <2>3. challenges' \in Seq(Challenge) /\ Len(challenges') = Len(challenges) + 1
    BY <2>1, <2>2, <1>t
  <2>4. accepted' \in Seq(Nat) /\ Len(accepted') = Len(accepted) + 1
    BY <2>2, <1>t
  <2>5. QED BY <2>2, <2>3, <2>4, <1>t DEF StoreType
<1>2. ASSUME NEW t \in Threads, NEW c \in Customers, NEW code \in Codes,
             Lookup(t, c, code)
      PROVE  StoreType'
  <2> DEFINE new == [pc |-> "found", customer |-> c, code |-> code,
                     current |-> current_for(c)]
  <2>1. current_for(c) \in 0..Len(challenges)
    BY <1>t, CurrentFor
  <2>2. new \in ThreadState
    BY <2>1, <1>t DEF ThreadState
  <2>3. thread' = [thread EXCEPT ![t] = new] /\ UNCHANGED <<challenges, accepted>>
    BY <1>2 DEF Lookup
  <2>4. QED BY <2>1, <2>2, <2>3, <1>t DEF StoreType
<1>3. ASSUME NEW t \in Threads, CountAttempt(t) PROVE StoreType'
  <2> DEFINE i == thread[t].current
  <2>1. i \in 1..Len(challenges)
    BY <1>3, <1>t DEF CountAttempt
  <2>2. [challenges[i] EXCEPT !.attempts_used = @ + 1] \in Challenge
    <3>1. challenges[i] \in Challenge
      BY <2>1, <1>t
    <3>2. QED BY <3>1 DEF Challenge
  <2>3. /\ challenges' = [challenges EXCEPT ![i].attempts_used = @ + 1]
        /\ thread' = [thread EXCEPT ![t].pc = "counted"]
        /\ accepted' = accepted
    BY <1>3 DEF CountAttempt
  <2>4. challenges' \in Seq(Challenge) /\ Len(challenges') = Len(challenges)
    BY <2>1, <2>2, <2>3, <1>t
  <2>5. thread' \in [Threads -> ThreadState]
    BY <2>3, <1>t DEF ThreadState
  <2>6. QED BY <2>1, <2>3, <2>4, <2>5, <1>t DEF StoreType
<1>4. ASSUME NEW t \in Threads, Compare(t) PROVE StoreType'
  <2> DEFINE i == thread[t].current
  <2>1. i \in 1..Len(challenges)
    BY <1>4, <1>t DEF Compare
  <2>2. [challenges[i] EXCEPT !.consumed = TRUE] \in Challenge
    <3>1. challenges[i] \in Challenge
      BY <2>1, <1>t
    <3>2. QED BY <3>1 DEF Challenge
  <2>3. /\ thread' = [thread EXCEPT ![t] = Free]
        /\ \/ UNCHANGED <<challenges, accepted>>
           \/ /\ challenges' = [challenges EXCEPT ![i].consumed = TRUE]
              /\ accepted' = [accepted EXCEPT ![i] = @ + 1]
    BY <1>4 DEF Compare
  <2>4. challenges' \in Seq(Challenge) /\ Len(challenges') = Len(challenges)
    <3>1. CASE challenges' = [challenges EXCEPT ![i] = [challenges[i] EXCEPT !.consumed = TRUE]]
      BY <2>1, <2>2, <3>1, <1>t
    <3>2. QED BY <2>3, <3>1, <1>t
  <2>5. accepted' \in Seq(Nat) /\ Len(accepted') = Len(accepted)
    BY <2>1, <2>3, <1>t
  <2>6. QED BY <2>3, <2>4, <2>5, <1>t, FreeType DEF StoreType
<1>5. ASSUME UNCHANGED <<challenges, accepted>>, NEW t \in Threads,
             \/ thread' = [thread EXCEPT ![t] = Free]
             \/ \E c \in Customers : /\ thread[t].pc = "free"
                                     /\ thread' = [thread EXCEPT ![t].pc = "elsewhere",
                                                                ![t].customer = c]
      PROVE  StoreType'
  <2>1. thread[t] \in ThreadState
    BY <1>t
  <2>2. PICK new \in ThreadState : /\ thread' = [thread EXCEPT ![t] = new]
                                  /\ new.pc # "counted" /\ new.current = 0
    <3>1. CASE thread' = [thread EXCEPT ![t] = Free]
      BY <3>1, FreeType
    <3>2. ASSUME NEW c \in Customers, thread[t].pc = "free",
                 thread' = [thread EXCEPT ![t].pc = "elsewhere", ![t].customer = c]
          PROVE  \E new \in ThreadState : /\ thread' = [thread EXCEPT ![t] = new]
                                          /\ new.pc # "counted" /\ new.current = 0
      <4> DEFINE new == [thread[t] EXCEPT !.pc = "elsewhere", !.customer = c]
      <4>1. new \in ThreadState /\ new.pc # "counted" /\ new.current = 0
        BY <2>1, <3>2, <1>t DEF ThreadState
      <4>2. thread' = [thread EXCEPT ![t] = new]
        BY <3>2
      <4>3. QED BY <4>1, <4>2
    <3>3. QED BY <1>5, <3>1, <3>2
  <2>3. thread' \in [Threads -> ThreadState]
    BY <2>2, <1>t
  <2>4. \A u \in Threads : thread'[u] = IF u = t THEN new ELSE thread[u]
    BY <2>2, <1>t
  <2>5. challenges' = challenges /\ accepted' = accepted
    BY <1>5
  <2>6. \A u \in Threads : thread'[u].current \in 0..Len(challenges)
    BY <2>2, <2>4, <1>t
  <2>7. \A u \in Threads : thread'[u].pc = "counted" => thread'[u].current # 0
    BY <2>2, <2>4, <1>t
  <2>8. \A u \in Threads : thread'[u].pc \in {"free", "elsewhere"} => thread'[u].current = 0
    BY <2>2, <2>4, <1>t
  <2>9. QED BY <2>3, <2>5, <2>6, <2>7, <2>8, <1>t DEF StoreType
<1>6. CASE UNCHANGED <<challenges, accepted, thread>>
  BY <1>6, <1>t DEF StoreType
<1>7. QED BY <1>1, <1>2, <1>3, <1>4, <1>5, <1>6, PoolCases

(* The codes and the threads keep their types and point at codes that      *)
(* exist, whatever the threads of the pool do.                             *)
THEOREM StoreTypeCorrect == PoolSpec => []TypeOK
<1>1. StoreType => TypeOK
  <2> SUFFICES ASSUME StoreType PROVE TypeOK
    OBVIOUS
  <2>1. /\ DOMAIN challenges = 1..Len(challenges) /\ DOMAIN accepted = 1..Len(challenges)
        /\ \A i \in DOMAIN challenges : challenges[i] \in Challenge
    BY DEF StoreType
  <2>2. \A t \in Threads : thread[t] \in ThreadState
    BY DEF StoreType
  <2>3. QED BY <2>1, <2>2 DEF StoreType, TypeOK, Challenge, ThreadState
<1>2. QED BY <1>1, StoreTypeInit, StoreTypeNext, PTL DEF PoolSpec

-----------------------------------------------------------------------------
(* The attempts at a code.                                                 *)

LEMMA ComparingFinite ==
    ASSUME NEW i
    PROVE  IsFiniteSet(Comparing(i)) /\ Cardinality(Comparing(i)) \in Nat
<1>1. Comparing(i) \subseteq Threads
  BY DEF Comparing
<1>2. IsFiniteSet(Comparing(i))
  BY <1>1, StoreAssumption, FS_Subset
<1>3. QED BY <1>2, FS_CardinalityType

(* A thread that was not comparing and is not now changes nothing; one     *)
(* that starts or stops comparing is one more or one less.                 *)
LEMMA ComparingMoves ==
    ASSUME StoreType, NEW t \in Threads, NEW new, thread' = [thread EXCEPT ![t] = new], NEW i
    PROVE  /\ thread[t].pc # "counted" /\ new.pc # "counted" => Comparing(i)' = Comparing(i)
           /\ thread[t].pc # "counted" /\ new.pc = "counted"
                => Comparing(i)' = IF new.current = i THEN Comparing(i) \union {t}
                                                     ELSE Comparing(i)
           /\ thread[t].pc = "counted" /\ new.pc # "counted"
                => Comparing(i)' = Comparing(i) \ {t}
<1>1. \A u \in Threads : thread'[u] = IF u = t THEN new ELSE thread[u]
  BY DEF StoreType
<1>2. QED BY <1>1 DEF Comparing

LEMMA AttemptsInit == PoolInit => AttemptsLimited
BY DEF PoolInit, Init, AttemptsLimited

LEMMA AttemptsNext ==
    StoreType /\ AttemptsLimited /\ [PoolNext]_poolVars => AttemptsLimited'
<1> SUFFICES ASSUME StoreType, AttemptsLimited, [PoolNext]_poolVars
             PROVE  AttemptsLimited'
  OBVIOUS
<1>t. /\ DOMAIN challenges = 1..Len(challenges) /\ Len(challenges) \in Nat
      /\ DOMAIN accepted = 1..Len(challenges)
      /\ \A i \in DOMAIN challenges :
            challenges[i] \in Challenge /\ accepted[i] \in Nat
            /\ challenges[i].attempts_used \in Nat
      /\ \A t \in Threads : thread[t] \in ThreadState
      /\ MAX_ATTEMPTS_PER_CODE \in Nat \ {0}
  <2>1. /\ DOMAIN challenges = 1..Len(challenges) /\ Len(challenges) \in Nat
        /\ DOMAIN accepted = 1..Len(challenges)
        /\ \A i \in 1..Len(challenges) : challenges[i] \in Challenge /\ accepted[i] \in Nat
    BY DEF StoreType
  <2>2. \A ch \in Challenge : ch.attempts_used \in Nat
    BY DEF Challenge
  <2>3. \A t \in Threads : thread[t] \in ThreadState
    BY DEF StoreType
  <2>4. QED BY <2>1, <2>2, <2>3, StoreAssumption
<1>a. \A i \in DOMAIN challenges :
          /\ challenges[i].attempts_used <= MAX_ATTEMPTS_PER_CODE
          /\ accepted[i] + Cardinality(Comparing(i)) <= challenges[i].attempts_used
          /\ Cardinality(Comparing(i)) \in Nat
  BY ComparingFinite DEF AttemptsLimited
<1>0. ASSUME UNCHANGED <<challenges, accepted>>, \A i : Comparing(i)' = Comparing(i)
      PROVE  AttemptsLimited'
  BY <1>0, <1>a DEF AttemptsLimited
<1>1. ASSUME NEW t \in Threads, NEW c \in Customers, NEW code \in Codes,
             send_step_up_code(t, c, code)
      PROVE  AttemptsLimited'
  <2> DEFINE n == Len(challenges) + 1
             new == [customer |-> c, code |-> code, attempts_used |-> 0, consumed |-> FALSE]
  <2>1. challenges' = Append(challenges, new) /\ accepted' = Append(accepted, 0)
        /\ thread' = thread
    BY <1>1 DEF send_step_up_code
  <2>2. /\ DOMAIN challenges' = 1..n /\ challenges'[n] = new /\ accepted'[n] = 0
        /\ \A i \in 1..Len(challenges) : challenges'[i] = challenges[i]
                                        /\ accepted'[i] = accepted[i]
    BY <2>1, <1>t DEF StoreType
  <2>3. \A i : Comparing(i)' = Comparing(i)
    BY <2>1 DEF Comparing
  <2>4. Comparing(n) = {}
    BY <1>t DEF Comparing, StoreType
  <2>5. \A i : i = n => Cardinality(Comparing(i)') = 0
    BY <2>3, <2>4, FS_EmptySet
  <2>6. ASSUME NEW i \in DOMAIN challenges'
        PROVE  /\ challenges'[i].attempts_used <= MAX_ATTEMPTS_PER_CODE
               /\ accepted'[i] + Cardinality(Comparing(i)') <= challenges'[i].attempts_used
    <3>1. CASE i = n
      BY <3>1, <2>2, <2>5, <1>t
    <3>2. CASE i \in 1..Len(challenges)
      BY <3>2, <2>2, <2>3, <1>a, <1>t
    <3>3. QED BY <3>1, <3>2, <2>2, <1>t
  <2>7. QED BY <2>6 DEF AttemptsLimited
<1>2. ASSUME NEW t \in Threads, NEW c \in Customers, NEW code \in Codes,
             Lookup(t, c, code)
      PROVE  AttemptsLimited'
  <2> DEFINE new == [pc |-> "found", customer |-> c, code |-> code,
                     current |-> current_for(c)]
  <2>1. thread[t].pc = "free" /\ thread' = [thread EXCEPT ![t] = new]
        /\ UNCHANGED <<challenges, accepted>>
    BY <1>2 DEF Lookup
  <2>2. QED BY <2>1, <1>0, ComparingMoves
<1>3. ASSUME NEW t \in Threads, CountAttempt(t) PROVE AttemptsLimited'
  <2> DEFINE i == thread[t].current
             new == [thread[t] EXCEPT !.pc = "counted"]
  <2>1. /\ thread[t].pc = "found" /\ i \in DOMAIN challenges /\ alive(challenges[i])
        /\ challenges' = [challenges EXCEPT ![i].attempts_used = @ + 1]
        /\ thread' = [thread EXCEPT ![t] = new]
        /\ accepted' = accepted
    BY <1>3, <1>t DEF CountAttempt, StoreType
  <2>2. new.pc = "counted" /\ new.current = i
    BY <1>t DEF ThreadState
  <2>3. \A j : Comparing(j)' = IF j = i THEN Comparing(j) \union {t} ELSE Comparing(j)
    BY <2>1, <2>2, ComparingMoves
  <2>n. \A j : t \notin Comparing(j)
    BY <2>1 DEF Comparing
  <2>4. ASSUME NEW j, j = i
        PROVE  Cardinality(Comparing(j)') = Cardinality(Comparing(j)) + 1
    <3>1. Comparing(j)' = Comparing(j) \union {t}
      BY <2>3, <2>4
    <3>2. QED BY <3>1, <2>n, ComparingFinite, FS_AddElement
  <2>5. challenges[i].attempts_used < MAX_ATTEMPTS_PER_CODE
    BY <2>1 DEF alive
  <2>6. /\ DOMAIN challenges' = DOMAIN challenges
        /\ challenges'[i].attempts_used = challenges[i].attempts_used + 1
        /\ \A j \in DOMAIN challenges \ {i} : challenges'[j] = challenges[j]
    BY <2>1, <1>t DEF Challenge
  <2>7. ASSUME NEW j \in DOMAIN challenges
        PROVE  /\ challenges'[j].attempts_used <= MAX_ATTEMPTS_PER_CODE
               /\ accepted'[j] + Cardinality(Comparing(j)') <= challenges'[j].attempts_used
    <3>1. CASE j = i
      BY <3>1, <2>1, <2>4, <2>5, <2>6, <1>a, <1>t
    <3>2. CASE j # i
      BY <3>2, <2>1, <2>3, <2>6, <1>a
    <3>3. QED BY <3>1, <3>2
  <2>8. QED BY <2>6, <2>7 DEF AttemptsLimited
<1>4. ASSUME NEW t \in Threads, Compare(t) PROVE AttemptsLimited'
  <2> DEFINE i == thread[t].current
  <2>1. /\ thread[t].pc = "counted" /\ thread' = [thread EXCEPT ![t] = Free]
        /\ i \in DOMAIN challenges
        /\ \/ UNCHANGED <<challenges, accepted>>
           \/ /\ challenges' = [challenges EXCEPT ![i].consumed = TRUE]
              /\ accepted' = [accepted EXCEPT ![i] = @ + 1]
    BY <1>4, <1>t DEF Compare, StoreType
  <2>2. \A j : Comparing(j)' = Comparing(j) \ {t}
    BY <2>1, FreeType, ComparingMoves
  <2>3. ASSUME NEW j
        PROVE  /\ j = i => Cardinality(Comparing(j)') = Cardinality(Comparing(j)) - 1
               /\ j # i => Comparing(j)' = Comparing(j)
    <3>1. t \in Comparing(j) <=> j = i
      BY <2>1 DEF Comparing
    <3>2. Comparing(j)' = Comparing(j) \ {t}
      BY <2>2
    <3>3. QED BY <3>1, <3>2, ComparingFinite, FS_RemoveElement
  <2>4. /\ DOMAIN challenges' = DOMAIN challenges
        /\ \A j \in DOMAIN challenges :
              challenges'[j].attempts_used = challenges[j].attempts_used
        /\ accepted'[i] \in {accepted[i], accepted[i] + 1}
        /\ \A j \in DOMAIN challenges \ {i} : accepted'[j] = accepted[j]
    <3>1. CASE UNCHANGED <<challenges, accepted>>
      BY <3>1
    <3>2. CASE /\ challenges' = [challenges EXCEPT ![i].consumed = TRUE]
               /\ accepted' = [accepted EXCEPT ![i] = @ + 1]
      <4>1. \A ch \in Challenge : [ch EXCEPT !.consumed = TRUE].attempts_used = ch.attempts_used
        BY DEF Challenge
      <4>2. QED BY <3>2, <4>1, <2>1, <1>t
    <3>3. QED BY <2>1, <3>1, <3>2
  <2>5. ASSUME NEW j \in DOMAIN challenges
        PROVE  /\ challenges'[j].attempts_used <= MAX_ATTEMPTS_PER_CODE
               /\ accepted'[j] + Cardinality(Comparing(j)') <= challenges'[j].attempts_used
    <3>1. CASE j = i
      <4>1. Cardinality(Comparing(j)') = Cardinality(Comparing(j)) - 1
        BY <3>1, <2>3
      <4>2. /\ accepted'[j] \in {accepted[j], accepted[j] + 1}
            /\ challenges'[j].attempts_used = challenges[j].attempts_used
        BY <3>1, <2>4
      <4>3. QED BY <4>1, <4>2, <1>a, <1>t
    <3>2. CASE j # i
      BY <3>2, <2>3, <2>4, <1>a
    <3>3. QED BY <3>1, <3>2
  <2>6. QED BY <2>4, <2>5 DEF AttemptsLimited
<1>5. ASSUME UNCHANGED <<challenges, accepted>>, NEW t \in Threads,
             thread' = [thread EXCEPT ![t] = Free], thread[t].pc # "counted"
      PROVE  AttemptsLimited'
  BY <1>0, <1>5, FreeType, ComparingMoves
<1>6. ASSUME UNCHANGED <<challenges, accepted>>, NEW t \in Threads, NEW c \in Customers,
             thread[t].pc = "free",
             thread' = [thread EXCEPT ![t].pc = "elsewhere", ![t].customer = c]
      PROVE  AttemptsLimited'
  <2> DEFINE new == [thread[t] EXCEPT !.pc = "elsewhere", !.customer = c]
  <2>1. new.pc # "counted" /\ thread' = [thread EXCEPT ![t] = new]
    BY <1>6, <1>t DEF ThreadState
  <2>2. QED BY <2>1, <1>0, <1>6, ComparingMoves
<1>7. CASE UNCHANGED <<challenges, accepted, thread>>
  BY <1>0, <1>7 DEF Comparing
<1>8. QED BY <1>1, <1>2, <1>3, <1>4, <1>5, <1>6, <1>7, PoolCases

(* Whatever the threads do, no code is tried more often than its limit,    *)
(* and every acceptance is one of the tries.                               *)
THEOREM AttemptsAlwaysLimited == PoolSpec => []AttemptsLimited
<1>1. PoolInit => StoreType /\ AttemptsLimited
  BY StoreTypeInit, AttemptsInit
<1>2. QED BY <1>1, StoreTypeNext, AttemptsNext, PTL DEF PoolSpec

-----------------------------------------------------------------------------
(* What a step does to one challenge.                                      *)

LEMMA ChallengeMoves ==
    ASSUME StoreType, [PoolNext]_poolVars, NEW i \in DOMAIN challenges
    PROVE  /\ i \in DOMAIN challenges'
           /\ challenges'[i].customer = challenges[i].customer
           /\ challenges[i].consumed => challenges'[i].consumed
           /\ \/ challenges'[i].attempts_used = challenges[i].attempts_used
              \/ alive(challenges[i])
           /\ (challenges[i].consumed <=> accepted[i] > 0)
                => (challenges'[i].consumed <=> accepted'[i] > 0)
<1>t. /\ DOMAIN challenges = 1..Len(challenges) /\ Len(challenges) \in Nat
      /\ DOMAIN accepted = 1..Len(challenges)
      /\ challenges[i] \in Challenge /\ accepted[i] \in Nat
  BY DEF StoreType
<1>1. ASSUME NEW t \in Threads, NEW c \in Customers, NEW code \in Codes,
             send_step_up_code(t, c, code)
      PROVE  i \in DOMAIN challenges' /\ challenges'[i] = challenges[i]
             /\ accepted'[i] = accepted[i]
  BY <1>1, <1>t DEF send_step_up_code, StoreType
<1>2. ASSUME NEW t \in Threads, CountAttempt(t)
      PROVE  /\ i \in DOMAIN challenges' /\ accepted'[i] = accepted[i]
             /\ \/ challenges'[i] = challenges[i]
                \/ /\ alive(challenges[i])
                   /\ challenges'[i] = [challenges[i] EXCEPT !.attempts_used = @ + 1]
  BY <1>2, <1>t DEF CountAttempt
<1>3. ASSUME NEW t \in Threads, Compare(t)
      PROVE  /\ i \in DOMAIN challenges'
             /\ \/ challenges'[i] = challenges[i] /\ accepted'[i] = accepted[i]
                \/ /\ challenges'[i] = [challenges[i] EXCEPT !.consumed = TRUE]
                   /\ accepted'[i] = accepted[i] + 1
  BY <1>3, <1>t DEF Compare
<1>4. \/ \E t \in Threads, c \in Customers, code \in Codes : send_step_up_code(t, c, code)
      \/ \E t \in Threads : CountAttempt(t) \/ Compare(t)
      \/ UNCHANGED <<challenges, accepted>>
  BY PoolCases DEF Lookup
<1>5. /\ i \in DOMAIN challenges'
      /\ \/ challenges'[i] = challenges[i] /\ accepted'[i] = accepted[i]
         \/ /\ alive(challenges[i]) /\ accepted'[i] = accepted[i]
            /\ challenges'[i] = [challenges[i] EXCEPT !.attempts_used = @ + 1]
         \/ /\ challenges'[i] = [challenges[i] EXCEPT !.consumed = TRUE]
            /\ accepted'[i] = accepted[i] + 1
  BY <1>1, <1>2, <1>3, <1>4
<1>6. /\ [challenges[i] EXCEPT !.attempts_used = @ + 1].consumed = challenges[i].consumed
      /\ [challenges[i] EXCEPT !.attempts_used = @ + 1].customer = challenges[i].customer
      /\ [challenges[i] EXCEPT !.consumed = TRUE].consumed
      /\ [challenges[i] EXCEPT !.consumed = TRUE].customer = challenges[i].customer
      /\ [challenges[i] EXCEPT !.consumed = TRUE].attempts_used
            = challenges[i].attempts_used
  BY <1>t DEF Challenge
<1>7. CASE challenges'[i] = challenges[i] /\ accepted'[i] = accepted[i]
  BY <1>5, <1>7
<1>8. CASE /\ alive(challenges[i]) /\ accepted'[i] = accepted[i]
           /\ challenges'[i] = [challenges[i] EXCEPT !.attempts_used = @ + 1]
  BY <1>5, <1>6, <1>8
<1>9. CASE /\ challenges'[i] = [challenges[i] EXCEPT !.consumed = TRUE]
           /\ accepted'[i] = accepted[i] + 1
  <2>1. accepted'[i] > 0
    BY <1>9, <1>t
  <2>2. QED BY <1>5, <1>6, <1>9, <2>1
<1>10. QED BY <1>5, <1>7, <1>8, <1>9

(* A code that is dead stays dead, and no request counts on it any more,   *)
(* although others may be between their check and their count.             *)
THEOREM CodesStayDead == PoolSpec => DeadCodesStayDead
<1> DEFINE Dead == \A i \in DOMAIN challenges : ~alive(challenges[i]) =>
                      /\ ~alive(challenges'[i])
                      /\ challenges'[i].attempts_used = challenges[i].attempts_used
<1>1. StoreType /\ [PoolNext]_poolVars => [Dead]_vars
  BY ChallengeMoves DEF alive
<1>2. QED BY <1>1, StoreTypeInit, StoreTypeNext, PTL DEF PoolSpec, DeadCodesStayDead

-----------------------------------------------------------------------------
LEMMA OwnCodesInit == PoolInit => OwnCodesOnly
BY FreeType DEF PoolInit, Init, OwnCodesOnly

LEMMA OwnCodesNext == StoreType /\ OwnCodesOnly /\ [PoolNext]_poolVars => OwnCodesOnly'
<1> SUFFICES ASSUME StoreType, OwnCodesOnly, [PoolNext]_poolVars
             PROVE  OwnCodesOnly'
  OBVIOUS
<1>t. /\ DOMAIN challenges = 1..Len(challenges) /\ Len(challenges) \in Nat
      /\ \A t \in Threads : thread[t] \in ThreadState /\ thread[t].current \in 0..Len(challenges)
      /\ thread \in [Threads -> ThreadState]
  BY DEF StoreType
<1>1. \A i \in DOMAIN challenges' : challenges'[i].consumed <=> accepted'[i] > 0
  <2>1. \A i \in DOMAIN challenges : challenges'[i].consumed <=> accepted'[i] > 0
    BY ChallengeMoves DEF OwnCodesOnly
  <2>2. ASSUME NEW t \in Threads, NEW c \in Customers, NEW code \in Codes,
               send_step_up_code(t, c, code),
               NEW i \in DOMAIN challenges' \ DOMAIN challenges
        PROVE  challenges'[i].consumed <=> accepted'[i] > 0
    BY <2>2, <1>t DEF send_step_up_code, StoreType
  <2>3. \/ \E t \in Threads, c \in Customers, code \in Codes : send_step_up_code(t, c, code)
        \/ DOMAIN challenges' = DOMAIN challenges
    BY PoolCases, <1>t DEF Lookup, CountAttempt, Compare
  <2>4. QED BY <2>1, <2>2, <2>3
<1>2. ASSUME NEW t \in Threads, NEW new \in ThreadState,
             thread' = [thread EXCEPT ![t] = new],
             new.current # 0 =>
                 new.current \in 1..Len(challenges)
                   /\ challenges[new.current].customer = new.customer
      PROVE  \A u \in Threads : thread'[u].current # 0 =>
                 challenges'[thread'[u].current].customer = thread'[u].customer
  <2>1. \A u \in Threads : thread'[u].current # 0 =>
            thread'[u].current \in DOMAIN challenges
              /\ challenges[thread'[u].current].customer = thread'[u].customer
    BY <1>2, <1>t DEF OwnCodesOnly
  <2>2. QED BY <2>1, ChallengeMoves
<1>3. ASSUME thread' = thread
      PROVE  \A u \in Threads : thread'[u].current # 0 =>
                 challenges'[thread'[u].current].customer = thread'[u].customer
  BY <1>3, <1>t, ChallengeMoves DEF OwnCodesOnly
<1>4. ASSUME NEW t \in Threads, NEW c \in Customers, NEW code \in Codes,
             Lookup(t, c, code)
      PROVE  \A u \in Threads : thread'[u].current # 0 =>
                 challenges'[thread'[u].current].customer = thread'[u].customer
  <2> DEFINE new == [pc |-> "found", customer |-> c, code |-> code,
                     current |-> current_for(c)]
  <2>1. thread' = [thread EXCEPT ![t] = new]
    BY <1>4 DEF Lookup
  <2>2. /\ current_for(c) \in 0..Len(challenges)
        /\ current_for(c) # 0 => challenges[current_for(c)].customer = c
    BY CurrentFor DEF StoreType
  <2>3. new \in ThreadState
    BY <2>2, <1>t DEF ThreadState
  <2>4. new.current # 0 => new.current \in 1..Len(challenges)
                             /\ challenges[new.current].customer = new.customer
    BY <2>2, <1>t
  <2>5. QED BY <2>1, <2>3, <2>4, <1>2
<1>5. ASSUME NEW t \in Threads, CountAttempt(t)
      PROVE  \A u \in Threads : thread'[u].current # 0 =>
                 challenges'[thread'[u].current].customer = thread'[u].customer
  <2> DEFINE new == [thread[t] EXCEPT !.pc = "counted"]
  <2>1. thread' = [thread EXCEPT ![t] = new]
    BY <1>5 DEF CountAttempt
  <2>2. new \in ThreadState /\ new.current = thread[t].current
        /\ new.customer = thread[t].customer
    BY <1>t DEF ThreadState
  <2>3. new.current # 0 => new.current \in 1..Len(challenges)
                             /\ challenges[new.current].customer = new.customer
    BY <2>2, <1>t DEF OwnCodesOnly
  <2>4. QED BY <2>1, <2>2, <2>3, <1>2
<1>6. ASSUME NEW t \in Threads, thread' = [thread EXCEPT ![t] = Free]
      PROVE  \A u \in Threads : thread'[u].current # 0 =>
                 challenges'[thread'[u].current].customer = thread'[u].customer
  BY <1>6, <1>2, FreeType
<1>7. ASSUME NEW t \in Threads, NEW c \in Customers, thread[t].pc = "free",
             thread' = [thread EXCEPT ![t].pc = "elsewhere", ![t].customer = c]
      PROVE  \A u \in Threads : thread'[u].current # 0 =>
                 challenges'[thread'[u].current].customer = thread'[u].customer
  <2> DEFINE new == [thread[t] EXCEPT !.pc = "elsewhere", !.customer = c]
  <2>1. thread[t].current = 0
    BY <1>7 DEF StoreType
  <2>2. new \in ThreadState /\ new.current = 0
    BY <2>1, <1>t DEF ThreadState
  <2>3. thread' = [thread EXCEPT ![t] = new]
    BY <1>7
  <2>4. QED BY <2>2, <2>3, <1>2
<1>8. \A u \in Threads : thread'[u].current # 0 =>
          challenges'[thread'[u].current].customer = thread'[u].customer
  BY <1>3, <1>4, <1>5, <1>6, <1>7, PoolCases DEF send_step_up_code, Compare
<1>9. QED BY <1>1, <1>8 DEF OwnCodesOnly

(* Requests are accepted for, and spend their attempts on, codes of their  *)
(* own customer only, however many threads serve however many customers.   *)
THEOREM CodesNeverMixedUp == PoolSpec => []OwnCodesOnly
BY StoreTypeInit, StoreTypeNext, OwnCodesInit, OwnCodesNext, PTL DEF PoolSpec

-----------------------------------------------------------------------------
(* Requests that do not overlap.                                           *)

Busy(t) == thread[t].pc # "free"

DeskType ==
    /\ card \in [Customers -> {"active", "blocked"}]
    /\ cardRefs \in [Customers -> Nat]
    /\ disputeRefs \in [Customers -> Nat]
    /\ \A c \in Customers : c \notin disputed => disputeRefs[c] = 0
    /\ \A t \in Threads : /\ Busy(t) => thread[t].customer \in Customers
                          /\ thread[t].pc \in {"found", "counted"} => thread[t].code \in Codes

(* While no two requests about one customer overlap, each has its customer *)
(* to itself: the card it found active, the newest code it looked up.      *)
Alone ==
    ~overlapped =>
        \A t \in Threads :
            /\ \A u \in Threads \ {t} :
                  Busy(t) /\ Busy(u) => thread[t].customer # thread[u].customer
            /\ thread[t].pc = "elsewhere" => card[thread[t].customer] = "active"
            /\ \A d : thread[t].pc \in {"found", "counted"} /\ thread[t].customer = d
                        => thread[t].current = current_for(d)
            /\ thread[t].pc = "counted" => ~challenges[thread[t].current].consumed

PoolInv == StoreType /\ AttemptsLimited /\ OwnCodesOnly /\ DeskType /\ OneReferenceEach /\ Alone

-----------------------------------------------------------------------------
(* Other codes do not change which code of a customer is the newest.       *)

LEMMA SameCurrent ==
    ASSUME StoreType, [PoolNext]_poolVars, NEW d,
           \A t \in Threads, c \in Customers, code \in Codes :
               send_step_up_code(t, c, code) => c # d
    PROVE  current_for(d)' = current_for(d)
<1> DEFINE I(s) == {i \in 1..Len(s) : s[i].customer = d}
<1>1. /\ current_for(d) = IF I(challenges) # {} THEN Max(I(challenges)) ELSE 0
      /\ current_for(d)' = IF I(challenges') # {} THEN Max(I(challenges')) ELSE 0
  BY DEF current_for, SelectLastInSeq
<1>2. /\ DOMAIN challenges = 1..Len(challenges) /\ Len(challenges) \in Nat
      /\ DOMAIN challenges' = 1..Len(challenges')
  BY StoreTypeNext DEF StoreType
<1>3. \A i \in DOMAIN challenges : i \in DOMAIN challenges'
                                     /\ challenges'[i].customer = challenges[i].customer
  BY ChallengeMoves
<1>4. ASSUME NEW i \in DOMAIN challenges' \ DOMAIN challenges
      PROVE  challenges'[i].customer # d
  <2>1. PICK t \in Threads, c \in Customers, code \in Codes : send_step_up_code(t, c, code)
    BY <1>4, PoolCases DEF Lookup, CountAttempt, Compare, StoreType
  <2>2. challenges'[i].customer = c
    BY <1>4, <2>1 DEF send_step_up_code, StoreType
  <2>3. QED BY <2>1, <2>2
<1>5. I(challenges') = I(challenges)
  BY <1>2, <1>3, <1>4
<1>6. QED BY <1>1, <1>5

LEMMA SameStore ==
    ASSUME challenges' = challenges, NEW d
    PROVE  current_for(d)' = current_for(d)
<1> DEFINE I(s) == {i \in 1..Len(s) : s[i].customer = d}
<1>1. /\ current_for(d) = IF I(challenges) # {} THEN Max(I(challenges)) ELSE 0
      /\ current_for(d)' = IF I(challenges') # {} THEN Max(I(challenges')) ELSE 0
  BY DEF current_for, SelectLastInSeq
<1>2. I(challenges') = I(challenges)
  OBVIOUS
<1>3. QED BY <1>1, <1>2

(* What a step does to the threads.                                        *)
LEMMA ThreadMoves ==
    ASSUME StoreType, NEW t \in Threads, NEW new, thread' = [thread EXCEPT ![t] = new]
    PROVE  \A u \in Threads : thread'[u] = IF u = t THEN new ELSE thread[u]
BY DEF StoreType

LEMMA DeskTypeNext ==
    StoreType /\ DeskType /\ [PoolNext]_poolVars => DeskType'
<1> SUFFICES ASSUME StoreType, DeskType, [PoolNext]_poolVars PROVE DeskType'
  OBVIOUS
<1>t. thread \in [Threads -> ThreadState]
  BY DEF StoreType
<1>0. ASSUME NEW t \in Threads, NEW new \in ThreadState, thread' = [thread EXCEPT ![t] = new],
             new.pc # "free" => new.customer \in Customers,
             new.pc \in {"found", "counted"} => new.code \in Codes
      PROVE  \A u \in Threads : /\ Busy(u)' => thread'[u].customer \in Customers
                                /\ thread'[u].pc \in {"found", "counted"}
                                     => thread'[u].code \in Codes
  BY <1>0, ThreadMoves DEF DeskType, Busy
<1>1. ASSUME UNCHANGED <<thread, card, cardRefs, disputed, disputeRefs>>
      PROVE  DeskType'
  BY <1>1 DEF DeskType, Busy
<1>2. ASSUME NEW t \in Threads, NEW c \in Customers, NEW code \in Codes,
             Lookup(t, c, code) /\ UNCHANGED desk
      PROVE  DeskType'
  <2> DEFINE new == [pc |-> "found", customer |-> c, code |-> code,
                     current |-> current_for(c)]
  <2>1. new \in ThreadState
    BY CurrentFor DEF ThreadState, StoreType
  <2>2. thread' = [thread EXCEPT ![t] = new]
    BY <1>2 DEF Lookup
  <2>3. QED BY <2>1, <2>2, <1>0, <1>2 DEF DeskType, desk
<1>3. ASSUME NEW t \in Threads, CountAttempt(t) /\ UNCHANGED desk
      PROVE  DeskType'
  <2> DEFINE new == [thread[t] EXCEPT !.pc = "counted"]
  <2>1. new \in ThreadState /\ new.customer \in Customers /\ new.code \in Codes
    BY <1>3, <1>t DEF CountAttempt, DeskType, Busy, ThreadState
  <2>2. thread' = [thread EXCEPT ![t] = new]
    BY <1>3 DEF CountAttempt
  <2>3. QED BY <2>1, <2>2, <1>0, <1>3 DEF DeskType, desk
<1>4. ASSUME NEW t \in Threads, thread' = [thread EXCEPT ![t] = Free],
             UNCHANGED <<disputed, disputeRefs>>,
             \/ UNCHANGED <<card, cardRefs>>
             \/ BlockCard(t)
      PROVE  DeskType'
  <2>1. \A u \in Threads : /\ Busy(u)' => thread'[u].customer \in Customers
                           /\ thread'[u].pc \in {"found", "counted"}
                                => thread'[u].code \in Codes
    BY <1>4, <1>0, FreeType
  <2>2. card' \in [Customers -> {"active", "blocked"}] /\ cardRefs' \in [Customers -> Nat]
    BY <1>4 DEF BlockCard, DeskType
  <2>3. QED BY <2>1, <2>2, <1>4 DEF DeskType
<1>5. ASSUME NEW t \in Threads, NEW c \in Customers, CheckCard(t, c) PROVE DeskType'
  <2> DEFINE new == [thread[t] EXCEPT !.pc = "elsewhere", !.customer = c]
  <2>1. new \in ThreadState /\ new.pc = "elsewhere" /\ new.customer = c
    BY <1>t DEF ThreadState
  <2>2. thread' = [thread EXCEPT ![t] = new]
    BY <1>5 DEF CheckCard
  <2>3. QED BY <2>1, <2>2, <1>0, <1>5 DEF DeskType, desk, CheckCard
<1>6. ASSUME NEW t \in Threads, NEW c \in Customers, dispute_transaction(t, c)
      PROVE  DeskType'
  BY <1>6 DEF dispute_transaction, DeskType, Busy, vars
<1>7. ASSUME NEW t \in Threads, AnswerDead(t) /\ UNCHANGED desk PROVE DeskType'
  BY <1>4, <1>7 DEF AnswerDead, desk
<1>8. ASSUME NEW t \in Threads, Compare(t) /\ UNCHANGED desk PROVE DeskType'
  BY <1>4, <1>8 DEF Compare, desk
<1>9. ASSUME NEW t \in Threads, BlockCard(t) PROVE DeskType'
  BY <1>4, <1>9 DEF BlockCard
<1>10. ASSUME NEW t \in Threads, NEW c \in Customers, NEW code \in Codes,
              send_step_up_code(t, c, code) /\ UNCHANGED desk
       PROVE  DeskType'
  BY <1>1, <1>10 DEF send_step_up_code, desk
<1>11. ASSUME NEW t \in Threads, create_escalation(t) PROVE DeskType'
  BY <1>1, <1>11 DEF create_escalation, vars
<1>12. CASE UNCHANGED poolVars
  BY <1>1, <1>12 DEF poolVars, vars, desk
<1>13. QED
  BY <1>2, <1>3, <1>5, <1>6, <1>7, <1>8, <1>9, <1>10, <1>11, <1>12
  DEF PoolNext, StoreNext

LEMMA ReferencesNext ==
    StoreType /\ DeskType /\ OneReferenceEach /\ Alone /\ [PoolNext]_poolVars
        => OneReferenceEach'
<1> SUFFICES ASSUME StoreType, DeskType, OneReferenceEach, Alone, [PoolNext]_poolVars
             PROVE  OneReferenceEach'
  OBVIOUS
<1>1. CASE UNCHANGED <<card, cardRefs, disputeRefs>> /\ (overlapped => overlapped')
  BY <1>1 DEF OneReferenceEach
<1>2. ASSUME NEW t \in Threads, BlockCard(t) PROVE OneReferenceEach'
  <2> DEFINE c == thread[t].customer
  <2>1. /\ c \in Customers
        /\ card' = [card EXCEPT ![c] = "blocked"]
        /\ cardRefs' = [cardRefs EXCEPT ![c] = @ + 1]
        /\ UNCHANGED <<overlapped, disputeRefs>>
    BY <1>2 DEF BlockCard, DeskType, Busy
  <2>2. ~overlapped => card[c] = "active"
    BY <1>2 DEF BlockCard, Alone
  <2>3. ~overlapped => cardRefs[c] = 0
    BY <2>1, <2>2 DEF OneReferenceEach, DeskType
  <2>4. ASSUME NEW d \in Customers
        PROVE  /\ ~overlapped => cardRefs'[d] <= 1
               /\ disputeRefs'[d] <= 1
               /\ card'[d] = "blocked" <=> cardRefs'[d] > 0
    BY <2>1, <2>3 DEF OneReferenceEach, DeskType
  <2>5. QED BY <2>1, <2>4 DEF OneReferenceEach
<1>3. ASSUME NEW t \in Threads, NEW c \in Customers, dispute_transaction(t, c)
      PROVE  OneReferenceEach'
  <2>1. disputeRefs[c] = 0
    BY <1>3 DEF dispute_transaction, DeskType
  <2>2. /\ disputeRefs' = [disputeRefs EXCEPT ![c] = @ + 1]
        /\ UNCHANGED <<card, cardRefs, overlapped>>
    BY <1>3 DEF dispute_transaction, vars
  <2>3. \A d \in Customers : disputeRefs'[d] <= 1
    BY <2>1, <2>2 DEF DeskType, OneReferenceEach
  <2>4. QED BY <2>2, <2>3 DEF OneReferenceEach
<1>4. \/ UNCHANGED <<card, cardRefs, disputeRefs>> /\ (overlapped => overlapped')
      \/ \E t \in Threads : BlockCard(t)
      \/ \E t \in Threads, c \in Customers : dispute_transaction(t, c)
  BY DEF PoolNext, StoreNext, send_step_up_code, Lookup, AnswerDead, CountAttempt, Compare,
         CheckCard, create_escalation, NoteOverlap, poolVars, vars, desk
<1>5. QED BY <1>1, <1>2, <1>3, <1>4

-----------------------------------------------------------------------------
LEMMA AloneNext == PoolInv /\ [PoolNext]_poolVars => Alone'
<1> SUFFICES ASSUME PoolInv, [PoolNext]_poolVars, ~overlapped' PROVE Alone'
  BY DEF Alone
<1>i. StoreType /\ OwnCodesOnly /\ DeskType /\ Alone
  BY DEF PoolInv
<1>o. ~overlapped
  BY DEF PoolNext, StoreNext, send_step_up_code, Lookup, AnswerDead, CountAttempt, Compare,
         CheckCard, BlockCard, dispute_transaction, create_escalation, NoteOverlap, poolVars,
         vars
<1>a. \A t \in Threads :
          /\ \A u \in Threads \ {t} :
                Busy(t) /\ Busy(u) => thread[t].customer # thread[u].customer
          /\ thread[t].pc = "elsewhere" => card[thread[t].customer] = "active"
          /\ \A d : thread[t].pc \in {"found", "counted"} /\ thread[t].customer = d
                      => thread[t].current = current_for(d)
          /\ thread[t].pc = "counted" => ~challenges[thread[t].current].consumed
  BY <1>i, <1>o DEF Alone
<1>t. /\ thread \in [Threads -> ThreadState]
      /\ \A t \in Threads : thread[t].current \in 0..Len(challenges)
      /\ \A t \in Threads : thread[t].pc = "counted" => thread[t].current # 0
      /\ DOMAIN challenges = 1..Len(challenges)
  BY <1>i DEF StoreType
<1> DEFINE Fine(t) ==
              /\ \A u \in Threads \ {t} :
                    Busy(t)' /\ Busy(u)' => thread'[t].customer # thread'[u].customer
              /\ thread'[t].pc = "elsewhere" => card'[thread'[t].customer] = "active"
              /\ \A d : thread'[t].pc \in {"found", "counted"} /\ thread'[t].customer = d
                          => thread'[t].current = current_for(d)'
              /\ thread'[t].pc = "counted" => ~challenges'[thread'[t].current].consumed
<1> SUFFICES ASSUME NEW t \in Threads PROVE Fine(t)
  BY DEF Alone, Busy
<1>1. ASSUME NEW s \in Threads, NEW c \in Customers, NEW code \in Codes,
             send_step_up_code(s, c, code) /\ UNCHANGED desk
      PROVE  Fine(t)
  <2>1. \A u \in Threads : thread[u].customer # c
    BY <1>1 DEF send_step_up_code, NoteOverlap
  <2>2. ASSUME NEW v \in Threads, NEW d \in Customers, NEW k \in Codes,
               send_step_up_code(v, d, k)
        PROVE  d = c
    <3>1. /\ challenges' = Append(challenges, [customer |-> c, code |-> code,
                                        attempts_used |-> 0, consumed |-> FALSE])
          /\ challenges' = Append(challenges, [customer |-> d, code |-> k,
                                        attempts_used |-> 0, consumed |-> FALSE])
      BY <1>1, <2>2 DEF send_step_up_code
    <3>2. challenges'[Len(challenges) + 1].customer = c
          /\ challenges'[Len(challenges) + 1].customer = d
      BY <3>1, <1>i DEF StoreType
    <3>3. QED BY <3>2
  <2>3. \A d : d # c => current_for(d)' = current_for(d)
    BY <1>i, <2>2, SameCurrent
  <2>4. thread' = thread /\ card' = card
        /\ \A i \in DOMAIN challenges : challenges'[i] = challenges[i]
    BY <1>1, <1>i DEF send_step_up_code, desk, StoreType
  <2>5. QED BY <2>1, <2>3, <2>4, <1>a, <1>t DEF Busy
<1>2. ASSUME \A s \in Threads, c \in Customers, code \in Codes :
                 ~send_step_up_code(s, c, code)
      PROVE  \A d : current_for(d)' = current_for(d)
  BY <1>i, <1>2, SameCurrent
<1>3. ASSUME NEW s \in Threads, NEW c \in Customers, NEW code \in Codes,
             Lookup(s, c, code) /\ UNCHANGED desk
      PROVE  Fine(t)
  <2> DEFINE new == [pc |-> "found", customer |-> c, code |-> code,
                     current |-> current_for(c)]
  <2>1. \A u \in Threads : thread[u].customer # c
    BY <1>3 DEF Lookup, NoteOverlap
  <2>2. \A u \in Threads : thread'[u] = IF u = s THEN new ELSE thread[u]
    BY <1>3, <1>i, ThreadMoves DEF Lookup
  <2>3. card' = card /\ challenges' = challenges /\ \A d : current_for(d)' = current_for(d)
    BY <1>3, SameStore DEF Lookup, desk
  <2>4. QED BY <2>1, <2>2, <2>3, <1>a, <1>t DEF Busy
<1>4. ASSUME NEW s \in Threads, CountAttempt(s) /\ UNCHANGED desk PROVE Fine(t)
  <2> DEFINE new == [thread[s] EXCEPT !.pc = "counted"]
  <2>1. /\ thread[s].pc = "found" /\ thread[s].current # 0
        /\ ~challenges[thread[s].current].consumed
    BY <1>4 DEF CountAttempt, alive
  <2>2. /\ \A u \in Threads : thread'[u] = IF u = s THEN new ELSE thread[u]
        /\ new.pc = "counted" /\ new.customer = thread[s].customer
        /\ new.current = thread[s].current
    BY <1>4, <1>i, <1>t, ThreadMoves DEF CountAttempt, ThreadState
  <2>3. \A i \in DOMAIN challenges : challenges'[i].consumed = challenges[i].consumed
    BY <1>4, <1>i, <1>t DEF CountAttempt, StoreType, Challenge
  <2>4. card' = card /\ \A d : current_for(d)' = current_for(d)
    <3>1. \A v \in Threads, c \in Customers, code \in Codes : ~send_step_up_code(v, c, code)
      BY <1>4, <1>i DEF send_step_up_code, CountAttempt, StoreType
    <3>2. QED BY <3>1, <1>2, <1>4 DEF desk
  <2>5. thread'[t].pc = "counted" => ~challenges'[thread'[t].current].consumed
    <3>1. \A u \in Threads : thread[u].pc = "counted" \/ u = s =>
              /\ thread[u].current \in DOMAIN challenges
              /\ ~challenges[thread[u].current].consumed
      BY <2>1, <1>a, <1>t
    <3>2. QED BY <3>1, <2>2, <2>3
  <2>6. /\ Busy(s) /\ \A u \in Threads : (Busy(u)' <=> Busy(u))
                                        /\ thread'[u].customer = thread[u].customer
        /\ thread'[t].pc \in {"found", "counted"} => thread[t].pc \in {"found", "counted"}
        /\ thread'[t].pc = "elsewhere" => thread[t].pc = "elsewhere"
        /\ thread'[t].current = thread[t].current
    BY <2>1, <2>2 DEF Busy
  <2>7. QED BY <2>4, <2>5, <2>6, <1>a
<1>5. ASSUME NEW s \in Threads, Compare(s) /\ UNCHANGED desk PROVE Fine(t)
  <2>1. thread[s].pc = "counted" /\ thread[s].current \in DOMAIN challenges
    BY <1>5, <1>t DEF Compare
  <2>2. \A u \in Threads : thread'[u] = IF u = s THEN Free ELSE thread[u]
    <3>1. thread' = [thread EXCEPT ![s] = Free]
      BY <1>5 DEF Compare
    <3>2. QED BY <3>1, <1>i, ThreadMoves
  <2>3. \A i \in DOMAIN challenges \ {thread[s].current} : challenges'[i] = challenges[i]
    BY <1>5, <1>t DEF Compare
  <2>4. \A u \in Threads \ {s} : thread[u].pc = "counted" =>
            thread[u].current # thread[s].current
    BY <2>1, <1>a, <1>i, <1>t DEF OwnCodesOnly, Busy
  <2>5. card' = card /\ \A d : current_for(d)' = current_for(d)
    <3>1. \A v \in Threads, c \in Customers, code \in Codes : ~send_step_up_code(v, c, code)
      BY <1>5, <1>i DEF send_step_up_code, Compare, StoreType
    <3>2. QED BY <3>1, <1>2, <1>5 DEF desk
  <2>6. QED BY <2>2, <2>3, <2>4, <2>5, <1>a, <1>t, FreeType DEF Busy
<1>6. ASSUME NEW s \in Threads, thread' = [thread EXCEPT ![s] = Free],
             challenges' = challenges, card' = card
      PROVE  Fine(t)
  <2>1. \A u \in Threads : thread'[u] = IF u = s THEN Free ELSE thread[u]
    BY <1>6, <1>i, ThreadMoves
  <2>2. \A d : current_for(d)' = current_for(d)
    BY <1>6, SameStore
  <2>3. QED BY <2>1, <2>2, <1>6, <1>a, FreeType DEF Busy
<1>7. ASSUME NEW s \in Threads, BlockCard(s) PROVE Fine(t)
  <2>1. /\ thread[s].pc = "elsewhere"
        /\ \A u \in Threads : thread'[u] = IF u = s THEN Free ELSE thread[u]
        /\ card' = [card EXCEPT ![thread[s].customer] = "blocked"]
        /\ challenges' = challenges
    BY <1>7, <1>i, ThreadMoves DEF BlockCard
  <2>2. \A d : current_for(d)' = current_for(d)
    BY <2>1, SameStore
  <2>3. thread'[t].pc = "elsewhere" => card'[thread'[t].customer] = "active"
    BY <2>1, <1>a, <1>i, FreeType DEF Busy, DeskType
  <2>4. QED BY <2>1, <2>2, <2>3, <1>a, FreeType DEF Busy
<1>8. ASSUME NEW s \in Threads, NEW c \in Customers, CheckCard(s, c) PROVE Fine(t)
  <2> DEFINE new == [thread[s] EXCEPT !.pc = "elsewhere", !.customer = c]
  <2>1. \A u \in Threads : thread[u].customer # c
    BY <1>8 DEF CheckCard, NoteOverlap
  <2>2. /\ \A u \in Threads : thread'[u] = IF u = s THEN new ELSE thread[u]
        /\ new.pc = "elsewhere" /\ new.customer = c
    BY <1>8, <1>i, <1>t, ThreadMoves DEF CheckCard, ThreadState
  <2>3. card[c] = "active" /\ card' = card /\ challenges' = challenges
    BY <1>8 DEF CheckCard, desk
  <2>4. \A d : current_for(d)' = current_for(d)
    BY <2>3, SameStore
  <2>5. ASSUME t = s PROVE Fine(t)
    BY <2>1, <2>2, <2>3, <2>5 DEF Busy
  <2>6. ASSUME t # s PROVE Fine(t)
    <3>1. thread'[t] = thread[t]
      BY <2>2, <2>6
    <3>2. ASSUME NEW u \in Threads \ {t}, Busy(t)', Busy(u)'
          PROVE  thread'[t].customer # thread'[u].customer
      <4>1. Busy(t) /\ (u # s => Busy(u) /\ thread'[u] = thread[u])
        BY <3>1, <3>2, <2>2 DEF Busy
      <4>2. u = s => thread'[u].customer = c
        BY <2>2
      <4>3. QED BY <4>1, <4>2, <3>1, <2>1, <1>a
    <3>3. QED BY <3>1, <3>2, <2>3, <2>4, <1>a
  <2>7. QED BY <2>5, <2>6
<1>9. ASSUME UNCHANGED <<thread, challenges, card>> PROVE Fine(t)
  <2>1. \A d : current_for(d)' = current_for(d)
    BY <1>9, SameStore
  <2>2. QED BY <2>1, <1>9, <1>a DEF Busy
<1>10. ASSUME NEW s \in Threads, AnswerDead(s) /\ UNCHANGED desk PROVE Fine(t)
  BY <1>6, <1>10 DEF AnswerDead, desk
<1>11. ASSUME NEW s \in Threads,
              create_escalation(s) \/ \E c \in Customers : dispute_transaction(s, c)
       PROVE  Fine(t)
  BY <1>9, <1>11 DEF create_escalation, dispute_transaction, vars
<1>12. CASE UNCHANGED poolVars
  BY <1>9, <1>12 DEF poolVars, vars, desk
<1>13. QED
  BY <1>1, <1>3, <1>4, <1>5, <1>7, <1>8, <1>10, <1>11, <1>12 DEF PoolNext, StoreNext

LEMMA PoolInvInit == PoolInit => PoolInv
<1> SUFFICES ASSUME PoolInit PROVE PoolInv
  OBVIOUS
<1>1. StoreType /\ AttemptsLimited /\ OwnCodesOnly
  BY StoreTypeInit, AttemptsInit, OwnCodesInit
<1>2. DeskType /\ OneReferenceEach /\ Alone
  BY FreeType DEF PoolInit, Init, DeskType, OneReferenceEach, Alone, Busy, Free
<1>3. QED BY <1>1, <1>2 DEF PoolInv

LEMMA PoolInvNext == PoolInv /\ [PoolNext]_poolVars => PoolInv'
BY StoreTypeNext, AttemptsNext, OwnCodesNext, DeskTypeNext, ReferencesNext, AloneNext
DEF PoolInv

(* A card is blocked and a dispute opened with one reference each, however *)
(* many threads serve however many customers, while no two requests about  *)
(* one customer overlap.                                                   *)
THEOREM ReferencesGivenOnce == PoolSpec => []OneReferenceEach
<1>1. PoolInv => OneReferenceEach
  BY DEF PoolInv
<1>2. QED BY <1>1, PoolInvInit, PoolInvNext, PTL DEF PoolSpec

=============================================================================
