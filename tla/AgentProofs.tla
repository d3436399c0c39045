----------------------------- MODULE AgentProofs -----------------------------
(***************************************************************************)
(* Theorems about AgentProcess, for any number of turns, any delays and    *)
(* any way to write an account number, and about the quantile of Latency.  *)
(***************************************************************************)
EXTENDS AgentProcess, DataLemmas

-----------------------------------------------------------------------------
(* Ten digits are four tokens at least, however they are doubled and       *)
(* tripled: a spoken account number is always a run.                       *)
LEMMA MaskShowsFour ==
    ASSUME NEW n \in Written
    PROVE  /\ n.form # "blocks" => Readable(n, TRUE) = 4 /\ Readable(n, FALSE) = 4
           /\ n.form = "blocks" /\ ~n.wide => Readable(n, TRUE) = 4
<1>1. /\ n.len = 10 /\ n.tokens \in Nat /\ n.wide \in BOOLEAN /\ WellFormed(n)
      /\ n.form \in {"block", "blocks", "digits", "words"}
  BY ProcessAssumption DEF Numbers, Forms, ACCOUNT_DIGITS
<1>2. mask_value(n.len) = 4 /\ mask_number_run(n.len) = 4 /\ Registered(n.len)
  BY <1>1 DEF mask_value, mask_number_run, Registered
<1>3. /\ n.form = "block" => PatternMatches(n)
      /\ n.form = "blocks" /\ ~n.wide => KnownMatches(n)
      /\ n.form = "digits" => RunMatches(n)
  BY <1>1 DEF WellFormed, KnownMatches, PatternMatches, RunMatches
<1>4. n.form = "words" => RunMatches(n)
  BY <1>1 DEF WellFormed, RunMatches
<1>5. QED BY <1>1, <1>2, <1>3, <1>4 DEF Readable

(* More than four digits of an account number can be read only in blocks   *)
(* of digits, before the number is registered or with wide gaps: in any    *)
(* other writing its shape gives it away, however far verify_identity is.  *)
THEOREM NumbersStayMasked == ProcessSpec => []OnlyLastFourReadable
<1>1. ProcessInit => OnlyLastFourReadable
  BY DEF ProcessInit, NoText, OnlyLastFourReadable
<1>2. OnlyLastFourReadable /\ [ProcessNext]_agentVars => OnlyLastFourReadable'
  <2> SUFFICES ASSUME OnlyLastFourReadable, [ProcessNext]_agentVars
               PROVE  OnlyLastFourReadable'
    OBVIOUS
  <2>1. ASSUME text' = text PROVE OnlyLastFourReadable'
    BY <2>1 DEF OnlyLastFourReadable
  <2>2. ASSUME NEW n \in Written, Mask(n) PROVE OnlyLastFourReadable'
    <3> DEFINE known == verify = "registered"
               masked == n.form # "blocks" \/ (known /\ ~n.wide)
    <3>1. /\ text'.blocks = (n.form = "blocks") /\ text'.known = known
          /\ text'.spaced = (n.form = "blocks" /\ n.wide)
          /\ text'.readable = Readable(n, known)
      BY <2>2 DEF Mask
    <3>2. CASE masked
      <4>1. Readable(n, known) = 4
        BY <3>2, MaskShowsFour
      <4>2. QED BY <3>1, <4>1 DEF OnlyLastFourReadable
    <3>3. CASE ~masked
      <4>1. text'.blocks
        BY <3>1, <3>3
      <4>2. text'.known => text'.spaced
        BY <3>1, <3>3
      <4>3. QED BY <4>1, <4>2 DEF OnlyLastFourReadable
    <3>4. QED BY <3>2, <3>3
  <2>3. QED
    BY <2>1, <2>2
    DEF ProcessNext, AgentTurns, TakeTurn, MetricsCollected, MessageAdded, StartedEvent,
        Register, BuildRecord, process, agentVars
<1>3. QED BY <1>1, <1>2, PTL DEF ProcessSpec

-----------------------------------------------------------------------------
TurnsType == turns \in [Speeches -> [Parts -> Nat]]

LEMMA CollectKeeps ==
    ASSUME TurnsType, NEW speech \in Speeches, NEW part \in Parts,
           NEW seconds \in Samples[part], collect(speech, part, seconds)
    PROVE  /\ TurnsType'
           /\ \A s \in Speeches, p \in Parts : turns[s][p] # 0 => turns'[s][p] = turns[s][p]
<1>1. seconds \in Nat
  BY LatencyAssumption
<1>2. CASE turns' = turns
  BY <1>2 DEF TurnsType
<1>3. CASE turns[speech][part] = 0 /\ turns' = [turns EXCEPT ![speech][part] = seconds]
  BY <1>1, <1>3 DEF TurnsType
<1>4. QED BY <1>2, <1>3 DEF collect

LEMMA TurnsNext ==
    TurnsType /\ [ProcessNext]_agentVars =>
        /\ TurnsType'
        /\ \A s \in Speeches, p \in Parts : turns[s][p] # 0 => turns'[s][p] = turns[s][p]
<1>1. CASE turns' = turns
  BY <1>1 DEF TurnsType
<1>2. CASE \E speech \in Speeches, part \in Parts : \E seconds \in Samples[part] :
              collect(speech, part, seconds)
  BY <1>2, CollectKeeps
<1>3. QED
  BY <1>1, <1>2
  DEF ProcessNext, AgentTurns, TakeTurn, MetricsCollected, MessageAdded, StartedEvent,
      Register, BuildRecord, process, agentVars

(* Once a turn's three parts are measured, no later metric changes its     *)
(* latency or takes it out of the summary.                                 *)
THEOREM MeasuredTurnsStay == ProcessSpec => MeasuredTurnsFinal
<1> DEFINE Final == \A speech \in complete :
                       speech \in complete' /\ Total(speech)' = Total(speech)
<1>1. ProcessInit => TurnsType
  BY DEF ProcessInit, NoTurns, TurnsType
<1>2. TurnsType /\ [ProcessNext]_agentVars => Final
  BY TurnsNext DEF complete, Total, Parts
<1>3. QED BY <1>1, <1>2, TurnsNext, PTL DEF ProcessSpec, MeasuredTurnsFinal

-----------------------------------------------------------------------------
(* The p95 of n turns is one of them and not among the lower nine tenths   *)
(* (latency.py rounds 0.95 * (n - 1)); up to eleven turns it is the        *)
(* slowest.                                                                *)
THEOREM P95IsATurn ==
    ASSUME NEW n \in Nat \ {0}
    PROVE  /\ p95_index(n) \in 0..(n - 1)
           /\ 10 * (p95_index(n) + 1) >= 9 * n
           /\ n <= 11 => p95_index(n) = n - 1
<1> DEFINE a == 19 * (n - 1)
           q == a \div 20
           r == a % 20
<1>1. a \in Nat /\ q \in Nat /\ r \in 0..19 /\ a = 20 * q + r
  OBVIOUS
<1>2. p95_index(n) \in {q, q + 1} /\ (r < 10 => p95_index(n) = q)
      /\ (r > 10 => p95_index(n) = q + 1)
  BY DEF p95_index, RoundTwentieths
<1>3. n = 11 => p95_index(n) = n - 1
  BY DEF p95_index, RoundTwentieths
<1> HIDE DEF q, r
<1>4. p95_index(n) \in 0..(n - 1)
  BY <1>1, <1>2
<1>5. n <= 11 => p95_index(n) = n - 1
  <2>1. CASE n \in 2..10
    <3>1. q = n - 2 /\ r = 21 - n
      BY <2>1, <1>1
    <3>2. QED BY <3>1, <2>1, <1>2
  <2>2. CASE n = 1
    BY <2>2, <1>4
  <2>3. QED BY <2>1, <2>2, <1>3
<1>6. 10 * (p95_index(n) + 1) >= 9 * n
  <2>1. 20 * p95_index(n) >= a - 10
    BY <1>1, <1>2
  <2>2. CASE n >= 9
    BY <2>1, <2>2, <1>4
  <2>3. CASE n < 9
    BY <2>3, <1>5
  <2>4. QED BY <2>2, <2>3
<1>7. QED BY <1>4, <1>5, <1>6

-----------------------------------------------------------------------------
(* The watchdog.                                                           *)

(* Its coroutine exists only while the caller is away, and a caller who is *)
(* away has had the last answer; so no answer is under way in its grace.   *)
WatchInv ==
    /\ task # "done" => user_state = "away"
    /\ user_state = "away" => ~owesReply
    /\ task = "grace" => agent_state = "listening"

LEMMA WatchInit == ProcessInit => TypeOK /\ WatchInv
BY DEF ProcessInit, Init, TypeOK, WatchInv

(* What a step of the process is to the watchdog.                          *)
LEMMA WatchSteps == [ProcessNext]_agentVars => [Next]_vars
BY DEF ProcessNext, agentVars, AgentTurns, TakeTurn, MetricsCollected, MessageAdded,
       StartedEvent, Register, BuildRecord, Next, Agent, Done

LEMMA WatchNext ==
    TypeOK /\ WatchInv /\ [ProcessNext]_agentVars => TypeOK' /\ WatchInv'
<1> SUFFICES ASSUME TypeOK, WatchInv, [Next]_vars PROVE TypeOK' /\ WatchInv'
  BY WatchSteps
<1>1. CASE UNCHANGED vars
  BY <1>1 DEF TypeOK, WatchInv, vars
<1>2. CASE Begin \/ Recheck
  BY <1>2 DEF Begin, Recheck, CheckBusy, TypeOK, WatchInv
<1>3. CASE PromptPlayed \/ GraceOver \/ GoodbyePlayed
  BY <1>3 DEF PromptPlayed, GraceOver, GoodbyePlayed, TypeOK, WatchInv
<1>4. CASE RoomDeleted \/ DeleteFails
  BY <1>4 DEF RoomDeleted, DeleteFails, TypeOK, WatchInv
<1>5. CASE CallerAway
  BY <1>5 DEF CallerAway, ArmTask, TypeOK, WatchInv
<1>6. CASE CallerSpeaks
  BY <1>6 DEF CallerSpeaks, CancelTask, TypeOK, WatchInv
<1>7. CASE CallerStops
  BY <1>7 DEF CallerStops, TypeOK, WatchInv
<1>8. CASE CallEndsOtherwise
  BY <1>8 DEF CallEndsOtherwise, TypeOK, WatchInv
<1>9. CASE AgentThinks
  BY <1>9 DEF AgentThinks, TypeOK, WatchInv
<1>10. CASE AgentAnswers \/ AgentFinishes
  BY <1>10 DEF AgentAnswers, AgentFinishes, TypeOK, WatchInv
<1>11. CASE Shutdown
  BY <1>11 DEF Shutdown, TypeOK, WatchInv
<1>12. QED
  BY <1>1, <1>2, <1>3, <1>4, <1>5, <1>6, <1>7, <1>8, <1>9, <1>10, <1>11
  DEF Next, Watchdog, Caller, Agent, Done

(* The states of the session and of the watchdog keep their types.         *)
THEOREM WatchdogTypeCorrect == ProcessSpec => []TypeOK
BY WatchInit, WatchNext, PTL DEF ProcessSpec

(* The watchdog closes the room on a caller who is away only: whoever has  *)
(* spoken since has cancelled it.                                          *)
THEOREM PresentCallersKept == ProcessSpec => OnlyAbsentCallersHungUp
<1> DEFINE Absent == endedBy = "nobody" /\ endedBy' = "watchdog" => user_state = "away"
<1>1. WatchInv /\ [ProcessNext]_agentVars => [Absent]_vars
  <2> SUFFICES ASSUME WatchInv, [Next]_vars PROVE [Absent]_vars
    BY WatchSteps
  <2>1. CASE RoomDeleted \/ CallerSpeaks
    BY <2>1 DEF RoomDeleted, CallerSpeaks, WatchInv
  <2>2. CASE CallEndsOtherwise
    BY <2>2 DEF CallEndsOtherwise
  <2>3. QED
    BY <2>1, <2>2
    DEF Next, Watchdog, Caller, Agent, Done, Begin, Recheck, PromptPlayed, GraceOver,
        GoodbyePlayed, DeleteFails, CallerAway, CallerStops, AgentThinks, AgentAnswers,
        AgentFinishes, Shutdown, vars
<1>2. QED BY <1>1, WatchInit, WatchNext, PTL DEF ProcessSpec, OnlyAbsentCallersHungUp

(* Prompt and goodbye begin only while the agent is silent.                *)
THEOREM AnswersFinished == ProcessSpec => AnswerNotInterrupted
<1> DEFINE Silent == task' # task /\ task' \in {"prompting", "goodbye"}
                       => agent_state = "listening"
<1>1. TypeOK /\ WatchInv /\ [ProcessNext]_agentVars => [Silent]_vars
  <2> SUFFICES ASSUME TypeOK, WatchInv, [Next]_vars PROVE [Silent]_vars
    BY WatchSteps
  <2>1. CASE Begin \/ Recheck
    BY <2>1 DEF Begin, Recheck, CheckBusy, Busy, TypeOK
  <2>2. CASE GraceOver
    BY <2>2 DEF GraceOver, WatchInv
  <2>3. QED
    BY <2>1, <2>2
    DEF Next, Watchdog, Caller, Agent, Done, PromptPlayed, GoodbyePlayed, RoomDeleted,
        DeleteFails, CallerAway, ArmTask, CallerSpeaks, CancelTask, CallerStops,
        CallEndsOtherwise, AgentThinks, AgentAnswers, AgentFinishes, Shutdown, vars
<1>2. QED BY <1>1, WatchInit, WatchNext, PTL DEF ProcessSpec, AnswerNotInterrupted

-----------------------------------------------------------------------------
(* The latency in the record.                                              *)

TotalsUpTo(x) == {s \in complete : Total(s) <= x}
TotalsBelow(x) == {s \in complete : Total(s) < x}

LEMMA CompleteFinite ==
    ASSUME TurnsType
    PROVE  /\ complete \subseteq 0..MaxTurns /\ IsFiniteSet(complete)
           /\ \A T \in SUBSET complete : IsFiniteSet(T) /\ Cardinality(T) \in Nat
                                           /\ Cardinality(T) <= Cardinality(complete)
           /\ \A s \in complete : Total(s) \in Nat
<1>1. complete \subseteq 0..MaxTurns /\ MaxTurns \in Nat
  BY ProcessAssumption DEF complete
<1>2. IsFiniteSet(0..MaxTurns)
  BY <1>1, FS_Interval
<1>3. IsFiniteSet(complete)
  BY <1>1, <1>2, FS_Subset
<1>4. \A s \in complete : Total(s) \in Nat
  BY DEF TurnsType, complete, Total, Parts
<1>5. \A T \in SUBSET complete : IsFiniteSet(T) /\ Cardinality(T) \in Nat
                                   /\ Cardinality(T) <= Cardinality(complete)
  BY <1>3, FS_Subset, FS_CardinalityType
<1>6. QED BY <1>1, <1>3, <1>4, <1>5

(* NthTotal finds the total in place i of the sorted list.                 *)
LEMMA NthTotalFacts ==
    ASSUME TurnsType, NEW i \in 0..(Cardinality(complete) - 1)
    PROVE  /\ NthTotal(i) \in Nat
           /\ Cardinality(TotalsBelow(NthTotal(i))) <= i
           /\ Cardinality(TotalsUpTo(NthTotal(i))) > i
<1> DEFINE f == [s \in complete |-> Total(s)]
           V == {Total(speech) : speech \in complete}
           At(x) == /\ Cardinality({speech \in complete : Total(speech) < x}) <= i
                    /\ Cardinality({speech \in complete : Total(speech) <= x}) > i
<1>1. f \in [complete -> Nat] /\ IsFiniteSet(complete) /\ V \subseteq Nat
  BY CompleteFinite
<1> HIDE DEF f
<1>2. PICK s \in complete : /\ CountBelow(complete, f, f[s]) <= i
                             /\ CountUpTo(complete, f, f[s]) > i
  BY <1>1, OrderStatistic
<1>3. f[s] \in V /\ At(f[s])
  <2>1. \A x : /\ {t \in complete : f[t] < x} = {speech \in complete : Total(speech) < x}
               /\ {t \in complete : f[t] <= x} = {speech \in complete : Total(speech) <= x}
    BY DEF f
  <2>2. f[s] \in V
    BY DEF f
  <2>3. QED BY <1>2, <2>1, <2>2 DEF CountBelow, CountUpTo
<1>4. NthTotal(i) = CHOOSE y \in V : At(y)
  BY DEF NthTotal
<1> HIDE DEF V, At
<1>5. NthTotal(i) \in V /\ At(NthTotal(i))
  BY <1>3, <1>4
<1>6. QED BY <1>1, <1>5 DEF At, TotalsBelow, TotalsUpTo

LEMMA NthTotalsOrdered ==
    ASSUME TurnsType, NEW j \in 0..(Cardinality(complete) - 1), NEW i \in 0..j
    PROVE  NthTotal(i) <= NthTotal(j)
<1> DEFINE a == NthTotal(i)
           b == NthTotal(j)
<1>1. i \in 0..(Cardinality(complete) - 1) /\ i \in Nat /\ j \in Nat /\ i <= j
  <2>1. Cardinality(complete) \in Nat
    BY CompleteFinite
  <2>2. QED BY <2>1
<1>2. /\ a \in Nat /\ b \in Nat /\ Cardinality(TotalsBelow(a)) <= i
      /\ Cardinality(TotalsUpTo(b)) > j
  BY <1>1, NthTotalFacts
<1> HIDE DEF a, b
<1>3. SUFFICES ASSUME b < a PROVE FALSE
  BY <1>2 DEF a, b
<1>4. TotalsUpTo(b) \subseteq TotalsBelow(a) /\ TotalsBelow(a) \subseteq complete
  BY <1>2, <1>3, CompleteFinite DEF TotalsUpTo, TotalsBelow
<1>5. IsFiniteSet(TotalsBelow(a)) /\ Cardinality(TotalsBelow(a)) \in Nat
        /\ Cardinality(TotalsUpTo(b)) \in Nat
  BY <1>4, CompleteFinite
<1>6. Cardinality(TotalsUpTo(b)) <= Cardinality(TotalsBelow(a))
  BY <1>4, <1>5, FS_Subset
<1>7. QED BY <1>1, <1>2, <1>5, <1>6

FairLatency(l) ==
    /\ 2 * Cardinality({s \in complete : 2 * Total(s) <= l.twiceMedian}) >= l.turns
    /\ 2 * Cardinality({s \in complete : 2 * Total(s) >= l.twiceMedian}) >= l.turns
    /\ 10 * Cardinality({s \in complete : Total(s) > l.p95}) <= l.turns

(* Of the turns summarised half lie at or below the median, half at or     *)
(* above it, and at most a tenth above the p95.                            *)
LEMMA SummaryFair ==
    ASSUME TurnsType, complete # {}
    PROVE  LatencySummary.turns = Cardinality(complete) /\ FairLatency(LatencySummary)
<1> DEFINE n == Cardinality(complete)
           lo == NthTotal((n - 1) \div 2)
           hi == NthTotal(n \div 2)
           p == p95_index(n)
           high == NthTotal(p)
<1>1. /\ LatencySummary.turns = n /\ LatencySummary.twiceMedian = lo + hi
      /\ LatencySummary.p95 = high
  BY DEF LatencySummary, TwiceMedian
<1>2. n \in Nat \ {0}
  BY CompleteFinite, FS_EmptySet
<1>3. p \in 0..(n - 1) /\ 10 * (p + 1) >= 9 * n
  <2> HIDE DEF n
  <2>1. QED BY <1>2, P95IsATurn
<1>4. \A T \in SUBSET complete :
         IsFiniteSet(T) /\ Cardinality(T) \in Nat
           /\ Cardinality(complete \ T) = n - Cardinality(T)
  <2> TAKE T \in SUBSET complete
  <2>1. IsFiniteSet(T) /\ Cardinality(T) \in Nat
    BY CompleteFinite
  <2>2. IsFiniteSet(complete \ T) /\ Cardinality(complete \ T) \in Nat
    BY CompleteFinite
  <2>3. /\ Cardinality(T \union (complete \ T))
             = Cardinality(T) + Cardinality(complete \ T) - Cardinality(T \intersect (complete \ T))
    BY <2>1, <2>2, FS_Union
  <2>4. T \union (complete \ T) = complete /\ T \intersect (complete \ T) = {}
    OBVIOUS
  <2>5. Cardinality({}) = 0
    BY FS_EmptySet
  <2>6. QED BY <2>1, <2>2, <2>3, <2>4, <2>5
<1>5. \A T, U \in SUBSET complete : T \subseteq U => Cardinality(T) <= Cardinality(U)
  BY <1>4, FS_Subset
<1>6. /\ (n - 1) \div 2 \in 0..(n - 1) /\ n \div 2 \in 0..(n - 1)
      /\ (n - 1) \div 2 \in 0..(n \div 2)
      /\ 2 * ((n - 1) \div 2 + 1) >= n /\ 2 * (n - n \div 2) >= n
  BY <1>2
<1>7. /\ lo \in Nat /\ hi \in Nat /\ lo <= hi /\ high \in Nat
      /\ Cardinality(TotalsUpTo(lo)) > (n - 1) \div 2
      /\ Cardinality(TotalsBelow(hi)) <= n \div 2
      /\ Cardinality(TotalsUpTo(high)) > p
  BY <1>3, <1>6, NthTotalFacts, NthTotalsOrdered
<1>8. \A s \in complete : Total(s) \in Nat
  BY CompleteFinite
<1> HIDE DEF n, lo, hi, p, high
<1>9. 2 * Cardinality({s \in complete : 2 * Total(s) <= lo + hi}) >= n
  <2> DEFINE U == {s \in complete : 2 * Total(s) <= lo + hi}
  <2>1. TotalsUpTo(lo) \subseteq U /\ U \in SUBSET complete /\ TotalsUpTo(lo) \in SUBSET complete
    BY <1>7, <1>8 DEF TotalsUpTo
  <2>2. Cardinality(TotalsUpTo(lo)) <= Cardinality(U)
    BY <1>5, <2>1
  <2>3. Cardinality(U) \in Nat /\ Cardinality(TotalsUpTo(lo)) \in Nat
    BY <1>4, <2>1
  <2> HIDE DEF U
  <2>4. Cardinality(U) >= (n - 1) \div 2 + 1
    BY <1>2, <1>6, <1>7, <2>2, <2>3
  <2>5. 2 * Cardinality(U) >= n
    BY <1>2, <1>6, <2>3, <2>4
  <2>6. QED BY <2>5 DEF U
<1>10. 2 * Cardinality({s \in complete : 2 * Total(s) >= lo + hi}) >= n
  <2> DEFINE U == {s \in complete : 2 * Total(s) >= lo + hi}
             B == TotalsBelow(hi)
  <2>1. complete \ B \subseteq U /\ U \in SUBSET complete /\ B \in SUBSET complete
    BY <1>7, <1>8 DEF TotalsBelow
  <2>2. Cardinality(complete \ B) <= Cardinality(U) /\ Cardinality(complete \ B) = n - Cardinality(B)
    BY <1>4, <1>5, <2>1
  <2>3. Cardinality(U) \in Nat /\ Cardinality(B) \in Nat /\ Cardinality(B) <= n \div 2
    BY <1>4, <1>7, <2>1
  <2> HIDE DEF U, B
  <2>4. Cardinality(U) >= n - n \div 2
    BY <1>2, <1>6, <2>2, <2>3
  <2>5. 2 * Cardinality(U) >= n
    BY <1>2, <1>6, <2>3, <2>4
  <2>6. QED BY <2>5 DEF U
<1>11. 10 * Cardinality({s \in complete : Total(s) > high}) <= n
  <2> DEFINE U == {s \in complete : Total(s) > high}
             B == TotalsUpTo(high)
  <2>1. complete \ B = U /\ B \in SUBSET complete
    BY <1>7, <1>8 DEF TotalsUpTo
  <2>2. Cardinality(U) = n - Cardinality(B) /\ Cardinality(B) \in Nat
    BY <1>4, <2>1
  <2>3. Cardinality(B) >= p + 1
    BY <1>2, <1>3, <1>7, <2>2
  <2> HIDE DEF U, B
  <2>4. 10 * Cardinality(U) <= n
    BY <1>2, <1>3, <2>2, <2>3
  <2>5. QED BY <2>4 DEF U
<1>12. QED BY <1>1, <1>9, <1>10, <1>11 DEF n, FairLatency

(* Only a turn that has begun can be measured whole: the lines that the    *)
(* code has the agent say have no end of an utterance.  The latency is     *)
(* written once, when nothing is measured any more.                        *)
LatencyInv ==
    /\ TurnsType
    /\ begun \in 0..MaxTurns
    /\ \A s \in Speeches : s > begun => \A part \in Parts : turns[s][part] = 0
    /\ turns[0]["eou"] = 0
    /\ summary = "unwritten" => latency = NoSummary
    /\ latency.turns > 0 => latency.turns \in 1..begun /\ FairLatency(latency)

LEMMA BegunMeasured ==
    ASSUME LatencyInv
    PROVE  /\ complete \subseteq 1..begun
           /\ Cardinality(complete) \in Nat /\ Cardinality(complete) <= begun
<1>1. Speeches = 0..MaxTurns /\ MaxTurns \in Nat /\ begun \in Nat
  BY ProcessAssumption DEF LatencyInv
<1>2. complete \subseteq 1..begun
  <2> SUFFICES ASSUME NEW s \in complete PROVE s \in 1..begun
    OBVIOUS
  <2>1. s \in Speeches /\ s \in Nat /\ turns[s]["eou"] # 0
    BY <1>1 DEF complete, Parts
  <2>2. s # 0 /\ ~(s > begun)
    BY <2>1 DEF LatencyInv, Parts
  <2>3. QED BY <1>1, <2>1, <2>2
<1>3. IsFiniteSet(1..begun) /\ Cardinality(1..begun) = begun
  BY <1>1, FS_Interval
<1>4. Cardinality(complete) <= begun
  BY <1>2, <1>3, FS_Subset
<1>5. QED BY <1>2, <1>4, CompleteFinite DEF LatencyInv

LEMMA FairSame ==
    ASSUME turns' = turns, latency' = latency, FairLatency(latency)
    PROVE  FairLatency(latency)'
BY DEF FairLatency, complete, Total

LEMMA LatencyNext == LatencyInv /\ [ProcessNext]_agentVars => LatencyInv'
<1> SUFFICES ASSUME LatencyInv, [ProcessNext]_agentVars PROVE LatencyInv'
  OBVIOUS
<1>1. TurnsType /\ TurnsType' /\ begun \in 0..MaxTurns /\ MaxTurns \in Nat
        /\ Speeches = 0..MaxTurns
  BY TurnsNext, ProcessAssumption DEF LatencyInv
<1>2. CASE UNCHANGED <<turns, begun, latency>> /\ (summary' = "unwritten" => summary = "unwritten")
  <2>1. latency.turns > 0 => latency'.turns \in 1..begun' /\ FairLatency(latency)'
    BY <1>2, FairSame DEF LatencyInv
  <2>2. QED BY <1>1, <1>2, <2>1 DEF LatencyInv
<1>3. CASE TakeTurn
  <2>1. UNCHANGED <<turns, latency, summary>> /\ begun' \in {begun, begun + 1}
          /\ begun' \in 0..MaxTurns
    BY <1>1, <1>3 DEF TakeTurn, AgentThinks
  <2>2. \A s \in Speeches : s > begun' => s > begun
    BY <1>1, <2>1
  <2>3. latency.turns > 0 => latency.turns \in 1..begun' /\ FairLatency(latency)'
    <3>1. latency.turns \in 1..begun => latency.turns \in 1..begun'
      BY <1>1, <2>1
    <3>2. QED BY <2>1, <3>1, FairSame DEF LatencyInv
  <2>4. QED BY <1>1, <2>1, <2>2, <2>3 DEF LatencyInv
<1>4. ASSUME NEW speech \in Speeches, NEW part \in Parts, NEW seconds \in Samples[part],
             MetricsCollected(speech, part, seconds)
      PROVE  LatencyInv'
  <2>1. /\ summary = "unwritten" /\ UNCHANGED <<begun, latency, summary>>
        /\ speech = 0 => part = "ttfb"
        /\ speech # 0 => speech <= begun
    BY <1>4 DEF MetricsCollected, Running, vars, process
  <2>2. \A s \in Speeches, p \in Parts : s # speech \/ p # part => turns'[s][p] = turns[s][p]
    BY <1>1, <1>4 DEF MetricsCollected, collect, TurnsType
  <2>3. \A s \in Speeches : s > begun' => \A p \in Parts : turns'[s][p] = 0
    <3> SUFFICES ASSUME NEW s \in Speeches, s > begun, NEW p \in Parts PROVE turns'[s][p] = 0
      BY <2>1
    <3>1. s # speech
      BY <1>1, <2>1
    <3>2. QED BY <2>2, <3>1 DEF LatencyInv
  <2>4. turns'[0]["eou"] = 0
    <3>1. 0 \in Speeches /\ "eou" \in Parts
      BY <1>1 DEF Parts
    <3>2. QED BY <2>1, <2>2, <3>1 DEF LatencyInv
  <2>5. latency' = NoSummary
    BY <2>1 DEF LatencyInv
  <2>6. ~(NoSummary.turns > 0)
    BY DEF NoSummary
  <2>7. QED BY <1>1, <2>1, <2>3, <2>4, <2>5, <2>6 DEF LatencyInv
<1>5. CASE BuildRecord
  <2>1. /\ UNCHANGED <<turns, begun>> /\ latency' = LatencySummary
        /\ summary' # "unwritten"
    BY <1>5 DEF BuildRecord, Shutdown
  <2>2. CASE complete = {}
    <3>1. latency' = NoSummary /\ ~(NoSummary.turns > 0)
      BY <2>1, <2>2 DEF LatencySummary, NoSummary
    <3>2. QED BY <1>1, <2>1, <3>1 DEF LatencyInv
  <2>3. CASE complete # {}
    <3> DEFINE l == LatencySummary
    <3>1. l.turns = Cardinality(complete) /\ FairLatency(l)
      BY <1>1, <2>3, SummaryFair
    <3>2. l.turns \in 1..begun
      BY <1>1, <2>3, <3>1, BegunMeasured, CompleteFinite, FS_EmptySet
    <3> HIDE DEF l
    <3>3. latency' = l
      BY <2>1 DEF l
    <3>4. FairLatency(latency)'
      BY <2>1, <3>1, <3>3 DEF FairLatency, complete, Total
    <3>5. latency'.turns \in 1..begun'
      BY <2>1, <3>2, <3>3
    <3>6. QED BY <1>1, <2>1, <3>4, <3>5 DEF LatencyInv
  <2>4. QED BY <2>2, <2>3
<1>6. CASE ~TakeTurn /\ ~BuildRecord
           /\ ~\E speech \in Speeches, part \in Parts : \E seconds \in Samples[part] :
                  MetricsCollected(speech, part, seconds)
  <2>1. CASE Register \/ \E n \in Written : MessageAdded(n) \/ StartedEvent(n)
    BY <1>2, <2>1 DEF MessageAdded, StartedEvent, Register, vars
  <2>2. CASE UNCHANGED agentVars
    BY <1>2, <2>2 DEF agentVars, process, vars
  <2>3. CASE UNCHANGED process /\ (Watchdog \/ Caller \/ AgentAnswers \/ AgentFinishes \/ Done)
             /\ UNCHANGED turns
    <3>1. summary' = summary
      BY <2>3
      DEF Watchdog, Caller, Begin, Recheck, PromptPlayed, GraceOver, GoodbyePlayed,
          RoomDeleted, DeleteFails, CallerAway, CallerSpeaks, CallerStops, CallEndsOtherwise,
          AgentAnswers, AgentFinishes, Done, vars
    <3>2. QED BY <1>2, <2>3, <3>1 DEF process
  <2>4. QED BY <1>6, <2>1, <2>2, <2>3 DEF ProcessNext, AgentTurns
<1>7. QED BY <1>3, <1>4, <1>5, <1>6

(* The latency in the record is about turns the agent took up, its median  *)
(* halves them and its p95 leaves a tenth above it at most, however many   *)
(* turns there were and in whatever order their parts were measured.       *)
THEOREM LatencyAlwaysFair == ProcessSpec => []RecordedLatencyFair
<1>1. ProcessInit => LatencyInv
  <2> SUFFICES ASSUME ProcessInit PROVE LatencyInv
    OBVIOUS
  <2>1. turns = NoTurns /\ begun = 0 /\ summary = "unwritten" /\ latency = NoSummary
    BY DEF ProcessInit, Init
  <2>2. MaxTurns \in Nat /\ Speeches = 0..MaxTurns
    BY ProcessAssumption
  <2>3. ~(NoSummary.turns > 0)
    BY DEF NoSummary
  <2>4. TurnsType /\ \A s \in Speeches, part \in Parts : turns[s][part] = 0
    BY <2>1 DEF NoTurns, TurnsType
  <2>5. 0 \in Speeches /\ "eou" \in Parts /\ begun \in 0..MaxTurns
    BY <2>1, <2>2 DEF Parts
  <2>6. QED BY <2>1, <2>3, <2>4, <2>5 DEF LatencyInv
<1>2. LatencyInv => RecordedLatencyFair
  <2> SUFFICES ASSUME LatencyInv, latency.turns > 0 PROVE RecordedLatencyFair
    BY DEF RecordedLatencyFair
  <2> DEFINE t == latency.twiceMedian
             Side(below) == {s \in 1..begun \cap complete :
                               IF below THEN 2 * Total(s) <= t ELSE 2 * Total(s) >= t}
  <2>1. latency.turns <= begun /\ FairLatency(latency)
    <3>1. latency.turns \in 1..begun /\ FairLatency(latency) /\ begun \in 0..MaxTurns
      BY DEF LatencyInv
    <3>2. QED BY <3>1
  <2>2. 1..begun \cap complete = complete
    BY BegunMeasured
  <2>3. /\ Side(TRUE) = {s \in complete : 2 * Total(s) <= t}
        /\ Side(FALSE) = {s \in complete : 2 * Total(s) >= t}
    BY <2>2
  <2>4. \A below \in {TRUE, FALSE} : 2 * Cardinality(Side(below)) >= latency.turns
    <3> HIDE DEF Side
    <3>1. /\ 2 * Cardinality(Side(TRUE)) >= latency.turns
          /\ 2 * Cardinality(Side(FALSE)) >= latency.turns
      BY <2>1, <2>3 DEF FairLatency
    <3>2. QED BY <3>1
  <2>5. QED BY <2>1, <2>4 DEF RecordedLatencyFair, FairLatency
<1>3. QED BY <1>1, <1>2, LatencyNext, PTL DEF ProcessSpec

=============================================================================
