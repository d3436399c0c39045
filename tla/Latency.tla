------------------------------- MODULE Latency -------------------------------
(***************************************************************************)
(* latency.py: the collector joins the three parts of a turn's response    *)
(* latency by speech and summarises the turns that have all of them.       *)
(* Seconds are small numbers; 0 stands for "not measured".                 *)
(***************************************************************************)
EXTENDS Integers, Sequences, FiniteSets

CONSTANTS
    Speeches,                  \* speech ids
    Samples                    \* the values a part can be measured with

Parts == {"eou", "ttft", "ttfb"}

ASSUME LatencyAssumption == Samples \in [Parts -> SUBSET Nat]

VARIABLE turns                 \* _turns: what is known of each speech

NoTurns == [speech \in Speeches |-> [part \in Parts |-> 0]]

(* A definition named Slip... is a plausible slip in the one it precedes.  *)
SlipLastSample(speech, part, seconds) ==
    turns' = IF seconds <= 0 THEN turns ELSE [turns EXCEPT ![speech][part] = seconds]

(* collect and add: only the first measured sample of a part counts.       *)
collect(speech, part, seconds) ==
    turns' = IF seconds <= 0 \/ turns[speech][part] # 0 THEN turns
             ELSE [turns EXCEPT ![speech][part] = seconds]

SlipAnyPart == {speech \in Speeches : turns[speech]["ttfb"] # 0}

complete == {speech \in Speeches : \A part \in Parts : turns[speech][part] # 0}

Total(speech) == turns[speech]["eou"] + turns[speech]["ttft"] + turns[speech]["ttfb"]

-----------------------------------------------------------------------------
(* totals[i] of the sorted list: the i + 1 lowest totals are at most that. *)
NthTotal(i) ==
    CHOOSE x \in {Total(speech) : speech \in complete} :
        /\ Cardinality({speech \in complete : Total(speech) < x}) <= i
        /\ Cardinality({speech \in complete : Total(speech) <= x}) > i

(* statistics.median, doubled to stay a whole number.                      *)
TwiceMedian ==
    LET n == Cardinality(complete) IN NthTotal((n - 1) \div 2) + NthTotal(n \div 2)

(* Python's round: to the nearest, a half to the even neighbour.  Here of  *)
(* a / 20; the products 0.95 * k that end in a half are exact as floats.   *)
RoundTwentieths(a) ==
    LET q == a \div 20  r == a % 20 IN
    IF r < 10 \/ (r = 10 /\ q % 2 = 0) THEN q ELSE q + 1

p95_index(n) == RoundTwentieths(19 * (n - 1))

NoSummary == [turns |-> 0, twiceMedian |-> 0, p95 |-> 0]

LatencySummary ==
    IF complete = {} THEN NoSummary
    ELSE [turns |-> Cardinality(complete), twiceMedian |-> TwiceMedian,
          p95 |-> NthTotal(p95_index(Cardinality(complete)))]

=============================================================================
