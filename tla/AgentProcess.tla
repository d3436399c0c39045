---------------------------- MODULE AgentProcess ----------------------------
(***************************************************************************)
(* What main.py wires to one session: the watchdog, the latency collector  *)
(* and the masked transcript, on the event loop of IdleWatchdog, up to the *)
(* shutdown that reads all three.                                          *)
(*                                                                         *)
(* Speeches 1, 2, ... answer the caller's turns; speech 0 stands for the   *)
(* lines the code has the agent say (greeting, prompt, goodbye): they have *)
(* speech ids of their own and only the part the voice contributes.        *)
(***************************************************************************)
EXTENDS IdleWatchdog, Latency, Redaction

CONSTANTS
    MaxTurns,                  \* bound on the turns that are measured
    Written                    \* the ways an account number is written

ASSUME ProcessAssumption ==
    /\ MaxTurns \in Nat
    /\ Speeches = 0..MaxTurns
    /\ \A n \in Written : n \in Numbers /\ WellFormed(n) /\ n.len = ACCOUNT_DIGITS

VARIABLES
    begun,                     \* the turns the agent has taken up
    verify,                    \* how far verify_identity is
    text,                      \* the text masked last: how the number stood
                               \* in it, and if it was registered by then
    latency                    \* latency in the call record

process == <<begun, verify, text, latency>>
agentVars == <<vars, turns, process>>

NoText == [blocks |-> FALSE, spaced |-> FALSE, known |-> FALSE, readable |-> 0]

ProcessInit ==
    /\ Init
    /\ turns = NoTurns
    /\ begun = 0
    /\ verify = "idle"
    /\ text = NoText
    /\ latency = NoSummary

-----------------------------------------------------------------------------
Running == summary = "unwritten"

(* The framework's metrics of a speech, in any order, any of them more     *)
(* than once (the model is asked again after a tool, a voice is retried).  *)
MetricsCollected(speech, part, seconds) ==
    /\ Running
    /\ IF speech = 0 THEN part = "ttfb" ELSE speech <= begun
    /\ collect(speech, part, seconds)
    /\ UNCHANGED <<vars, process>>

(* A turn taken up; those past MaxTurns are not measured.                  *)
TakeTurn ==
    /\ AgentThinks
    /\ begun' = IF begun < MaxTurns THEN begun + 1 ELSE begun
    /\ UNCHANGED <<turns, verify, text, latency>>

-----------------------------------------------------------------------------
Mask(n) ==
    LET known == verify = "registered" IN
    text' = [blocks |-> n.form = "blocks", spaced |-> n.form = "blocks" /\ n.wide,
             known |-> known, readable |-> Readable(n, known)]

(* _on_item: a message of the caller or of the agent with the number in it.*)
MessageAdded(n) ==
    /\ Running
    /\ Mask(n)
    /\ UNCHANGED <<vars, turns, begun, verify, latency>>

(* The started event of verify_identity carries the number as its argument *)
(* and is masked before the tool has registered it.                        *)
StartedEvent(n) ==
    /\ room = "live"
    /\ verify = "idle"
    /\ Mask(n)
    /\ verify' = "started"
    /\ UNCHANGED <<vars, turns, begun, latency>>

Register ==
    /\ verify = "started"
    /\ verify' = "registered"
    /\ UNCHANGED <<vars, turns, begun, text, latency>>

-----------------------------------------------------------------------------
(* The record is built right after the transcript's closing line, with no  *)
(* await in between.                                                       *)
BuildRecord ==
    /\ Shutdown
    /\ latency' = LatencySummary
    /\ UNCHANGED <<turns, begun, verify, text>>

AgentTurns ==
    \/ TakeTurn
    \/ (AgentAnswers \/ AgentFinishes) /\ UNCHANGED <<turns, process>>

ProcessNext ==
    \/ Watchdog /\ UNCHANGED <<turns, process>>
    \/ Caller /\ UNCHANGED <<turns, process>>
    \/ AgentTurns
    \/ \E speech \in Speeches, part \in Parts : \E seconds \in Samples[part] :
          MetricsCollected(speech, part, seconds)
    \/ \E n \in Written : MessageAdded(n) \/ StartedEvent(n)
    \/ Register
    \/ BuildRecord
    \/ Done /\ UNCHANGED <<turns, process>>

(* As in IdleWatchdog.                                                     *)
ProcessSpec ==
    /\ ProcessInit /\ [][ProcessNext]_agentVars
    /\ WF_agentVars(Watchdog /\ UNCHANGED <<turns, process>>)
    /\ WF_agentVars(AgentTurns)
    /\ WF_agentVars(CallerAway /\ UNCHANGED <<turns, process>>)
    /\ WF_agentVars(BuildRecord)

-----------------------------------------------------------------------------
(* Properties.                                                             *)

(* What the caller experienced stays: neither a later sample (a retry, the *)
(* answer after a tool) nor an unmeasured one changes a turn's latency or  *)
(* takes a turn back out.                                                  *)
MeasuredTurnsFinal ==
    [][\A speech \in complete :
          speech \in complete' /\ Total(speech)' = Total(speech)]_agentVars

(* The record's latency is about turns of the caller the agent took up,    *)
(* however many lines the watchdog and the greeting have spoken; half of   *)
(* the turns lie on each side of its median, and no more than a tenth      *)
(* above its p95.                                                          *)
RecordedLatencyFair ==
    latency.turns > 0 =>
        /\ latency.turns <= begun
        /\ \A below \in {TRUE, FALSE} :
              2 * Cardinality({s \in 1..begun \cap complete :
                    IF below THEN 2 * Total(s) <= latency.twiceMedian
                             ELSE 2 * Total(s) >= latency.twiceMedian}) >= latency.turns
        /\ 10 * Cardinality({s \in complete : Total(s) > latency.p95}) <= latency.turns

(* Of an account number more than the last four digits can be read in what *)
(* is written down only if it was written in blocks of digits, and then    *)
(* only before verify_identity registered it, or with more than one blank  *)
(* or dash between two blocks (redaction.py:93).  In one block, digit by   *)
(* digit or in words, doubled and tripled ones included, it is masked by   *)
(* its shape, in the started event and in every turn before it as well.    *)
OnlyLastFourReadable ==
    text.readable > 4 => text.blocks /\ (text.known => text.spaced)

=============================================================================
