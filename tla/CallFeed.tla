------------------------------ MODULE CallFeed ------------------------------
(***************************************************************************)
(* Where the events of a call go: the event log, the transcript file and   *)
(* its reader, the text stream to the browser and the activity feed that   *)
(* merges started and finished events into cards.                          *)
(*                                                                         *)
(* A tool emits: every listener has the event before the await of the      *)
(* stream.  Writes to the file may fail, the stream may fail to send, the  *)
(* panel may open late.  A killed agent is a behaviour that stops here, so *)
(* what it leaves behind satisfies every invariant.                        *)
(***************************************************************************)
EXTENDS Integers, Sequences, SequencesExt, FiniteSets

CONSTANTS
    Calls,                     \* tool calls of one session, by event id
    Signallers,                \* those of the tools that emit a signal
    MaxExtras,                  \* bound on the turns and the signals
    MaxInFlight,               \* bound on the events on their way
    MaxFaults                  \* bound on the writes and sends that fail

ASSUME FeedAssumption ==
    /\ IsFiniteSet(Calls)
    /\ Signallers \subseteq Calls
    /\ MaxExtras \in Nat
    /\ MaxInFlight \in Nat \ {0}
    /\ MaxFaults \in Nat

VARIABLES
    call,                      \* the wrapper of each tool call
    log,                       \* event_log
    file,                      \* the lines of the transcript
    torn,                      \* the last line has no newline yet
    badWrites,
    extras,
    channel,                   \* events on their way to the browser, in order
    lost,                      \* events no browser will see
    panel,                     \* the stream handler is registered
    feed,                      \* useToolEvents' state
    session,
    record                     \* the events of the posted record

vars == <<call, log, file, torn, badWrites, extras, channel, lost, panel, feed, session, record>>

Ends == {"finished", "failed"}

Line(type) == [id |-> "none", type |-> type]
Junk       == Line("junk")
Message    == Line("message")
EndLine    == Line("session_end")
NoRecord   == <<Junk>>

Init ==
    /\ call = [c \in Calls |-> [stage |-> "new", last |-> "none"]]
    /\ log = <<>>
    /\ file = <<>>
    /\ torn = FALSE
    /\ badWrites = 0
    /\ extras = 0
    /\ channel = <<>>
    /\ lost = {}
    /\ panel = FALSE
    /\ feed = <<>>
    /\ session = "live"
    /\ record = NoRecord

-----------------------------------------------------------------------------
(* A definition named Slip... is a plausible slip in the one it precedes.  *)

MayFail == badWrites + Cardinality(lost) < MaxFaults

Glued(line) == IF torn THEN [file EXCEPT ![Len(file)] = Junk] ELSE Append(file, line)

SlipNewlineFirst(line) ==
    /\ file' = Glued(line)
    /\ torn' = TRUE
    /\ UNCHANGED badWrites

(* _append swallows an OSError: it wrote nothing, or the line without its  *)
(* newline, or part of it; the next line is glued to what it left.         *)
Write(line) ==
    \/ /\ file' = Glued(line)
       /\ torn' = FALSE
       /\ UNCHANGED badWrites
    \/ /\ MayFail
       /\ badWrites' = badWrites + 1
       /\ \/ \E written \in {line, Junk} : file' = Glued(written) /\ torn' = TRUE
          \/ UNCHANGED <<file, torn>>

(* _on_item: a turn of the conversation goes to the transcript only.       *)
Turn ==
    /\ extras < MaxExtras
    /\ extras' = extras + 1
    /\ Write(Message)
    /\ UNCHANGED <<call, log, channel, lost, panel, feed, session, record>>

SlipListenersSkipped(c, type) ==
    /\ IF type = "signal"
       THEN UNCHANGED <<log, file, torn, badWrites>>
       ELSE log' = Append(log, [id |-> c, type |-> type]) /\ Write([id |-> c, type |-> type])
    /\ call' = [call EXCEPT ![c] = [stage |-> "sending", last |-> type]]
    /\ UNCHANGED <<channel, lost, panel, feed, session, record>>

(* emit up to its await: every listener has the event.                     *)
Emit(c, type) ==
    /\ log' = Append(log, [id |-> c, type |-> type])
    /\ Write([id |-> c, type |-> type])
    /\ call' = [call EXCEPT ![c] = [stage |-> "sending", last |-> type]]
    /\ UNCHANGED <<channel, lost, panel, feed, session, record>>

Start(c) ==
    /\ call[c].stage = "new"
    /\ session = "live"
    /\ Emit(c, "started")
    /\ UNCHANGED extras

(* identity_verified, step_up_verified, escalation and security_lockout    *)
(* are events with an id of their own.                                     *)
Signal(c) ==
    /\ extras < MaxExtras
    /\ extras' = extras + 1
    /\ c \in Signallers
    /\ call[c] = [stage |-> "running", last |-> "started"]
    /\ Emit(c, "signal")

SlipErrorSilent(c) ==
    /\ call[c].stage = "running"
    /\ \/ Emit(c, "finished") /\ UNCHANGED extras
       \/ /\ call' = [call EXCEPT ![c].stage = "over"]
          /\ UNCHANGED <<log, file, torn, badWrites, extras, channel, lost, panel, feed,
                         session, record>>

End(c) ==
    /\ call[c].stage = "running"
    /\ \E type \in Ends : Emit(c, type)
    /\ UNCHANGED extras

(* The await of emit: send_text, whose exceptions are logged only.         *)
Pending(c) == [id |-> c, type |-> call[c].last]

Sent(c) ==
    /\ Len(channel) < MaxInFlight
    /\ channel' = Append(channel, Pending(c))
    /\ UNCHANGED lost

NotSent(c) ==
    /\ MayFail
    /\ lost' = lost \union {Pending(c)}
    /\ UNCHANGED channel

Publish(c) ==
    /\ call[c].stage = "sending"
    /\ Sent(c) \/ NotSent(c)
    /\ call' = [call EXCEPT ![c].stage = IF call[c].last \in Ends THEN "over" ELSE "running"]
    /\ UNCHANGED <<log, file, torn, badWrites, extras, panel, feed, session, record>>

(* Closing the session cancels a tool wherever it awaits.                  *)
Cancel(c) ==
    /\ session = "closing"
    /\ \/ call[c].stage = "running" /\ UNCHANGED <<channel, lost>>
       \/ call[c].stage = "sending" /\ (Sent(c) \/ NotSent(c))
    /\ call' = [call EXCEPT ![c].stage = "cancelled"]
    /\ UNCHANGED <<log, file, torn, badWrites, extras, panel, feed, session, record>>

-----------------------------------------------------------------------------
Close ==
    /\ session = "live"
    /\ session' = "closing"
    /\ UNCHANGED <<call, log, file, torn, badWrites, extras, channel, lost, panel, feed, record>>

SlipNotFinalized ==
    /\ session = "closing"
    /\ record = NoRecord
    /\ record' = log
    /\ UNCHANGED <<call, log, file, torn, badWrites, extras, channel, lost, panel, feed, session>>

(* _shutdown: the closing line of the transcript and the record's copy of  *)
(* the log, with no await between them.                                    *)
Shutdown ==
    /\ session = "closing"
    /\ record = NoRecord
    /\ Write(EndLine)
    /\ record' = log
    /\ UNCHANGED <<call, log, extras, channel, lost, panel, feed, session>>

-----------------------------------------------------------------------------
(* The browser.                                                            *)
PanelOpens ==
    /\ ~panel
    /\ panel' = TRUE
    /\ UNCHANGED <<call, log, file, torn, badWrites, extras, channel, lost, feed, session, record>>

(* A stream that arrives before the handler is registered is dropped.      *)
Receive ==
    /\ channel # <<>>
    /\ channel' = Tail(channel)
    /\ IF panel
       THEN feed' = Append(feed, Head(channel)) /\ UNCHANGED lost
       ELSE lost' = lost \union {Head(channel)} /\ UNCHANGED feed
    /\ UNCHANGED <<call, log, file, torn, badWrites, extras, panel, session, record>>

Done ==
    /\ record # NoRecord
    /\ \A c \in Calls : call[c].stage \in {"new", "over", "cancelled"}
    /\ channel = <<>>
    /\ panel
    /\ UNCHANGED vars

Next ==
    \/ \E c \in Calls : Start(c) \/ Signal(c) \/ End(c) \/ Publish(c) \/ Cancel(c)
    \/ Turn \/ Close \/ Shutdown \/ PanelOpens \/ Receive
    \/ Done

(* A tool that runs ends (BankCall!ToolsReturn), send_text returns, and    *)
(* the stream delivers.                                                    *)
Spec ==
    /\ Init /\ [][Next]_vars
    /\ \A c \in Calls : WF_vars(End(c)) /\ WF_vars(Publish(c))
    /\ WF_vars(Receive)

-----------------------------------------------------------------------------
(* What the readers make of it.                                            *)

(* toActivityCards: a card per started or signal event, in order; an end   *)
(* event settles the card its id has by then, or is dropped.               *)
SlipByPosition(i) == {feed[j].type : j \in {j \in (i + 1)..Len(feed) : feed[j].type \in Ends}}

SettledBy(i) ==
    {feed[j].type : j \in {j \in (i + 1)..Len(feed) :
                              feed[j].id = feed[i].id /\ feed[j].type \in Ends}}

Status(i) ==
    IF feed[i].type = "signal" THEN {"finished"}
    ELSE IF SettledBy(i) = {} THEN {"running"} ELSE SettledBy(i)

CardsAt == {i \in DOMAIN feed : feed[i].type \in {"started", "signal"}}

(* _parse_entries: the lines that parse, here by their places.             *)
parse_entries(lines) == {i \in DOMAIN lines : lines[i] # Junk}

(* _meta_for: the tool events, and those before the closing line.          *)
ToolEvents(lines) == {i \in parse_entries(lines) : lines[i] \notin {Message, EndLine}}

BeforeEnd == {i \in ToolEvents(file) : \A j \in 1..i : file[j] # EndLine}

-----------------------------------------------------------------------------
(* Properties.                                                             *)

TypeOK ==
    /\ call \in [Calls -> [stage : {"new", "sending", "running", "over", "cancelled"},
                           last : {"none", "started", "signal"} \union Ends]]
    /\ badWrites \in 0..MaxFaults
    /\ session \in {"live", "closing"}
    /\ ToSet(channel) \union ToSet(feed) \union lost \subseteq ToSet(log)

(* A card that shows a tool as finished or failed shows what that tool     *)
(* did; one that still runs belongs to a tool whose end is not known, is   *)
(* under way, or was lost.                                                 *)
CardsTellTheTruth ==
    \A i \in CardsAt :
        LET c == feed[i].id IN
        feed[i].type = "started" =>
            IF Status(i) = {"running"}
            THEN call[c].stage = "over" =>
                     Pending(c) \in ToSet(channel) \union lost
            ELSE Status(i) = {call[c].last}

(* transcripts.py:4-6: a crashed session leaves a usable transcript.  What *)
(* the router reads is the log in its order, short of at most two lines    *)
(* for every failed write.                                                 *)
TranscriptUsable ==
    LET read == ToolEvents(file) IN
    /\ \A i, j \in read : i < j =>
          /\ file[i] # file[j]
          /\ \E m, n \in DOMAIN log : m < n /\ log[m] = file[i] /\ log[n] = file[j]
    /\ Len(log) - Cardinality(read) <= 2 * badWrites

(* Without failed writes the transcript up to its closing line and the     *)
(* posted record hold the same events, although tools may outlive both.    *)
Lists(places, events) ==
    /\ Cardinality(places) = Len(events)
    /\ \A i \in places : file[i] = events[Cardinality({j \in places : j <= i})]

RecordMatchesTranscript ==
    record # NoRecord /\ badWrites = 0 =>
        EndLine \in ToSet(file) /\ Lists(BeforeEnd, record)

(* While the session lives, a card that runs is settled, unless the event  *)
(* that would settle it is lost.                                           *)
CardsSettle ==
    \A c \in Calls :
        [id |-> c, type |-> "started"] \in ToSet(feed)
            ~> \/ \E type \in Ends : [id |-> c, type |-> type] \in ToSet(feed) \union lost
               \/ session # "live"

=============================================================================
