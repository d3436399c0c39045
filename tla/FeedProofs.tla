----------------------------- MODULE FeedProofs -----------------------------
(***************************************************************************)
(* The path of the events to the browser and to the transcript, for any    *)
(* number of tool calls and faults and a channel of any size.              *)
(***************************************************************************)
EXTENDS CallFeed, DataLemmas

Types == {"started", "signal"} \union Ends

Events == [id : Calls, type : Types]

CallType ==
    call \in [Calls -> [stage : {"new", "sending", "running", "over", "cancelled"},
                        last : {"none"} \union Types]]

(* An event on its way is one the wrapper has emitted and logged.          *)
FeedType ==
    /\ CallType
    /\ \A c \in Calls :
          /\ call[c].stage = "new" <=> call[c].last = "none"
          /\ call[c].stage # "new" => Pending(c) \in ToSet(log)
          /\ call[c].stage = "over" => call[c].last \in Ends
          /\ call[c].stage = "running" => call[c].last \notin Ends
    /\ log \in Seq(Events)
    /\ channel \in Seq(Events) /\ feed \in Seq(Events)
    /\ lost \in SUBSET Events /\ IsFiniteSet(lost)
    /\ ToSet(channel) \union ToSet(feed) \union lost \subseteq ToSet(log)
    /\ badWrites \in 0..MaxFaults
    /\ session \in {"live", "closing"}
    /\ feed # <<>> => panel

(* The events that have arrived, and behind them those under way.          *)
Stream == feed \o channel

-----------------------------------------------------------------------------
(* What the steps do to the variables of this path.                        *)

Unheard == UNCHANGED <<channel, lost, feed, panel, session>>

Emits(c, type) ==
    /\ log' = Append(log, [id |-> c, type |-> type])
    /\ call' = [call EXCEPT ![c] = [stage |-> "sending", last |-> type]]
    /\ Unheard

LEMMA EmitSteps ==
    ASSUME NEW c \in Calls
    PROVE  /\ Start(c) => call[c].stage = "new" /\ Emits(c, "started")
           /\ Signal(c) => call[c] = [stage |-> "running", last |-> "started"]
                             /\ Emits(c, "signal")
           /\ End(c) => call[c].stage = "running" /\ \E type \in Ends : Emits(c, type)
BY DEF Start, Signal, End, Emit, Emits, Unheard

Leaves(c, stage) ==
    /\ call' = [call EXCEPT ![c].stage = stage]
    /\ UNCHANGED <<log, feed, panel, session, badWrites>>

LEMMA PublishSteps ==
    ASSUME NEW c \in Calls
    PROVE  /\ Publish(c) => /\ call[c].stage = "sending" /\ (Sent(c) \/ NotSent(c))
                            /\ Leaves(c, IF call[c].last \in Ends THEN "over" ELSE "running")
           /\ Cancel(c) => /\ \/ call[c].stage = "running" /\ UNCHANGED <<channel, lost>>
                              \/ call[c].stage = "sending" /\ (Sent(c) \/ NotSent(c))
                           /\ Leaves(c, "cancelled")
BY DEF Publish, Cancel, Leaves

LEMMA OtherSteps ==
    /\ Turn \/ Shutdown => UNCHANGED <<call, log>> /\ Unheard
    /\ Close => /\ UNCHANGED <<call, log, channel, lost, feed, panel, badWrites>>
                /\ session' = "closing"
    /\ PanelOpens => /\ UNCHANGED <<call, log, channel, lost, feed, session, badWrites>>
                     /\ panel' = TRUE
    /\ UNCHANGED vars => UNCHANGED <<call, log, badWrites>> /\ Unheard
BY DEF Turn, Shutdown, Close, PanelOpens, vars, Unheard

(* Nothing but a write that may fail counts as failed.                     *)
LEMMA WriteCounts ==
    ASSUME badWrites \in 0..MaxFaults, IsFiniteSet(lost), NEW line, Write(line)
    PROVE  badWrites' \in 0..MaxFaults
<1>1. Cardinality(lost) \in Nat /\ MaxFaults \in Nat
  BY FS_CardinalityType, FeedAssumption
<1>2. QED BY <1>1 DEF Write, MayFail

LEMMA FaultsNext ==
    FeedType /\ [Next]_vars => badWrites' \in 0..MaxFaults
<1> SUFFICES ASSUME FeedType, [Next]_vars PROVE badWrites' \in 0..MaxFaults
  OBVIOUS
<1>1. badWrites \in 0..MaxFaults /\ IsFiniteSet(lost)
  BY DEF FeedType
<1>2. CASE badWrites' = badWrites
  BY <1>1, <1>2
<1>3. CASE \E line : Write(line)
  BY <1>1, <1>3, WriteCounts
<1>4. QED
  BY <1>2, <1>3
  DEF Next, Start, Signal, End, Emit, Publish, Cancel, Turn, Close, Shutdown, PanelOpens,
      Receive, Done, vars

LEMMA EmitType ==
    ASSUME FeedType, NEW c \in Calls, NEW type \in Types, Emits(c, type),
           badWrites' \in 0..MaxFaults
    PROVE  FeedType'
<1>1. [id |-> c, type |-> type] \in Events
  BY DEF Events
<1>2. log' \in Seq(Events) /\ ToSet(log') = ToSet(log) \union {[id |-> c, type |-> type]}
  BY <1>1, AppendFacts, AppendSet DEF Emits, FeedType
<1>3. /\ CallType' /\ call'[c] = [stage |-> "sending", last |-> type]
      /\ \A d \in Calls \ {c} : call'[d] = call[d]
  BY DEF Emits, FeedType, CallType
<1>4. \A d \in Calls :
         /\ call'[d].stage = "new" <=> call'[d].last = "none"
         /\ call'[d].stage # "new" => Pending(d)' \in ToSet(log')
         /\ call'[d].stage = "over" => call'[d].last \in Ends
         /\ call'[d].stage = "running" => call'[d].last \notin Ends
  <2> TAKE d \in Calls
  <2>1. CASE d = c
    BY <1>2, <1>3, <2>1 DEF Pending, Types, Ends
  <2>2. CASE d # c
    BY <1>2, <1>3, <2>2 DEF Pending, FeedType
  <2>3. QED BY <2>1, <2>2
<1>5. QED BY <1>2, <1>3, <1>4 DEF FeedType, Emits, Unheard

LEMMA LeaveType ==
    ASSUME FeedType, NEW c \in Calls, NEW stage \in {"running", "over", "cancelled"},
           Leaves(c, stage), call[c].stage # "new",
           stage = "over" => call[c].last \in Ends,
           stage = "running" => call[c].last \notin Ends,
           UNCHANGED <<channel, lost>> \/ Sent(c) \/ NotSent(c)
    PROVE  FeedType'
<1>1. Pending(c) \in Events /\ Pending(c) \in ToSet(log)
  BY DEF FeedType, CallType, Pending, Events
<1>2. /\ CallType' /\ call'[c].stage = stage /\ call'[c].last = call[c].last
      /\ \A d \in Calls \ {c} : call'[d] = call[d]
  BY DEF Leaves, FeedType, CallType
<1>3. \A d \in Calls :
         /\ call'[d].stage = "new" <=> call'[d].last = "none"
         /\ call'[d].stage # "new" => Pending(d)' \in ToSet(log')
         /\ call'[d].stage = "over" => call'[d].last \in Ends
         /\ call'[d].stage = "running" => call'[d].last \notin Ends
  <2> TAKE d \in Calls
  <2>1. CASE d = c
    BY <1>2, <2>1 DEF Pending, FeedType, Leaves
  <2>2. CASE d # c
    BY <1>2, <2>2 DEF Pending, FeedType, Leaves
  <2>3. QED BY <2>1, <2>2
<1>4. /\ channel' \in Seq(Events) /\ lost' \in SUBSET Events /\ IsFiniteSet(lost')
      /\ ToSet(channel') \union lost' \subseteq ToSet(log)
  <2>1. CASE UNCHANGED <<channel, lost>>
    BY <2>1 DEF FeedType
  <2>2. CASE Sent(c)
    <3>1. channel' \in Seq(Events) /\ ToSet(channel') = ToSet(channel) \union {Pending(c)}
      BY <1>1, <2>2, AppendFacts, AppendSet DEF Sent, FeedType
    <3>2. QED BY <1>1, <2>2, <3>1 DEF Sent, FeedType
  <2>3. CASE NotSent(c)
    <3>1. IsFiniteSet(lost')
      BY <2>3, FS_AddElement DEF NotSent, FeedType
    <3>2. QED BY <1>1, <2>3, <3>1 DEF NotSent, FeedType
  <2>4. QED BY <2>1, <2>2, <2>3
<1>5. QED BY <1>2, <1>3, <1>4 DEF FeedType, Leaves

(* A stream arrives.                                                       *)
LEMMA HeadOfChannel ==
    ASSUME NEW S, NEW s \in Seq(S), s # <<>>
    PROVE  /\ Head(s) \in S /\ Tail(s) \in Seq(S)
           /\ Len(s) \in Nat \ {0} /\ Len(Tail(s)) = Len(s) - 1
           /\ Head(s) = s[1] /\ \A i \in 1..(Len(s) - 1) : Tail(s)[i] = s[i + 1]
           /\ ToSet(s) = ToSet(Tail(s)) \union {Head(s)}
<1>1. /\ Head(s) \in S /\ Tail(s) \in Seq(S)
      /\ Len(s) \in Nat \ {0} /\ Len(Tail(s)) = Len(s) - 1
      /\ Head(s) = s[1] /\ \A i \in 1..(Len(s) - 1) : Tail(s)[i] = s[i + 1]
      /\ DOMAIN s = 1..Len(s) /\ DOMAIN Tail(s) = 1..(Len(s) - 1)
  OBVIOUS
<1>2. ASSUME NEW x \in ToSet(s) PROVE x \in ToSet(Tail(s)) \union {Head(s)}
  <2>1. PICK i \in 1..Len(s) : x = s[i]
    BY <1>1, <1>2 DEF ToSet
  <2>2. CASE i = 1
    BY <1>1, <2>1, <2>2
  <2>3. CASE i # 1
    <3>1. i - 1 \in 1..(Len(s) - 1) /\ (i - 1) + 1 = i
      BY <1>1, <2>1, <2>3
    <3>2. x = Tail(s)[i - 1]
      BY <1>1, <2>1, <3>1
    <3>3. QED BY <1>1, <3>1, <3>2 DEF ToSet
  <2>4. QED BY <2>2, <2>3
<1>3. ASSUME NEW x \in ToSet(Tail(s)) \union {Head(s)} PROVE x \in ToSet(s)
  <2>1. CASE x = Head(s)
    <3>1. 1 \in DOMAIN s /\ x = s[1]
      BY <1>1, <2>1
    <3>2. QED BY <3>1 DEF ToSet
  <2>2. CASE x \in ToSet(Tail(s))
    <3>1. PICK i \in 1..(Len(s) - 1) : x = Tail(s)[i]
      BY <1>1, <2>2 DEF ToSet
    <3>2. i + 1 \in DOMAIN s /\ x = s[i + 1]
      BY <1>1, <3>1
    <3>3. QED BY <3>2 DEF ToSet
  <2>3. QED BY <1>3, <2>1, <2>2
<1>4. QED BY <1>1, <1>2, <1>3

LEMMA ReceiveType == ASSUME FeedType, Receive PROVE FeedType'
<1>1. /\ channel # <<>> /\ channel' = Tail(channel)
      /\ UNCHANGED <<call, log, badWrites, panel, session>>
      /\ IF panel THEN feed' = Append(feed, Head(channel)) /\ lost' = lost
                  ELSE lost' = lost \union {Head(channel)} /\ feed' = feed
  BY DEF Receive
<1>2. /\ Head(channel) \in Events /\ channel' \in Seq(Events)
      /\ ToSet(channel) = ToSet(channel') \union {Head(channel)}
  BY <1>1, HeadOfChannel DEF FeedType
<1>3. /\ feed' \in Seq(Events) /\ lost' \in SUBSET Events /\ IsFiniteSet(lost')
      /\ ToSet(channel') \union ToSet(feed') \union lost' \subseteq ToSet(log)
      /\ feed' # <<>> => panel
  <2>1. CASE panel
    <3>1. feed \in Seq(Events) /\ feed' = Append(feed, Head(channel))
      BY <1>1, <2>1 DEF FeedType
    <3>2. feed' \in Seq(Events) /\ ToSet(feed') = ToSet(feed) \union {Head(channel)}
      BY <1>2, <3>1, AppendFacts, AppendSet
    <3>3. QED BY <1>1, <1>2, <2>1, <3>2 DEF FeedType
  <2>2. CASE ~panel
    <3>1. IsFiniteSet(lost')
      <4>1. IsFiniteSet(lost) /\ lost' = lost \union {Head(channel)}
        BY <1>1, <2>2 DEF FeedType
      <4>2. QED BY <4>1, FS_AddElement
    <3>2. QED BY <1>1, <1>2, <2>2, <3>1 DEF FeedType
  <2>3. QED BY <2>1, <2>2
<1>4. QED BY <1>1, <1>2, <1>3 DEF FeedType, CallType, Pending

LEMMA FeedTypeNext == FeedType /\ [Next]_vars => FeedType'
<1> SUFFICES ASSUME FeedType, [Next]_vars PROVE FeedType'
  OBVIOUS
<1>1. badWrites' \in 0..MaxFaults
  BY FaultsNext
<1>2. ASSUME NEW c \in Calls, Start(c) \/ Signal(c) \/ End(c) PROVE FeedType'
  <2>1. \E type \in Types : Emits(c, type)
    BY <1>2, EmitSteps DEF Types
  <2>2. QED BY <1>1, <2>1, EmitType
<1>3. ASSUME NEW c \in Calls, Publish(c) PROVE FeedType'
  <2>1. call[c].stage = "sending" /\ (Sent(c) \/ NotSent(c))
    BY <1>3, PublishSteps
  <2>2. CASE call[c].last \in Ends
    <3>1. Leaves(c, "over")
      BY <1>3, <2>2, PublishSteps
    <3>2. QED BY <2>1, <2>2, <3>1, LeaveType
  <2>3. CASE call[c].last \notin Ends
    <3>1. Leaves(c, "running")
      BY <1>3, <2>3, PublishSteps
    <3>2. QED BY <2>1, <2>3, <3>1, LeaveType
  <2>4. QED BY <2>2, <2>3
<1>4. ASSUME NEW c \in Calls, Cancel(c) PROVE FeedType'
  BY <1>4, PublishSteps, LeaveType
<1>5. ASSUME UNCHANGED <<call, log, channel, lost, feed>>, panel => panel',
             session' \in {session, "closing"}
      PROVE  FeedType'
  <2>1. /\ CallType' /\ \A c \in Calls : Pending(c)' = Pending(c)
        /\ session' \in {"live", "closing"}
        /\ feed' # <<>> => panel'
    BY <1>5 DEF FeedType, CallType, Pending
  <2>2. QED BY <1>1, <1>5, <2>1 DEF FeedType
<1>6. QED
  BY <1>2, <1>3, <1>4, <1>5, ReceiveType, OtherSteps DEF Next, Done, Unheard

LEMMA FeedTypeInit == Init => FeedType
<1> SUFFICES ASSUME Init PROVE FeedType
  OBVIOUS
<1>1. <<>> \in Seq(Events) /\ ToSet(<<>>) = {}
  BY DEF ToSet
<1>2. IsFiniteSet({}) /\ MaxFaults \in Nat
  BY FS_EmptySet, FeedAssumption
<1>3. CallType
  BY DEF Init, CallType
<1>4. QED BY <1>1, <1>2, <1>3 DEF Init, FeedType

(* Nothing reaches the browser, or is lost on its way there, that the      *)
(* event log does not hold.                                                *)
THEOREM FeedTypeCorrect == Spec => []TypeOK
<1>1. FeedType => TypeOK
  BY DEF FeedType, CallType, Types, TypeOK
<1>2. QED BY <1>1, FeedTypeInit, FeedTypeNext, PTL DEF Spec

-----------------------------------------------------------------------------
(* The cards.                                                              *)

(* The end of a call that is over has arrived, is under way or is lost.    *)
OverArrives ==
    \A c \in Calls : call[c].stage = "over" =>
        Pending(c) \in ToSet(feed) \union ToSet(channel) \union lost

(* An end on its way is the last event of its call.                        *)
EndsAreLast ==
    \A e \in ToSet(feed) \union ToSet(channel) : e.type \in Ends =>
        call[e.id].last = e.type /\ call[e.id].stage \in {"over", "cancelled"}

(* The stream keeps the order in which a call emitted.                     *)
StartsFirst(stream) ==
    \A i, j \in DOMAIN stream :
        /\ stream[i].id = stream[j].id
        /\ stream[i].type = "started" /\ stream[j].type \in Ends
        => i < j

CardsInv == OverArrives /\ EndsAreLast /\ StartsFirst(Stream)

LEMMA StreamFacts ==
    ASSUME FeedType
    PROVE  /\ Stream \in Seq(Events) /\ Len(feed) \in Nat /\ Len(channel) \in Nat
           /\ DOMAIN feed = 1..Len(feed) /\ DOMAIN channel = 1..Len(channel)
           /\ DOMAIN Stream = 1..(Len(feed) + Len(channel))
           /\ \A i \in 1..Len(feed) : Stream[i] = feed[i]
           /\ \A i \in 1..Len(channel) : Stream[Len(feed) + i] = channel[i]
           /\ \A i \in DOMAIN Stream : Stream[i] \in ToSet(feed) \union ToSet(channel)
<1>1. feed \in Seq(Events) /\ channel \in Seq(Events)
  BY DEF FeedType
<1>2. /\ Stream \in Seq(Events) /\ Len(feed) \in Nat /\ Len(channel) \in Nat
      /\ DOMAIN feed = 1..Len(feed) /\ DOMAIN channel = 1..Len(channel)
      /\ DOMAIN Stream = 1..(Len(feed) + Len(channel))
      /\ \A i \in 1..Len(feed) : Stream[i] = feed[i]
      /\ \A i \in 1..Len(channel) : Stream[Len(feed) + i] = channel[i]
  BY <1>1 DEF Stream
<1>3. ASSUME NEW i \in DOMAIN Stream PROVE Stream[i] \in ToSet(feed) \union ToSet(channel)
  <2>1. CASE i \in 1..Len(feed)
    BY <1>2, <2>1 DEF ToSet
  <2>2. CASE i \notin 1..Len(feed)
    <3>1. i - Len(feed) \in 1..Len(channel) /\ Len(feed) + (i - Len(feed)) = i
      BY <1>2, <2>2
    <3>2. Stream[i] = channel[i - Len(feed)]
      BY <1>2, <3>1
    <3>3. QED BY <1>2, <3>1, <3>2 DEF ToSet
  <2>3. QED BY <2>1, <2>2
<1>4. QED BY <1>2, <1>3

(* A tool that emits has not ended, so that none of its events in flight   *)
(* is an end.                                                              *)
LEMMA EmitCards ==
    ASSUME FeedType, CardsInv, NEW c \in Calls, NEW type \in Types, Emits(c, type),
           call[c].stage \in {"new", "running"}
    PROVE  CardsInv'
<1>1. /\ call'[c].stage = "sending" /\ \A d \in Calls \ {c} : call'[d] = call[d]
      /\ UNCHANGED <<feed, channel, lost>>
  BY DEF Emits, Unheard, FeedType, CallType
<1>2. OverArrives'
  BY <1>1 DEF CardsInv, OverArrives, Pending
<1>3. EndsAreLast'
  <2>1. \A e \in ToSet(feed) \union ToSet(channel) : e \in Events
    BY DEF FeedType, ToSet
  <2>2. \A e \in ToSet(feed) \union ToSet(channel) : e.type \in Ends => e.id \in Calls \ {c}
    BY <2>1 DEF CardsInv, EndsAreLast, Events
  <2>3. QED BY <1>1, <2>2 DEF CardsInv, EndsAreLast
<1>4. StartsFirst(Stream)'
  BY <1>1 DEF CardsInv, StartsFirst, Stream
<1>5. QED BY <1>2, <1>3, <1>4 DEF CardsInv

(* An event that is sent goes behind all others, and before it no end of   *)
(* its call was sent.                                                      *)
LEMMA LeaveCards ==
    ASSUME FeedType, CardsInv, NEW c \in Calls, NEW stage \in {"running", "over", "cancelled"},
           Leaves(c, stage),
           \/ stage = "cancelled" /\ call[c].stage = "running" /\ UNCHANGED <<channel, lost>>
           \/ call[c].stage = "sending" /\ (Sent(c) \/ NotSent(c)),
           stage = "running" => call[c].last \notin Ends
    PROVE  CardsInv'
<1>1. /\ call'[c].stage = stage /\ call'[c].last = call[c].last
      /\ \A d \in Calls \ {c} : call'[d] = call[d]
      /\ feed' = feed
  BY DEF Leaves, FeedType, CallType
<1>2. /\ \A d \in Calls : Pending(d)' = Pending(d)
      /\ Pending(c) \in Events /\ Pending(c).id = c /\ Pending(c).type = call[c].last
  <2>1. call[c].stage # "new" /\ call[c].last \in Types
    BY DEF FeedType, CallType
  <2>2. QED BY <1>1, <2>1 DEF Pending, Events
<1>3. \A e \in ToSet(feed) \union ToSet(channel) : e \in Events
  BY DEF FeedType, ToSet
<1>4. \A e \in ToSet(feed) \union ToSet(channel) : e.type \in Ends => e.id \in Calls \ {c}
  BY <1>3 DEF CardsInv, EndsAreLast, Events
<1>5. CASE stage = "cancelled" /\ UNCHANGED <<channel, lost>>
  <2>1. OverArrives'
    BY <1>1, <1>2, <1>5 DEF CardsInv, OverArrives
  <2>2. EndsAreLast'
    BY <1>1, <1>4, <1>5 DEF CardsInv, EndsAreLast
  <2>3. StartsFirst(Stream)'
    BY <1>1, <1>5 DEF CardsInv, StartsFirst, Stream
  <2>4. QED BY <2>1, <2>2, <2>3 DEF CardsInv
<1>6. CASE NotSent(c)
  <2>1. channel' = channel /\ lost' = lost \union {Pending(c)}
    BY <1>6 DEF NotSent
  <2>2. OverArrives'
    BY <1>1, <1>2, <2>1 DEF CardsInv, OverArrives
  <2>3. EndsAreLast'
    BY <1>1, <1>4, <2>1 DEF CardsInv, EndsAreLast
  <2>4. StartsFirst(Stream)'
    BY <1>1, <2>1 DEF CardsInv, StartsFirst, Stream
  <2>5. QED BY <2>2, <2>3, <2>4 DEF CardsInv
<1>7. CASE Sent(c)
  <2>1. channel \in Seq(Events) /\ channel' = Append(channel, Pending(c)) /\ lost' = lost
    BY <1>7 DEF Sent, FeedType
  <2>2. ToSet(channel') = ToSet(channel) \union {Pending(c)}
    BY <1>2, <2>1, AppendSet
  <2>3. OverArrives'
    BY <1>1, <1>2, <2>1, <2>2 DEF CardsInv, OverArrives
  <2>4. EndsAreLast'
    <3> SUFFICES ASSUME NEW e \in ToSet(feed) \union ToSet(channel'), e.type \in Ends
                 PROVE  /\ call'[e.id].last = e.type
                        /\ call'[e.id].stage \in {"over", "cancelled"}
      BY <1>1 DEF EndsAreLast
    <3>1. CASE e = Pending(c)
      BY <1>1, <1>2, <3>1
    <3>2. CASE e # Pending(c)
      <4>1. e \in ToSet(feed) \union ToSet(channel) /\ e.id \in Calls \ {c}
        BY <1>4, <2>2, <3>2
      <4>2. QED BY <1>1, <4>1 DEF CardsInv, EndsAreLast
    <3>3. QED BY <3>1, <3>2
  <2>5. StartsFirst(Stream)'
    <3> DEFINE n == Len(feed) + Len(channel)
    <3>1. Stream' = Append(Stream, Pending(c))
      <4>1. feed \in Seq(Events)
        BY DEF FeedType
      <4>2. feed \o Append(channel, Pending(c)) = Append(feed \o channel, Pending(c))
        BY <1>2, <2>1, <4>1
      <4>3. QED BY <1>1, <2>1, <4>2 DEF Stream
    <3>2. Stream \in Seq(Events) /\ DOMAIN Stream = 1..n /\ Len(Stream) = n /\ n \in Nat
      BY StreamFacts
    <3> HIDE DEF n
    <3>3. /\ DOMAIN Stream' = 1..(n + 1) /\ Stream'[n + 1] = Pending(c)
          /\ \A i \in 1..n : Stream'[i] = Stream[i]
      BY <1>2, <3>1, <3>2, AppendFacts
    <3>4. \A j \in 1..n : Stream[j].type \in Ends => Stream[j].id # c
      BY <1>4, <3>2, StreamFacts
    <3> SUFFICES ASSUME NEW i \in 1..(n + 1), NEW j \in 1..(n + 1),
                        Stream'[i].id = Stream'[j].id,
                        Stream'[i].type = "started", Stream'[j].type \in Ends
                 PROVE  i < j
      BY <3>3 DEF StartsFirst
    <3>5. CASE i \in 1..n /\ j \in 1..n
      BY <3>2, <3>3, <3>5 DEF CardsInv, StartsFirst
    <3>6. CASE i \in 1..n /\ j = n + 1
      BY <3>2, <3>6
    <3>7. CASE i = n + 1 /\ j \in 1..n
      BY <1>2, <3>3, <3>4, <3>7
    <3>8. CASE i = n + 1 /\ j = n + 1
      BY <3>8 DEF Ends
    <3>9. QED BY <3>2, <3>5, <3>6, <3>7, <3>8
  <2>6. QED BY <2>3, <2>4, <2>5 DEF CardsInv
<1>8. QED BY <1>5, <1>6, <1>7

(* What arrives leaves the stream as it is; what is dropped is the stream's *)
(* head.                                                                   *)
LEMMA ReceiveCards == ASSUME FeedType, CardsInv, Receive PROVE CardsInv'
<1>1. /\ channel # <<>> /\ channel' = Tail(channel) /\ call' = call
      /\ IF panel THEN feed' = Append(feed, Head(channel)) /\ lost' = lost
                  ELSE lost' = lost \union {Head(channel)} /\ feed' = feed
  BY DEF Receive
<1>2. feed \in Seq(Events) /\ channel \in Seq(Events)
  BY DEF FeedType
<1>3. /\ Head(channel) \in Events /\ Tail(channel) \in Seq(Events)
      /\ ToSet(channel) = ToSet(Tail(channel)) \union {Head(channel)}
  BY <1>1, <1>2, HeadOfChannel
<1>4. \A c \in Calls : Pending(c)' = Pending(c)
  BY <1>1 DEF Pending
<1>5. CASE panel
  <2>1. feed' = Append(feed, Head(channel)) /\ lost' = lost
    BY <1>1, <1>5
  <2>2. ToSet(feed') = ToSet(feed) \union {Head(channel)}
    BY <1>2, <1>3, <2>1, AppendSet
  <2>3. OverArrives'
    BY <1>1, <1>3, <1>4, <2>1, <2>2 DEF CardsInv, OverArrives
  <2>4. EndsAreLast'
    BY <1>1, <1>3, <2>2 DEF CardsInv, EndsAreLast
  <2>5. Stream' = Stream
    <3>1. Append(feed, Head(channel)) \o Tail(channel) = feed \o channel
      BY <1>1, <1>2
    <3>2. QED BY <1>1, <2>1, <3>1 DEF Stream
  <2>6. QED BY <2>3, <2>4, <2>5 DEF CardsInv, StartsFirst
<1>6. CASE ~panel
  <2>1. feed = <<>> /\ feed' = feed /\ lost' = lost \union {Head(channel)}
    BY <1>1, <1>6 DEF FeedType
  <2>2. OverArrives'
    BY <1>1, <1>3, <1>4, <2>1 DEF CardsInv, OverArrives
  <2>3. EndsAreLast'
    BY <1>1, <1>3, <2>1 DEF CardsInv, EndsAreLast
  <2>4. Stream = channel /\ Stream' = Tail(channel)
    BY <1>1, <1>2, <1>3, <2>1 DEF Stream
  <2>5. StartsFirst(Stream)'
    <3> DEFINE n == Len(channel)
    <3>1. /\ n \in Nat \ {0} /\ DOMAIN channel = 1..n /\ DOMAIN Tail(channel) = 1..(n - 1)
          /\ \A i \in 1..(n - 1) : Tail(channel)[i] = channel[i + 1] /\ i + 1 \in 1..n
      BY <1>1, <1>2, HeadOfChannel
    <3>2. \A i, j \in 1..n :
             /\ channel[i].id = channel[j].id
             /\ channel[i].type = "started" /\ channel[j].type \in Ends
             => i < j
      BY <2>4, <3>1 DEF CardsInv, StartsFirst
    <3> HIDE DEF n
    <3> SUFFICES ASSUME NEW i \in 1..(n - 1), NEW j \in 1..(n - 1),
                        Stream'[i].id = Stream'[j].id,
                        Stream'[i].type = "started", Stream'[j].type \in Ends
                 PROVE  i < j
      BY <2>4, <3>1 DEF StartsFirst
    <3>3. i + 1 < j + 1
      BY <2>4, <3>1, <3>2
    <3>4. QED BY <3>1, <3>3
  <2>6. QED BY <2>2, <2>3, <2>5 DEF CardsInv
<1>7. QED BY <1>5, <1>6

LEMMA CardsNext == FeedType /\ CardsInv /\ [Next]_vars => CardsInv'
<1> SUFFICES ASSUME FeedType, CardsInv, [Next]_vars PROVE CardsInv'
  OBVIOUS
<1>1. ASSUME NEW c \in Calls, Start(c) \/ Signal(c) \/ End(c) PROVE CardsInv'
  <2>1. \E type \in Types : Emits(c, type)
    BY <1>1, EmitSteps DEF Types
  <2>2. call[c].stage \in {"new", "running"}
    BY <1>1 DEF Start, Signal, End
  <2>3. QED BY <2>1, <2>2, EmitCards
<1>2. ASSUME NEW c \in Calls, Publish(c) PROVE CardsInv'
  <2>1. call[c].stage = "sending" /\ (Sent(c) \/ NotSent(c))
    BY <1>2, PublishSteps
  <2>2. CASE call[c].last \in Ends
    <3>1. Leaves(c, "over")
      BY <1>2, <2>2, PublishSteps
    <3>2. QED BY <2>1, <3>1, LeaveCards
  <2>3. CASE call[c].last \notin Ends
    <3>1. Leaves(c, "running")
      BY <1>2, <2>3, PublishSteps
    <3>2. QED BY <2>1, <2>3, <3>1, LeaveCards
  <2>4. QED BY <2>2, <2>3
<1>3. ASSUME NEW c \in Calls, Cancel(c) PROVE CardsInv'
  BY <1>3, PublishSteps, LeaveCards
<1>4. ASSUME UNCHANGED <<call, channel, lost, feed>> PROVE CardsInv'
  BY <1>4 DEF CardsInv, OverArrives, EndsAreLast, StartsFirst, Stream, Pending
<1>5. QED
  BY <1>1, <1>2, <1>3, <1>4, ReceiveCards, OtherSteps DEF Next, Done, Unheard

(* A card that is settled shows what its tool did, and one that runs       *)
(* belongs to a tool whose end is not known, is under way, or was lost,    *)
(* whatever fails and whenever the panel opens.                            *)
THEOREM CardsAlwaysTrue == Spec => []CardsTellTheTruth
<1>1. Init => CardsInv
  <2> SUFFICES ASSUME Init PROVE CardsInv
    OBVIOUS
  <2>1. feed = <<>> /\ channel = <<>> /\ Stream = <<>> /\ \A c \in Calls : call[c].stage = "new"
    BY DEF Init, Stream
  <2>2. ToSet(<<>>) = {} /\ DOMAIN <<>> = {}
    BY DEF ToSet
  <2>3. QED BY <2>1, <2>2 DEF CardsInv, OverArrives, EndsAreLast, StartsFirst
<1>2. FeedType /\ CardsInv => CardsTellTheTruth
  <2> SUFFICES ASSUME FeedType, CardsInv, NEW i \in CardsAt, feed[i].type = "started"
               PROVE  IF Status(i) = {"running"}
                      THEN call[feed[i].id].stage = "over" =>
                               Pending(feed[i].id) \in ToSet(channel) \union lost
                      ELSE Status(i) = {call[feed[i].id].last}
    BY DEF CardsTellTheTruth
  <2> DEFINE c == feed[i].id
             S == SettledBy(i)
  <2>1. feed \in Seq(Events) /\ DOMAIN feed = 1..Len(feed) /\ i \in 1..Len(feed)
          /\ Len(feed) \in Nat /\ c \in Calls
    <3>1. feed \in Seq(Events) /\ i \in DOMAIN feed
      BY DEF FeedType, CardsAt
    <3>2. /\ DOMAIN feed = 1..Len(feed) /\ Len(feed) \in Nat
          /\ \A j \in 1..Len(feed) : feed[j] \in Events
      BY <3>1
    <3>3. feed[i].id \in Calls
      BY <3>1, <3>2 DEF Events
    <3>4. QED BY <3>1, <3>2, <3>3
  <2>2. S = {} \/ S = {call[c].last}
    <3>1. \A x \in S : x = call[c].last
      BY <2>1 DEF SettledBy, CardsInv, EndsAreLast, ToSet
    <3>2. QED BY <3>1
  <2>3. \A x \in S : x \in Ends
    BY DEF SettledBy
  <2>4. Status(i) = IF S = {} THEN {"running"} ELSE S
    BY DEF Status
  <2>5. ASSUME S = {}, call[c].stage = "over" PROVE Pending(c) \in ToSet(channel) \union lost
    <3> SUFFICES ASSUME Pending(c) \in ToSet(feed) PROVE FALSE
      BY <2>1, <2>5 DEF CardsInv, OverArrives
    <3>1. PICK j \in 1..Len(feed) : feed[j] = Pending(c)
      BY <2>1 DEF ToSet
    <3>2. feed[j].id = c /\ feed[j].type \in Ends
      BY <2>1, <2>5, <3>1 DEF Pending, FeedType
    <3>3. i < j
      BY <2>1, <3>2, StreamFacts DEF CardsInv, StartsFirst
    <3>4. feed[j].type \in S
      BY <2>1, <3>2, <3>3 DEF SettledBy
    <3>5. QED BY <2>5, <3>4
  <2>6. "running" \notin Ends
    BY DEF Ends
  <2> HIDE DEF c, S
  <2>7. IF Status(i) = {"running"}
        THEN call[c].stage = "over" => Pending(c) \in ToSet(channel) \union lost
        ELSE Status(i) = {call[c].last}
    BY <2>2, <2>3, <2>4, <2>5, <2>6
  <2>8. QED BY <2>7 DEF c
<1>3. QED BY <1>1, <1>2, FeedTypeInit, FeedTypeNext, CardsNext, PTL DEF Spec

-----------------------------------------------------------------------------
(* The lines of the transcript.                                            *)

Lines == Events \union {Junk, Message, EndLine}

LineType == file \in Seq(Lines) /\ torn \in BOOLEAN /\ (torn => file # <<>>)

LEMMA LineKinds ==
    /\ \A e \in Events : e \notin {Junk, Message, EndLine}
    /\ {Junk, Message, EndLine} \subseteq Lines /\ Events \subseteq Lines
    /\ Junk # Message /\ Junk # EndLine /\ Message # EndLine
BY DEF Lines, Events, Types, Ends, Junk, Message, EndLine, Line

LEMMA ToolPlaces ==
    ASSUME NEW f \in Seq(Lines)
    PROVE  /\ ToolEvents(f) = {i \in 1..Len(f) : f[i] \in Events}
           /\ Len(f) \in Nat /\ Len(f) + 1 \notin ToolEvents(f)
           /\ IsFiniteSet(ToolEvents(f)) /\ Cardinality(ToolEvents(f)) \in Nat
<1>1. DOMAIN f = 1..Len(f) /\ Len(f) \in Nat /\ \A i \in 1..Len(f) : f[i] \in Lines
  OBVIOUS
<1>2. ToolEvents(f) = {i \in 1..Len(f) : f[i] \in Events}
  BY <1>1, LineKinds DEF ToolEvents, parse_entries, Lines
<1>3. IsFiniteSet(1..Len(f))
  BY <1>1, FS_Interval
<1>4. IsFiniteSet(ToolEvents(f)) /\ Cardinality(ToolEvents(f)) \in Nat
  BY <1>2, <1>3, FS_Subset, FS_CardinalityType
<1>5. QED BY <1>1, <1>2, <1>4

LEMMA ToolAppended ==
    ASSUME NEW f \in Seq(Lines), NEW x \in Lines
    PROVE  /\ x \in Events =>
                /\ ToolEvents(Append(f, x)) = ToolEvents(f) \union {Len(f) + 1}
                /\ Cardinality(ToolEvents(Append(f, x))) = Cardinality(ToolEvents(f)) + 1
           /\ x \notin Events => ToolEvents(Append(f, x)) = ToolEvents(f)
<1> DEFINE g == Append(f, x)
<1>1. /\ g \in Seq(Lines) /\ Len(g) = Len(f) + 1 /\ Len(f) \in Nat
      /\ \A i \in 1..Len(f) : g[i] = f[i]
      /\ g[Len(f) + 1] = x
  BY AppendFacts
<1> HIDE DEF g
<1>2. /\ ToolEvents(g) = {i \in 1..(Len(f) + 1) : g[i] \in Events}
      /\ ToolEvents(f) = {i \in 1..Len(f) : f[i] \in Events}
  BY <1>1, ToolPlaces
<1>3. x \in Events => ToolEvents(g) = ToolEvents(f) \union {Len(f) + 1}
  BY <1>1, <1>2
<1>4. x \notin Events => ToolEvents(g) = ToolEvents(f)
  BY <1>1, <1>2
<1>5. IsFiniteSet(ToolEvents(f)) /\ Len(f) + 1 \notin ToolEvents(f)
  BY ToolPlaces
<1>6. Cardinality(ToolEvents(f) \union {Len(f) + 1}) = Cardinality(ToolEvents(f)) + 1
  BY <1>5, FS_AddElement
<1>7. QED BY <1>3, <1>4, <1>6 DEF g

LEMMA ToolSpoilt ==
    ASSUME NEW f \in Seq(Lines), f # <<>>, NEW g, g = [f EXCEPT ![Len(f)] = Junk]
    PROVE  /\ g \in Seq(Lines) /\ g # <<>> /\ Len(g) = Len(f)
           /\ \A i \in ToolEvents(g) : i \in ToolEvents(f) /\ g[i] = f[i]
           /\ Len(g) \notin ToolEvents(g)
           /\ Cardinality(ToolEvents(g)) = IF Len(f) \in ToolEvents(f)
                                           THEN Cardinality(ToolEvents(f)) - 1
                                           ELSE Cardinality(ToolEvents(f))
<1>1. Len(f) \in Nat \ {0} /\ Junk \in Lines /\ Junk \notin Events
  BY LineKinds
<1>2. /\ g \in Seq(Lines) /\ Len(g) = Len(f) /\ g[Len(f)] = Junk
      /\ \A i \in 1..Len(f) : i # Len(f) => g[i] = f[i]
  BY <1>1
<1>3. g # <<>>
  BY <1>1, <1>2
<1>4. /\ ToolEvents(g) = {i \in 1..Len(f) : g[i] \in Events}
      /\ ToolEvents(f) = {i \in 1..Len(f) : f[i] \in Events}
      /\ IsFiniteSet(ToolEvents(f))
  BY <1>2, ToolPlaces
<1>5. ToolEvents(g) = ToolEvents(f) \ {Len(f)}
  BY <1>1, <1>2, <1>4
<1>6. Cardinality(ToolEvents(g)) = IF Len(f) \in ToolEvents(f)
                                   THEN Cardinality(ToolEvents(f)) - 1
                                   ELSE Cardinality(ToolEvents(f))
  BY <1>4, <1>5, FS_RemoveElement
<1>7. QED BY <1>2, <1>3, <1>4, <1>5, <1>6

(* What a torn last line may still cost: the next line, and the torn one   *)
(* if it is an event that can be read.                                     *)
Owed ==
    IF ~torn THEN 0
    ELSE IF Len(file) \in ToolEvents(file) THEN 2 ELSE 1

Counts(line) == IF line \in Events THEN 1 ELSE 0

(* A write adds its line behind all others or spoils the last one; what it *)
(* loses, now or with the next line, is paid for by a failed write.        *)
LEMMA WriteMoves ==
    ASSUME LineType, NEW line \in Lines, Write(line), badWrites \in Nat
    PROVE  /\ LineType' /\ badWrites' \in {badWrites, badWrites + 1}
           /\ \A i \in ToolEvents(file') :
                 \/ i \in ToolEvents(file) /\ file'[i] = file[i]
                 \/ /\ file'[i] = line /\ line \in Events
                    /\ \A j \in ToolEvents(file') : j <= i
                    /\ \A j \in ToolEvents(file') \ {i} : j \in ToolEvents(file)
           /\ Cardinality(ToolEvents(file)) + Counts(line) + Owed'
                <= Cardinality(ToolEvents(file')) + 2 * (badWrites' - badWrites) + Owed
           /\ badWrites' = 0 /\ ~torn => file' = Append(file, line) /\ ~torn'
<1>t. /\ file \in Seq(Lines) /\ torn \in BOOLEAN /\ (torn => file # <<>>)
      /\ Cardinality(ToolEvents(file)) \in Nat /\ Len(file) \in Nat
      /\ Counts(line) \in {0, 1}
      /\ Owed \in {0, 1, 2} /\ (~torn => Owed = 0) /\ (torn => Owed \in {1, 2})
      /\ torn /\ Len(file) \in ToolEvents(file) => Owed = 2
  BY ToolPlaces DEF LineType, Owed, Counts
<1> DEFINE New(i) == /\ file'[i] = line /\ line \in Events
                     /\ \A j \in ToolEvents(file') : j <= i
                     /\ \A j \in ToolEvents(file') \ {i} : j \in ToolEvents(file)
<1>1. ASSUME ~torn, NEW x \in {line, Junk}, file' = Append(file, x)
      PROVE  /\ file' \in Seq(Lines) /\ file' # <<>>
             /\ \A i \in ToolEvents(file') :
                   (i \in ToolEvents(file) /\ file'[i] = file[i]) \/ New(i)
             /\ Cardinality(ToolEvents(file')) = Cardinality(ToolEvents(file)) + Counts(x)
             /\ x \notin Events => Len(file') \notin ToolEvents(file')
  <2>1. x \in Lines /\ (x \in Events => x = line)
    BY LineKinds
  <2>2. /\ file' \in Seq(Lines) /\ Len(file') = Len(file) + 1
        /\ \A i \in 1..Len(file) : file'[i] = file[i]
        /\ file'[Len(file) + 1] = x
    BY <1>1, <1>t, <2>1, AppendFacts
  <2>3. file' # <<>>
    BY <1>t, <2>2
  <2>4. ToolEvents(file) \subseteq 1..Len(file) /\ Len(file) + 1 \notin ToolEvents(file)
    BY <1>t, ToolPlaces
  <2>5. CASE x \in Events
    <3>1. /\ ToolEvents(file') = ToolEvents(file) \union {Len(file) + 1}
          /\ Cardinality(ToolEvents(file')) = Cardinality(ToolEvents(file)) + 1
      BY <1>1, <1>t, <2>1, <2>5, ToolAppended
    <3>2. New(Len(file) + 1)
      BY <1>t, <2>1, <2>2, <2>4, <2>5, <3>1
    <3>3. \A i \in ToolEvents(file') : (i \in ToolEvents(file) /\ file'[i] = file[i]) \/ New(i)
      BY <2>2, <2>4, <3>1, <3>2
    <3>4. QED BY <2>2, <2>3, <2>5, <3>1, <3>3 DEF Counts
  <2>6. CASE x \notin Events
    <3>1. ToolEvents(file') = ToolEvents(file)
      BY <1>1, <1>t, <2>1, <2>6, ToolAppended
    <3>2. QED BY <1>t, <2>2, <2>3, <2>4, <2>6, <3>1 DEF Counts
  <2>7. QED BY <2>5, <2>6
<1>2. ASSUME torn, file' = [file EXCEPT ![Len(file)] = Junk]
      PROVE  /\ file' \in Seq(Lines) /\ file' # <<>>
             /\ \A i \in ToolEvents(file') : i \in ToolEvents(file) /\ file'[i] = file[i]
             /\ Cardinality(ToolEvents(file')) = IF Len(file) \in ToolEvents(file)
                                                 THEN Cardinality(ToolEvents(file)) - 1
                                                 ELSE Cardinality(ToolEvents(file))
             /\ Len(file') \notin ToolEvents(file')
  <2> DEFINE g == file'
  <2>1. file \in Seq(Lines) /\ file # <<>> /\ g = [file EXCEPT ![Len(file)] = Junk]
    BY <1>2, <1>t
  <2> HIDE DEF g
  <2>2. /\ g \in Seq(Lines) /\ g # <<>> /\ Len(g) = Len(file)
        /\ \A i \in ToolEvents(g) : i \in ToolEvents(file) /\ g[i] = file[i]
        /\ Len(g) \notin ToolEvents(g)
        /\ Cardinality(ToolEvents(g)) = IF Len(file) \in ToolEvents(file)
                                        THEN Cardinality(ToolEvents(file)) - 1
                                        ELSE Cardinality(ToolEvents(file))
    BY <2>1, ToolSpoilt
  <2>3. QED BY <2>2 DEF g
<1> DEFINE C == Cardinality(ToolEvents(file))
           D == Cardinality(ToolEvents(file'))
<1>s. ASSUME torn, file' = [file EXCEPT ![Len(file)] = Junk]
      PROVE  C + Counts(line) <= D + Owed /\ D \in Nat /\ C <= D + 1
  <2>1. CASE Len(file) \in ToolEvents(file)
    <3>1. D = C - 1 /\ Owed = 2 /\ D \in Nat
      <4>1. D = C - 1
        BY <1>2, <1>s, <2>1
      <4>2. D \in Nat
        BY <1>2, <1>s, ToolPlaces
      <4>3. QED BY <1>t, <1>s, <2>1, <4>1, <4>2
    <3> HIDE DEF C, D
    <3>2. QED BY <1>t, <3>1 DEF C
  <2>2. CASE Len(file) \notin ToolEvents(file)
    <3>1. D = C /\ Owed = 1
      BY <1>2, <1>s, <2>2 DEF Owed
    <3>2. C \in Nat /\ Counts(line) \in {0, 1}
      BY <1>t
    <3> HIDE DEF C, D
    <3>3. QED BY <3>1, <3>2
  <2>3. QED BY <2>1, <2>2
<1>3. ASSUME file' = Glued(line), torn' = FALSE, badWrites' = badWrites
      PROVE  /\ LineType'
             /\ \A i \in ToolEvents(file') :
                   (i \in ToolEvents(file) /\ file'[i] = file[i]) \/ New(i)
             /\ C + Counts(line) + Owed' <= D + 2 * (badWrites' - badWrites) + Owed
             /\ ~torn => file' = Append(file, line)
  <2>1. Owed' = 0
    BY <1>3 DEF Owed
  <2>2. CASE ~torn
    <3>1. file' = Append(file, line)
      BY <1>3, <2>2 DEF Glued
    <3>2. /\ file' \in Seq(Lines) /\ D = C + Counts(line)
          /\ \A i \in ToolEvents(file') :
                (i \in ToolEvents(file) /\ file'[i] = file[i]) \/ New(i)
      BY <1>1, <2>2, <3>1
    <3>3. Owed = 0 /\ C \in Nat /\ Counts(line) \in {0, 1}
      BY <1>t, <2>2
    <3> HIDE DEF C, D, New
    <3>4. C + Counts(line) + Owed' <= D + 2 * (badWrites' - badWrites) + Owed
      BY <1>3, <2>1, <3>2, <3>3
    <3>5. LineType'
      BY <1>3, <3>2 DEF LineType
    <3>6. QED BY <3>1, <3>2, <3>4, <3>5
  <2>3. CASE torn
    <3>1. file' = [file EXCEPT ![Len(file)] = Junk]
      BY <1>3, <2>3 DEF Glued
    <3>2. /\ file' \in Seq(Lines) /\ C + Counts(line) <= D + Owed /\ D \in Nat
          /\ \A i \in ToolEvents(file') : i \in ToolEvents(file) /\ file'[i] = file[i]
      BY <1>2, <1>s, <2>3, <3>1
    <3>3. C \in Nat /\ Counts(line) \in {0, 1} /\ Owed \in {1, 2}
      BY <1>t, <2>3
    <3> HIDE DEF C, D, New
    <3>4. C + Counts(line) + Owed' <= D + 2 * (badWrites' - badWrites) + Owed
      BY <1>3, <2>1, <3>2, <3>3
    <3>5. LineType'
      BY <1>3, <3>2 DEF LineType
    <3>6. QED BY <2>3, <3>2, <3>4, <3>5
  <2>4. QED BY <1>t, <2>2, <2>3
<1>4. ASSUME NEW x \in {line, Junk}, file' = Glued(x), torn' = TRUE, badWrites' = badWrites + 1
      PROVE  /\ LineType'
             /\ \A i \in ToolEvents(file') :
                   (i \in ToolEvents(file) /\ file'[i] = file[i]) \/ New(i)
             /\ C + Counts(line) + Owed' <= D + 2 * (badWrites' - badWrites) + Owed
  <2>1. Owed' = IF Len(file') \in ToolEvents(file') THEN 2 ELSE 1
    BY <1>4 DEF Owed
  <2>2. CASE ~torn
    <3>1. file' = Append(file, x)
      BY <1>4, <2>2 DEF Glued
    <3>2. /\ LineType' /\ D = C + Counts(x)
          /\ \A i \in ToolEvents(file') :
                (i \in ToolEvents(file) /\ file'[i] = file[i]) \/ New(i)
      BY <1>1, <1>4, <2>2, <3>1 DEF LineType
    <3>3. Counts(line) + Owed' <= Counts(x) + 2
      <4>1. CASE x \in Events
        BY <4>1, <1>t, <2>1, LineKinds DEF Counts
      <4>2. CASE x \notin Events
        <5>1. Owed' = 1 /\ Counts(x) = 0
          BY <1>1, <2>1, <2>2, <3>1, <4>2 DEF Counts
        <5>2. QED BY <1>t, <5>1
      <4>3. QED BY <4>1, <4>2
    <3>4. D \in Nat /\ Counts(x) \in {0, 1} /\ Owed' \in {1, 2}
      BY <1>t, <2>1, <3>2 DEF Counts
    <3> HIDE DEF C, D
    <3>5. C + Counts(line) + Owed' <= D + 2 * (badWrites' - badWrites) + Owed
      BY <1>4, <1>t, <2>2, <3>2, <3>3, <3>4 DEF C
    <3>6. QED BY <3>2, <3>5 DEF C, D
  <2>3. CASE torn
    <3>1. file' = [file EXCEPT ![Len(file)] = Junk]
      BY <1>4, <2>3 DEF Glued
    <3>2. Owed' = 1
      BY <1>2, <2>1, <2>3, <3>1
    <3>3. /\ file' \in Seq(Lines) /\ file' # <<>> /\ C <= D + 1 /\ D \in Nat
          /\ \A i \in ToolEvents(file') : i \in ToolEvents(file) /\ file'[i] = file[i]
      BY <1>2, <1>s, <2>3, <3>1
    <3>4. C \in Nat /\ Counts(line) \in {0, 1} /\ Owed \in {1, 2}
      BY <1>t, <2>3
    <3> HIDE DEF C, D, New
    <3>5. C + Counts(line) + Owed' <= D + 2 * (badWrites' - badWrites) + Owed
      BY <1>4, <3>2, <3>3, <3>4
    <3>6. LineType'
      BY <1>4, <3>3 DEF LineType
    <3>7. QED BY <3>3, <3>5, <3>6
  <2>4. QED BY <1>t, <2>2, <2>3
<1>5. ASSUME UNCHANGED <<file, torn>>, badWrites' = badWrites + 1
      PROVE  /\ LineType'
             /\ \A i \in ToolEvents(file') :
                   (i \in ToolEvents(file) /\ file'[i] = file[i]) \/ New(i)
             /\ C + Counts(line) + Owed' <= D + 2 * (badWrites' - badWrites) + Owed
  <2>1. Owed' = Owed /\ D = C /\ C \in Nat /\ Owed \in Nat /\ Counts(line) \in {0, 1}
    BY <1>5, <1>t DEF Owed
  <2>2. LineType' /\ \A i \in ToolEvents(file') : i \in ToolEvents(file) /\ file'[i] = file[i]
    BY <1>5 DEF LineType
  <2> HIDE DEF C, D, New
  <2>3. C + Counts(line) + Owed' <= D + 2 * (badWrites' - badWrites) + Owed
    BY <1>5, <2>1
  <2>4. QED BY <2>2, <2>3
<1> HIDE DEF C, D
<1>6. /\ LineType' /\ badWrites' \in {badWrites, badWrites + 1}
      /\ \A i \in ToolEvents(file') :
            (i \in ToolEvents(file) /\ file'[i] = file[i]) \/ New(i)
      /\ C + Counts(line) + Owed' <= D + 2 * (badWrites' - badWrites) + Owed
      /\ badWrites' = 0 /\ ~torn => file' = Append(file, line) /\ ~torn'
  <2>1. CASE file' = Glued(line) /\ torn' = FALSE /\ badWrites' = badWrites
    <3> HIDE DEF New
    <3>1. QED BY <1>3, <2>1
  <2>2. ASSUME badWrites' = badWrites + 1 PROVE badWrites' # 0
    BY <2>2
  <2>3. CASE badWrites' = badWrites + 1
             /\ \E x \in {line, Junk} : file' = Glued(x) /\ torn' = TRUE
    <3> HIDE DEF New
    <3>1. QED BY <1>4, <2>2, <2>3
  <2>4. CASE badWrites' = badWrites + 1 /\ UNCHANGED <<file, torn>>
    <3> HIDE DEF New
    <3>1. QED BY <1>5, <2>2, <2>4
  <2>5. QED BY <2>1, <2>3, <2>4 DEF Write
<1>7. QED BY <1>6 DEF C, D

-----------------------------------------------------------------------------
(* The event log holds no event twice: a tool that may still emit an event *)
(* has not emitted it.                                                     *)

LogInv ==
    /\ IsInjective(log)
    /\ \A e \in ToSet(log) :
          /\ call[e.id].stage # "new"
          /\ e.type = "signal" => call[e.id].last \in {"signal"} \union Ends
          /\ e.type \in Ends => call[e.id].last = e.type

(* What the steps write.                                                   *)
LEMMA WritingSteps ==
    ASSUME FeedType, LogInv, [Next]_vars
    PROVE  \/ \E c \in Calls, type \in Types :
                 /\ Emits(c, type) /\ Write([id |-> c, type |-> type])
                 /\ [id |-> c, type |-> type] \notin ToSet(log)
                 /\ type = "started" => call[c].stage = "new"
                 /\ call[c].stage \in {"new", "running"} /\ call[c].last \notin Ends
                 /\ record' = record
           \/ /\ UNCHANGED <<log, record>> /\ Write(Message)
              /\ call' = call
           \/ /\ record = NoRecord /\ record' = log /\ Write(EndLine)
              /\ UNCHANGED <<log, call>>
           \/ /\ UNCHANGED <<log, record, file, torn, badWrites>>
              /\ \A d \in Calls : /\ call'[d].last = call[d].last
                                  /\ call'[d].stage = "new" => call[d].stage = "new"
<1>t. /\ CallType
      /\ \A c \in Calls : /\ call[c].stage = "new" <=> call[c].last = "none"
                          /\ call[c].stage = "running" => call[c].last \notin Ends
      /\ \A e \in ToSet(log) :
          /\ call[e.id].stage # "new"
          /\ e.type = "signal" => call[e.id].last \in {"signal"} \union Ends
          /\ e.type \in Ends => call[e.id].last = e.type
  BY DEF FeedType, LogInv
<1>1. ASSUME NEW c \in Calls, Start(c)
      PROVE  /\ Emits(c, "started") /\ Write([id |-> c, type |-> "started"])
             /\ [id |-> c, type |-> "started"] \notin ToSet(log)
             /\ call[c].stage = "new" /\ call[c].last \notin Ends
             /\ record' = record /\ "started" \in Types
  <2>1. call[c].stage = "new" /\ call[c].last = "none"
    BY <1>1, <1>t DEF Start
  <2>2. [id |-> c, type |-> "started"] \notin ToSet(log)
    BY <1>t, <2>1
  <2>3. QED BY <1>1, <2>1, <2>2, EmitSteps DEF Start, Emit, Types, Ends
<1>2. ASSUME NEW c \in Calls, Signal(c)
      PROVE  /\ Emits(c, "signal") /\ Write([id |-> c, type |-> "signal"])
             /\ [id |-> c, type |-> "signal"] \notin ToSet(log)
             /\ call[c].stage = "running" /\ call[c].last \notin Ends
             /\ record' = record /\ "signal" \in Types
  <2>1. call[c].stage = "running" /\ call[c].last = "started"
    BY <1>2 DEF Signal
  <2>2. [id |-> c, type |-> "signal"] \notin ToSet(log)
    <3> DEFINE e == [id |-> c, type |-> "signal"]
    <3>1. e.id = c /\ e.type = "signal"
      OBVIOUS
    <3> HIDE DEF e
    <3>2. e \notin ToSet(log)
      BY <1>t, <2>1, <3>1 DEF Ends
    <3>3. QED BY <3>2 DEF e
  <2>3. QED BY <1>2, <2>1, <2>2, EmitSteps DEF Signal, Emit, Types, Ends
<1>3. ASSUME NEW c \in Calls, NEW type \in Ends,
             call[c].stage = "running", Emit(c, type)
      PROVE  /\ Emits(c, type) /\ Write([id |-> c, type |-> type])
             /\ [id |-> c, type |-> type] \notin ToSet(log)
             /\ type # "started"
             /\ call[c].stage = "running" /\ call[c].last \notin Ends
             /\ record' = record /\ type \in Types
  <2>1. call[c].last \notin Ends
    BY <1>3, <1>t
  <2>2. [id |-> c, type |-> type] \notin ToSet(log)
    <3> DEFINE e == [id |-> c, type |-> type]
    <3>1. e.id = c /\ e.type = type
      OBVIOUS
    <3> HIDE DEF e
    <3>2. e \notin ToSet(log)
      BY <1>t, <2>1, <3>1
    <3>3. QED BY <3>2 DEF e
  <2>3. QED BY <1>3, <2>1, <2>2 DEF Emit, Emits, Unheard, Types, Ends
<1>4. ASSUME NEW c \in Calls, Publish(c) \/ Cancel(c)
      PROVE  /\ UNCHANGED <<log, record, file, torn, badWrites>>
             /\ \A d \in Calls : /\ call'[d].last = call[d].last
                                 /\ call'[d].stage = "new" => call[d].stage = "new"
  <2>1. \E stage \in {"running", "over", "cancelled"} : Leaves(c, stage)
    BY <1>4, PublishSteps
  <2>2. UNCHANGED <<record, file, torn>>
    BY <1>4 DEF Publish, Cancel
  <2>3. QED BY <1>t, <2>1, <2>2 DEF Leaves, CallType
<1>5. CASE Turn \/ Shutdown
  BY <1>5 DEF Turn, Shutdown
<1>6. CASE Close \/ PanelOpens \/ Receive \/ UNCHANGED vars
  BY <1>6 DEF Close, PanelOpens, Receive, vars
<1>7. CASE \E c \in Calls : Start(c) \/ Signal(c) \/ End(c) \/ Publish(c) \/ Cancel(c)
  <2>1. CASE \E c \in Calls : Start(c)
    BY <1>1, <2>1
  <2>2. CASE \E c \in Calls : Signal(c)
    BY <1>2, <2>2
  <2>3. CASE \E c \in Calls : End(c)
    BY <1>3, <2>3 DEF End
  <2>4. CASE \E c \in Calls : Publish(c) \/ Cancel(c)
    BY <1>4, <2>4
  <2>5. QED BY <1>7, <2>1, <2>2, <2>3, <2>4
<1>8. QED BY <1>5, <1>6, <1>7 DEF Next, Done

LEMMA LogNext == FeedType /\ LogInv /\ [Next]_vars => LogInv'
<1> SUFFICES ASSUME FeedType, LogInv, [Next]_vars PROVE LogInv'
  OBVIOUS
<1>t. /\ log \in Seq(Events) /\ IsInjective(log) /\ CallType
      /\ \A e \in ToSet(log) :
          /\ e \in Events /\ e.id \in Calls
          /\ call[e.id].stage # "new"
          /\ e.type = "signal" => call[e.id].last \in {"signal"} \union Ends
          /\ e.type \in Ends => call[e.id].last = e.type
  <2>1. \A e \in ToSet(log) : e \in Events
    BY DEF FeedType, ToSet
  <2>2. QED BY <2>1 DEF FeedType, LogInv, Events
<1>1. ASSUME NEW c \in Calls, NEW type \in Types, Emits(c, type),
             [id |-> c, type |-> type] \notin ToSet(log),
             type = "started" => call[c].stage = "new",
             call[c].stage \in {"new", "running"}, call[c].last \notin Ends
      PROVE  LogInv'
  <2> DEFINE x == [id |-> c, type |-> type]
  <2>1. x \in Events /\ x.id = c /\ x.type = type
    BY DEF Events
  <2>2. log' = Append(log, x) /\ call'[c] = [stage |-> "sending", last |-> type]
          /\ \A d \in Calls \ {c} : call'[d] = call[d]
    BY <1>1, <1>t DEF Emits, CallType
  <2>3. x \notin ToSet(log)
    BY <1>1
  <2> HIDE DEF x
  <2>4. IsInjective(log') /\ ToSet(log') = ToSet(log) \union {x}
    BY <1>t, <2>1, <2>2, <2>3, AppendSet, AppendStaysInjective
  <2>5. ASSUME NEW e \in ToSet(log')
        PROVE  /\ call'[e.id].stage # "new"
               /\ e.type = "signal" => call'[e.id].last \in {"signal"} \union Ends
               /\ e.type \in Ends => call'[e.id].last = e.type
    <3>1. CASE e = x
      BY <2>1, <2>2, <3>1
    <3>2. CASE e \in ToSet(log) /\ e.id # c
      BY <1>t, <2>2, <3>2
    <3>3. CASE e \in ToSet(log) /\ e.id = c
      <4>1. call[c].stage # "new" /\ type # "started" /\ e.type \notin Ends
        BY <1>1, <1>t, <3>3
      <4>2. type \in {"signal"} \union Ends
        BY <4>1 DEF Types
      <4>3. QED BY <2>2, <3>3, <4>1, <4>2
    <3>4. QED BY <2>4, <3>1, <3>2, <3>3
  <2>6. QED BY <2>4, <2>5 DEF LogInv
<1>2. ASSUME UNCHANGED log,
             \A d \in Calls : /\ call'[d].last = call[d].last
                              /\ call'[d].stage = "new" => call[d].stage = "new"
      PROVE  LogInv'
  BY <1>2, <1>t DEF LogInv
<1>3. QED BY <1>1, <1>2, WritingSteps

-----------------------------------------------------------------------------
(* What the router reads.                                                  *)

InLogOrder ==
    /\ \A i \in ToolEvents(file) : file[i] \in ToSet(log)
    /\ \A i, j \in ToolEvents(file) : i < j =>
          \E m, n \in DOMAIN log : m < n /\ log[m] = file[i] /\ log[n] = file[j]

ReadInv ==
    /\ LineType
    /\ InLogOrder
    /\ Len(log) + Owed <= Cardinality(ToolEvents(file)) + 2 * badWrites

LEMMA ReadNext ==
    FeedType /\ LogInv /\ ReadInv /\ [Next]_vars => ReadInv'
<1> SUFFICES ASSUME FeedType, LogInv, ReadInv, [Next]_vars PROVE ReadInv'
  OBVIOUS
<1>t. /\ log \in Seq(Events) /\ Len(log) \in Nat /\ DOMAIN log = 1..Len(log)
      /\ LineType /\ InLogOrder /\ file \in Seq(Lines)
      /\ Cardinality(ToolEvents(file)) \in Nat /\ ToolEvents(file) \subseteq 1..Len(file)
      /\ badWrites \in Nat /\ badWrites' \in Nat
      /\ Owed \in {0, 1, 2} /\ Len(file) \in Nat
  <2>1. log \in Seq(Events) /\ LineType /\ InLogOrder /\ file \in Seq(Lines)
          /\ badWrites \in Nat /\ Owed \in {0, 1, 2}
    BY DEF FeedType, ReadInv, LineType, Owed
  <2>2. badWrites' \in Nat
    BY FaultsNext, FeedAssumption
  <2>3. QED BY <2>1, <2>2, ToolPlaces
<1>c. Len(log) + Owed <= Cardinality(ToolEvents(file)) + 2 * badWrites
  BY DEF ReadInv
<1>1. ASSUME NEW c \in Calls, NEW type \in Types, Emits(c, type),
             Write([id |-> c, type |-> type])
      PROVE  ReadInv'
  <2> DEFINE x == [id |-> c, type |-> type]
             C == Cardinality(ToolEvents(file))
             D == Cardinality(ToolEvents(file'))
  <2>1. x \in Events /\ x \in Lines /\ Counts(x) = 1
    BY LineKinds DEF Events, Counts
  <2>2. log' = Append(log, x)
    BY <1>1 DEF Emits
  <2>3. Write(x)
    BY <1>1
  <2> HIDE DEF x
  <2>4. /\ Len(log') = Len(log) + 1 /\ DOMAIN log' = 1..(Len(log) + 1)
        /\ log'[Len(log) + 1] = x /\ \A m \in 1..Len(log) : log'[m] = log[m]
        /\ ToSet(log') = ToSet(log) \union {x}
    BY <1>t, <2>1, <2>2, AppendFacts, AppendSet
  <2>5. /\ LineType'
        /\ \A i \in ToolEvents(file') :
              \/ i \in ToolEvents(file) /\ file'[i] = file[i]
              \/ /\ file'[i] = x
                 /\ \A j \in ToolEvents(file') : j <= i
                 /\ \A j \in ToolEvents(file') \ {i} : j \in ToolEvents(file)
        /\ C + Counts(x) + Owed' <= D + 2 * (badWrites' - badWrites) + Owed
    BY <1>t, <2>1, <2>3, WriteMoves
  <2>6. D \in Nat /\ Owed' \in {0, 1, 2} /\ ToolEvents(file') \subseteq 1..Len(file')
          /\ Len(file') \in Nat
    <3> DEFINE g == file'
    <3>1. g \in Seq(Lines)
      BY <2>5 DEF LineType
    <3>2. Cardinality(ToolEvents(g)) \in Nat /\ ToolEvents(g) \subseteq 1..Len(g) /\ Len(g) \in Nat
      <4> HIDE DEF g
      <4>1. QED BY <3>1, ToolPlaces
    <3>3. QED BY <3>2 DEF Owed
  <2>7. Len(log') + Owed' <= D + 2 * badWrites'
    <3> HIDE DEF C, D
    <3>1. Len(log) + Owed <= C + 2 * badWrites /\ C \in Nat
      BY <1>t, <1>c DEF C
    <3>2. C + Counts(x) + Owed' <= D + 2 * (badWrites' - badWrites) + Owed
      BY <2>5
    <3>3. /\ Len(log) \in Nat /\ Counts(x) \in Nat /\ Owed \in Nat /\ Owed' \in Nat
          /\ D \in Nat /\ badWrites \in Nat /\ badWrites' \in Nat
      BY <1>t, <2>1, <2>6
    <3> DEFINE l == Len(log)
               n == Counts(x)
               o == Owed
               p == Owed'
               a == badWrites
               b == badWrites'
    <3>4. l + n + p <= D + 2 * b
      <4>1. /\ l \in Nat /\ n \in Nat /\ o \in Nat /\ p \in Nat /\ C \in Nat /\ D \in Nat
            /\ a \in Nat /\ b \in Nat
            /\ l + o <= C + 2 * a /\ C + n + p <= D + 2 * (b - a) + o
        BY <3>1, <3>2, <3>3
      <4> HIDE DEF l, n, o, p, a, b
      <4>2. QED BY <4>1
    <3>5. QED BY <2>1, <2>4, <3>4
  <2>8. \A i \in ToolEvents(file') : file'[i] \in ToSet(log')
    BY <1>t, <2>4, <2>5 DEF InLogOrder
  <2>9. ASSUME NEW i \in ToolEvents(file'), NEW j \in ToolEvents(file'), i < j
        PROVE  \E m, n \in DOMAIN log' : m < n /\ log'[m] = file'[i] /\ log'[n] = file'[j]
    <3>1. ~(j <= i) /\ i # j
      BY <2>6, <2>9
    <3>2. i \in ToolEvents(file) /\ file'[i] = file[i]
      BY <2>5, <3>1
    <3>3. CASE j \in ToolEvents(file) /\ file'[j] = file[j]
      <4>1. PICK m \in 1..Len(log), n \in 1..Len(log) :
                m < n /\ log[m] = file[i] /\ log[n] = file[j]
        BY <1>t, <2>9, <3>2, <3>3 DEF InLogOrder
      <4>2. m \in DOMAIN log' /\ n \in DOMAIN log' /\ log'[m] = log[m] /\ log'[n] = log[n]
        BY <1>t, <2>4, <4>1
      <4>3. QED BY <3>2, <3>3, <4>1, <4>2
    <3>4. CASE file'[j] = x
      <4>1. PICK m \in 1..Len(log) : log[m] = file[i]
        BY <1>t, <3>2 DEF InLogOrder, ToSet
      <4>2. m \in DOMAIN log' /\ Len(log) + 1 \in DOMAIN log' /\ m < Len(log) + 1
              /\ log'[m] = file'[i] /\ log'[Len(log) + 1] = file'[j]
        BY <1>t, <2>4, <3>2, <3>4, <4>1
      <4>3. QED BY <4>2
    <3>5. QED BY <2>5, <3>3, <3>4
  <2>10. QED BY <2>5, <2>7, <2>8, <2>9 DEF ReadInv, InLogOrder
<1>2. ASSUME NEW line \in {Message, EndLine}, Write(line), log' = log
      PROVE  ReadInv'
  <2> DEFINE C == Cardinality(ToolEvents(file))
             D == Cardinality(ToolEvents(file'))
  <2>1. line \in Lines /\ line \notin Events /\ Counts(line) = 0
    BY LineKinds DEF Counts
  <2>2. /\ LineType'
        /\ \A i \in ToolEvents(file') : i \in ToolEvents(file) /\ file'[i] = file[i]
        /\ C + Counts(line) + Owed' <= D + 2 * (badWrites' - badWrites) + Owed
    BY <1>2, <1>t, <2>1, WriteMoves
  <2>3. D \in Nat /\ Owed' \in {0, 1, 2}
    <3> DEFINE g == file'
    <3>1. g \in Seq(Lines)
      BY <2>2 DEF LineType
    <3>2. Cardinality(ToolEvents(g)) \in Nat
      <4> HIDE DEF g
      <4>1. QED BY <3>1, ToolPlaces
    <3>3. QED BY <3>2 DEF Owed
  <2>4. Len(log') + Owed' <= D + 2 * badWrites'
    <3> HIDE DEF C, D
    <3>1. Len(log) + Owed <= C + 2 * badWrites /\ C \in Nat
      BY <1>t, <1>c DEF C
    <3>2. C + Counts(line) + Owed' <= D + 2 * (badWrites' - badWrites) + Owed
      BY <2>2
    <3>3. /\ Len(log) \in Nat /\ Counts(line) \in Nat /\ Owed \in Nat /\ Owed' \in Nat
          /\ D \in Nat /\ badWrites \in Nat /\ badWrites' \in Nat
      BY <1>t, <2>1, <2>3
    <3> DEFINE l == Len(log)
               n == Counts(line)
               o == Owed
               p == Owed'
               a == badWrites
               b == badWrites'
    <3>4. l + n + p <= D + 2 * b
      <4>1. /\ l \in Nat /\ n \in Nat /\ o \in Nat /\ p \in Nat /\ C \in Nat /\ D \in Nat
            /\ a \in Nat /\ b \in Nat
            /\ l + o <= C + 2 * a /\ C + n + p <= D + 2 * (b - a) + o
        BY <3>1, <3>2, <3>3
      <4> HIDE DEF l, n, o, p, a, b
      <4>2. QED BY <4>1
    <3>5. Len(log) + Counts(line) = Len(log)
      BY <1>t, <2>1
    <3>6. QED BY <1>2, <3>4, <3>5
  <2>5. InLogOrder'
    BY <1>2, <1>t, <2>2 DEF InLogOrder
  <2>6. QED BY <2>2, <2>4, <2>5 DEF ReadInv
<1>3. CASE UNCHANGED <<log, file, torn, badWrites>>
  BY <1>3, <1>t, <1>c DEF ReadInv, LineType, InLogOrder, Owed
<1>4. QED BY <1>1, <1>2, <1>3, WritingSteps

LEMMA TranscriptInit == Init => LogInv /\ ReadInv
<1> SUFFICES ASSUME Init PROVE LogInv /\ ReadInv
  OBVIOUS
<1>1. log = <<>> /\ file = <<>> /\ torn = FALSE /\ badWrites = 0
  BY DEF Init
<1>2. <<>> \in Seq(Lines) /\ DOMAIN <<>> = {} /\ ToSet(<<>>) = {} /\ Len(<<>>) = 0
  BY DEF ToSet
<1>3. ToolEvents(<<>>) = {}
  BY <1>2 DEF ToolEvents, parse_entries
<1>4. LogInv
  BY <1>1, <1>2 DEF LogInv, IsInjective
<1>5. ReadInv
  <2>1. ToolEvents(file) = {} /\ file \in Seq(Lines) /\ Len(file) = 0
    BY <1>1, <1>2, <1>3
  <2>2. Cardinality(ToolEvents(file)) = 0 /\ Len(log) = 0 /\ badWrites = 0
    BY <1>1, <1>2, <2>1, FS_EmptySet
  <2>3. Owed = 0
    BY <1>1 DEF Owed
  <2>4. LineType
    BY <1>1, <2>1 DEF LineType
  <2>5. InLogOrder
    BY <2>1 DEF InLogOrder
  <2>6. QED BY <2>2, <2>3, <2>4, <2>5 DEF ReadInv
<1>6. QED BY <1>4, <1>5

(* What is read of a transcript is the log in its order, each event once,  *)
(* short of two lines at most for every failed write, wherever the agent   *)
(* stops.                                                                  *)
THEOREM TranscriptAlwaysUsable == Spec => []TranscriptUsable
<1>1. FeedType /\ LogInv /\ ReadInv => TranscriptUsable
  <2> SUFFICES ASSUME FeedType, LogInv, ReadInv PROVE TranscriptUsable
    OBVIOUS
  <2>1. log \in Seq(Events) /\ Len(log) \in Nat /\ badWrites \in Nat /\ Owed \in {0, 1, 2}
          /\ Cardinality(ToolEvents(file)) \in Nat
    <3>1. log \in Seq(Events) /\ badWrites \in Nat /\ Owed \in {0, 1, 2} /\ file \in Seq(Lines)
      BY DEF FeedType, Owed, ReadInv, LineType
    <3>2. QED BY <3>1, ToolPlaces
  <2>2. Len(log) - Cardinality(ToolEvents(file)) <= 2 * badWrites
    <3>1. Len(log) + Owed <= Cardinality(ToolEvents(file)) + 2 * badWrites
      BY DEF ReadInv
    <3>2. QED BY <2>1, <3>1
  <2>3. ASSUME NEW i \in ToolEvents(file), NEW j \in ToolEvents(file), i < j
        PROVE  /\ file[i] # file[j]
               /\ \E m, n \in DOMAIN log : m < n /\ log[m] = file[i] /\ log[n] = file[j]
    <3>1. PICK m \in DOMAIN log, n \in DOMAIN log :
              m < n /\ log[m] = file[i] /\ log[n] = file[j]
      BY <2>3 DEF ReadInv, InLogOrder
    <3>2. m # n
      BY <2>1, <3>1
    <3>3. QED BY <3>1, <3>2 DEF LogInv, IsInjective
  <2>4. QED BY <2>2, <2>3 DEF TranscriptUsable
<1>2. QED
  BY <1>1, FeedTypeInit, TranscriptInit, FeedTypeNext, LogNext, ReadNext, PTL DEF Spec

-----------------------------------------------------------------------------
(* The transcript and the posted record.                                   *)

UpTo(places, i) == {j \in places : j <= i}

(* The lines of f at these places are these events, one after the other.   *)
Held(f, places, events) ==
    /\ Cardinality(places) = Len(events)
    /\ \A i \in places : f[i] = events[Cardinality(UpTo(places, i))]

Before(f) == {i \in ToolEvents(f) : \A j \in 1..i : f[j] # EndLine}

LEMMA HeldIsLists ==
    /\ \A places, events : Held(file, places, events) <=> Lists(places, events)
    /\ Before(file) = BeforeEnd
BY DEF Held, Lists, UpTo, Before, BeforeEnd

LEMMA HeldAppend ==
    ASSUME NEW f \in Seq(Lines), NEW x \in Lines, NEW P \in SUBSET (1..Len(f)),
           NEW e \in Seq(Events), Held(f, P, e)
    PROVE  /\ Held(Append(f, x), P, e)
           /\ x \in Events => Held(Append(f, x), P \union {Len(f) + 1}, Append(e, x))
<1> DEFINE g == Append(f, x)
           k == Len(f) + 1
           Q == P \union {k}
<1>1. /\ Len(f) \in Nat /\ g[k] = x
      /\ \A i \in P : g[i] = f[i] /\ i \in 1..Len(f)
  BY AppendFacts
<1>2. IsFiniteSet(P) /\ k \notin P
  <2>1. IsFiniteSet(1..Len(f))
    BY <1>1, FS_Interval
  <2>2. IsFiniteSet(P)
    BY <2>1, FS_Subset
  <2>3. k \notin 1..Len(f)
    BY <1>1
  <2>4. QED BY <2>2, <2>3
<1>3. Cardinality(P) = Len(e) /\ \A i \in P : f[i] = e[Cardinality(UpTo(P, i))]
  BY DEF Held
<1> HIDE DEF g, k
<1>4. Held(g, P, e)
  BY <1>1, <1>3 DEF Held
<1>5. ASSUME x \in Events PROVE Held(g, Q, Append(e, x))
  <2>1. /\ Len(e) \in Nat /\ Len(Append(e, x)) = Len(e) + 1
        /\ \A m \in 1..Len(e) : Append(e, x)[m] = e[m]
        /\ Append(e, x)[Len(e) + 1] = x
    BY <1>5, AppendFacts
  <2>2. Cardinality(Q) = Len(e) + 1
    BY <1>2, <1>3, FS_AddElement
  <2>3. ASSUME NEW i \in P PROVE g[i] = Append(e, x)[Cardinality(UpTo(Q, i))]
    <3>1. UpTo(Q, i) = UpTo(P, i)
      BY <1>1 DEF UpTo, k
    <3>2. UpTo(P, i) \subseteq P /\ i \in UpTo(P, i)
      BY <1>1 DEF UpTo
    <3>3. Cardinality(UpTo(P, i)) \in 1..Len(e)
      <4>1. IsFiniteSet(UpTo(P, i)) /\ Cardinality(UpTo(P, i)) <= Cardinality(P)
        BY <1>2, <3>2, FS_Subset
      <4>2. Cardinality(UpTo(P, i)) \in Nat /\ Cardinality(UpTo(P, i)) # 0
        BY <3>2, <4>1, FS_CardinalityType, FS_EmptySet
      <4>3. QED BY <1>3, <2>1, <4>1, <4>2
    <3>4. QED BY <1>1, <1>3, <2>1, <3>1, <3>3
  <2>4. UpTo(Q, k) = Q
    <3>1. \A j \in Q : j <= k
      BY <1>1 DEF k
    <3>2. QED BY <3>1 DEF UpTo
  <2>5. g[k] = Append(e, x)[Cardinality(UpTo(Q, k))]
    BY <1>1, <2>1, <2>2, <2>4
  <2>6. QED BY <2>1, <2>2, <2>3, <2>5 DEF Held
<1>6. QED BY <1>4, <1>5 DEF g, k

LEMMA BeforeAppend ==
    ASSUME NEW f \in Seq(Lines), NEW x \in Lines
    PROVE  /\ EndLine \in ToSet(f) =>
                EndLine \in ToSet(Append(f, x)) /\ Before(Append(f, x)) = Before(f)
           /\ EndLine \notin ToSet(f) /\ x = EndLine =>
                EndLine \in ToSet(Append(f, x)) /\ Before(Append(f, x)) = ToolEvents(f)
           /\ EndLine \notin ToSet(f) /\ x # EndLine => EndLine \notin ToSet(Append(f, x))
<1> DEFINE g == Append(f, x)
<1>1. /\ g \in Seq(Lines) /\ Len(f) \in Nat /\ Len(g) = Len(f) + 1
      /\ DOMAIN f = 1..Len(f) /\ \A i \in 1..Len(f) : g[i] = f[i]
      /\ g[Len(f) + 1] = x /\ ToSet(g) = ToSet(f) \union {x}
  BY AppendFacts, AppendSet
<1> HIDE DEF g
<1>2. /\ ToolEvents(g) = {i \in 1..(Len(f) + 1) : g[i] \in Events}
      /\ ToolEvents(f) = {i \in 1..Len(f) : f[i] \in Events}
      /\ EndLine \notin Events
  BY <1>1, ToolPlaces, LineKinds
<1>3. ASSUME EndLine \in ToSet(f) PROVE Before(g) = Before(f)
  <2>1. PICK j \in 1..Len(f) : f[j] = EndLine
    BY <1>3, <1>1 DEF ToSet
  <2>2. Len(f) + 1 \notin Before(g)
    <3>1. j \in 1..(Len(f) + 1) /\ g[j] = EndLine
      BY <1>1, <2>1
    <3>2. QED BY <3>1 DEF Before
  <2>3. \A i \in 1..Len(f) : i \in Before(g) <=> i \in Before(f)
    <3> TAKE i \in 1..Len(f)
    <3>1. \A m \in 1..i : g[m] = f[m]
      BY <1>1
    <3>2. i \in ToolEvents(g) <=> i \in ToolEvents(f)
      BY <1>1, <1>2
    <3>3. QED BY <3>1, <3>2 DEF Before
  <2>4. Before(g) \subseteq 1..(Len(f) + 1) /\ Before(f) \subseteq 1..Len(f)
    BY <1>2 DEF Before
  <2>5. Before(g) \subseteq 1..Len(f)
    BY <1>1, <2>2, <2>4
  <2>6. QED BY <2>3, <2>4, <2>5
<1>4. ASSUME EndLine \notin ToSet(f), x = EndLine PROVE Before(g) = ToolEvents(f)
  <2>1. \A i \in 1..Len(f) : f[i] # EndLine
    BY <1>1, <1>4 DEF ToSet
  <2>2. Len(f) + 1 \notin ToolEvents(g)
    BY <1>1, <1>2, <1>4
  <2>3. \A i \in 1..Len(f) : i \in Before(g) <=> i \in ToolEvents(f)
    <3> TAKE i \in 1..Len(f)
    <3>1. \A m \in 1..i : g[m] = f[m] /\ f[m] # EndLine
      BY <1>1, <2>1
    <3>2. i \in ToolEvents(g) <=> i \in ToolEvents(f)
      BY <1>1, <1>2
    <3>3. QED BY <3>1, <3>2 DEF Before
  <2>4. Before(g) \subseteq 1..Len(f) /\ ToolEvents(f) \subseteq 1..Len(f)
    BY <1>1, <1>2, <2>2 DEF Before
  <2>5. QED BY <2>3, <2>4
<1>5. QED BY <1>1, <1>3, <1>4 DEF g

(* Without failed writes the transcript is the log, and the record is what *)
(* stands before the closing line.                                         *)
MatchInv ==
    badWrites = 0 =>
        /\ ~torn
        /\ Held(file, ToolEvents(file), log)
        /\ record = NoRecord => EndLine \notin ToSet(file)
        /\ record # NoRecord => /\ EndLine \in ToSet(file) /\ record \in Seq(Events)
                                /\ Held(file, Before(file), record)

LEMMA MatchNext ==
    FeedType /\ LogInv /\ LineType /\ MatchInv /\ [Next]_vars => MatchInv'
<1> SUFFICES ASSUME FeedType, LogInv, LineType, MatchInv, [Next]_vars, badWrites' = 0
             PROVE  /\ ~torn'
                    /\ Held(file', ToolEvents(file'), log')
                    /\ record' = NoRecord => EndLine \notin ToSet(file')
                    /\ record' # NoRecord => /\ EndLine \in ToSet(file') /\ record' \in Seq(Events)
                                             /\ Held(file', Before(file'), record')
  BY DEF MatchInv
<1>t. /\ log \in Seq(Events) /\ file \in Seq(Lines) /\ badWrites \in Nat
      /\ ToolEvents(file) \in SUBSET (1..Len(file))
      /\ Before(file) \in SUBSET (1..Len(file))
      /\ log # NoRecord
  <2>1. log \in Seq(Events) /\ file \in Seq(Lines) /\ badWrites \in Nat
    BY FeedAssumption DEF FeedType, LineType
  <2>2. ToolEvents(file) \in SUBSET (1..Len(file)) /\ Before(file) \in SUBSET (1..Len(file))
    BY <2>1, ToolPlaces DEF Before
  <2>3. log # NoRecord
    <3>1. NoRecord[1] = Junk /\ Len(NoRecord) = 1
      BY DEF NoRecord
    <3>2. Junk \notin Events
      BY LineKinds
    <3>3. log = NoRecord => log[1] \in Events
      BY <2>1, <3>1
    <3>4. QED BY <3>1, <3>2, <3>3
  <2>4. QED BY <2>1, <2>2, <2>3
<1>m. ASSUME badWrites = 0
      PROVE  /\ ~torn
             /\ Held(file, ToolEvents(file), log)
             /\ record = NoRecord => EndLine \notin ToSet(file)
             /\ record # NoRecord => /\ EndLine \in ToSet(file) /\ record \in Seq(Events)
                                     /\ Held(file, Before(file), record)
  BY <1>m DEF MatchInv
<1>w. ASSUME NEW line \in Lines, Write(line)
      PROVE  badWrites = 0 /\ file' = Append(file, line) /\ ~torn'
  <2>1. badWrites' \in {badWrites, badWrites + 1}
    BY <1>t, <1>w, WriteMoves
  <2>2. badWrites = 0
    BY <1>t, <2>1
  <2>3. QED BY <1>m, <1>t, <1>w, <2>2, WriteMoves
<1>1. ASSUME NEW c \in Calls, NEW type \in Types, Emits(c, type),
             Write([id |-> c, type |-> type]), record' = record
      PROVE  /\ ~torn'
             /\ Held(file', ToolEvents(file'), log')
             /\ record' = NoRecord => EndLine \notin ToSet(file')
             /\ record' # NoRecord => /\ EndLine \in ToSet(file') /\ record' \in Seq(Events)
                                      /\ Held(file', Before(file'), record')
  <2> DEFINE x == [id |-> c, type |-> type]
  <2>1. x \in Events /\ x \in Lines /\ x # EndLine
    BY LineKinds DEF Events
  <2>2. log' = Append(log, x)
    BY <1>1 DEF Emits
  <2>3. Write(x)
    BY <1>1
  <2> HIDE DEF x
  <2>4. badWrites = 0 /\ file' = Append(file, x) /\ ~torn'
    BY <1>w, <2>1, <2>3
  <2>5. Held(file', ToolEvents(file'), log')
    <3>1. ToolEvents(Append(file, x)) = ToolEvents(file) \union {Len(file) + 1}
      BY <1>t, <2>1, ToolAppended
    <3>2. QED BY <1>m, <1>t, <2>1, <2>2, <2>4, <3>1, HeldAppend
  <2>6. record = NoRecord => EndLine \notin ToSet(file')
    BY <1>m, <1>t, <2>1, <2>4, BeforeAppend
  <2>7. record # NoRecord => /\ EndLine \in ToSet(file') /\ record \in Seq(Events)
                             /\ Held(file', Before(file'), record)
    <3> SUFFICES ASSUME record # NoRecord
                 PROVE  /\ EndLine \in ToSet(file') /\ record \in Seq(Events)
                        /\ Held(file', Before(file'), record)
      OBVIOUS
    <3>1. EndLine \in ToSet(file) /\ record \in Seq(Events) /\ Held(file, Before(file), record)
      BY <1>m, <2>4
    <3>2. EndLine \in ToSet(file') /\ Before(file') = Before(file)
      BY <1>t, <2>1, <2>4, <3>1, BeforeAppend
    <3>3. QED BY <1>t, <2>1, <2>4, <3>1, <3>2, HeldAppend
  <2>8. QED BY <1>1, <2>4, <2>5, <2>6, <2>7
<1>2. ASSUME UNCHANGED <<log, record>>, Write(Message)
      PROVE  /\ ~torn'
             /\ Held(file', ToolEvents(file'), log')
             /\ record' = NoRecord => EndLine \notin ToSet(file')
             /\ record' # NoRecord => /\ EndLine \in ToSet(file') /\ record' \in Seq(Events)
                                      /\ Held(file', Before(file'), record')
  <2>1. Message \in Lines /\ Message \notin Events /\ Message # EndLine
    BY LineKinds
  <2>2. badWrites = 0 /\ file' = Append(file, Message) /\ ~torn'
    BY <1>2, <1>w, <2>1
  <2>3. Held(file', ToolEvents(file'), log)
    <3>1. ToolEvents(Append(file, Message)) = ToolEvents(file)
      BY <1>t, <2>1, ToolAppended
    <3>2. QED BY <1>m, <1>t, <2>1, <2>2, <3>1, HeldAppend
  <2>4. record = NoRecord => EndLine \notin ToSet(file')
    BY <1>m, <1>t, <2>1, <2>2, BeforeAppend
  <2>5. ASSUME record # NoRecord
        PROVE  /\ EndLine \in ToSet(file') /\ record \in Seq(Events)
               /\ Held(file', Before(file'), record)
    <3>1. EndLine \in ToSet(file) /\ record \in Seq(Events) /\ Held(file, Before(file), record)
      BY <1>m, <2>2, <2>5
    <3>2. EndLine \in ToSet(file') /\ Before(file') = Before(file)
      BY <1>t, <2>1, <2>2, <3>1, BeforeAppend
    <3>3. QED BY <1>t, <2>1, <2>2, <3>1, <3>2, HeldAppend
  <2>6. QED BY <1>2, <2>2, <2>3, <2>4, <2>5
<1>3. ASSUME record = NoRecord, record' = log, Write(EndLine), log' = log
      PROVE  /\ ~torn'
             /\ Held(file', ToolEvents(file'), log')
             /\ record' # NoRecord
             /\ EndLine \in ToSet(file') /\ record' \in Seq(Events)
             /\ Held(file', Before(file'), record')
  <2>1. EndLine \in Lines /\ EndLine \notin Events
    BY LineKinds
  <2>2. badWrites = 0 /\ file' = Append(file, EndLine) /\ ~torn'
    BY <1>3, <1>w, <2>1
  <2>3. ToolEvents(file') = ToolEvents(file)
    BY <1>t, <2>1, <2>2, ToolAppended
  <2>4. Held(file', ToolEvents(file), log)
    BY <1>m, <1>t, <2>1, <2>2, HeldAppend
  <2>5. EndLine \in ToSet(file') /\ Before(file') = ToolEvents(file)
    BY <1>3, <1>m, <1>t, <2>1, <2>2, BeforeAppend
  <2>6. QED BY <1>3, <1>t, <2>2, <2>3, <2>4, <2>5
<1>4. CASE UNCHANGED <<log, record, file, torn, badWrites>>
  BY <1>4, <1>m
<1>5. QED BY <1>1, <1>2, <1>3, <1>4, WritingSteps

LEMMA MatchInit == Init => MatchInv
<1> SUFFICES ASSUME Init PROVE MatchInv
  OBVIOUS
<1>1. log = <<>> /\ file = <<>> /\ ~torn /\ record = NoRecord
  BY DEF Init
<1>2. ToolEvents(file) = {} /\ ToSet(file) = {}
  <2>1. DOMAIN <<>> = {}
    OBVIOUS
  <2>2. QED BY <1>1, <2>1 DEF ToolEvents, parse_entries, ToSet
<1>3. Held(file, {}, log)
  BY <1>1, FS_EmptySet DEF Held
<1>4. QED BY <1>1, <1>2, <1>3 DEF MatchInv

(* When no write failed, the transcript holds the closing line once the    *)
(* record is posted, and before it the events of the record in their       *)
(* order, whatever the tools that outlive the call still add.              *)
THEOREM RecordAlwaysMatches == Spec => []RecordMatchesTranscript
<1>1. MatchInv => RecordMatchesTranscript
  BY HeldIsLists DEF MatchInv, RecordMatchesTranscript
<1>2. ReadInv => LineType
  BY DEF ReadInv
<1>3. QED
  BY <1>1, <1>2, FeedTypeInit, TranscriptInit, MatchInit, FeedTypeNext, LogNext, ReadNext,
     MatchNext, PTL DEF Spec

=============================================================================
