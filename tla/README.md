# A verification of the bank-call agent

This directory specifies, in TLA+, the parts of the voice-banking prototype
that decide who may do what, and what survives when calls, threads and networks
misbehave. TLC checks the models on small instances; TLAPS proves for every size
all the safety properties and refinements that the runs check. Paths below are relative to `src/`.

## The system

A caller speaks to an agent process (`agent/`), one session per call. A language
model chooses tools; a tool asks a mock core bank (`backend/`) over HTTP. Every
tool emits events, which feed a live panel and a supervisor dashboard
(`frontend/`), a transcript file and the record posted when the call ends.

| Component | State | Operations | Talks to |
|---|---|---|---|
| Call session (`session_state.py`, `agents/*.py`, `instrumentation.py`) | verified customer, attempt counters, two lock flags, the agent in charge, the event log | the tools of the identity and the banking agent, handoff, shutdown | bank client, emitter, LiveKit room |
| Call record (`call_record.py`) | none (reads the session) | `derive_outcome`, `build_call_record` | posted to the bank at shutdown |
| Bank client (`bank_client.py`) | attempts of a request | `_request` with three attempts, `_call` | bank routers |
| Bank routers (`routers/customers, cards, disputes, escalations`) | card status, disputed transactions, ticket counter | one handler per endpoint | in-memory fixtures |
| Step-up store (`routers/stepup.py`) | list of one-time codes | send, verify | thread pool |
| Call records (`routers/calls.py`) | list of records | store, metrics, listings | thread pool, dashboard |
| Idle watchdog (`idle.py`) | one task, `hung_up` | user-state handler, prompt, grace period, goodbye, hang up | session states, room |
| Event emitter (`events.py`) | listeners | `emit` | event log, transcript, room stream |
| Transcript recorder and router | a JSONL file per call | append, finalise; list, read | emitter; dashboard |
| Redaction (`redaction.py`) | known values | `mask_text`, `mask_mapping` | emitter, transcript |
| Latency collector (`latency.py`) | parts per turn | `add`, `summary` | call record |
| Activity feed (`useToolEvents.ts`) | events received | append, merge into cards | room stream |
| Supervisor dashboard (`SupervisorPanel.tsx`) | the last answers, an error notice, loads under way | poll, drill down | records, transcripts |
| FAQ search, token endpoint, demo phone, prompts, configuration, SIP set-up | none that changes | — | — |

What is hard here:

* **Interleaving at awaits.** The model may call several tools in one turn; they
  run as coroutines. A gate reads a flag, the tool awaits the bank, and the flag
  may have changed when it resumes.
* **Ordering.** Answers return in any order: two verifications for different
  customers, a confirmed code after the third failure, a tool behind a handoff.
* **Retries of what was already done.** The client repeats any request, the
  non-idempotent ones included, when a reply is lost; a request it has given up
  on may still arrive.
* **Partial failure and restart.** A tool cancelled at hang-up emits nothing; a
  bank restart forgets every code.
* **Threads.** The bank's handlers are plain functions on a thread pool and share
  module-level lists without a lock.
* **Timers.** The watchdog races the caller's voice at each of its awaits.
* **Repeated and late samples.** The framework reports the parts of a turn's
  latency in any order and more than once.
* **Overlapping polls.** A load of the dashboard may outlive the next one, fail
  in part, or meet a bank that has lost its records.

Correctness, by component: *session* — account work only for the verified
customer at the tier the policy asks for, locks that stop what they must, events
that tell the same story as the flags; *client and bank* — effects only where
authorised, every extra effect explained by a fault, every tool returns;
*stores* — bounded attempts, codes tied to their customer, one reference per
effect, no lost record; *watchdog* — hangs up on absent callers, on all of them
and on nobody else; *collector* — a measured turn stays what the caller
experienced; *redaction* — four digits of an account number readable and no
more, the exceptions known; *feed and dashboard* — what is shown agrees with what happened, and heals.

## Modules

| Module | Models | Uses |
|---|---|---|
| `TieredAuth` | the abstract promise: tiers climbed one at a time, work begun only at its tier and never after a lock that stops it | |
| `CallSession` | one call: flags, tools, events, handoff, shutdown; bank answers unconstrained | `TieredAuth` (refined) |
| `Bank` | the routers the agent reaches, each handler one step | |
| `BankCall` | the session over the bank client and a lossy network | `CallSession` (extended), `Bank` (instance) |
| `StepUpStore` | the code store on several threads | |
| `BankThreads` | all state-changing handlers of the bank on several threads | `StepUpStore` (extended), `Bank` (refined without overlap) |
| `CallRecords` | the record store and its metrics on several threads | |
| `Dashboard` | the supervisor view polling the record store | `CallRecords` (extended) |
| `CallFeed` | where events go: the log, the transcript and its reader, the stream and the activity feed | |
| `IdleWatchdog` | the watchdog, the caller's and the agent's states | |
| `Latency` | the latency collector and its summary | |
| `Redaction` | what masking leaves of a number | |
| `AgentProcess` | what `main.py` wires to one session | `IdleWatchdog`, `Latency`, `Redaction` (extended) |
| `DataLemmas` | facts about numbers, sequences and order statistics that several proofs need | |
| `CallSessionProofs` | proofs about `CallSession` | |
| `BankCallProofs` | proofs about `BankCall` | `CallSessionProofs` |
| `PoolProofs`, `BankProofs` | proofs about `BankThreads` | |
| `RecordProofs` | proofs about `CallRecords` and `Dashboard` | `DataLemmas` |
| `FeedProofs` | proofs about `CallFeed` | `DataLemmas` |
| `AgentProofs` | proofs about `AgentProcess` | `DataLemmas` |
| `MC...` | model values and symmetry for TLC | |

**CallSession.** `Slots` are coroutines that can run at once. A tool call is
`Start` (the wrapper emits *started*), then `Refuse` (a gate raised `ToolError`)
or `Request` (the body up to its first await), then a reply action, then
`Announced` where the tool emitted an event of its own. A step is the code
between two awaits, so the flags and the log change together exactly where the
code has no await between them: `emit` calls its listeners, the event log among
them, before it awaits the room. The log is a counter per event type. The gates
keep the names of the source; `code_exchange_open` is the inline gate of the two
code tools. `Handoff` happens when no tool runs: the framework drains the old
agent before the new one enters (relied on at `banking_agent.py:114-116`); it may
also drop the handoff. Names, wording and masking are left out.

**BankCall** replaces the free answers by what `Bank` answers. `wire[s]` is the
HTTP exchange of a slot. `AttemptFails` is a time-out, a transport error or a 5xx,
before or after the handler ran; the client then tries again or gives up with
`BankAPIError(503)`; a request given up on may be served later (`ServeLate`).
`wire[s].done` remembers that the bank said yes to some attempt. The bank may stop
(`BankStops`): it loses what it kept in memory and answers nothing until it is
started again (`BankReturns`), which may never happen. `forgotten` is a history
variable: the customers whose consumed code was lost that way. Each step of this
module takes one of `CallSession`'s steps or leaves the session alone, so all that
is proved there holds here.

**StepUpStore**, **BankThreads** and **CallRecords** cut the handlers where the
interpreter can switch threads. The images run CPython 3.13 with its global lock,
which is given up only at a function call or at a loop's jump back. Hence `alive`
and `attempts_used += 1` are one step (`stepup.py:91-96`) while the comparison is
another; a card is found active in one step and blocked in another, since
assigning to a field of a pydantic model is a call (`cards.py:24-27`), while a
disputed transaction is looked up and added in one (`disputes.py:23-26`); and
`_records[:] = ...` with the `append` after it is one step (`calls.py:35-36`)
while each turn of the comprehension, and of the loop that counts outcomes, is one
of its own; the iterators of both are indices into a list that others change.
`counted` names the records a reader has counted, and `moved` is history: how many
of them a re-post has moved to the end since. Requests refused with 404
or 409 change nothing and are left out. `overlapped` is a history variable: have
two requests about one customer been inside the bank at once? `ImplementsBank`
says that every step up to then is a step of `Bank` or none, where an attempt at a
code counts when its request is answered (`Pending` are the attempts not yet
answered). That is what allows `BankCall` to treat handlers as atomic.

**Dashboard** names a load of the view after its metrics request (a `Reader` of
`CallRecords`), which takes many steps; the listing of the calls is one copy. A
load starts when the view is mounted and at each tick of its timer, whether or not
the last one has ended; `Promise.all` shows all answers together or none. A
restart of the bank empties the log and fails what is under way. The transcripts
of a load behave like its calls and are left out.

**IdleWatchdog** abstracts durations: a wait may end whenever it is due. `task`
says where `_sequence` is suspended. `CallerAway` needs that the caller's last
turn was taken up, because the silence timer (20 s by default) is far longer than
the 2.5 s after which the agent takes its turn (`main.py:90-92`, `config.py:79`).

**AgentProcess** puts the latency collector and masking beside the watchdog on
one event loop, up to the shutdown that reads all three. `MetricsCollected` hands
the collector any part of any turn the agent has taken up, again and again;
speech 0 stands for the lines the code has the agent say, which only the voice
contributes to. Totals are whole numbers and `twiceMedian` is the median doubled.
**Redaction** reduces a text to the way its number is written: in one block, in
blocks, digit by digit or in words, with how many digits and tokens, and whether
more than one blank or dash stands between them. `Readable` says how many digits
the layers of `mask_text` leave; where they overlap it is an upper bound.
`verify_identity` emits its started event, with the number in it, before it
registers the number as a known value.

**CallFeed** follows the events of a call instead of its rights. A tool is its
wrapper: `Start`, `Signal` (an event with an id of its own) and `End` are `emit`
up to its await, `Publish` is the await. `Write` is `_append`, which swallows an
`OSError` and may leave part of a line for the next one to be glued to. `feed` is
the state of `useToolEvents`; `SettledBy` and `Status` are `toActivityCards`.
What the router reads is given by the places of its lines in the file
(`parse_entries`, `ToolEvents`, `BeforeEnd`), which keep the file's order.
LiveKit delivers the streams of one sender in the order they were sent
(`send_text` returns after the last packet is queued), so `channel` is a queue.
An agent that is killed is a behaviour that stops, so the invariants speak of
what it leaves behind.

Definitions named `Slip...` are plausible slips in the definition they precede.
No specification uses them; they record which bug each property would reveal.

## Runs

| Run | Shows | Instance |
|---|---|---|
| `session` | the session's safety in every interleaving; it refines `TieredAuth` | 2 slots, 2 customers, 6 tool calls, mode *actions* |
| `session_lockout` | **violation** of `LockoutIsFinal` | 2 slots, 5 tool calls |
| `bank_effects` | effects only where authorised, tickets and guesses accounted for, what an action tool tells holds | 2 slots, 2 customers, 4 calls, 2 faults, 1 late request |
| `bank_outage` | mode *always*: every tool comes back, a step-up rests on a consumed code, no work below its tier | 1 slot, 4 calls, 3 attempts per request, 2 faults, 1 stop of the bank, 1 foreign code, lock at the first failure |
| `bank_correctcode` | **violation** of `CorrectCodeNotCounted` | 1 slot, 3 calls, 1 fault |
| `agent` | hang-ups: only absent callers, all silent callers, never over an answer; measured turns stay and the record's quantiles are fair; four digits readable, with the known exceptions | complete watchdog, 2 measured turns, an account number in every well-formed way |
| `idle_return` | **violation** of `HangupForgottenOnReturn` | complete |
| `bank_threads` | attempt limit, ownership and death of codes, references given once under three threads; refines `Bank` without overlap | 3 threads, 2 customers, 2 codes sent, 3 checks, 2 attempts per code |
| `stepup_singleuse` | **violation** of `SingleUse` | 2 threads, 1 code, 2 checks |
| `records` | no record lost or doubled; every stored record counted once but for those a re-post moved | 2 posters, 1 reader, 5 posts of 3 sessions |
| `feed` | cards, transcript and record tell what the tools did; cards settle | 2 tools, 1 signal or turn, 1 fault, 1 event in flight |
| `dashboard` | a call leaves the view only for a named reason or for want of room; an open view ends up showing the store | 2 posts of 2 sessions, 2 loads at once, a list of 2, 1 failure, 1 restart |

The bounds reach the cases that matter. Two slots give every race between a gate
and a later answer; a third adds only more of the same answers. Six tool calls
are three failures of one kind and a race behind them, or a verification, a full
code exchange and an action. Three attempts of the client, three per code and
three per session are the code's own limits. In `bank_outage` two faults and a
stopped bank, or a stopped bank alone, make a tool give up at its third attempt;
it locks at the first failure, so that an exchange, its loss and the work after it
fit in 4 calls; its races between slots are those of `session` and
`bank_effects`. One late request is enough to act
after its tool. In `bank_threads` three threads at one code with two attempts
reach the limit and race beyond it. Five posts of three sessions allow re-posts
that meet the posts they repeat, and re-posts that move a counted record under a
count in progress. In `feed` two tools interleave their events and
their sends in every way, and one fault or a late panel loses or tears any of
them. In `dashboard` the two calls fit in the list, so that one that is missing is
missing for another reason; a full list that drops its oldest call is covered by
the theorem, for every length. Two measured turns give a median between turns and a p95 that is
one of them; more are left to the proofs. All bounds sit in guards
(`MaxToolCalls`, `MaxFaults`, `MaxLate`, `MaxRestarts`, `MaxOtherSends`,
`MaxChallenges`, `MaxVerifies`, `MaxTickets`, `MaxPosts`, `MaxFailures`,
`MaxExtras`, `MaxInFlight`, `MaxTurns`). Deadlock is checked everywhere but in
`records`, `bank_threads` and `dashboard`, which stop when their requests are
used up and nobody reads.

**Fairness.** `BankCall!FairSpec` is weak fairness of each running tool: the event
loop runs every ready coroutine, and httpx ends an attempt after
`backend_timeout_seconds`, whatever the bank does. Nothing is assumed of the
caller, the model or the network, nor that a stopped bank is ever started again:
`ToolsReturn` rests on `stop_after_attempt(3)`. `IdleWatchdog!Spec` and `AgentProcess!ProcessSpec` assume that the task and
its timers run, that the agent finishes the turns it takes, that LiveKit reports a
silent caller away, and that a closed room reaches the shutdown callback; not that
`delete_room` succeeds. `CallFeed!Spec` assumes that a running tool ends (which
`ToolsReturn` shows), that `send_text` returns and that the stream delivers;
`CardsSettle` excepts lost events and a closing session. `Dashboard!DashSpec`
assumes that requests are answered and that the timer fires while the view is
mounted; not that records are posted, nor that the view stays open
(`ViewCatchesUp` speaks of a view that does).

## What the violations show

* **LockoutIsFinal** — `README.md:187-189` promises that after three failed
  verifications only the human handoff remains. `verify_identity` never reads
  `locked_out`; a fourth attempt with right details verifies the caller. Only the
  text returned to the language model asks it not to.
* **CorrectCodeNotCounted** — `_request` retries the code check. If the accepting
  reply is lost, the retry meets a consumed code: the caller hears that the code
  is wrong, and the session counts a failure towards its lockout.
* **HangupForgottenOnReturn** — `hung_up` is set before the goodbye is played and
  is never reset. A caller who speaks during the goodbye keeps the call, whose
  transcript later says `idle_hangup`.
* **SingleUse** — `consumed` is set after the comparison. Two requests with the
  right code that both passed the `alive` check are both accepted.

One disagreement has no run. With `STEP_UP_MODE=always` the reads stand behind the
step-up gate too (`banking_agent.py:75-80`), so the third wrong code stops them as
well. The lockout event says "Balance and transaction questions remain available"
(`banking_agent.py:229`), the answer to the model that "The customer can still ask
about balances and transactions" (234-235), and `README.md:190, 217-218` that
balances still answer and reads keep working. This holds in mode *actions* only.
`LockStops` follows the texts: `ImplementsAccess` demands that a lock stops
actions and codes; that it also stops the reads in mode *always* is allowed, and
no property asks for the contrary.

Weaker observations are stated as conditions of properties that hold. A record
re-posted while another post runs can lose or double a record (`raced` in
`CallRecords`). The metrics may count more outcomes than `total_calls`, and a
record posted again while they are counted moves to the end of the list: its
outcome is counted twice, and another record slips past the index and is not
counted (`moved` in `CountsCoverTotal` bounds both). Two requests for one card that overlap
are both answered with a reference (`overlapped` in `OneReferenceEach`). An older
load of the dashboard may overwrite a newer one until the next
(`overtaken` in `ShownStepsForward`). An account number written in blocks of
digits can be read before `verify_identity` has registered it; and where more than
one blank or dash stands between two blocks ("10, 0234, 5678") even after, although
`README.md:230` says that known values are masked exactly: the pattern allows one
such character between two digits (`redaction.py:93`). `OnlyLastFourReadable`
names both cases and excludes every other.

## Proofs

Every theorem holds for any finite set of slots, threads or tool calls, any
customers, codes, tools, policy and limits. The assumptions are those named in
the modules (`SessionAssumption`, `BankCallAssumption`, `StoreAssumption`,
`PoolAssumption`, `RecordsAssumption`, `DashboardAssumption`, `FeedAssumption`,
`LatencyAssumption`, `ProcessAssumption`), which TLC evaluates in the runs; no
theorem has a hypothesis of its own. Every invariant, action
property and refinement that a passing run checks is stated by a theorem.

**The session** (`CallSessionProofs`). `TypeCorrect`, then `AccessCorrect`:
`Spec => []AccessInv`. `AccountRequestsAuthorised` is not inductive: it does not
say why no `verify_identity` can finish, with another customer, while an account
tool is under way. `AccessInv` adds the reason — the identity agent's tools and
the banking agent's never overlap, since a handoff waits for all tools, follows a
verification and is never undone. `AccessNext` proves it action by action
(`SlotMoves` covers what every tool step has in common: only its own slot moves).
`RequestsAuthorised` and `CustomerNeverSwapped` follow, the latter because the
only action that sets `customer_id` needs the identity agent.

`AccessImplemented`: the session implements `TieredAuth`. A tool's request is a
*begin* of its kind of work, its return an *end* (`WorkBegins`, `WorkEnds`), a
confirmation a climb; the invariant needed beside `AccessInv` is `NoCodesWhenOff`:
with step-up off no code tool runs and step-up is never locked.

`LockoutsAlwaysAnnounced` and `StartedAlwaysMatched` are inductive with the types
(`RunningMoves` counts running tools by the cardinality of their slots).
`RecordTellsOneStory` needs `FlagsLogged`, the same agreement for the flags while
the call lasts, which the record copies. `CodeAttemptsAlwaysBounded` counts the
code checks under way with the failures: once the lock is set none starts, so at
most one per further slot is left over.

**Client and bank** (`BankCallProofs`). The lemma `SessionImplemented` carries what
is proved of a session over to the composed system, the access promise first
(`AccessKeptOverNetwork`). `WireInv` says that an exchange belongs to a waiting
tool, carries an argument of it, and says yes to a verification only for a known
customer; so each reply is one of those `CallSession` allows, and faults, late
requests and restarts are stutters. `EffectsAlwaysAuthorised` rests on
`EffectInv`: what was done at the bank, or may still be by a late request, is for
a customer entitled to it (`Entitled`: in the hands of the banking agent, with a
confirmed code where the policy asks for one), and entitlement is never taken
back (`EntitledStays`). `SysTypeCorrect` adds the types of the bank and the bound
on the attempts of a request (`CountInv`).

`StepUpAlwaysBacked` is not inductive, because the bank's yes may be on its way
when the code's customer is looked at: `BackedInv` says that such a yes is backed
when it is given, and `CodesKept` that no later step unmakes it, a stop of the
bank included: what it forgets had been consumed.

`AnswersAlwaysHold`: a block or a dispute, once there, stays as long as the bank
runs (`StandsStays`), and a request the bank once said yes to asked for something
that exists (`DoneArg`), so that its retries are answered yes or 409 (`ToldInv`).

`TicketsAlwaysAccounted` and `GuessesAlwaysAccounted` are kept like a ledger.
`Open(t)` is what tool t's late requests may still do, less the answers it has
not read and the attempts that failed; every step changes it in one of three ways
(`OpenMoves`): the bank serves a request and an entry is closed, an answer arrives
and the session settles it, or nothing more is owed. `TicketInv` and `GuessInv`
say that effects plus open entries never exceed what the session has counted. The
attempts of a code are counted by the set `AttemptsUsed`.

**The thread pool** (`PoolProofs`, `BankProofs`). `StoreType` adds to `TypeOK`
where a thread may point. `AttemptsAlwaysLimited` relates a code's attempts to
the threads that are comparing it (`Comparing`); `CodesStayDead` and
`CodesNeverMixedUp` follow from which fields a step can change
(`ChallengeMoves`). `ReferencesGivenOnce` needs `Alone`: as long as nothing has
overlapped, each busy thread has its customer to itself, and what it has read (the
active card, the newest code, not consumed) is still true. From `Alone`,
`PoolImplementsBank` follows: a code that is sent is sent at once
(`CodesSentAtOnce`), the counting of an attempt is not yet seen
(`AttemptsNotYetSeen`), and the comparison is the atomic verification
(`ComparedAtOnce`).

**Records and dashboard** (`RecordProofs`). A post rebuilds the list over many
steps while other posts change it. `FilterInv` says what it has kept so far: all
it has looked at but its own session, in order; and without a race it either runs
alone or has found nothing to leave out, in which case the rebuilt list is the
old one. Where it has left a record out, those behind it have moved up by one place
(`ClosedUp`). `StoredRecordsStay` and `RecordsReplaced` are parts of that invariant,
`RecordTypeCorrect` needs only `Counted`, which holds with races too.
`CountsAlwaysCover` speaks of which records a reader has counted: `CountInv` says
that it has counted one for each place it has passed, only records that are
stored, and that the records in passed places it has not counted are at most as
many as the counted ones that have moved. The hard step is a re-post, which closes
the gap it leaves and puts at most one more record in a passed place
(`CountStored`). `ViewStepsForward` orders three things by what they contain: the
calls shown are among those a load in flight has got, unless its list is full, and
these among the stored ones (`ViewInv`); and as long as no load overtakes there is
one load at most (`LoadsInv`).
`StoreKeptUnderView` repeats the store's promises for the specification with the
view, whose loads are given up and whose bank restarts.

**Events on their way** (`FeedProofs`). `CardsAlwaysTrue`: the feed and the
channel behind it are one stream, in the order in which each call emitted, an end
on its way is the last event of its call, and the end of a call that is over has
arrived, is under way or is lost (`CardsInv`). `TranscriptAlwaysUsable`: the log
holds no event twice (`LogInv`); a write puts its line behind all others or spoils
the last one (`WriteMoves`), so that what can be read is in the log's order; and
`Owed` is what a torn last line may still cost, which makes the count of lost
lines inductive: a failed write pays for two. `RecordAlwaysMatches`: without
failed writes the file's events are the log, place by place (`Held`), and what
stands before the closing line does not change when tools write behind it.

**The agent process** (`AgentProofs`). `PresentCallersKept` and `AnswersFinished`
follow from `WatchInv`: the watchdog's coroutine is under way only while the
caller is away, and a caller who is away has had the last answer.
`NumbersStayMasked`: for any set of ways of writing an account number, one of ten
digits, more than four of them are readable in blocks only, and there only before
it is registered or with wide gaps; `MaskShowsFour` goes through the forms (ten
digits in words are four tokens at least, however they are doubled and tripled, so
they are always a run). `MeasuredTurnsStay`: for any number of turns and any
samples. `LatencyAlwaysFair`: the sorted list that `summary` indexes is given by
its order statistics (`OrderStatistic` in `DataLemmas`: at most i turns lie below
the one in place i, and more than i at or below it), so the median halves the
turns and the p95 leaves a tenth above it at most; `LatencyInv` adds that only
turns the agent took up are summarised. `P95IsATurn`: the index of the p95 names a
turn that is not among the lower nine tenths, and the slowest of up to eleven.

*Only model-checked:* the four liveness properties, `ToolsReturn`,
`SilentCallerHungUp`, `CardsSettle` and `ViewCatchesUp`. Liveness under fairness
and `ENABLED` are out of the prover's reach. Also out of it is what TLC shows in
the runs that find a violation.

## Not modelled

Audio, speech recognition and the language model's choices (any tool its agent
has may be called at any time, with any arguments); prompts and wording;
configuration, logging and the SIP set-up script (settings that matter are
constants); the fixture data; FAQ search and token signing (stateless); the demo
phone (a read of the newest code of all customers); the front end's presentation
and the application shell; finding and listing transcript files. A transcript row
of the dashboard asks once and keeps what it got: an error stays until the view is
left, which the model leaves out with the rows.

Of `latency.py` the medians of the single parts and the rounding to milliseconds
are left out. Of `redaction.py`, texts with several numbers, numbers that mix
forms or are said over several messages, and the walk over nested mappings; of `calls.py` the averages.

## Plan

1. *Done:* the session, its abstract promise and their proofs; the bank over a
   lossy network, and that it is a session and does only what was authorised, with
   proofs; the bank on threads, its refinement and proofs; the record store and
   the dashboard; the watchdog, collector and masking in one process; the feed.
2. *Done:* the proofs of every safety property and refinement the runs check.
3. *More of the system:* the drill-down rows of the dashboard; the list of
   transcript files; the ranking of `faq.py`.
