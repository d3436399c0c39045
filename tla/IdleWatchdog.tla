---------------------------- MODULE IdleWatchdog ----------------------------
(***************************************************************************)
(* The watchdog that prompts a silent caller and then ends the call, on    *)
(* the event loop of the agent: the session's user and agent states, the   *)
(* one coroutine of IdleWatchdog._sequence, and the summary _shutdown      *)
(* writes.  Durations are abstracted to "the wait may end now".            *)
(***************************************************************************)
EXTENDS Naturals

VARIABLES
    user_state, agent_state,
    owesReply,               \* the caller's last turn is not answered yet
    task,                    \* where _sequence is suspended; "done" if nowhere
    hung_up,
    room,
    endedBy,                 \* history: who closed the room
    deleteFailed,            \* history: delete_room has raised
    summary                  \* idle_hangup in the transcript, once written

vars == <<user_state, agent_state, owesReply, task, hung_up, room, endedBy,
          deleteFailed, summary>>

Busy == agent_state \in {"speaking", "thinking"}

Init ==
    /\ user_state = "listening"
    /\ agent_state = "speaking"       \* the opening greeting
    /\ owesReply = FALSE
    /\ task = "done"
    /\ hung_up = FALSE
    /\ room = "live"
    /\ endedBy = "nobody"
    /\ deleteFailed = FALSE
    /\ summary = "unwritten"

-----------------------------------------------------------------------------
(* on_user_state, the handler of user_state_changed.                       *)

ArmTask == task' = IF task = "done" THEN "created" ELSE task

(* A definition named Slip... is a plausible slip in the one it precedes.  *)
SlipGraceNotCancelled == task' = IF task = "grace" THEN task ELSE "done"

(* cancel() reaches the coroutine at its next step, before it can do       *)
(* anything else.                                                          *)
CancelTask == task' = "done"

(* The framework's silence timer.  It is far longer than the 2.5 s after   *)
(* which the agent takes its turn (main.py:90-92, idle_prompt_after_seconds *)
(* in config.py), so the caller's last turn has been taken up by then.     *)
CallerAway ==
    /\ room = "live"
    /\ user_state = "listening"
    /\ ~owesReply
    /\ user_state' = "away"
    /\ ArmTask
    /\ UNCHANGED <<agent_state, owesReply, hung_up, room, endedBy, deleteFailed, summary>>

(* A delete_room on its way to the server is not taken back by cancel().   *)
CallerSpeaks ==
    /\ room = "live"
    /\ user_state # "speaking"
    /\ user_state' = "speaking"
    /\ CancelTask
    /\ \/ UNCHANGED <<room, endedBy>>
       \/ /\ task = "ending"
          /\ room' = "closed"
          /\ endedBy' = "watchdog"
    /\ UNCHANGED <<agent_state, owesReply, hung_up, deleteFailed, summary>>

CallerStops ==
    /\ room = "live"
    /\ user_state = "speaking"
    /\ user_state' = "listening"
    /\ owesReply' = TRUE
    /\ UNCHANGED <<agent_state, task, hung_up, room, endedBy, deleteFailed, summary>>

(* The agent answers each turn of the caller: thinking, speaking, and      *)
(* listening again; it takes no turn on its own.                           *)
AgentThinks ==
    /\ room = "live"
    /\ owesReply
    /\ owesReply' = FALSE
    /\ agent_state' = "thinking"
    /\ UNCHANGED <<user_state, task, hung_up, room, endedBy, deleteFailed, summary>>

AgentAnswers ==
    /\ room = "live"
    /\ agent_state = "thinking"
    /\ agent_state' = "speaking"
    /\ UNCHANGED <<user_state, owesReply, task, hung_up, room, endedBy, deleteFailed, summary>>

AgentFinishes ==
    /\ room = "live"
    /\ agent_state = "speaking"
    /\ task \notin {"prompting", "goodbye"}
    /\ agent_state' = "listening"
    /\ UNCHANGED <<user_state, owesReply, task, hung_up, room, endedBy, deleteFailed, summary>>

-----------------------------------------------------------------------------
(* _sequence, from one await to the next.  say() puts the agent in state   *)
(* speaking until its playout.                                             *)

SlipNeverWaits == task' = "prompting" /\ agent_state' = "speaking"

(* The head of the while loop.                                             *)
CheckBusy ==
    IF Busy
    THEN task' = "recheck" /\ UNCHANGED agent_state
    ELSE task' = "prompting" /\ agent_state' = "speaking"

Begin ==
    /\ task = "created"
    /\ CheckBusy
    /\ UNCHANGED <<user_state, owesReply, hung_up, room, endedBy, deleteFailed, summary>>

Recheck ==
    /\ task = "recheck"
    /\ IF user_state # "away"
       THEN task' = "done" /\ UNCHANGED agent_state
       ELSE CheckBusy
    /\ UNCHANGED <<user_state, owesReply, hung_up, room, endedBy, deleteFailed, summary>>

PromptPlayed ==
    /\ task = "prompting"
    /\ task' = "grace"
    /\ agent_state' = "listening"
    /\ UNCHANGED <<user_state, owesReply, hung_up, room, endedBy, deleteFailed, summary>>

GraceOver ==
    /\ task = "grace"
    /\ hung_up' = TRUE
    /\ task' = "goodbye"
    /\ agent_state' = "speaking"
    /\ UNCHANGED <<user_state, owesReply, room, endedBy, deleteFailed, summary>>

SlipGoodbyeOnly ==
    /\ task = "goodbye"
    /\ task' = "done"
    /\ agent_state' = "listening"
    /\ UNCHANGED <<user_state, owesReply, hung_up, room, endedBy, deleteFailed, summary>>

GoodbyePlayed ==
    /\ task = "goodbye"
    /\ task' = "ending"
    /\ agent_state' = "listening"
    /\ UNCHANGED <<user_state, owesReply, hung_up, room, endedBy, deleteFailed, summary>>

RoomDeleted ==
    /\ task = "ending"
    /\ task' = "done"
    /\ room' = "closed"
    /\ endedBy' = IF room = "live" THEN "watchdog" ELSE endedBy
    /\ UNCHANGED <<user_state, agent_state, owesReply, hung_up, deleteFailed, summary>>

DeleteFails ==
    /\ task = "ending"
    /\ task' = "done"
    /\ deleteFailed' = TRUE
    /\ UNCHANGED <<user_state, agent_state, owesReply, hung_up, room, endedBy, summary>>

-----------------------------------------------------------------------------
(* The caller hangs up, or the end_call tool deletes the room.             *)
CallEndsOtherwise ==
    /\ room = "live"
    /\ room' = "closed"
    /\ endedBy' = "other"
    /\ UNCHANGED <<user_state, agent_state, owesReply, task, hung_up, deleteFailed, summary>>

SlipSummaryFlag ==
    /\ room = "closed"
    /\ summary = "unwritten"
    /\ summary' = IF hung_up THEN "hung_up" ELSE "normal"
    /\ UNCHANGED <<user_state, agent_state, owesReply, task, hung_up, room, endedBy,
                   deleteFailed>>

Shutdown ==
    /\ room = "closed"
    /\ summary = "unwritten"
    /\ summary' = IF hung_up THEN "idle_hangup" ELSE "normal"
    /\ UNCHANGED <<user_state, agent_state, owesReply, task, hung_up, room, endedBy,
                   deleteFailed>>

Done == summary # "unwritten" /\ UNCHANGED vars

Watchdog ==
    Begin \/ Recheck \/ PromptPlayed \/ GraceOver \/ GoodbyePlayed \/ RoomDeleted
      \/ DeleteFails

Caller == CallerAway \/ CallerSpeaks \/ CallerStops \/ CallEndsOtherwise

Agent == AgentThinks \/ AgentAnswers \/ AgentFinishes

Next == Watchdog \/ Caller \/ Agent \/ Shutdown \/ Done

(* The loop runs the coroutine and timers fire; the agent's turns end; a   *)
(* silent caller is reported away; a closed room shuts the session down.   *)
Spec == Init /\ [][Next]_vars /\ WF_vars(Watchdog)
          /\ WF_vars(Agent) /\ WF_vars(CallerAway) /\ WF_vars(Shutdown)

-----------------------------------------------------------------------------
(* Properties.                                                             *)

TypeOK ==
    /\ user_state \in {"listening", "speaking", "away"}
    /\ agent_state \in {"listening", "speaking", "thinking"}
    /\ task \in {"done", "created", "recheck", "prompting", "grace", "goodbye", "ending"}
    /\ room \in {"live", "closed"}
    /\ endedBy \in {"nobody", "watchdog", "other"}
    /\ summary \in {"unwritten", "idle_hangup", "normal"}

(* The watchdog never ends a call whose caller is present: any speech      *)
(* since the silence began has cancelled the sequence, however far it got. *)
OnlyAbsentCallersHungUp ==
    [][endedBy = "nobody" /\ endedBy' = "watchdog" => user_state = "away"]_vars

(* Neither the prompt nor the goodbye talks over an answer: the prompt     *)
(* waits for it, and none can begin before the goodbye, because the speech *)
(* it would answer has cancelled the sequence (idle.py:11-15).             *)
AnswerNotInterrupted ==
    [][task' # task /\ task' \in {"prompting", "goodbye"}
         => agent_state = "listening"]_vars

(* A caller who stays silent is hung up, unless delete_room has raised.    *)
SilentCallerHungUp ==
    user_state = "away" ~> room = "closed" \/ user_state # "away" \/ deleteFailed

(* test_idle.py:55-66 has hung_up False once the caller's return cancelled *)
(* the hangup; idle.py:11: "Any caller speech cancels the pending hangup". *)
HangupForgottenOnReturn ==
    [][user_state = "away" /\ user_state' = "speaking" /\ room' = "live"
         => ~hung_up']_vars

=============================================================================
