------------------------------ MODULE Dashboard ------------------------------
(***************************************************************************)
(* The supervisor view over the record store: every four seconds it asks   *)
(* for the metrics, the calls and the transcripts, and shows the three     *)
(* when all have come.  A load may take longer than four seconds, so that  *)
(* several are under way; one fails as a whole; and the store may restart. *)
(* A load of the view is its metrics request: both are named by a Reader.  *)
(***************************************************************************)
EXTENDS CallRecords

CONSTANTS
    Limit,                     \* how many calls list_call_records returns
    MaxFailures,               \* bound on the loads that fail by themselves
    MaxRestarts                \* bound on the restarts of the bank

ASSUME DashboardAssumption ==
    /\ Limit \in 1..200
    /\ {MaxFailures, MaxRestarts} \subseteq Nat

VARIABLES
    mounted,                   \* is the view on the screen?
    load,                      \* the calls each load has received so far
    shown,                     \* what the view shows
    error,                     \* the notice "Could not reach the backend"
    failures, restarts,
    overtaken                  \* history: have two loads been under way at once?

view == <<mounted, load, shown, error, failures, restarts, overtaken>>
dashVars == <<vars, view>>

Idle == [pc |-> "idle", calls |-> <<>>]

Nothing == [total |-> 0, calls |-> <<>>]

DashInit ==
    /\ Init
    /\ mounted = FALSE
    /\ load = [r \in Readers |-> Idle]
    /\ shown = Nothing
    /\ error = FALSE
    /\ failures = 0 /\ restarts = 0
    /\ overtaken = FALSE

-----------------------------------------------------------------------------
InFlight == {r \in Readers : load[r].pc # "idle"}

BeginLoad(r) ==
    /\ load[r].pc = "idle"
    /\ load' = [load EXCEPT ![r].pc = "loading"]
    /\ overtaken' = (overtaken \/ InFlight # {})

(* The effect runs: a first load, and the timer.                           *)
Mount(r) ==
    /\ ~mounted
    /\ mounted' = TRUE
    /\ BeginLoad(r)
    /\ UNCHANGED <<vars, shown, error, failures, restarts>>

(* A definition named Slip... is a plausible slip in the one it precedes.  *)
SlipNoTimer(r) == FALSE /\ UNCHANGED dashVars

Tick(r) ==
    /\ mounted
    /\ BeginLoad(r)
    /\ UNCHANGED <<vars, mounted, shown, error, failures, restarts>>

(* list_call_records copies the newest records, all if they are few, in    *)
(* one step.  (It turns them round; here they stay newest last.)           *)
Listed == IF Len(records) <= Limit THEN records
          ELSE SubSeq(records, Len(records) - Limit + 1, Len(records))

ListCalls(r) ==
    /\ load[r].pc = "loading"
    /\ load' = [load EXCEPT ![r] = [pc |-> "listed", calls |-> Listed]]
    /\ UNCHANGED <<vars, mounted, shown, error, failures, restarts, overtaken>>

CountMetrics(r) ==
    /\ load[r].pc # "idle"
    /\ Counting(r)
    /\ UNCHANGED view

(* A load is over: its answers, or what is left of them, are dropped.      *)
Drop(r) ==
    /\ load' = [load EXCEPT ![r] = Idle]
    /\ metrics' = [metrics EXCEPT ![r] = NoMetrics]
    /\ UNCHANGED <<records, post, posts, stored, raced>>

(* Promise.all resolves once every request is answered.                    *)
Show(r) ==
    /\ load[r].pc = "listed" /\ metrics[r].pc = "answered"
    /\ shown' = [total |-> metrics[r].total, calls |-> load[r].calls]
    /\ error' = FALSE
    /\ Drop(r)
    /\ UNCHANGED <<mounted, failures, restarts, overtaken>>

SlipEmptied(r) ==
    /\ load[r].pc # "idle"
    /\ failures < MaxFailures
    /\ failures' = failures + 1
    /\ shown' = Nothing
    /\ error' = TRUE
    /\ Drop(r)
    /\ UNCHANGED <<mounted, restarts, overtaken>>

(* It rejects with the first request that fails; what is shown stays.      *)
LoadFails(r) ==
    /\ load[r].pc # "idle"
    /\ failures < MaxFailures
    /\ failures' = failures + 1
    /\ error' = TRUE
    /\ Drop(r)
    /\ UNCHANGED <<mounted, shown, restarts, overtaken>>

(* Leaving the view forgets its state; the loads under way are ignored     *)
(* (cancelled).                                                            *)
Unmount ==
    /\ mounted
    /\ mounted' = FALSE
    /\ shown' = Nothing
    /\ error' = FALSE
    /\ load' = [r \in Readers |-> Idle]
    /\ metrics' = [r \in Readers |-> NoMetrics]
    /\ UNCHANGED <<records, post, posts, stored, raced, failures, restarts, overtaken>>

-----------------------------------------------------------------------------
(* All records are in memory; the requests under way fail.                 *)
Restart ==
    /\ restarts < MaxRestarts
    /\ restarts' = restarts + 1
    /\ records' = <<>>
    /\ stored' = {}
    /\ post' = [p \in Posters |-> NoPost]
    /\ metrics' = [r \in Readers |-> NoMetrics]
    /\ load' = [r \in Readers |-> Idle]
    /\ error' = (error \/ InFlight # {})
    /\ UNCHANGED <<posts, raced, mounted, shown, failures, overtaken>>

Loading(r) == ListCalls(r) \/ CountMetrics(r) \/ Show(r)

DashNext ==
    \/ \E p \in Posters :
          (Storing(p) \/ \E session \in Sessions : Receive(p, session)) /\ UNCHANGED view
    \/ \E r \in Readers : Mount(r) \/ Tick(r) \/ Loading(r) \/ LoadFails(r)
    \/ Unmount
    \/ Restart

(* Requests are answered, and the timer fires while the view is mounted.   *)
DashSpec ==
    /\ DashInit /\ [][DashNext]_dashVars
    /\ \A r \in Readers : WF_dashVars(Loading(r)) /\ WF_dashVars(Tick(r))

-----------------------------------------------------------------------------
(* Properties.                                                             *)

(* What the view shows goes forward: the total does not go down, and a     *)
(* call that was in the log disappears only from a full log, for newer     *)
(* calls.  Unless a load outlived the next, the view was left, or the      *)
(* store lost records (a restart, re-posts side by side).                  *)
ShownStepsForward ==
    [][~overtaken' /\ ~raced' /\ mounted' /\ restarts' = 0 =>
          /\ shown'.total >= shown.total
          /\ \/ ToSet(shown.calls) \subseteq ToSet(shown'.calls)
             \/ Len(shown'.calls) = Limit]_dashVars

(* Stale or failed loads heal: while the view stays open it ends up        *)
(* showing the total and the newest calls of the store, without an error.  *)
Current ==
    /\ shown.total = Len(records)
    /\ IsSuffix(shown.calls, records)
    /\ Len(shown.calls) = Limit \/ shown.calls = records
    /\ ~error

ViewCatchesUp == <>[]mounted => <>[]Current

=============================================================================
