----------------------------- MODULE TieredAuth -----------------------------
(***************************************************************************)
(* What the two agents promise about access, without tools, events or      *)
(* replies: a caller climbs from no tier to "identified" to "stepped_up",  *)
(* never back; work of a kind begins only at the tier that kind needs, and *)
(* never after a lock when the lock stops that kind.  Work that has begun  *)
(* may still end after the lock.                                           *)
(***************************************************************************)
EXTENDS Integers

CONSTANTS
    Workers,       \* what can work at the same time
    Kinds,         \* kinds of work on an account
    Needs,         \* the tier each kind needs
    Stopped,       \* the kinds a lock stops
    NoWork

Tiers == {"none", "identified", "stepped_up"}
Rank  == [t \in Tiers |-> CASE t = "none" -> 0
                            [] t = "identified" -> 1
                            [] t = "stepped_up" -> 2]

VARIABLES tier, locked, working

authState == <<tier, locked, working>>

Init ==
    /\ tier = "none"
    /\ locked = FALSE
    /\ working = [w \in Workers |-> NoWork]

Climb(t) ==
    /\ Rank[t] = Rank[tier] + 1
    /\ tier' = t
    /\ UNCHANGED <<locked, working>>

Lock ==
    /\ tier # "none"
    /\ locked' = TRUE
    /\ UNCHANGED <<tier, working>>

Allowed(k) ==
    /\ Rank[tier] >= Rank[Needs[k]]
    /\ k \in Stopped => ~locked

Begin(w, k) ==
    /\ working[w] = NoWork
    /\ Allowed(k)
    /\ working' = [working EXCEPT ![w] = k]
    /\ UNCHANGED <<tier, locked>>

End(w) ==
    /\ working' = [working EXCEPT ![w] = NoWork]
    /\ UNCHANGED <<tier, locked>>

Next ==
    \/ \E t \in Tiers : Climb(t)
    \/ Lock
    \/ \E w \in Workers : End(w) \/ \E k \in Kinds : Begin(w, k)

Spec == Init /\ [][Next]_authState

=============================================================================
