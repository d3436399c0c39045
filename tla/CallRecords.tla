----------------------------- MODULE CallRecords -----------------------------
(***************************************************************************)
(* routers/calls.py on its thread pool: agents post the record of a call   *)
(* when it ends (and post it again after a lost reply), the dashboard asks *)
(* for the metrics.  A record is known by its session.  Python may switch  *)
(* threads at each turn of a loop; from the end of the loop that filters   *)
(* _records to the append nothing can come between.                        *)
(***************************************************************************)
EXTENDS Integers, Sequences, SequencesExt, FiniteSets

CONSTANTS
    Posters,                   \* worker threads that store a record
    Readers,                   \* worker threads that compute the metrics
    Sessions,
    MaxPosts                   \* bound on the posts

ASSUME RecordsAssumption == MaxPosts \in Nat

VARIABLES
    records,                   \* _records, newest last
    post,                      \* the store_call_record of each poster
    metrics,                   \* the call_metrics of each reader
    posts,                     \* the posts begun
    stored,                    \* history: sessions whose post has returned
    raced                      \* history: has a re-post overlapped a post?

vars == <<records, post, metrics, posts, stored, raced>>

NoPost == [pc |-> "free", session |-> "none", next |-> 1, kept |-> <<>>]

(* counted: the records whose outcomes have been added, in order.          *)
(* moved: history, the records posted again after they were counted.       *)
NoMetrics == [pc |-> "free", total |-> 0, next |-> 1, counted |-> <<>>, moved |-> 0]

Init ==
    /\ records = <<>>
    /\ post = [p \in Posters |-> NoPost]
    /\ metrics = [r \in Readers |-> NoMetrics]
    /\ posts = <<>>
    /\ stored = {}
    /\ raced = FALSE

-----------------------------------------------------------------------------
(* One of the posts under way with p's is of a session already posted.     *)
Reposted(session, earlier) == Cardinality({i \in DOMAIN earlier : earlier[i] = session}) > 1

RepostsRunning(p, session) ==
    LET others == {q \in Posters \ {p} : post[q].pc # "free"} IN
    /\ others # {}
    /\ \/ session \in ToSet(posts)
       \/ \E q \in others : Reposted(post[q].session, posts)

Receive(p, session) ==
    /\ post[p].pc = "free"
    /\ Len(posts) < MaxPosts
    /\ posts' = Append(posts, session)
    /\ post' = [post EXCEPT ![p].pc = "filtering", ![p].session = session]
    /\ raced' = (raced \/ RepostsRunning(p, session))
    /\ UNCHANGED <<records, metrics, stored>>

(* A definition named Slip... is a plausible slip in the one it precedes.  *)
SlipKeptAll(p) == <<records[post[p].next]>>

Kept(p) ==
    IF records[post[p].next] = post[p].session THEN <<>> ELSE <<records[post[p].next]>>

SlipNoAdvance(p) ==
    /\ post[p].pc = "filtering"
    /\ post[p].next <= Len(records)
    /\ Len(post[p].kept) <= MaxPosts
    /\ post' = [post EXCEPT ![p].kept = @ \o Kept(p)]
    /\ UNCHANGED <<records, metrics, posts, stored, raced>>

(* One turn of the list comprehension: its iterator is an index into a     *)
(* list that other threads change.                                         *)
FilterOne(p) ==
    /\ post[p].pc = "filtering"
    /\ post[p].next <= Len(records)
    /\ post' = [post EXCEPT ![p].next = @ + 1, ![p].kept = @ \o Kept(p)]
    /\ UNCHANGED <<records, metrics, posts, stored, raced>>

(* The history of the counts under way when a record is stored.            *)
Moved(session) ==
    [r \in Readers |->
        IF metrics[r].pc = "counting" /\ session \in ToSet(metrics[r].counted)
        THEN [metrics[r] EXCEPT !.moved = @ + 1]
        ELSE metrics[r]]

SlipStoreEarly(p) ==
    /\ post[p].pc = "filtering"
    /\ records' = Append(post[p].kept, post[p].session)
    /\ stored' = stored \union {post[p].session}
    /\ post' = [post EXCEPT ![p] = NoPost]
    /\ metrics' = Moved(post[p].session)
    /\ UNCHANGED <<posts, raced>>

SlipNewestFirst(p) ==
    /\ post[p].pc = "filtering"
    /\ post[p].next > Len(records)
    /\ records' = <<post[p].session>> \o post[p].kept
    /\ stored' = stored \union {post[p].session}
    /\ post' = [post EXCEPT ![p] = NoPost]
    /\ metrics' = Moved(post[p].session)
    /\ UNCHANGED <<posts, raced>>

(* The loop ends; the slice is assigned and the record appended.           *)
StoreRecord(p) ==
    /\ post[p].pc = "filtering"
    /\ post[p].next > Len(records)
    /\ records' = Append(post[p].kept, post[p].session)
    /\ stored' = stored \union {post[p].session}
    /\ post' = [post EXCEPT ![p] = NoPost]
    /\ metrics' = Moved(post[p].session)
    /\ UNCHANGED <<posts, raced>>

-----------------------------------------------------------------------------
(* call_metrics reads the length, answers at once if it is 0, and counts   *)
(* outcomes record by record, with an iterator that is an index as well.   *)
ReadTotal(r) ==
    /\ metrics[r].pc = "free"
    /\ metrics' = [metrics EXCEPT
                     ![r].pc = IF records = <<>> THEN "answered" ELSE "counting",
                     ![r].total = Len(records)]
    /\ UNCHANGED <<records, post, posts, stored, raced>>

CountOne(r) ==
    /\ metrics[r].pc = "counting"
    /\ metrics[r].next <= Len(records)
    /\ metrics' = [metrics EXCEPT
                     ![r].next = @ + 1,
                     ![r].counted = Append(@, records[metrics[r].next])]
    /\ UNCHANGED <<records, post, posts, stored, raced>>

CountDone(r) ==
    /\ metrics[r].pc = "counting"
    /\ metrics[r].next > Len(records)
    /\ metrics' = [metrics EXCEPT ![r].pc = "answered"]
    /\ UNCHANGED <<records, post, posts, stored, raced>>

Answered(r) ==
    /\ metrics[r].pc = "answered"
    /\ metrics' = [metrics EXCEPT ![r] = NoMetrics]
    /\ UNCHANGED <<records, post, posts, stored, raced>>

Storing(p) == FilterOne(p) \/ StoreRecord(p)

Counting(r) == ReadTotal(r) \/ CountOne(r) \/ CountDone(r)

Next ==
    \/ \E p \in Posters : Storing(p) \/ \E session \in Sessions : Receive(p, session)
    \/ \E r \in Readers : Counting(r) \/ Answered(r)

Spec == Init /\ [][Next]_vars

-----------------------------------------------------------------------------
(* Properties.                                                             *)

TypeOK ==
    /\ ToSet(records) \subseteq Sessions
    /\ Len(records) <= MaxPosts
    /\ \A p \in Posters :
          /\ post[p].pc \in {"free", "filtering"}
          /\ Len(post[p].kept) <= MaxPosts
    /\ \A r \in Readers : metrics[r].pc \in {"free", "counting", "answered"}
    /\ stored \subseteq Sessions

(* A stored record stays: the dashboard and the audit trail have every     *)
(* call whose post has returned, although every post rebuilds the list     *)
(* while others change it.                                                 *)
StoredRecordsKept == ~raced => stored \subseteq ToSet(records)

(* Posting the record of a session again replaces it (calls.py:23-24), as  *)
(* long as no other post runs at the same time.                            *)
OneRecordPerSession == ~raced => IsInjective(records)

(* Every record stored when an answer is given has been counted for it     *)
(* once, among them the calls of its total, although records come and move *)
(* while the loop counts them (calls.py:53-54).  Only a record that was    *)
(* counted and then posted again, which moves it to the end, lets another  *)
(* slip past the index: at most one is missed, and one counted twice, for  *)
(* each.                                                                   *)
Missed(r) == ToSet(records) \ ToSet(metrics[r].counted)

CountsCoverTotal ==
    [][\A r \in Readers :
          metrics[r].pc = "counting" /\ metrics'[r].pc = "answered" /\ ~raced =>
              /\ metrics[r].total <= Len(records)
              /\ Len(metrics[r].counted) = Len(records)
              /\ ToSet(metrics[r].counted) \subseteq ToSet(records)
              /\ Cardinality(Missed(r)) <= metrics[r].moved]_vars

=============================================================================
