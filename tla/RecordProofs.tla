---------------------------- MODULE RecordProofs ----------------------------
(***************************************************************************)
(* The record store on any number of threads, and the supervisor view over *)
(* it with any number of loads: the list is rebuilt without losing or      *)
(* doubling a record while no re-post runs beside another post, and what   *)
(* the view shows steps back only when it may.                             *)
(***************************************************************************)
EXTENDS Dashboard, DataLemmas

PostState == [pc : {"free", "filtering"}, session : Sessions \union {"none"},
              next : Nat \ {0}, kept : Seq(Sessions)]

MetricsState == [pc : {"free", "counting", "answered"}, total : Nat,
                 next : Nat \ {0}, counted : Seq(Sessions), moved : Nat]

StoreType ==
    /\ records \in Seq(Sessions) /\ posts \in Seq(Sessions)
    /\ post \in [Posters -> PostState]
    /\ \A p \in Posters : post[p].pc = "filtering" => post[p].session \in Sessions
    /\ \A p \in Posters : post[p].pc = "free" => post[p] = NoPost
    /\ stored \subseteq Sessions
    /\ raced \in BOOLEAN

MetricsType ==
    /\ metrics \in [Readers -> MetricsState]
    /\ \A r \in Readers : metrics[r].pc = "free" => metrics[r] = NoMetrics

Filtering == {p \in Posters : post[p].pc = "filtering"}

(* Every record and every post under way is one of the posts begun.        *)
Counted ==
    /\ IsFiniteSet(Filtering)
    /\ Len(posts) <= MaxPosts
    /\ Len(records) + Cardinality(Filtering) <= Len(posts)
    /\ \A p \in Filtering : /\ Len(post[p].kept) <= post[p].next - 1
                            /\ Len(post[p].kept) + Cardinality(Filtering) <= Len(posts)

(* The records a poster has looked at.                                     *)
Before(p) == {records[i] : i \in 1..(post[p].next - 1)}

(* Of n - 1 records a poster has left out that of session: those behind it *)
(* have moved up by one.                                                   *)
ClosedUp(kept, session, n) ==
    /\ Len(kept) = n - 2
    /\ \A i \in 1..(n - 2) :
          \/ kept[i] = records[i]
          \/ kept[i] = records[i + 1] /\ session \in {records[k] : k \in 1..i}

(* A poster keeps what it has looked at but its own session, in order.  A  *)
(* post of a new session finds none to leave out, and only such posts run  *)
(* side by side.                                                           *)
FilterInv(p) ==
    /\ post[p].session \in ToSet(posts)
    /\ post[p].next <= Len(records) + 1
    /\ ToSet(post[p].kept) = Before(p) \ {post[p].session}
    /\ IsInjective(post[p].kept)
    /\ post[p].session \in Before(p)
         => ClosedUp(post[p].kept, post[p].session, post[p].next)
    /\ post[p].session \notin Before(p)
         => post[p].kept = SubSeq(records, 1, post[p].next - 1)
    /\ ~Reposted(post[p].session, posts) => post[p].session \notin ToSet(records)
    /\ \A q \in Filtering \ {p} : /\ post[q].session # post[p].session
                                  /\ ~Reposted(post[p].session, posts)

RecordsInv ==
    ~raced =>
        /\ ToSet(records) \subseteq ToSet(posts)
        /\ IsInjective(records)
        /\ stored \subseteq ToSet(records)
        /\ \A p \in Filtering : FilterInv(p)

(* A reader counts one record for each it passes, of a list that never     *)
(* shrinks under it.  What it has passed without counting it has moved up  *)
(* over the index, once for each counted record that moved to the end.     *)
Passed(m, list) == {list[i] : i \in 1..(m.next - 1)}

CountInv(m, list) ==
    /\ m.pc = "counting" =>
          /\ Len(m.counted) = m.next - 1
          /\ m.next <= Len(list) + 1
          /\ m.total <= Len(list)
          /\ ToSet(m.counted) \subseteq ToSet(list)
          /\ IsFiniteSet(Passed(m, list) \ ToSet(m.counted))
          /\ Cardinality(Passed(m, list) \ ToSet(m.counted)) <= m.moved
    /\ m.pc = "answered" => m.total <= Len(list)

MetricsInv == ~raced => \A r \in Readers : CountInv(metrics[r], records)

-----------------------------------------------------------------------------
(* Posts and re-posts.                                                     *)

LEMMA RepostedMoves ==
    ASSUME NEW e \in Seq(Sessions), NEW x \in Sessions
    PROVE  /\ \A y : y # x => (Reposted(y, Append(e, x)) <=> Reposted(y, e))
           /\ Reposted(x, Append(e, x)) <=> x \in ToSet(e)
<1> DEFINE At(y, s) == {i \in DOMAIN s : s[i] = y}
           f == Append(e, x)
<1>1. /\ DOMAIN e = 1..Len(e) /\ Len(e) \in Nat /\ DOMAIN f = 1..(Len(e) + 1)
      /\ \A i \in 1..Len(e) : f[i] = e[i]
      /\ f[Len(e) + 1] = x
  BY AppendFacts
<1> HIDE DEF f
<1>2. \A y : y # x => At(y, f) = At(y, e)
  BY <1>1
<1>3. At(x, f) = At(x, e) \union {Len(e) + 1} /\ Len(e) + 1 \notin At(x, e)
  BY <1>1
<1>4. IsFiniteSet(DOMAIN e)
  BY <1>1, FS_Interval
<1>5. IsFiniteSet(At(x, e))
  BY <1>4, FS_Subset
<1>6. Cardinality(At(x, e)) \in Nat /\ Cardinality(At(x, f)) = Cardinality(At(x, e)) + 1
  BY <1>3, <1>5, FS_AddElement, FS_CardinalityType
<1>7. Cardinality(At(x, e)) = 0 <=> At(x, e) = {}
  BY <1>5, FS_EmptySet
<1>8. At(x, e) = {} <=> x \notin ToSet(e)
  BY DEF ToSet
<1>9. \A y, s : Reposted(y, s) <=> Cardinality(At(y, s)) > 1
  BY DEF Reposted
<1>10. Reposted(x, f) <=> x \in ToSet(e)
  BY <1>6, <1>7, <1>8, <1>9
<1>11. \A y : y # x => (Reposted(y, f) <=> Reposted(y, e))
  BY <1>2, <1>9
<1>12. QED BY <1>10, <1>11 DEF f

-----------------------------------------------------------------------------
(* Types.                                                                  *)

LEMMA NoPostType == NoPost \in PostState /\ NoPost.pc = "free" /\ NoPost.kept = <<>>
<1>1. <<>> \in Seq(Sessions)
  OBVIOUS
<1>2. QED BY <1>1 DEF NoPost, PostState

LEMMA NoMetricsType == NoMetrics \in MetricsState /\ NoMetrics.pc = "free"
<1>1. <<>> \in Seq(Sessions)
  OBVIOUS
<1>2. QED BY <1>1 DEF NoMetrics, MetricsState

LEMMA NoMetricsCounts == \A list : CountInv(NoMetrics, list)
BY NoMetricsType DEF CountInv

LEMMA StoreInit == Init => StoreType /\ MetricsType /\ Counted /\ RecordsInv /\ MetricsInv
<1> SUFFICES ASSUME Init
             PROVE  StoreType /\ MetricsType /\ Counted /\ RecordsInv /\ MetricsInv
  OBVIOUS
<1>1. <<>> \in Seq(Sessions) /\ Len(<<>>) = 0 /\ DOMAIN <<>> = {}
  OBVIOUS
<1>2. Filtering = {}
  BY NoPostType DEF Init, Filtering
<1>3. StoreType
  BY <1>1, NoPostType DEF Init, StoreType
<1>4. MetricsType
  BY NoMetricsType DEF Init, MetricsType
<1>5. Counted
  BY <1>1, <1>2, FS_EmptySet, RecordsAssumption DEF Init, Counted
<1>6. RecordsInv
  BY <1>1, <1>2 DEF Init, RecordsInv, ToSet, IsInjective
<1>7. MetricsInv
  BY NoMetricsCounts DEF Init, MetricsInv
<1>8. QED BY <1>3, <1>4, <1>5, <1>6, <1>7

(* What the store's steps do to the post they are part of.                 *)
LEMMA ReceiveMoves ==
    ASSUME StoreType, NEW p \in Posters, NEW session \in Sessions, Receive(p, session)
    PROVE  /\ post[p] = NoPost
           /\ post' \in [Posters -> PostState]
           /\ post'[p].pc = "filtering" /\ post'[p].session = session
           /\ post'[p].next = 1 /\ post'[p].kept = <<>>
           /\ \A q \in Posters \ {p} : post'[q] = post[q]
<1> DEFINE x == [post[p] EXCEPT !.pc = "filtering", !.session = session]
<1>1. post[p] = NoPost /\ post[p] \in PostState
  BY DEF StoreType, Receive
<1>2. /\ x \in PostState /\ x.pc = "filtering" /\ x.session = session
      /\ x.next = 1 /\ x.kept = <<>>
  <2> DEFINE y == [post[p] EXCEPT !.pc = "filtering"]
  <2>1. y \in PostState /\ y.pc = "filtering" /\ y.next = post[p].next /\ y.kept = post[p].kept
    BY <1>1 DEF PostState
  <2>2. x = [y EXCEPT !.session = session]
    OBVIOUS
  <2> HIDE DEF y, x
  <2>3. x \in PostState /\ x.pc = y.pc /\ x.session = session /\ x.next = y.next /\ x.kept = y.kept
    BY <2>1, <2>2 DEF PostState
  <2>4. QED BY <1>1, <2>1, <2>3 DEF NoPost
<1>3. post' = [post EXCEPT ![p] = x]
  BY DEF Receive
<1> HIDE DEF x
<1>4. QED BY <1>1, <1>2, <1>3 DEF StoreType

LEMMA FilterMoves ==
    ASSUME StoreType, NEW p \in Posters, FilterOne(p)
    PROVE  /\ post[p].next \in 1..Len(records) /\ post[p].pc = "filtering"
           /\ post' \in [Posters -> PostState]
           /\ post'[p].pc = "filtering" /\ post'[p].session = post[p].session
           /\ post'[p].next = post[p].next + 1
           /\ post'[p].kept = IF records[post[p].next] = post[p].session THEN post[p].kept
                              ELSE Append(post[p].kept, records[post[p].next])
           /\ \A q \in Posters \ {p} : post'[q] = post[q]
<1> DEFINE k == IF records[post[p].next] = post[p].session THEN post[p].kept
                ELSE Append(post[p].kept, records[post[p].next])
           y == [post[p] EXCEPT !.next = @ + 1]
           x == [y EXCEPT !.kept = k]
<1>1. /\ post[p] \in PostState /\ post[p].next \in 1..Len(records)
      /\ records[post[p].next] \in Sessions /\ post[p].kept \in Seq(Sessions)
  BY DEF StoreType, FilterOne, PostState
<1>2. k = post[p].kept \o Kept(p) /\ k \in Seq(Sessions)
  <2>1. CASE records[post[p].next] = post[p].session
    <3>1. k = post[p].kept /\ Kept(p) = <<>>
      BY <2>1 DEF Kept
    <3>2. post[p].kept \o <<>> = post[p].kept
      BY <1>1
    <3>3. QED BY <1>1, <3>1, <3>2
  <2>2. CASE records[post[p].next] # post[p].session
    <3>1. /\ k = Append(post[p].kept, records[post[p].next])
          /\ Kept(p) = <<records[post[p].next]>>
      BY <2>2 DEF Kept
    <3>2. QED BY <1>1, <3>1, AppendFacts
  <2>3. QED BY <2>1, <2>2
<1>3. post' = [post EXCEPT ![p] = x]
  BY <1>2 DEF FilterOne
<1>4. y \in PostState /\ y.next = post[p].next + 1 /\ y.pc = post[p].pc
        /\ y.session = post[p].session
  BY <1>1 DEF PostState
<1> HIDE DEF k, y
<1>5. /\ x \in PostState /\ x.pc = post[p].pc /\ x.session = post[p].session
      /\ x.next = post[p].next + 1 /\ x.kept = k
  BY <1>2, <1>4 DEF PostState
<1> HIDE DEF x
<1>6. QED BY <1>1, <1>3, <1>5 DEF StoreType, FilterOne, k

LEMMA StoreMoves ==
    ASSUME StoreType, NEW p \in Posters, StoreRecord(p)
    PROVE  /\ post[p].pc = "filtering" /\ post[p].next > Len(records)
           /\ post[p].kept \in Seq(Sessions) /\ post[p].session \in Sessions
           /\ records' = Append(post[p].kept, post[p].session)
           /\ records' \in Seq(Sessions) /\ Len(records') = Len(post[p].kept) + 1
           /\ post' \in [Posters -> PostState] /\ post'[p] = NoPost
           /\ \A q \in Posters \ {p} : post'[q] = post[q]
<1>1. post[p].kept \in Seq(Sessions) /\ post[p].session \in Sessions
  BY DEF StoreType, StoreRecord, PostState
<1>2. QED BY <1>1, AppendFacts, NoPostType DEF StoreType, StoreRecord

(* ... and to the counts under way.                                        *)
LEMMA MovedType ==
    ASSUME MetricsType, NEW session
    PROVE  /\ Moved(session) \in [Readers -> MetricsState]
           /\ \A r \in Readers :
                 /\ metrics[r].pc = "counting" /\ session \in ToSet(metrics[r].counted) =>
                       /\ Moved(session)[r].pc = "counting"
                       /\ Moved(session)[r].next = metrics[r].next
                       /\ Moved(session)[r].total = metrics[r].total
                       /\ Moved(session)[r].counted = metrics[r].counted
                       /\ Moved(session)[r].moved = metrics[r].moved + 1
                 /\ ~(metrics[r].pc = "counting" /\ session \in ToSet(metrics[r].counted))
                       => Moved(session)[r] = metrics[r]
<1>1. ASSUME NEW m \in MetricsState
      PROVE  /\ [m EXCEPT !.moved = @ + 1] \in MetricsState
             /\ [m EXCEPT !.moved = @ + 1].pc = m.pc
             /\ [m EXCEPT !.moved = @ + 1].next = m.next
             /\ [m EXCEPT !.moved = @ + 1].total = m.total
             /\ [m EXCEPT !.moved = @ + 1].counted = m.counted
             /\ [m EXCEPT !.moved = @ + 1].moved = m.moved + 1
  BY DEF MetricsState
<1>2. \A r \in Readers : metrics[r] \in MetricsState
  BY DEF MetricsType
<1>3. QED BY <1>1, <1>2 DEF Moved

LEMMA StoreTypeNext == StoreType /\ [Next]_vars => StoreType'
<1> SUFFICES ASSUME StoreType, [Next]_vars PROVE StoreType'
  OBVIOUS
<1>1. ASSUME NEW p \in Posters, NEW session \in Sessions, Receive(p, session)
      PROVE  StoreType'
  <2>1. posts' \in Seq(Sessions)
    BY <1>1, AppendFacts DEF Receive, StoreType
  <2>2. raced' \in BOOLEAN
    BY <1>1 DEF Receive, StoreType, RepostsRunning
  <2>3. QED BY <1>1, <2>1, <2>2, ReceiveMoves DEF Receive, StoreType
<1>2. ASSUME NEW p \in Posters, FilterOne(p) PROVE StoreType'
  BY <1>2, FilterMoves DEF FilterOne, StoreType
<1>3. ASSUME NEW p \in Posters, StoreRecord(p) PROVE StoreType'
  BY <1>3, StoreMoves, NoPostType DEF StoreRecord, StoreType
<1>4. CASE UNCHANGED <<records, post, posts, stored, raced>>
  BY <1>4 DEF StoreType
<1>5. QED
  BY <1>1, <1>2, <1>3, <1>4
  DEF Next, Storing, Counting, ReadTotal, CountOne, CountDone, Answered, vars

LEMMA MetricsTypeNext == StoreType /\ MetricsType /\ [Next]_vars => MetricsType'
<1> SUFFICES ASSUME StoreType, MetricsType, [Next]_vars PROVE MetricsType'
  OBVIOUS
<1>1. ASSUME NEW r \in Readers, NEW x \in MetricsState, metrics' = [metrics EXCEPT ![r] = x],
             x.pc # "free" \/ x = NoMetrics
      PROVE  MetricsType'
  BY <1>1 DEF MetricsType
<1>2. ASSUME NEW r \in Readers, Counting(r) PROVE MetricsType'
  <2>1. metrics[r] \in MetricsState /\ Len(records) \in Nat
    BY DEF MetricsType, StoreType
  <2>2. CASE ReadTotal(r)
    <3> DEFINE x == [metrics[r] EXCEPT
                       !.pc = IF records = <<>> THEN "answered" ELSE "counting",
                       !.total = Len(records)]
    <3>1. x \in MetricsState /\ x.pc # "free"
      BY <2>1 DEF MetricsState
    <3>2. metrics' = [metrics EXCEPT ![r] = x]
      BY <2>2 DEF ReadTotal
    <3> HIDE DEF x
    <3>3. QED BY <1>1, <3>1, <3>2
  <2>3. CASE CountOne(r)
    <3> DEFINE c == Append(metrics[r].counted, records[metrics[r].next])
               y == [metrics[r] EXCEPT !.next = @ + 1]
               x == [y EXCEPT !.counted = c]
    <3>0. c \in Seq(Sessions)
      <4>1. metrics[r].next \in 1..Len(records) /\ metrics[r].counted \in Seq(Sessions)
        BY <2>1, <2>3 DEF CountOne, MetricsState
      <4>2. QED BY <4>1, AppendFacts DEF StoreType
    <3>1. y \in MetricsState /\ y.pc = metrics[r].pc
      BY <2>1 DEF MetricsState
    <3>2. metrics' = [metrics EXCEPT ![r] = x]
      BY <2>1, <2>3 DEF CountOne, MetricsState
    <3> HIDE DEF y, c
    <3>3. x \in MetricsState /\ x.pc = "counting"
      BY <2>1, <2>3, <3>0, <3>1 DEF MetricsState, CountOne
    <3> HIDE DEF x
    <3>4. QED BY <1>1, <3>2, <3>3
  <2>4. CASE CountDone(r)
    <3> DEFINE x == [metrics[r] EXCEPT !.pc = "answered"]
    <3>1. x \in MetricsState /\ x.pc # "free"
      BY <2>1 DEF MetricsState
    <3>2. metrics' = [metrics EXCEPT ![r] = x]
      BY <2>4 DEF CountDone
    <3> HIDE DEF x
    <3>3. QED BY <1>1, <3>1, <3>2
  <2>5. QED BY <1>2, <2>2, <2>3, <2>4 DEF Counting
<1>3. ASSUME NEW r \in Readers, Answered(r) PROVE MetricsType'
  BY <1>1, <1>3, NoMetricsType DEF Answered
<1>4. CASE UNCHANGED metrics
  BY <1>4 DEF MetricsType
<1>5. ASSUME NEW p \in Posters, StoreRecord(p) PROVE MetricsType'
  <2>1. metrics' = Moved(post[p].session)
    BY <1>5 DEF StoreRecord
  <2>2. \A r \in Readers : metrics'[r].pc = "free" => metrics'[r] = metrics[r]
    BY <2>1, MovedType
  <2>3. QED BY <2>1, <2>2, MovedType DEF MetricsType
<1>6. QED
  BY <1>2, <1>3, <1>4, <1>5 DEF Next, Storing, Receive, FilterOne, vars

-----------------------------------------------------------------------------
(* Every record was posted.                                                *)

LEMMA CountedNext == StoreType /\ Counted /\ [Next]_vars => Counted'
<1> SUFFICES ASSUME StoreType, Counted, [Next]_vars PROVE Counted'
  OBVIOUS
<1> DEFINE N == Cardinality(Filtering)
<1>t. /\ IsFiniteSet(Filtering) /\ N \in Nat /\ MaxPosts \in Nat
      /\ Len(records) \in Nat /\ Len(posts) \in Nat
      /\ \A q \in Posters : Len(post[q].kept) \in Nat /\ post[q].next \in Nat
  BY FS_CardinalityType, RecordsAssumption DEF Counted, StoreType, PostState
<1>1. ASSUME NEW p \in Posters, NEW session \in Sessions, Receive(p, session)
      PROVE  Counted'
  <2>1. /\ post'[p].pc = "filtering" /\ post'[p].next = 1 /\ Len(post'[p].kept) = 0
        /\ post[p].pc = "free"
        /\ \A q \in Posters \ {p} : post'[q] = post[q]
    BY <1>1, ReceiveMoves, NoPostType DEF Receive
  <2>2. Filtering' = Filtering \union {p} /\ p \notin Filtering
    BY <2>1 DEF Filtering
  <2>3. IsFiniteSet(Filtering') /\ N' = N + 1
    BY <2>2, <1>t, FS_AddElement
  <2>4. Len(posts') = Len(posts) + 1 /\ Len(posts) < MaxPosts /\ records' = records
    BY <1>1, AppendFacts DEF Receive, StoreType
  <2>5. \A q \in Filtering' : /\ Len(post'[q].kept) <= post'[q].next - 1
                              /\ Len(post'[q].kept) + N' <= Len(posts')
    <3>1. \A q \in Filtering : post'[q] = post[q]
      BY <2>1, <2>2 DEF Filtering
    <3>2. N <= Len(posts)
      BY <1>t DEF Counted
    <3>3. \A q \in Filtering : q \in Posters
      BY DEF Filtering
    <3>4. QED BY <2>1, <2>2, <2>3, <2>4, <3>1, <3>2, <3>3, <1>t DEF Counted
  <2>6. QED BY <2>3, <2>4, <2>5, <1>t DEF Counted
<1>2. ASSUME NEW p \in Posters, FilterOne(p) PROVE Counted'
  <2>1. /\ post[p].next \in 1..Len(records) /\ post[p].pc = "filtering"
        /\ post'[p].pc = "filtering" /\ post'[p].next = post[p].next + 1
        /\ \A q \in Posters \ {p} : post'[q] = post[q]
        /\ UNCHANGED <<records, posts>>
    BY <1>2, FilterMoves DEF FilterOne
  <2>2. Len(post'[p].kept) \in {Len(post[p].kept), Len(post[p].kept) + 1}
    <3>1. post[p].kept \in Seq(Sessions) /\ records[post[p].next] \in Sessions
      BY <2>1 DEF StoreType, PostState
    <3>2. post'[p].kept \in {post[p].kept, Append(post[p].kept, records[post[p].next])}
      BY <1>2, FilterMoves
    <3>3. Len(Append(post[p].kept, records[post[p].next])) = Len(post[p].kept) + 1
      BY <3>1, AppendFacts
    <3>4. QED BY <3>2, <3>3
  <2>3. Filtering' = Filtering /\ p \in Filtering
    BY <2>1 DEF Filtering
  <2>4. /\ Len(post[p].kept) <= post[p].next - 1 /\ Len(records) + N <= Len(posts)
    BY <2>3 DEF Counted
  <2>5. /\ Len(post'[p].kept) <= post'[p].next - 1
        /\ Len(post'[p].kept) + N <= Len(posts)
    <3>1. /\ Len(post[p].kept) \in Nat /\ post[p].next \in Nat /\ N \in Nat
          /\ Len(records) \in Nat /\ Len(posts) \in Nat
          /\ post[p].next <= Len(records) /\ post'[p].next = post[p].next + 1
      BY <1>t, <2>1
    <3> DEFINE a == Len(post[p].kept)
               b == post[p].next
               f == Len(post'[p].kept)
    <3>2. f \in {a, a + 1} /\ a <= b - 1 /\ Len(records) + N <= Len(posts)
      BY <2>2, <2>4
    <3>3. a \in Nat /\ b \in Nat /\ f \in Nat /\ b <= Len(records) /\ post'[p].next = b + 1
      BY <3>1, <3>2
    <3> HIDE DEF N, a, b, f
    <3>4. f <= (b + 1) - 1
      BY <3>2, <3>3
    <3>5. f + N <= Len(posts)
      BY <3>1, <3>2, <3>3
    <3>6. QED BY <3>3, <3>4, <3>5 DEF f
  <2>6. \A q \in Filtering \ {p} : post'[q] = post[q]
    BY <2>1 DEF Filtering
  <2>7. QED BY <2>1, <2>3, <2>5, <2>6, <1>t DEF Counted
<1>3. ASSUME NEW p \in Posters, StoreRecord(p) PROVE Counted'
  <2>1. /\ post[p].pc = "filtering" /\ post'[p].pc = "free"
        /\ Len(records') = Len(post[p].kept) + 1
        /\ \A q \in Posters \ {p} : post'[q] = post[q]
        /\ UNCHANGED posts
    BY <1>3, StoreMoves, NoPostType DEF StoreRecord
  <2>2. Filtering' = Filtering \ {p} /\ p \in Filtering
    BY <2>1 DEF Filtering
  <2>3. IsFiniteSet(Filtering') /\ N' = N - 1
    BY <2>2, <1>t, FS_RemoveElement
  <2>4. \A q \in Filtering' : q \in Filtering /\ q \in Posters /\ post'[q] = post[q]
    BY <2>1, <2>2 DEF Filtering
  <2>5. \A q \in Filtering' : /\ Len(post'[q].kept) <= post'[q].next - 1
                              /\ Len(post'[q].kept) + N' <= Len(posts')
    BY <2>1, <2>3, <2>4, <1>t DEF Counted
  <2>6. Len(records') + N' <= Len(posts') /\ Len(posts') <= MaxPosts
    <3>1. Len(post[p].kept) + N <= Len(posts) /\ Len(posts) <= MaxPosts
      BY <2>2 DEF Counted
    <3>2. Len(post[p].kept) \in Nat
      BY <1>t
    <3>3. QED BY <2>1, <2>3, <3>1, <3>2, <1>t
  <2>7. QED BY <2>3, <2>5, <2>6 DEF Counted
<1>4. CASE UNCHANGED <<records, post, posts>>
  BY <1>4 DEF Counted, Filtering
<1>5. QED
  BY <1>1, <1>2, <1>3, <1>4
  DEF Next, Storing, Counting, ReadTotal, CountOne, CountDone, Answered, vars

(* The store and the requests on it keep their types, and the list never   *)
(* holds more records than were posted, whatever overlaps.                 *)
THEOREM RecordTypeCorrect == Spec => []TypeOK
<1>1. StoreType /\ MetricsType /\ Counted => TypeOK
  <2> SUFFICES ASSUME StoreType, MetricsType, Counted PROVE TypeOK
    OBVIOUS
  <2>1. ToSet(records) \subseteq Sessions
    BY DEF StoreType, ToSet
  <2>2. Cardinality(Filtering) \in Nat /\ MaxPosts \in Nat /\ Len(records) \in Nat
          /\ Len(posts) \in Nat
    BY FS_CardinalityType, RecordsAssumption DEF Counted, StoreType
  <2>3. Len(records) <= MaxPosts
    BY <2>2 DEF Counted
  <2>4. ASSUME NEW p \in Posters
        PROVE  post[p].pc \in {"free", "filtering"} /\ Len(post[p].kept) <= MaxPosts
    <3>1. post[p].pc \in {"free", "filtering"} /\ Len(post[p].kept) \in Nat
      BY DEF StoreType, PostState
    <3>2. CASE post[p].pc = "free"
      <4>1. Len(<<>>) = 0
        OBVIOUS
      <4>2. QED BY <2>2, <3>2, <4>1, NoPostType DEF StoreType
    <3>3. CASE p \in Filtering
      BY <2>2, <3>1, <3>3 DEF Counted
    <3>4. QED BY <3>1, <3>2, <3>3 DEF Filtering
  <2>5. QED BY <2>1, <2>3, <2>4 DEF TypeOK, StoreType, MetricsType, MetricsState
<1>2. QED
  BY <1>1, StoreInit, StoreTypeNext, MetricsTypeNext, CountedNext, PTL DEF Spec

-----------------------------------------------------------------------------
(* A post rebuilds the list without losing a record.                       *)

LEMMA OthersPosting ==
    ASSUME StoreType, NEW p \in Posters, post[p].pc = "free"
    PROVE  {q \in Posters \ {p} : post[q].pc # "free"} = Filtering /\ p \notin Filtering
BY DEF StoreType, PostState, Filtering

LEMMA ReceiveKeepsRecords ==
    ASSUME StoreType, RecordsInv, NEW p \in Posters, NEW session \in Sessions,
           Receive(p, session)
    PROVE  RecordsInv'
<1> SUFFICES ASSUME ~raced'
             PROVE  /\ ToSet(records)' \subseteq ToSet(posts)'
                    /\ IsInjective(records)'
                    /\ stored' \subseteq ToSet(records)'
                    /\ \A q \in Filtering' : FilterInv(q)'
  BY DEF RecordsInv
<1>1. /\ post'[p].pc = "filtering" /\ post'[p].session = session
      /\ post'[p].next = 1 /\ post'[p].kept = <<>>
      /\ \A q \in Posters \ {p} : post'[q] = post[q]
  BY ReceiveMoves
<1>2. /\ ~raced /\ ~RepostsRunning(p, session) /\ post[p].pc = "free"
      /\ UNCHANGED <<records, stored>> /\ posts' = Append(posts, session)
  BY DEF Receive
<1>3. Filtering' = Filtering \union {p} /\ p \notin Filtering
  BY <1>1, <1>2, OthersPosting DEF Filtering
<1>4. \/ Filtering = {}
      \/ /\ session \notin ToSet(posts)
         /\ \A q \in Filtering : ~Reposted(post[q].session, posts)
  BY <1>2, OthersPosting DEF RepostsRunning
<1>5. /\ ToSet(records) \subseteq ToSet(posts) /\ IsInjective(records)
      /\ stored \subseteq ToSet(records)
      /\ \A q \in Filtering : FilterInv(q)
  BY <1>2 DEF RecordsInv
<1>6. ToSet(posts') = ToSet(posts) \union {session}
  BY <1>2, AppendSet DEF StoreType
<1>7. /\ \A y : y # session => (Reposted(y, posts') <=> Reposted(y, posts))
      /\ Reposted(session, posts') <=> session \in ToSet(posts)
  BY <1>2, RepostedMoves DEF StoreType
<1>8. \A q \in Filtering : /\ post'[q] = post[q] /\ post[q].session \in ToSet(posts)
                           /\ post[q].session # session
                           /\ session \notin ToSet(posts)
                           /\ ~Reposted(post[q].session, posts')
  BY <1>1, <1>3, <1>4, <1>5, <1>7 DEF FilterInv, Filtering
<1>9. FilterInv(p)'
  <2>1. Before(p)' = {}
    BY <1>1 DEF Before
  <2>2. ToSet(<<>>) = {} /\ Len(<<>>) = 0 /\ IsInjective(<<>>)
    BY DEF ToSet, IsInjective
  <2>3. SubSeq(records', 1, 0) = <<>> /\ Len(records') \in Nat
    BY <1>2 DEF StoreType
  <2>4. ~Reposted(session, posts') => session \notin ToSet(records)
    BY <1>5, <1>7
  <2>5. \A q \in Filtering : post'[q].session # session /\ ~Reposted(session, posts')
    BY <1>7, <1>8
  <2>6. QED BY <1>1, <1>2, <1>3, <1>6, <2>1, <2>2, <2>3, <2>4, <2>5 DEF FilterInv
<1>10. ASSUME NEW q \in Filtering PROVE FilterInv(q)'
  <2>1. Before(q)' = Before(q)
    BY <1>2, <1>8 DEF Before
  <2>2. \A o \in Filtering' \ {q} : /\ post'[o].session # post[q].session
                                    /\ ~Reposted(post[q].session, posts')
    BY <1>1, <1>3, <1>5, <1>8 DEF FilterInv
  <2>3. Reposted(post[q].session, posts') <=> Reposted(post[q].session, posts)
    BY <1>7, <1>8
  <2>4. \A kept, x, n : ClosedUp(kept, x, n)' <=> ClosedUp(kept, x, n)
    BY <1>2 DEF ClosedUp
  <2>5. QED BY <1>2, <1>5, <1>6, <1>8, <2>1, <2>2, <2>3, <2>4 DEF FilterInv
<1>11. QED BY <1>2, <1>3, <1>5, <1>6, <1>9, <1>10

LEMMA FilterKeepsRecords ==
    ASSUME StoreType, RecordsInv, NEW p \in Posters, FilterOne(p)
    PROVE  RecordsInv'
<1> SUFFICES ASSUME ~raced, UNCHANGED <<records, posts, stored, raced>>
             PROVE  \A q \in Filtering' : FilterInv(q)'
  BY DEF RecordsInv, FilterOne
<1> DEFINE n == post[p].next
           s == post[p].session
           kept == post[p].kept
           x == records[n]
<1>1. /\ n \in 1..Len(records) /\ post[p].pc = "filtering"
      /\ post'[p].pc = "filtering" /\ post'[p].session = s /\ post'[p].next = n + 1
      /\ post'[p].kept = IF x = s THEN kept ELSE Append(kept, x)
      /\ \A q \in Posters \ {p} : post'[q] = post[q]
  BY FilterMoves
<1>2. Filtering' = Filtering /\ p \in Filtering
  BY <1>1 DEF Filtering
<1>3. IsInjective(records) /\ \A q \in Filtering : FilterInv(q)
  BY DEF RecordsInv
<1>4. /\ records \in Seq(Sessions) /\ kept \in Seq(Sessions) /\ x \in Sessions
      /\ Len(records) \in Nat /\ Len(kept) \in Nat
  BY <1>1 DEF StoreType, PostState
<1>5. \A q \in Filtering : post'[q].session = post[q].session
  BY <1>1, <1>2 DEF Filtering
<1>6. ASSUME NEW q \in Filtering \ {p} PROVE FilterInv(q)'
  <2>1. post'[q] = post[q]
    BY <1>1 DEF Filtering
  <2>2. Before(q)' = Before(q)
    BY <2>1 DEF Before
  <2>3. QED BY <1>2, <1>3, <1>5, <2>1, <2>2 DEF FilterInv, ClosedUp
<1>7. x \notin Before(p)
  <2>1. \A i \in 1..(n - 1) : records[i] # records[n]
    BY <1>1, <1>3, <1>4 DEF IsInjective
  <2>2. QED BY <2>1 DEF Before
<1>8. Before(p)' = Before(p) \union {x}
  <2>1. 1..(post'[p].next - 1) = (1..(n - 1)) \union {n}
    BY <1>1
  <2>2. QED BY <2>1 DEF Before
<1>9. /\ s \in ToSet(posts) /\ ToSet(kept) = Before(p) \ {s} /\ IsInjective(kept)
      /\ s \in Before(p) => ClosedUp(kept, s, n)
      /\ s \notin Before(p) => kept = SubSeq(records, 1, n - 1)
      /\ ~Reposted(s, posts) => s \notin ToSet(records)
      /\ \A q \in Filtering \ {p} : post[q].session # s /\ ~Reposted(s, posts)
  BY <1>2, <1>3 DEF FilterInv
<1>10. /\ Len(SubSeq(records, 1, n - 1)) = n - 1
       /\ Append(SubSeq(records, 1, n - 1), x) = SubSeq(records, 1, n)
  BY <1>1, <1>4, PrefixFacts
<1> HIDE DEF n, s, kept, x
<1>11. /\ ToSet(post'[p].kept) = Before(p)' \ {s} /\ IsInjective(post'[p].kept)
       /\ s \in Before(p)' => ClosedUp(post'[p].kept, s, n + 1)
       /\ s \notin Before(p)' => post'[p].kept = SubSeq(records, 1, n)
  <2>1. CASE x = s
    <3>1. post'[p].kept = kept
      BY <1>1, <2>1
    <3>2. kept = SubSeq(records, 1, n - 1) /\ Len(kept) = n - 1
      BY <1>7, <1>9, <1>10, <2>1
    <3>3. \A i \in 1..(n - 1) : kept[i] = records[i]
      BY <1>1, <1>4, <3>2
    <3>4. (n + 1) - 2 = n - 1
      BY <1>1
    <3>5. ClosedUp(kept, s, n + 1)
      BY <3>2, <3>3, <3>4 DEF ClosedUp
    <3>6. QED BY <1>1, <1>7, <1>8, <1>9, <1>10, <2>1, <3>1, <3>5
  <2>2. CASE x # s
    <3>1. post'[p].kept = Append(kept, x)
      BY <1>1, <2>2
    <3>2. x \notin ToSet(kept)
      BY <1>7, <1>9
    <3>3. /\ ToSet(Append(kept, x)) = ToSet(kept) \union {x}
          /\ Len(Append(kept, x)) = Len(kept) + 1
          /\ Append(kept, x)[Len(kept) + 1] = x
          /\ \A i \in 1..Len(kept) : Append(kept, x)[i] = kept[i]
          /\ IsInjective(Append(kept, x))
      BY <1>4, <1>9, <3>2, AppendSet, AppendFacts, AppendStaysInjective
    <3>4. ASSUME s \in Before(p)' PROVE ClosedUp(post'[p].kept, s, n + 1)
      <4>1. s \in Before(p)
        BY <1>8, <2>2, <3>4
      <4>2. /\ Len(kept) = n - 2
            /\ \A i \in 1..(n - 2) :
                  \/ kept[i] = records[i]
                  \/ kept[i] = records[i + 1] /\ s \in {records[k] : k \in 1..i}
        BY <1>9, <4>1 DEF ClosedUp
      <4>3. s \in {records[k] : k \in 1..(n - 1)} /\ (n - 2) + 1 = n - 1
              /\ (n - 1) + 1 = n /\ (n + 1) - 2 = n - 1
        BY <1>1, <4>1 DEF Before, n
      <4>4. /\ Append(kept, x)[n - 1] = records[n]
            /\ \A i \in 1..(n - 2) : Append(kept, x)[i] = kept[i]
        BY <3>3, <4>2, <4>3 DEF x
      <4>5. \A i \in 1..(n - 1) : i \in 1..(n - 2) \/ i = n - 1
        BY <1>1
      <4>6. \A i \in 1..(n - 1) :
               \/ Append(kept, x)[i] = records[i]
               \/ Append(kept, x)[i] = records[i + 1] /\ s \in {records[k] : k \in 1..i}
        <5> SUFFICES ASSUME NEW i \in 1..(n - 1)
                     PROVE  \/ Append(kept, x)[i] = records[i]
                            \/ /\ Append(kept, x)[i] = records[i + 1]
                               /\ s \in {records[k] : k \in 1..i}
          OBVIOUS
        <5>1. CASE i \in 1..(n - 2)
          BY <4>2, <4>4, <5>1
        <5>2. CASE i = n - 1
          BY <4>3, <4>4, <5>2
        <5>3. QED BY <4>5, <5>1, <5>2
      <4>7. Len(Append(kept, x)) = (n + 1) - 2
        BY <3>3, <4>2, <4>3
      <4>8. QED BY <3>1, <4>3, <4>6, <4>7 DEF ClosedUp
    <3>5. s \notin Before(p)' => post'[p].kept = SubSeq(records, 1, n)
      BY <1>8, <1>9, <1>10, <3>1
    <3>6. QED BY <1>8, <1>9, <2>2, <3>1, <3>3, <3>4, <3>5
  <2>3. QED BY <2>1, <2>2
<1>12. FilterInv(p)'
  <2>1. post'[p].next = n + 1 /\ (n + 1) - 1 = n /\ n + 1 <= Len(records) + 1
    BY <1>1, <1>4
  <2>2. \A q \in Filtering' \ {p} : post'[q].session # s /\ ~Reposted(s, posts)
    BY <1>2, <1>5, <1>9
  <2>3. \A l, y, m : ClosedUp(l, y, m)' <=> ClosedUp(l, y, m)
    BY DEF ClosedUp
  <2>4. QED BY <1>1, <1>9, <1>11, <2>1, <2>2, <2>3 DEF FilterInv
<1>13. QED BY <1>2, <1>6, <1>12

(* Without a race a record that is stored only replaces its own.           *)
LEMMA StoreKeepsRecords ==
    ASSUME StoreType, RecordsInv, NEW p \in Posters, StoreRecord(p), ~raced
    PROVE  /\ RecordsInv'
           /\ Len(records') >= Len(records) /\ ToSet(records) \subseteq ToSet(records')
           /\ \/ /\ post[p].session \notin ToSet(records)
                 /\ records' = Append(records, post[p].session)
              \/ /\ post[p].session \in ToSet(records)
                 /\ Len(records') = Len(records) /\ ToSet(records') = ToSet(records)
                 /\ \A i \in 1..(Len(records) - 1) :
                       /\ records'[i] # post[p].session
                       /\ \/ records'[i] = records[i]
                          \/ /\ records'[i] = records[i + 1]
                             /\ post[p].session \in {records[k] : k \in 1..i}
<1> DEFINE n == post[p].next
           s == post[p].session
           kept == post[p].kept
<1>1. /\ post[p].pc = "filtering" /\ n > Len(records)
      /\ kept \in Seq(Sessions) /\ s \in Sessions
      /\ records' = Append(kept, s) /\ Len(records') = Len(kept) + 1
      /\ post'[p] = NoPost
      /\ \A q \in Posters \ {p} : post'[q] = post[q]
  BY StoreMoves
<1>2. UNCHANGED <<posts, raced>> /\ stored' = stored \union {s}
  BY DEF StoreRecord
<1>3. Filtering' = Filtering \ {p} /\ p \in Filtering
  BY <1>1, NoPostType DEF Filtering
<1>4. /\ ToSet(records) \subseteq ToSet(posts) /\ stored \subseteq ToSet(records)
      /\ \A q \in Filtering : FilterInv(q)
  BY DEF RecordsInv
<1>5. n \in Nat /\ Len(records) \in Nat /\ records \in Seq(Sessions) /\ Len(kept) \in Nat
  BY <1>1 DEF StoreType, PostState
<1>6. /\ s \in ToSet(posts) /\ ToSet(kept) = Before(p) \ {s} /\ IsInjective(kept)
      /\ n <= Len(records) + 1
      /\ s \in Before(p) => ClosedUp(kept, s, n)
      /\ s \notin Before(p) => kept = SubSeq(records, 1, n - 1)
      /\ ~Reposted(s, posts) => s \notin ToSet(records)
  BY <1>3, <1>4 DEF FilterInv
<1>7. n = Len(records) + 1 /\ n - 1 = Len(records)
  BY <1>1, <1>5, <1>6
<1>8. Before(p) = ToSet(records)
  BY <1>5, <1>7 DEF Before, ToSet
<1>9. ToSet(records') = ToSet(records) \union {s}
  BY <1>1, <1>6, <1>8, AppendSet
<1>10. IsInjective(records')
  BY <1>1, <1>6, AppendStaysInjective
<1>11. /\ s \notin ToSet(records) => kept = records
       /\ s \in ToSet(records) => Len(kept) = Len(records) - 1
       /\ Len(records') >= Len(records)
  <2>1. SubSeq(records, 1, Len(records)) = records
    BY <1>5, <1>1, PrefixFacts
  <2>2. s \notin ToSet(records) => kept = records
    BY <1>6, <1>7, <1>8, <2>1
  <2>3. s \in ToSet(records) => Len(kept) = Len(records) - 1
    <3>1. s \in ToSet(records) => Len(kept) = n - 2
      BY <1>6, <1>8 DEF ClosedUp
    <3>2. n - 2 = Len(records) - 1
      BY <1>5, <1>7
    <3>3. QED BY <3>1, <3>2
  <2>4. QED BY <1>1, <1>5, <2>2, <2>3
<1>12. ASSUME NEW q \in Filtering \ {p} PROVE FilterInv(q)'
  <2>1. post'[q] = post[q] /\ q \in Posters /\ q \in Filtering
    BY <1>1 DEF Filtering
  <2>2. /\ post[q].session # s /\ ~Reposted(s, posts) /\ ~Reposted(post[q].session, posts)
        /\ post[q].next <= Len(records) + 1
        /\ post[q].session \in ToSet(posts)
        /\ ToSet(post[q].kept) = Before(q) \ {post[q].session}
        /\ IsInjective(post[q].kept)
        /\ post[q].session \notin Before(q)
             => post[q].kept = SubSeq(records, 1, post[q].next - 1)
        /\ post[q].session \notin ToSet(records)
        /\ \A o \in Filtering \ {q} : post[o].session # post[q].session
    <3>1. /\ FilterInv(p) /\ FilterInv(q) /\ p \in Filtering \ {q}
      BY <1>3, <1>4, <2>1
    <3>2. QED BY <3>1 DEF FilterInv
  <2>3. kept = records
    BY <1>6, <1>11, <2>2
  <2>4. records' = Append(records, s) /\ Len(records') = Len(records) + 1
    BY <1>1, <2>3
  <2>5. post[q].next \in Nat \ {0}
    BY <2>1 DEF StoreType, PostState
  <2>6. post[q].next - 1 \in 0..Len(records)
    BY <1>5, <2>2, <2>5
  <2>7. Before(q)' = Before(q)
    <3>1. \A i \in 1..(post[q].next - 1) : records'[i] = records[i]
      BY <1>1, <1>5, <2>4, <2>6, AppendFacts
    <3>2. QED BY <2>1, <3>1 DEF Before
  <2>8. SubSeq(records', 1, post[q].next - 1) = SubSeq(records, 1, post[q].next - 1)
    BY <1>1, <1>5, <2>4, <2>6, PrefixFacts
  <2>9. post[q].session \notin ToSet(records')
    BY <1>9, <2>2
  <2>10. \A o \in Filtering' \ {q} : post'[o].session # post[q].session
    BY <1>1, <1>3, <2>2 DEF Filtering
  <2>11. post[q].next <= Len(records') + 1
    BY <1>5, <2>2, <2>4, <2>5
  <2>12. post[q].session \notin Before(q)
    <3>1. \A i \in 1..(post[q].next - 1) : i \in 1..Len(records)
      BY <1>5, <2>6
    <3>2. Before(q) \subseteq ToSet(records)
      BY <1>5, <3>1 DEF Before, ToSet
    <3>3. QED BY <2>2, <3>2
  <2>13. QED
    BY <1>2, <2>1, <2>2, <2>12, <2>7, <2>8, <2>9, <2>10, <2>11 DEF FilterInv
<1>13. RecordsInv'
  BY <1>2, <1>3, <1>4, <1>6, <1>9, <1>10, <1>12 DEF RecordsInv
<1>14. ASSUME s \in ToSet(records), NEW i \in 1..(Len(records) - 1)
       PROVE  /\ records'[i] # s
              /\ \/ records'[i] = records[i]
                 \/ records'[i] = records[i + 1] /\ s \in {records[k] : k \in 1..i}
  <2>1. i \in 1..Len(kept) /\ i \in 1..(n - 2)
    <3>1. n - 2 = Len(records) - 1
      BY <1>5, <1>7
    <3>2. Len(kept) = Len(records) - 1
      BY <1>11, <1>14
    <3>3. QED BY <1>14, <3>1, <3>2
  <2>2. records'[i] = kept[i]
    BY <1>1, <2>1, AppendFacts
  <2>3. kept[i] \in ToSet(kept)
    BY <1>1, <2>1, AppendFacts DEF ToSet
  <2>4. ClosedUp(kept, s, n) /\ kept[i] # s
    BY <1>6, <1>8, <1>14, <2>3
  <2>5. QED BY <2>1, <2>2, <2>4 DEF ClosedUp
<1>15. CASE s \notin ToSet(records)
  <2>1. records' = Append(records, s)
    BY <1>1, <1>11, <1>15
  <2>2. QED BY <1>9, <1>11, <1>13, <1>15, <2>1
<1>16. CASE s \in ToSet(records)
  <2>1. Len(records') = Len(records) /\ ToSet(records') = ToSet(records)
    BY <1>1, <1>5, <1>9, <1>11, <1>16
  <2>2. QED BY <1>9, <1>11, <1>13, <1>14, <1>16, <2>1
<1>17. QED BY <1>15, <1>16

LEMMA RecordsStutter ==
    ASSUME RecordsInv, UNCHANGED <<records, post, posts, stored, raced>>
    PROVE  RecordsInv'
<1>1. Filtering' = Filtering /\ \A p \in Posters : Before(p)' = Before(p)
  BY DEF Filtering, Before
<1>2. \A p \in Filtering : FilterInv(p)' <=> FilterInv(p)
  BY <1>1 DEF FilterInv, Filtering, ClosedUp
<1>3. QED BY <1>1, <1>2 DEF RecordsInv

(* Without a race a step does not take a record out of the store.          *)
StoreGrows ==
    /\ ~raced
    /\ Len(records') >= Len(records)
    /\ ToSet(records) \subseteq ToSet(records')

LEMMA RecordsNext ==
    StoreType /\ RecordsInv /\ [Next]_vars => RecordsInv' /\ (~raced' => StoreGrows)
<1> SUFFICES ASSUME StoreType, RecordsInv, [Next]_vars
             PROVE  RecordsInv' /\ (~raced' => StoreGrows)
  OBVIOUS
<1>1. Len(records) \in Nat
  BY DEF StoreType
<1>2. ASSUME NEW p \in Posters, NEW session \in Sessions, Receive(p, session)
      PROVE  RecordsInv' /\ (~raced' => ~raced) /\ records' = records
  BY <1>2, ReceiveKeepsRecords DEF Receive
<1>3. ASSUME NEW p \in Posters, FilterOne(p)
      PROVE  RecordsInv' /\ raced' = raced /\ records' = records
  BY <1>3, FilterKeepsRecords DEF FilterOne
<1>4. ASSUME NEW p \in Posters, StoreRecord(p)
      PROVE  RecordsInv' /\ (~raced' => StoreGrows)
  BY <1>4, StoreKeepsRecords DEF StoreRecord, RecordsInv, StoreGrows
<1>5. CASE UNCHANGED <<records, post, posts, stored, raced>>
  BY <1>1, <1>5, RecordsStutter DEF StoreGrows
<1>6. CASE /\ \A p \in Posters : ~Storing(p)
           /\ \A p \in Posters, session \in Sessions : ~Receive(p, session)
  BY <1>5, <1>6, <1>1
  DEF Next, Counting, ReadTotal, CountOne, CountDone, Answered, vars
<1>7. QED BY <1>1, <1>2, <1>3, <1>4, <1>6 DEF Storing, StoreGrows

(* A stored record stays, whatever is posted beside it.                    *)
THEOREM StoredRecordsStay == Spec => []StoredRecordsKept
<1>1. RecordsInv => StoredRecordsKept
  BY DEF RecordsInv, StoredRecordsKept
<1>2. QED BY <1>1, StoreInit, StoreTypeNext, RecordsNext, PTL DEF Spec

(* Every session has one record at most.                                   *)
THEOREM RecordsReplaced == Spec => []OneRecordPerSession
<1>1. RecordsInv => OneRecordPerSession
  BY DEF RecordsInv, OneRecordPerSession
<1>2. QED BY <1>1, StoreInit, StoreTypeNext, RecordsNext, PTL DEF Spec

-----------------------------------------------------------------------------
(* A reader's count of a list that other threads change.                   *)

(* A record that is put in its place keeps what was passed in its order; a *)
(* re-post moves what is behind the old record up by one, so that one more *)
(* is passed uncounted, unless the old record was such a one itself.       *)
LEMMA CountStored ==
    ASSUME StoreType, RecordsInv, ~raced, NEW p \in Posters, StoreRecord(p),
           NEW m \in MetricsState, NEW w \in MetricsState, CountInv(m, records),
           w.pc = m.pc, w.next = m.next, w.total = m.total, w.counted = m.counted,
           w.moved = (IF m.pc = "counting" /\ post[p].session \in ToSet(m.counted)
                      THEN m.moved + 1 ELSE m.moved)
    PROVE  CountInv(w, records')
<1> DEFINE s == post[p].session
           n == m.next
           C == ToSet(m.counted)
           P == Passed(m, records)
           Q == Passed(w, records')
           x == records[n]
<1>1. /\ s \in Sessions /\ records \in Seq(Sessions) /\ Len(records) \in Nat
      /\ records' \in Seq(Sessions) /\ Len(records') \in Nat
      /\ n \in Nat \ {0} /\ m.total \in Nat /\ m.moved \in Nat
  BY StoreMoves DEF StoreType, MetricsState
<1>2. /\ Len(records') >= Len(records) /\ ToSet(records) \subseteq ToSet(records')
      /\ \/ s \notin ToSet(records) /\ records' = Append(records, s)
         \/ /\ s \in ToSet(records)
            /\ Len(records') = Len(records) /\ ToSet(records') = ToSet(records)
            /\ \A i \in 1..(Len(records) - 1) :
                  /\ records'[i] # s
                  /\ \/ records'[i] = records[i]
                     \/ records'[i] = records[i + 1] /\ s \in {records[k] : k \in 1..i}
  BY StoreKeepsRecords
<1>3. m.total <= Len(records) => w.total <= Len(records')
  BY <1>1, <1>2
<1>4. CASE m.pc # "counting"
  BY <1>3, <1>4 DEF CountInv
<1>5. CASE m.pc = "counting"
  <2>1. /\ Len(m.counted) = n - 1 /\ n <= Len(records) + 1 /\ m.total <= Len(records)
        /\ C \subseteq ToSet(records)
        /\ IsFiniteSet(P \ C) /\ Cardinality(P \ C) <= m.moved
    BY <1>5 DEF CountInv
  <2>2. /\ P = {records[i] : i \in 1..(n - 1)} /\ Q = {records'[i] : i \in 1..(n - 1)}
    BY DEF Passed
  <2>3. w.moved \in {m.moved, m.moved + 1} /\ (s \in C => w.moved = m.moved + 1)
    BY <1>5
  <2>4. Cardinality(P \ C) \in Nat
    BY <2>1, FS_CardinalityType
  <2> HIDE DEF C, P, Q
  <2>5. ASSUME Q \subseteq P PROVE IsFiniteSet(Q \ C) /\ Cardinality(Q \ C) <= w.moved
    <3>1. Q \ C \in SUBSET (P \ C)
      BY <2>5
    <3>2. /\ IsFiniteSet(Q \ C) /\ Cardinality(Q \ C) <= Cardinality(P \ C)
          /\ Cardinality(Q \ C) \in Nat
      BY <2>1, <3>1, FS_Subset, FS_CardinalityType
    <3>3. QED BY <1>1, <2>1, <2>3, <2>4, <3>2
  <2>6. ASSUME s \notin ToSet(records)
        PROVE  IsFiniteSet(Q \ C) /\ Cardinality(Q \ C) <= w.moved
    <3>1. \A i \in 1..(n - 1) : i \in 1..Len(records)
      BY <1>1, <2>1
    <3>2. \A i \in 1..(n - 1) : records'[i] = records[i]
      BY <1>1, <1>2, <2>6, <3>1, AppendFacts
    <3>3. QED BY <2>2, <2>5, <3>2
  <2>7. ASSUME s \in ToSet(records), n = Len(records) + 1
        PROVE  IsFiniteSet(Q \ C) /\ Cardinality(Q \ C) <= w.moved
    <3>1. n - 1 = Len(records) /\ Len(records') = Len(records)
      BY <1>1, <1>2, <2>7
    <3>2. P = ToSet(records) /\ Q = ToSet(records')
      BY <1>1, <2>2, <3>1 DEF ToSet
    <3>3. QED BY <1>2, <2>5, <2>7, <3>2
  <2>8. ASSUME s \in ToSet(records), n # Len(records) + 1
        PROVE  IsFiniteSet(Q \ C) /\ Cardinality(Q \ C) <= w.moved
    <3>1. \A i \in 1..(n - 1) :
             i \in 1..(Len(records) - 1) /\ (i + 1 = n \/ i + 1 \in 1..(n - 1))
      BY <1>1, <2>1, <2>8
    <3>2. \A i \in 1..(n - 1) :
             /\ records'[i] # s
             /\ \/ records'[i] = records[i]
                \/ records'[i] = records[i + 1] /\ s \in {records[k] : k \in 1..i}
      BY <1>2, <2>8, <3>1
    <3>3. s \notin Q
      BY <2>2, <3>2
    <3>4. Q \subseteq P \union {x}
      BY <2>2, <3>1, <3>2
    <3> HIDE DEF x
    <3>5. CASE s \in C
      <4>1. Q \ C \in SUBSET ((P \ C) \union {x})
        BY <3>4
      <4>2. /\ IsFiniteSet((P \ C) \union {x})
            /\ Cardinality((P \ C) \union {x}) \in {Cardinality(P \ C), Cardinality(P \ C) + 1}
        BY <2>1, FS_AddElement
      <4>3. /\ IsFiniteSet(Q \ C) /\ Cardinality(Q \ C) \in Nat
            /\ Cardinality(Q \ C) <= Cardinality((P \ C) \union {x})
        BY <4>1, <4>2, FS_Subset, FS_CardinalityType
      <4>4. w.moved = m.moved + 1
        BY <2>3, <3>5
      <4>5. QED BY <1>1, <2>1, <2>4, <4>2, <4>3, <4>4
    <3>6. CASE s \notin C /\ s \in P
      <4>1. s \in P \ C
        BY <3>6
      <4>2. /\ IsFiniteSet((P \ C) \ {s})
            /\ Cardinality((P \ C) \ {s}) = Cardinality(P \ C) - 1
        BY <2>1, <4>1, FS_RemoveElement
      <4>3. /\ IsFiniteSet(((P \ C) \ {s}) \union {x})
            /\ Cardinality(((P \ C) \ {s}) \union {x})
                 \in {Cardinality((P \ C) \ {s}), Cardinality((P \ C) \ {s}) + 1}
        BY <4>2, FS_AddElement
      <4>4. Q \ C \in SUBSET (((P \ C) \ {s}) \union {x})
        BY <3>3, <3>4
      <4>5. /\ IsFiniteSet(Q \ C) /\ Cardinality(Q \ C) \in Nat
            /\ Cardinality(Q \ C) <= Cardinality(((P \ C) \ {s}) \union {x})
        BY <4>3, <4>4, FS_Subset, FS_CardinalityType
      <4>6. QED BY <1>1, <2>1, <2>3, <2>4, <4>2, <4>3, <4>5
    <3>7. CASE s \notin P
      <4>1. \A i \in 1..(n - 1) : s \notin {records[k] : k \in 1..i}
        <5>1. \A i \in 1..(n - 1) : \A k \in 1..i : k \in 1..(n - 1)
          BY <1>1
        <5>2. QED BY <2>2, <3>7, <5>1
      <4>2. \A i \in 1..(n - 1) : records'[i] = records[i]
        BY <3>2, <4>1
      <4>3. QED BY <2>2, <2>5, <4>2
    <3>8. QED BY <3>5, <3>6, <3>7
  <2>9. IsFiniteSet(Q \ C) /\ Cardinality(Q \ C) <= w.moved
    BY <2>6, <2>7, <2>8
  <2>10. n <= Len(records') + 1 /\ C \subseteq ToSet(records')
    BY <1>1, <1>2, <2>1
  <2>11. QED BY <1>3, <1>5, <2>1, <2>9, <2>10 DEF CountInv, C, P, Q
<1>6. QED BY <1>4, <1>5

(* The record a reader counts is the one it passes.                        *)
LEMMA CountPassed ==
    ASSUME StoreType, NEW m \in MetricsState, NEW w \in MetricsState, CountInv(m, records),
           m.pc = "counting", m.next <= Len(records),
           w.pc = m.pc, w.next = m.next + 1, w.total = m.total, w.moved = m.moved,
           w.counted = Append(m.counted, records[m.next])
    PROVE  CountInv(w, records)
<1> DEFINE n == m.next
           x == records[n]
           C == ToSet(m.counted)
           P == Passed(m, records)
<1>1. /\ records \in Seq(Sessions) /\ Len(records) \in Nat /\ n \in 1..Len(records)
      /\ m.counted \in Seq(Sessions) /\ m.moved \in Nat
  BY DEF StoreType, MetricsState
<1>2. x \in Sessions /\ x \in ToSet(records)
  BY <1>1, AppendFacts DEF ToSet
<1>3. /\ Len(m.counted) = n - 1 /\ m.total <= Len(records) /\ C \subseteq ToSet(records)
      /\ IsFiniteSet(P \ C) /\ Cardinality(P \ C) <= m.moved
  BY DEF CountInv
<1>4. ToSet(w.counted) = C \union {x} /\ Len(w.counted) = Len(m.counted) + 1
  BY <1>1, <1>2, AppendSet, AppendFacts
<1>5. Passed(w, records) = P \union {x}
  <2>1. 1..(w.next - 1) = 1..(n - 1) \union {n}
    BY <1>1
  <2>2. QED BY <2>1 DEF Passed
<1>6. Passed(w, records) \ ToSet(w.counted) \in SUBSET (P \ C)
  BY <1>4, <1>5
<1>7. /\ IsFiniteSet(Passed(w, records) \ ToSet(w.counted))
      /\ Cardinality(Passed(w, records) \ ToSet(w.counted)) <= w.moved
  <2>1. /\ IsFiniteSet(Passed(w, records) \ ToSet(w.counted))
        /\ Cardinality(Passed(w, records) \ ToSet(w.counted)) \in Nat
        /\ Cardinality(P \ C) \in Nat
        /\ Cardinality(Passed(w, records) \ ToSet(w.counted)) <= Cardinality(P \ C)
    BY <1>3, <1>6, FS_Subset, FS_CardinalityType
  <2>2. QED BY <1>1, <1>3, <2>1
<1>8. Len(w.counted) = w.next - 1 /\ w.next <= Len(records) + 1
  BY <1>1, <1>3, <1>4
<1>9. ToSet(w.counted) \subseteq ToSet(records)
  BY <1>2, <1>3, <1>4
<1>10. QED BY <1>3, <1>7, <1>8, <1>9 DEF CountInv

LEMMA MetricsNext ==
    /\ StoreType /\ MetricsType /\ RecordsInv /\ MetricsInv /\ [Next]_vars
    => MetricsInv'
<1> SUFFICES ASSUME StoreType, MetricsType, RecordsInv, MetricsInv, [Next]_vars, ~raced'
             PROVE  \A r \in Readers : CountInv(metrics'[r], records')
  BY DEF MetricsInv
<1>1. /\ ~raced /\ \A r \in Readers : CountInv(metrics[r], records)
  BY RecordsNext DEF MetricsInv, StoreGrows
<1>2. /\ \A r \in Readers : metrics[r] \in MetricsState
      /\ metrics \in [Readers -> MetricsState]
      /\ metrics' \in [Readers -> MetricsState]
  BY MetricsTypeNext DEF MetricsType
<1>3. CASE UNCHANGED <<metrics, records>>
  BY <1>1, <1>3
<1>4. ASSUME NEW p \in Posters, StoreRecord(p)
      PROVE  \A r \in Readers : CountInv(metrics'[r], records')
  <2> TAKE r \in Readers
  <2> DEFINE m == metrics[r]
             w == metrics'[r]
  <2>1. metrics' = Moved(post[p].session)
    BY <1>4 DEF StoreRecord
  <2>2. /\ w.pc = m.pc /\ w.next = m.next /\ w.total = m.total /\ w.counted = m.counted
        /\ w.moved = (IF m.pc = "counting" /\ post[p].session \in ToSet(m.counted)
                      THEN m.moved + 1 ELSE m.moved)
    BY <2>1, MovedType
  <2>3. m \in MetricsState /\ w \in MetricsState /\ CountInv(m, records)
    BY <1>1, <1>2
  <2> HIDE DEF m, w
  <2>4. CountInv(w, records')
    BY <1>1, <1>4, <2>2, <2>3, CountStored
  <2>5. QED BY <2>4 DEF w
<1>5. ASSUME NEW r \in Readers, Counting(r)
      PROVE  \A q \in Readers : CountInv(metrics'[q], records')
  <2>1. /\ records' = records
        /\ \A q \in Readers \ {r} : metrics'[q] = metrics[q]
    BY <1>2, <1>5 DEF Counting, ReadTotal, CountOne, CountDone
  <2> DEFINE m == metrics[r]
             w == metrics'[r]
  <2>2. m \in MetricsState /\ w \in MetricsState /\ CountInv(m, records)
    BY <1>1, <1>2
  <2>3. CountInv(w, records)
    <3>1. CASE ReadTotal(r)
      <4>1. /\ w.total = Len(records) /\ w.next = 1 /\ w.counted = <<>> /\ w.moved = 0
            /\ w.pc \in {"counting", "answered"}
        <5>1. m = NoMetrics
          BY <3>1 DEF ReadTotal, MetricsType
        <5>2. m.next = 1 /\ m.counted = <<>> /\ m.moved = 0
          BY <5>1 DEF NoMetrics
        <5>3. QED BY <1>2, <3>1, <5>2 DEF ReadTotal, MetricsState
      <4>2. ToSet(<<>>) = {} /\ Len(<<>>) = 0 /\ Len(records) \in Nat
        BY DEF ToSet, StoreType
      <4>3. Passed(w, records) = {}
        BY <4>1 DEF Passed
      <4> HIDE DEF w
      <4>4. Passed(w, records) \ ToSet(w.counted) = {}
        BY <4>3
      <4>5. /\ IsFiniteSet(Passed(w, records) \ ToSet(w.counted))
            /\ Cardinality(Passed(w, records) \ ToSet(w.counted)) <= w.moved
        <5>1. IsFiniteSet({}) /\ Cardinality({}) = 0 /\ 0 <= 0
          BY FS_EmptySet
        <5>2. QED BY <4>1, <4>4, <5>1
      <4>6. /\ Len(w.counted) = w.next - 1 /\ w.next <= Len(records) + 1
            /\ w.total <= Len(records) /\ ToSet(w.counted) \subseteq ToSet(records)
        BY <4>1, <4>2
      <4>7. QED BY <4>5, <4>6 DEF CountInv
    <3>2. CASE CountOne(r)
      <4>1. /\ w.pc = m.pc /\ w.total = m.total /\ w.moved = m.moved
            /\ w.next = m.next + 1 /\ w.counted = Append(m.counted, records[m.next])
            /\ m.pc = "counting" /\ m.next <= Len(records)
        BY <1>2, <3>2 DEF CountOne, MetricsState
      <4> HIDE DEF m, w
      <4>2. QED BY <2>2, <4>1, CountPassed
    <3>3. CASE CountDone(r)
      <4>1. w.pc = "answered" /\ w.total = m.total /\ m.pc = "counting"
        BY <1>2, <3>3 DEF CountDone, MetricsState
      <4>2. QED BY <2>2, <4>1 DEF CountInv
    <3>4. QED BY <1>5, <3>1, <3>2, <3>3 DEF Counting
  <2>4. QED BY <1>1, <2>1, <2>3
<1>6. ASSUME NEW r \in Readers, Answered(r)
      PROVE  \A q \in Readers : CountInv(metrics'[q], records')
  <2>1. /\ metrics'[r] = NoMetrics /\ records' = records
        /\ \A q \in Readers \ {r} : metrics'[q] = metrics[q]
    BY <1>2, <1>6 DEF Answered
  <2>2. QED BY <1>1, <2>1, NoMetricsCounts
<1>7. QED
  BY <1>3, <1>4, <1>5, <1>6 DEF Next, Storing, Receive, FilterOne, vars

(* The step on which a count ends.                                         *)
CountedWell ==
    \A r \in Readers :
        metrics[r].pc = "counting" /\ metrics'[r].pc = "answered" /\ ~raced =>
            /\ metrics[r].total <= Len(records)
            /\ Len(metrics[r].counted) = Len(records)
            /\ ToSet(metrics[r].counted) \subseteq ToSet(records)
            /\ Cardinality(Missed(r)) <= metrics[r].moved

LEMMA CountEnds ==
    StoreType /\ MetricsType /\ MetricsInv /\ [Next]_vars => CountedWell
<1> SUFFICES ASSUME StoreType, MetricsType, MetricsInv, [Next]_vars, ~raced,
                    NEW r \in Readers, metrics[r].pc = "counting", metrics'[r].pc = "answered"
             PROVE  /\ metrics[r].total <= Len(records)
                    /\ Len(metrics[r].counted) = Len(records)
                    /\ ToSet(metrics[r].counted) \subseteq ToSet(records)
                    /\ Cardinality(Missed(r)) <= metrics[r].moved
  BY DEF CountedWell
<1>1. metrics[r] \in MetricsState /\ metrics \in [Readers -> MetricsState]
  BY DEF MetricsType
<1>2. CountDone(r)
  <2>1. \A p \in Posters : StoreRecord(p) => metrics'[r].pc = "counting"
    BY MovedType DEF StoreRecord
  <2>2. \A q \in Readers : Counting(q) /\ ~CountDone(r) => metrics'[r].pc # "answered"
    BY <1>1 DEF Counting, ReadTotal, CountOne, CountDone, MetricsState
  <2>3. \A q \in Readers : Answered(q) => metrics'[r].pc # "answered"
    BY <1>1, NoMetricsType DEF Answered
  <2>4. QED BY <2>1, <2>2, <2>3 DEF Next, Storing, Receive, FilterOne, vars
<1>3. CountInv(metrics[r], records)
  BY DEF MetricsInv
<1>4. /\ Len(metrics[r].counted) = metrics[r].next - 1
      /\ metrics[r].next <= Len(records) + 1 /\ metrics[r].total <= Len(records)
      /\ ToSet(metrics[r].counted) \subseteq ToSet(records)
      /\ Cardinality(Passed(metrics[r], records) \ ToSet(metrics[r].counted))
           <= metrics[r].moved
  BY <1>3 DEF CountInv
<1>5. metrics[r].next - 1 = Len(records)
  BY <1>1, <1>2, <1>4 DEF CountDone, MetricsState, StoreType
<1>6. Passed(metrics[r], records) = ToSet(records)
  BY <1>5 DEF Passed, ToSet, StoreType
<1>7. QED BY <1>4, <1>5, <1>6 DEF Missed

(* When an answer is given, every stored record has been counted for it    *)
(* once, but for one slipped past and one doubled for each counted record  *)
(* that was posted again meanwhile - on any number of threads.             *)
THEOREM CountsAlwaysCover == Spec => CountsCoverTotal
<1>1. StoreType /\ MetricsType /\ MetricsInv /\ [Next]_vars => [CountedWell]_vars
  BY CountEnds
<1>2. QED
  BY <1>1, StoreInit, StoreTypeNext, MetricsTypeNext, RecordsNext, MetricsNext, PTL
  DEF Spec, CountsCoverTotal, CountedWell

-----------------------------------------------------------------------------
(* The supervisor view.  The store's invariants hold under it too: a       *)
(* request that is given up is dropped, and a restart empties everything.  *)

StoreInv == StoreType /\ MetricsType /\ RecordsInv /\ MetricsInv

LoadState == [pc : {"idle", "loading", "listed"}, calls : Seq(Sessions)]

ViewType ==
    /\ load \in [Readers -> LoadState]
    /\ restarts \in Nat

(* A load asks for the metrics, and without overtaking there is only one.  *)
LoadsInv ==
    /\ \A r \in Readers : load[r].pc = "idle" => metrics[r] = NoMetrics
    /\ ~overtaken =>
         \A r, q \in Readers : load[r].pc # "idle" /\ load[q].pc # "idle" => r = q

(* What is shown is behind what a load in flight has got - unless a full   *)
(* list has no room for it - and that is behind the store.                 *)
ViewInv ==
    ~overtaken /\ ~raced /\ restarts = 0 =>
        /\ shown.total \in Nat /\ shown.total <= Len(records)
        /\ ToSet(shown.calls) \subseteq ToSet(records)
        /\ \A r \in Readers :
              /\ metrics[r].pc # "free" => shown.total <= metrics[r].total
              /\ load[r].pc = "listed" =>
                    /\ ToSet(load[r].calls) \subseteq ToSet(records)
                    /\ \/ ToSet(shown.calls) \subseteq ToSet(load[r].calls)
                       \/ Len(load[r].calls) = Limit

LEMMA IdleType == Idle \in LoadState /\ Idle.pc = "idle"
<1>1. <<>> \in Seq(Sessions)
  OBVIOUS
<1>2. QED BY <1>1 DEF Idle, LoadState

(* The newest records: all of them, or as many as the list holds.          *)
LEMMA ListedFacts ==
    ASSUME StoreType
    PROVE  /\ Listed \in Seq(Sessions) /\ ToSet(Listed) \subseteq ToSet(records)
           /\ Listed = records \/ Len(Listed) = Limit
<1> DEFINE n == Len(records) - Limit
           newest == SubSeq(records, n + 1, Len(records))
<1>1. Limit \in Nat /\ records \in Seq(Sessions) /\ Len(records) \in Nat
  BY DashboardAssumption DEF StoreType
<1>2. CASE Len(records) <= Limit
  BY <1>1, <1>2 DEF Listed
<1>3. CASE ~(Len(records) <= Limit)
  <2>1. Listed = newest /\ n \in Nat /\ n + Limit = Len(records)
    BY <1>1, <1>3 DEF Listed
  <2>2. /\ newest \in Seq(Sessions) /\ Len(newest) = Limit
        /\ \A i \in 1..Limit : newest[i] = records[n + i] /\ n + i \in 1..Len(records)
    BY <1>1, <2>1
  <2> HIDE DEF newest, n
  <2>3. ToSet(newest) \subseteq ToSet(records)
    BY <1>1, <2>2, AppendFacts DEF ToSet
  <2>4. QED BY <2>1, <2>2, <2>3
<1>4. QED BY <1>2, <1>3

(* What a step of the view or of the store under it does to the store.     *)
LEMMA DashSteps ==
    ASSUME StoreType, MetricsType, [DashNext]_dashVars
    PROVE  \/ [Next]_vars /\ UNCHANGED restarts
           \/ /\ UNCHANGED <<records, post, posts, stored, raced, restarts>>
              /\ metrics' \in [Readers -> MetricsState]
              /\ \A r \in Readers : metrics'[r] \in {metrics[r], NoMetrics}
           \/ Restart
<1>1. metrics \in [Readers -> MetricsState]
  BY DEF MetricsType
<1>2. CASE \E p \in Posters :
             (Storing(p) \/ \E session \in Sessions : Receive(p, session)) /\ UNCHANGED view
  BY <1>2 DEF Next, view
<1>3. CASE \E r \in Readers : Mount(r) \/ Tick(r) \/ ListCalls(r)
  BY <1>3 DEF Mount, Tick, ListCalls
<1>4. CASE \E r \in Readers : CountMetrics(r)
  BY <1>4 DEF CountMetrics, Next, view
<1>5. CASE \E r \in Readers : Show(r) \/ LoadFails(r)
  <2>1. UNCHANGED restarts /\ \E r \in Readers : Drop(r)
    BY <1>5 DEF Show, LoadFails
  <2>2. QED BY <1>1, <2>1, NoMetricsType DEF Drop
<1>6. CASE Unmount
  BY <1>6, NoMetricsType DEF Unmount
<1>7. CASE UNCHANGED dashVars
  BY <1>7 DEF dashVars, view
<1>8. QED
  BY <1>2, <1>3, <1>4, <1>5, <1>6, <1>7 DEF DashNext, Loading

LEMMA StoreInvNext == StoreInv /\ [DashNext]_dashVars => StoreInv'
<1> SUFFICES ASSUME StoreInv, [DashNext]_dashVars PROVE StoreInv'
  OBVIOUS
<1>1. StoreType /\ MetricsType /\ RecordsInv /\ MetricsInv
  BY DEF StoreInv
<1>2. CASE [Next]_vars
  BY <1>1, <1>2, StoreTypeNext, MetricsTypeNext, RecordsNext, MetricsNext DEF StoreInv
<1>3. CASE /\ UNCHANGED <<records, post, posts, stored, raced>>
           /\ metrics' \in [Readers -> MetricsState]
           /\ \A r \in Readers : metrics'[r] \in {metrics[r], NoMetrics}
  <2>1. StoreType'
    BY <1>1, <1>3 DEF StoreType
  <2>2. MetricsType'
    BY <1>1, <1>3 DEF MetricsType
  <2>3. RecordsInv'
    <3>1. UNCHANGED <<records, post, posts, stored, raced>>
      BY <1>3
    <3>2. QED BY <1>1, <3>1, RecordsStutter
  <2>4. MetricsInv'
    BY <1>1, <1>3, NoMetricsCounts DEF MetricsInv
  <2>5. QED BY <2>1, <2>2, <2>3, <2>4 DEF StoreInv
<1>4. CASE Restart
  <2>1. /\ records' = <<>> /\ stored' = {} /\ UNCHANGED <<posts, raced>>
        /\ post' = [p \in Posters |-> NoPost] /\ metrics' = [r \in Readers |-> NoMetrics]
    BY <1>4 DEF Restart
  <2>2. <<>> \in Seq(Sessions) /\ Len(<<>>) = 0 /\ DOMAIN <<>> = {}
    OBVIOUS
  <2>3. Filtering' = {}
    BY <2>1, NoPostType DEF Filtering
  <2>4. StoreType'
    BY <1>1, <2>1, <2>2, NoPostType DEF StoreType
  <2>5. MetricsType' /\ MetricsInv'
    BY <2>1, NoMetricsType, NoMetricsCounts DEF MetricsType, MetricsInv
  <2>6. RecordsInv'
    BY <2>1, <2>2, <2>3 DEF RecordsInv, ToSet, IsInjective
  <2>7. QED BY <2>4, <2>5, <2>6 DEF StoreInv
<1>5. QED BY <1>1, <1>2, <1>3, <1>4, DashSteps

LEMMA ViewTypeNext ==
    StoreInv /\ ViewType /\ LoadsInv /\ [DashNext]_dashVars => ViewType' /\ LoadsInv'
<1> SUFFICES ASSUME StoreInv, ViewType, LoadsInv, [DashNext]_dashVars
             PROVE  ViewType' /\ LoadsInv'
  OBVIOUS
<1>t. /\ StoreType /\ metrics \in [Readers -> MetricsState]
      /\ load \in [Readers -> LoadState] /\ restarts \in Nat
  BY DEF StoreInv, MetricsType, ViewType
<1>1. CASE /\ UNCHANGED <<load, metrics, restarts, overtaken>>
  BY <1>1 DEF ViewType, LoadsInv
<1>2. ASSUME NEW r \in Readers, BeginLoad(r), UNCHANGED <<metrics, restarts>>
      PROVE  ViewType' /\ LoadsInv'
  <2>1. load[r] \in LoadState /\ load[r].pc = "idle"
    BY <1>2, <1>t DEF BeginLoad
  <2>2. [load[r] EXCEPT !.pc = "loading"] \in LoadState
    BY <2>1 DEF LoadState
  <2>3. load' \in [Readers -> LoadState] /\ load'[r].pc = "loading"
          /\ \A q \in Readers \ {r} : load'[q] = load[q]
    BY <1>2, <1>t, <2>1, <2>2 DEF BeginLoad, LoadState
  <2>4. ~overtaken' => ~overtaken /\ \A q \in Readers : load[q].pc = "idle"
    BY <1>2 DEF BeginLoad, InFlight
  <2>5. QED BY <1>2, <1>t, <2>3, <2>4 DEF ViewType, LoadsInv
<1>3. ASSUME NEW r \in Readers, Drop(r), UNCHANGED <<restarts, overtaken>>
      PROVE  ViewType' /\ LoadsInv'
  <2>1. /\ load' \in [Readers -> LoadState] /\ load'[r] = Idle /\ metrics'[r] = NoMetrics
        /\ \A q \in Readers \ {r} : load'[q] = load[q] /\ metrics'[q] = metrics[q]
    BY <1>3, <1>t, IdleType DEF Drop
  <2>2. QED BY <1>3, <1>t, <2>1, IdleType DEF ViewType, LoadsInv
<1>4. ASSUME NEW r \in Readers, ListCalls(r) PROVE ViewType' /\ LoadsInv'
  <2>1. [pc |-> "listed", calls |-> Listed] \in LoadState
    BY <1>t, ListedFacts DEF LoadState
  <2>2. load' \in [Readers -> LoadState] /\ load'[r].pc = "listed" /\ load[r].pc # "idle"
          /\ \A q \in Readers \ {r} : load'[q] = load[q]
    BY <1>4, <1>t, <2>1 DEF ListCalls
  <2>3. UNCHANGED <<metrics, restarts, overtaken>>
    BY <1>4 DEF ListCalls, vars
  <2>4. QED BY <1>t, <2>2, <2>3 DEF ViewType, LoadsInv
<1>5. ASSUME NEW r \in Readers, CountMetrics(r) PROVE ViewType' /\ LoadsInv'
  <2>1. /\ load[r].pc # "idle" /\ UNCHANGED <<load, restarts, overtaken>>
        /\ \A q \in Readers \ {r} : metrics'[q] = metrics[q]
    BY <1>5, <1>t DEF CountMetrics, view, Counting, ReadTotal, CountOne, CountDone
  <2>2. QED BY <1>t, <2>1 DEF ViewType, LoadsInv
<1>6. CASE Unmount \/ Restart
  <2>1. /\ load' = [r \in Readers |-> Idle] /\ metrics' = [r \in Readers |-> NoMetrics]
        /\ restarts' \in Nat
    BY <1>6, <1>t DEF Unmount, Restart
  <2>2. QED BY <2>1, IdleType DEF ViewType, LoadsInv
<1>7. QED
  <2>1. CASE \E p \in Posters :
               (Storing(p) \/ \E session \in Sessions : Receive(p, session)) /\ UNCHANGED view
    <3>1. load' = load /\ UNCHANGED <<restarts, overtaken>>
      BY <2>1 DEF view
    <3>2. metrics' \in [Readers -> MetricsState]
            /\ \A r \in Readers : metrics[r] = NoMetrics => metrics'[r] = NoMetrics
      BY <1>t, <2>1, MovedType, NoMetricsType
      DEF Storing, FilterOne, StoreRecord, Receive, StoreInv
    <3>3. QED BY <1>t, <3>1, <3>2 DEF ViewType, LoadsInv
  <2>2. CASE \E r \in Readers : Mount(r) \/ Tick(r)
    BY <1>2, <2>2 DEF Mount, Tick, vars
  <2>3. CASE \E r \in Readers : Show(r) \/ LoadFails(r)
    BY <1>3, <2>3 DEF Show, LoadFails
  <2>4. CASE UNCHANGED dashVars
    BY <1>1, <2>4 DEF dashVars, view, vars
  <2>5. QED
    BY <1>4, <1>5, <1>6, <2>1, <2>2, <2>3, <2>4 DEF DashNext, Loading

(* A load in flight is ahead of what is shown and behind the store.        *)
LEMMA ViewInvNext ==
    /\ StoreInv /\ ViewType /\ LoadsInv /\ ViewInv /\ [DashNext]_dashVars
    => ViewInv'
<1> SUFFICES ASSUME StoreInv, ViewType, LoadsInv, ViewInv, [DashNext]_dashVars,
                    ~overtaken', ~raced', restarts' = 0
             PROVE  ViewInv'
  BY DEF ViewInv
<1>t. /\ StoreType /\ MetricsType /\ metrics \in [Readers -> MetricsState]
      /\ load \in [Readers -> LoadState] /\ restarts \in Nat
      /\ Len(records) \in Nat
  BY DEF StoreInv, MetricsType, ViewType, StoreType
<1>1. ~Restart
  BY <1>t DEF Restart
<1>2. /\ restarts = 0 /\ ~raced
      /\ Len(records') \in Nat /\ Len(records') >= Len(records)
      /\ ToSet(records) \subseteq ToSet(records')
  <2>1. ASSUME [Next]_vars, UNCHANGED restarts
        PROVE  restarts = 0 /\ StoreGrows /\ Len(records') \in Nat
    BY <2>1, StoreTypeNext, RecordsNext DEF StoreInv, StoreType
  <2>2. CASE UNCHANGED <<records, raced, restarts>>
    BY <2>2, <1>t
  <2>3. QED BY <1>t, <1>1, <2>1, <2>2, DashSteps DEF StoreGrows
<1>3. ~overtaken
  BY DEF DashNext, Mount, Tick, BeginLoad, Loading, ListCalls, CountMetrics, Show, LoadFails,
         Unmount, Restart, view, dashVars
<1>4. /\ shown.total \in Nat /\ shown.total <= Len(records)
      /\ ToSet(shown.calls) \subseteq ToSet(records)
      /\ \A r \in Readers :
            /\ metrics[r].pc # "free" => shown.total <= metrics[r].total
            /\ load[r].pc = "listed" =>
                  /\ ToSet(load[r].calls) \subseteq ToSet(records)
                  /\ \/ ToSet(shown.calls) \subseteq ToSet(load[r].calls)
                     \/ Len(load[r].calls) = Limit
  BY <1>2, <1>3 DEF ViewInv
<1>6. \A r \in Readers : load[r] \in LoadState /\ metrics[r] \in MetricsState
                           /\ metrics[r].total \in Nat
  BY <1>t DEF LoadState, MetricsState
<1>7. /\ shown.total <= Len(records') /\ ToSet(shown.calls) \subseteq ToSet(records')
      /\ \A r \in Readers : load[r].pc = "listed" =>
            ToSet(load[r].calls) \subseteq ToSet(records')
  BY <1>2, <1>4, <1>t
<1>8. ASSUME shown' = shown,
             \A r \in Readers :
                 /\ load'[r] \in {load[r], Idle} \/ load'[r].pc = "loading"
                 /\ \/ metrics'[r] = NoMetrics
                    \/ metrics'[r].pc = metrics[r].pc /\ metrics'[r].total = metrics[r].total
      PROVE  ViewInv'
  BY <1>4, <1>7, <1>8, NoMetricsType, IdleType DEF ViewInv
<1>9. CASE /\ UNCHANGED <<load, metrics, shown>>
  BY <1>8, <1>9
<1>10. ASSUME NEW r \in Readers, BeginLoad(r), UNCHANGED <<metrics, shown>> PROVE ViewInv'
  <2>1. \A q \in Readers : load'[q] = load[q] \/ load'[q].pc = "loading"
    BY <1>10, <1>6, <1>t DEF BeginLoad, LoadState
  <2>2. QED BY <1>8, <1>10, <2>1
<1>11. ASSUME NEW r \in Readers, ListCalls(r) PROVE ViewInv'
  <2>1. /\ load'[r].calls = Listed /\ \A q \in Readers \ {r} : load'[q] = load[q]
        /\ UNCHANGED <<records, metrics, shown>>
    BY <1>11, <1>t DEF ListCalls, vars
  <2>2. /\ ToSet(load'[r].calls) \subseteq ToSet(records')
        /\ \/ ToSet(shown'.calls) \subseteq ToSet(load'[r].calls)
           \/ Len(load'[r].calls) = Limit
    BY <1>t, <1>4, <2>1, ListedFacts
  <2>3. QED BY <1>4, <1>7, <2>1, <2>2 DEF ViewInv
<1>12. ASSUME NEW r \in Readers, CountMetrics(r) PROVE ViewInv'
  <2>1. /\ \A q \in Readers \ {r} : metrics'[q] = metrics[q]
        /\ metrics'[r].total \in {metrics[r].total, Len(records)}
        /\ metrics[r].pc = "free" => metrics'[r].total = Len(records)
        /\ UNCHANGED <<records, load, shown>>
    BY <1>12, <1>6, <1>t
    DEF CountMetrics, Counting, ReadTotal, CountOne, CountDone, view, MetricsState
  <2>2. shown.total <= metrics'[r].total
    BY <1>4, <2>1
  <2>3. QED BY <1>4, <1>7, <2>1, <2>2 DEF ViewInv
<1>13. ASSUME NEW r \in Readers, Show(r) PROVE ViewInv'
  <2>1. /\ load[r].pc = "listed" /\ metrics[r].pc = "answered"
        /\ shown' = [total |-> metrics[r].total, calls |-> load[r].calls]
        /\ records' = records
        /\ load'[r] = Idle /\ metrics'[r] = NoMetrics
        /\ \A q \in Readers \ {r} : load'[q] = load[q] /\ metrics'[q] = metrics[q]
    BY <1>13, <1>t DEF Show, Drop
  <2>2. \A q \in Readers \ {r} : load[q].pc = "idle" /\ metrics[q] = NoMetrics
    BY <1>3, <2>1 DEF LoadsInv
  <2>3. \A q \in Readers : load'[q].pc = "idle" /\ metrics'[q].pc = "free"
    BY <2>1, <2>2, IdleType, NoMetricsType
  <2>4. metrics[r].total \in Nat /\ metrics[r].total <= Len(records)
    <3>1. CountInv(metrics[r], records)
      BY <1>2, <2>1 DEF StoreInv, MetricsInv
    <3>2. QED BY <1>6, <2>1, <3>1 DEF CountInv
  <2>5. ToSet(load[r].calls) \subseteq ToSet(records)
    BY <1>4, <2>1
  <2>6. QED BY <2>1, <2>3, <2>4, <2>5 DEF ViewInv
<1>14. ASSUME NEW r \in Readers, LoadFails(r) PROVE ViewInv'
  <2>1. shown' = shown /\ Drop(r)
    BY <1>14 DEF LoadFails
  <2>2. \A q \in Readers : load'[q] \in {load[q], Idle} /\ metrics'[q] \in {metrics[q], NoMetrics}
    BY <1>t, <2>1 DEF Drop
  <2>3. QED BY <1>8, <2>1, <2>2
<1>15. CASE Unmount
  <2>1. /\ shown' = Nothing /\ records' = records
        /\ \A r \in Readers : load'[r] = Idle /\ metrics'[r] = NoMetrics
    BY <1>15 DEF Unmount
  <2>2. Nothing.total = 0 /\ ToSet(Nothing.calls) = {}
    BY DEF Nothing, ToSet
  <2>3. QED BY <1>t, <2>1, <2>2, IdleType, NoMetricsType DEF ViewInv
<1>16. QED
  <2>1. CASE \E p \in Posters :
               (Storing(p) \/ \E session \in Sessions : Receive(p, session)) /\ UNCHANGED view
    <3>1. shown' = shown /\ load' = load
      BY <2>1 DEF view
    <3>2. \A r \in Readers : metrics'[r].pc = metrics[r].pc /\ metrics'[r].total = metrics[r].total
      BY <1>t, <2>1, MovedType DEF Storing, FilterOne, StoreRecord, Receive
    <3>3. QED BY <1>8, <3>1, <3>2
  <2>2. CASE \E r \in Readers : Mount(r) \/ Tick(r)
    BY <1>10, <2>2 DEF Mount, Tick, vars
  <2>3. CASE UNCHANGED dashVars
    BY <1>9, <2>3 DEF dashVars, view, vars
  <2>4. QED
    BY <1>1, <1>11, <1>12, <1>13, <1>14, <1>15, <2>1, <2>2, <2>3 DEF DashNext, Loading

DashInv == StoreInv /\ ViewType /\ LoadsInv /\ ViewInv

LEMMA DashInvNext == DashInv /\ [DashNext]_dashVars => DashInv'
BY StoreInvNext, ViewTypeNext, ViewInvNext DEF DashInv

LEMMA DashInvInit == DashInit => DashInv
<1> SUFFICES ASSUME DashInit PROVE DashInv
  OBVIOUS
<1>1. StoreInv
  BY StoreInit DEF DashInit, StoreInv
<1>2. load = [r \in Readers |-> Idle] /\ metrics = [r \in Readers |-> NoMetrics] /\ restarts = 0
  BY DEF DashInit, Init
<1>3. ViewType /\ LoadsInv
  BY <1>2, IdleType DEF ViewType, LoadsInv
<1>4. records = <<>> /\ Len(<<>>) = 0 /\ shown.total = 0 /\ ToSet(shown.calls) = {}
  BY DEF DashInit, Init, Nothing, ToSet
<1>5. ViewInv
  BY <1>2, <1>4, IdleType, NoMetricsType DEF ViewInv
<1>6. QED BY <1>1, <1>3, <1>5 DEF DashInv

(* With loads that overlap and are given up, and restarts between posts,   *)
(* the store still keeps what it was given since the last restart, once,   *)
(* and counts it for its answers.                                          *)
THEOREM StoreKeptUnderView ==
    DashSpec => [](StoredRecordsKept /\ OneRecordPerSession) /\ CountsCoverTotal
<1>1. DashInv => StoredRecordsKept /\ OneRecordPerSession
  BY DEF DashInv, StoreInv, RecordsInv, StoredRecordsKept, OneRecordPerSession
<1>2. DashInv /\ [DashNext]_dashVars => [CountedWell]_vars
  <2> SUFFICES ASSUME DashInv, [DashNext]_dashVars PROVE [CountedWell]_vars
    OBVIOUS
  <2>1. StoreType /\ MetricsType /\ MetricsInv
    BY DEF DashInv, StoreInv
  <2>2. ASSUME [Next]_vars PROVE CountedWell
    BY <2>1, <2>2, CountEnds
  <2>3. CASE Restart
    BY <2>3, NoMetricsType DEF Restart, CountedWell
  <2>4. CASE \A r \in Readers : metrics'[r] \in {metrics[r], NoMetrics}
    BY <2>4, NoMetricsType DEF CountedWell
  <2>5. QED BY <2>1, <2>2, <2>3, <2>4, DashSteps
<1>3. QED
  BY <1>1, <1>2, DashInvInit, DashInvNext, PTL DEF DashSpec, CountsCoverTotal, CountedWell

(* What the view shows goes forward, although posts and loads interleave,  *)
(* for a list of any length, unless a load outlived the next, the view was *)
(* left, or the store lost records.                                        *)
THEOREM ViewStepsForward == DashSpec => ShownStepsForward
<1> DEFINE Forward == ~overtaken' /\ ~raced' /\ mounted' /\ restarts' = 0 =>
                         /\ shown'.total >= shown.total
                         /\ \/ ToSet(shown.calls) \subseteq ToSet(shown'.calls)
                            \/ Len(shown'.calls) = Limit
<1>1. DashInv /\ [DashNext]_dashVars => Forward
  <2> SUFFICES ASSUME DashInv, [DashNext]_dashVars,
                      ~overtaken', ~raced', mounted', restarts' = 0
               PROVE  /\ shown'.total >= shown.total
                      /\ \/ ToSet(shown.calls) \subseteq ToSet(shown'.calls)
                         \/ Len(shown'.calls) = Limit
    OBVIOUS
  <2>1. CASE \E r \in Readers : Show(r)
    <3>1. PICK r \in Readers : Show(r)
      BY <2>1
    <3>2. /\ load[r].pc = "listed" /\ metrics[r].pc = "answered"
          /\ shown' = [total |-> metrics[r].total, calls |-> load[r].calls]
          /\ UNCHANGED <<overtaken, raced, restarts>>
      BY <3>1 DEF Show, Drop
    <3>3. /\ shown.total <= metrics[r].total /\ shown.total \in Nat
          /\ \/ ToSet(shown.calls) \subseteq ToSet(load[r].calls)
             \/ Len(load[r].calls) = Limit
      BY <3>2 DEF DashInv, ViewInv
    <3>4. metrics[r].total \in Nat
      BY DEF DashInv, StoreInv, MetricsType, MetricsState
    <3>5. QED BY <3>2, <3>3, <3>4
  <2>2. CASE shown' = shown
    <3>1. restarts \in Nat /\ StoreType /\ MetricsType /\ RecordsInv
      BY DEF DashInv, StoreInv, ViewType
    <3>2. ~Restart
      <4>1. Restart => restarts' = restarts + 1
        BY DEF Restart
      <4>2. QED BY <3>1, <4>1
    <3>3. ~overtaken /\ ~raced /\ restarts = 0
      <4>1. ~overtaken
        BY DEF DashNext, Mount, Tick, BeginLoad, Loading, ListCalls, CountMetrics, Show,
               LoadFails, Unmount, Restart, view, dashVars
      <4>2. ~raced /\ restarts = 0
        BY <3>1, <3>2, DashSteps, RecordsNext DEF StoreGrows
      <4>3. QED BY <4>1, <4>2
    <3>4. shown.total \in Nat
      BY <3>3 DEF DashInv, ViewInv
    <3>5. QED BY <2>2, <3>4
  <2>3. ~Unmount
    BY DEF Unmount
  <2>4. ~Restart
    <3>1. restarts \in Nat
      BY DEF DashInv, ViewType
    <3>2. Restart => restarts' = restarts + 1
      BY DEF Restart
    <3>3. QED BY <3>1, <3>2
  <2>5. QED
    BY <2>1, <2>2, <2>3, <2>4
    DEF DashNext, Mount, Tick, Loading, ListCalls, CountMetrics, LoadFails, view, dashVars
<1>2. QED BY <1>1, DashInvInit, DashInvNext, PTL DEF DashSpec, ShownStepsForward

=============================================================================
