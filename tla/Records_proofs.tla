--------------------------- MODULE Records_proofs ---------------------------
(***************************************************************************)
(* Retention of the audit log and paging through it, for any limit, page   *)
(* size and rate of pruning, any number of presses at once and any log.    *)
(***************************************************************************)
EXTENDS Records, FiniteSetTheorems, TLAPS

\* What the appends forgotten at restarts may leave in the table.
Slack(n) == (PruneEvery - 1) * n

\* The rows from first on, no older than the limit and what was not yet pruned:
\* the append count is what relates the size of the table to the last prune.
Retained(first) ==
  /\ DOMAIN audit = first..lastId
  /\ MaxRows > 0 => /\ first = 1 \/ first <= lastId - MaxRows + 1
                    /\ lastId - first + 1 <= MaxRows + Slack(starts) + appended
  /\ MaxRows = 0 => first = 1

RetentionInv == \E first \in 1..(lastId + 1) : Retained(first)

-----------------------------------------------------------------------------
(* Arithmetic. *)

LEMMA SlackGrows ==
  ASSUME NEW n \in Nat
  PROVE  Slack(n) \in Nat /\ Slack(n + 1) = Slack(n) + PruneEvery - 1
BY SizesAssumption DEF Slack

LEMMA CountWraps ==
  ASSUME NEW n \in 0..(PruneEvery - 1)
  PROVE  (n + 1) % PruneEvery = IF n + 1 = PruneEvery THEN 0 ELSE n + 1
BY SizesAssumption

-----------------------------------------------------------------------------
(* The table. *)

\* prune() keeps the end of the table.
LEMMA PrunedDomain ==
  ASSUME NEW rows, NEW last \in Nat, NEW first \in 1..last, DOMAIN rows = first..last
  PROVE  /\ MaxRows = 0 => Pruned(rows, last) = rows
         /\ MaxRows > 0 => DOMAIN Pruned(rows, last) =
                             (IF first > last - MaxRows THEN first ELSE last - MaxRows + 1)..last
         /\ \A i \in DOMAIN Pruned(rows, last) : i \in DOMAIN rows /\ Pruned(rows, last)[i] = rows[i]
<1>1. MaxRows = 0 => Pruned(rows, last) = rows
  BY DEF Pruned
<1>2. ASSUME MaxRows > 0
      PROVE  DOMAIN Pruned(rows, last) =
               (IF first > last - MaxRows THEN first ELSE last - MaxRows + 1)..last
  <2>1. DOMAIN Pruned(rows, last) = {i \in first..last : i > last - MaxRows}
    BY <1>2, SizesAssumption DEF Pruned, Restrict
  <2> QED BY <1>2, <2>1, SizesAssumption
<1>3. \A i \in DOMAIN Pruned(rows, last) : i \in DOMAIN rows /\ Pruned(rows, last)[i] = rows[i]
  BY DEF Pruned, Restrict
<1> QED BY <1>1, <1>2, <1>3

\* Every row has an id that was given out and an action, and the count of appends
\* stays below the interval of pruning.
THEOREM TypeCorrect == Spec => []TypeOK
<1>1. Init => TypeOK
  BY SizesAssumption DEF Init, TypeOK
<1>2. TypeOK /\ [Next]_vars => TypeOK'
  <2> SUFFICES ASSUME TypeOK, [Next]_vars PROVE TypeOK'
    OBVIOUS
  <2>1. ASSUME NEW a \in Action, Record(a) PROVE TypeOK'
    <3> DEFINE id == lastId + 1
               rows == [i \in DOMAIN audit \cup {id} |-> IF i = id THEN a ELSE audit[i]]
    <3>1. DOMAIN rows \subseteq 1..id /\ \A i \in DOMAIN rows : rows[i] \in Action
      BY DEF TypeOK
    <3>2. lastId' = id /\ appended' = (appended + 1) % PruneEvery /\ starts' = starts
          /\ audit' = IF appended' = 0 THEN Pruned(rows, id) ELSE rows
      BY <2>1 DEF Record, AppendRow
    <3> HIDE DEF rows
    <3>3. DOMAIN Pruned(rows, id) \subseteq DOMAIN rows
          /\ \A i \in DOMAIN Pruned(rows, id) : Pruned(rows, id)[i] = rows[i]
      BY DEF Pruned, Restrict
    <3>4. appended' \in 0..(PruneEvery - 1)
      BY <3>2, CountWraps, SizesAssumption DEF TypeOK
    <3> QED BY <3>1, <3>2, <3>3, <3>4 DEF TypeOK
  <2>2. CASE Restart
    BY <2>2, SizesAssumption DEF Restart, TypeOK
  <2>3. CASE UNCHANGED daemon
    BY <2>3 DEF daemon, TypeOK
  <2> QED BY <2>1, <2>2, <2>3 DEF Next, vars, Press, Step, Run, Reload, Serve, Show, Fails
<1> QED BY <1>1, <1>2, PTL DEF Spec

LEMMA RecordRetains ==
  ASSUME TypeOK, NEW a \in Action, Record(a), NEW first \in 1..(lastId + 1), Retained(first)
  PROVE  RetentionInv'
<1> DEFINE id == lastId + 1
           rows == [i \in DOMAIN audit \cup {id} |-> IF i = id THEN a ELSE audit[i]]
<1>1. lastId' = id /\ appended' = (appended + 1) % PruneEvery /\ starts' = starts
      /\ audit' = IF appended' = 0 THEN Pruned(rows, id) ELSE rows
  BY DEF Record, AppendRow
<1>2. DOMAIN rows = first..id /\ first \in 1..id /\ id \in Nat
  BY DEF Retained, TypeOK
<1> HIDE DEF rows
<1>3. Slack(starts) \in Nat
  BY SlackGrows DEF TypeOK
<1>4. CASE appended + 1 = PruneEvery
  <2>3. PICK kept \in 1..(id + 1) :
          kept = IF MaxRows > 0 /\ first <= id - MaxRows THEN id - MaxRows + 1 ELSE first
    BY <1>2, SizesAssumption
  <2>1. appended' = 0 /\ audit' = Pruned(rows, id)
    BY <1>1, <1>4, CountWraps DEF TypeOK
  <2>2. DOMAIN audit' = kept..id
    BY <1>2, <2>1, <2>3, PrunedDomain, SizesAssumption
  <2>4. Retained(kept)'
    <3>1. MaxRows = 0 => kept = 1
      BY <2>3 DEF Retained
    <3>2. MaxRows > 0 => kept = 1 \/ kept <= id - MaxRows + 1
      BY <1>2, <2>3, SizesAssumption DEF Retained, TypeOK
    <3>3. MaxRows > 0 => id - kept + 1 <= MaxRows
      BY <1>2, <2>3, SizesAssumption
    <3>4. MaxRows > 0 => id - kept + 1 <= MaxRows + Slack(starts) + 0
      BY <1>2, <1>3, <2>3, <3>3, SizesAssumption
    <3> QED BY <1>1, <2>1, <2>2, <3>1, <3>2, <3>4 DEF Retained
  <2> QED BY <1>1, <2>3, <2>4 DEF RetentionInv
<1>5. CASE appended + 1 # PruneEvery
  <2>1. appended' = appended + 1 /\ audit' = rows
    BY <1>1, <1>5, CountWraps, SizesAssumption DEF TypeOK
  <2>2. Retained(first)'
    BY <1>1, <1>2, <1>3, <2>1, SizesAssumption DEF Retained, TypeOK
  <2> QED BY <1>1, <1>2, <2>2 DEF RetentionInv
<1> QED BY <1>4, <1>5

\* Retention deletes only the oldest rows, never one of the newest MaxRows, and each
\* restart lets at most one interval of appends go unpruned (audit.ts:96-106).
THEOREM RetentionCorrect == Spec => []KeepsNewest
<1>1. Init => RetentionInv
  <2> SUFFICES ASSUME Init PROVE Retained(1)
    BY DEF RetentionInv, Init
  <2>1. DOMAIN audit = 1..0
    BY DEF Init
  <2> QED BY <2>1, SlackGrows, SizesAssumption DEF Init, Retained
<1>2. TypeOK /\ RetentionInv /\ [Next]_vars => RetentionInv'
  <2> SUFFICES ASSUME TypeOK, RetentionInv, [Next]_vars PROVE RetentionInv'
    OBVIOUS
  <2>1. PICK first \in 1..(lastId + 1) : Retained(first)
    BY DEF RetentionInv
  <2>2. ASSUME NEW a \in Action, Record(a) PROVE RetentionInv'
    BY <2>1, <2>2, RecordRetains
  <2>3. CASE Restart
    <3>1. Slack(starts) \in Nat /\ Slack(starts') = Slack(starts) + PruneEvery - 1
      BY <2>3, SlackGrows DEF Restart, TypeOK
    <3>2. Retained(first)'
      BY <2>1, <2>3, <3>1, SizesAssumption DEF Restart, Retained, TypeOK
    <3> QED BY <2>1, <2>3, <3>2 DEF Restart, RetentionInv
  <2>4. CASE UNCHANGED daemon
    BY <2>4 DEF daemon, RetentionInv, Retained
  <2> QED BY <2>2, <2>3, <2>4 DEF Next, vars, Press, Step, Run, Reload, Serve, Show, Fails
<1>3. TypeOK /\ RetentionInv => KeepsNewest
  <2> SUFFICES ASSUME TypeOK, RetentionInv PROVE KeepsNewest
    OBVIOUS
  <2>1. PICK first \in 1..(lastId + 1) : Retained(first)
    BY DEF RetentionInv
  <2>2. Slack(starts) \in Nat /\ Slack(starts + 1) = Slack(starts) + PruneEvery - 1
    BY SlackGrows DEF TypeOK
  <2>3. MaxRows > 0 => lastId - first + 1 <= MaxRows + Slack(starts + 1)
    BY <2>1, <2>2, SizesAssumption DEF Retained, TypeOK
  <2> QED BY <2>1, <2>3 DEF Retained, KeepsNewest, Slack
<1> QED BY <1>1, <1>2, <1>3, TypeCorrect, PTL DEF Spec

-----------------------------------------------------------------------------
(* Least and greatest elements. *)

LessThan == {ss \in Nat \X Nat : ss[1] < ss[2]}

LEMMA LessThanIsWellFounded == IsWellFoundedOn(LessThan, Nat)
BY NatLessThanWellFounded DEF OpToRel, LessThan

LEMMA LeastExists ==
  ASSUME NEW S \in SUBSET Nat, S # {}
  PROVE  \E x \in S : \A y \in S : x <= y
<1>1. PICK x \in S : \A y \in S : ~(<<y, x>> \in LessThan)
  BY WFMin, LessThanIsWellFounded, Zenon
<1>2. ASSUME NEW y \in S PROVE x <= y
  <2>1. y \in Nat /\ x \in Nat /\ ~(<<y, x>> \in LessThan)
    BY <1>1
  <2> QED BY <2>1 DEF LessThan
<1> QED BY <1>2

LEMMA MinIsLeast ==
  ASSUME NEW S \in SUBSET Nat, S # {}
  PROVE  Min(S) \in S /\ \A y \in S : Min(S) <= y
BY LeastExists DEF Min

LEMMA MaxIsGreatest ==
  ASSUME NEW n \in Nat, NEW S \in SUBSET (0..n), S # {}
  PROVE  Max(S) \in S /\ \A y \in S : y <= Max(S)
<1> DEFINE bounds == {m \in Nat : \A y \in S : y <= m}
<1>1. PICK b \in bounds : \A m \in bounds : b <= m
  <2>1. n \in bounds /\ bounds \in SUBSET Nat
    OBVIOUS
  <2> HIDE DEF bounds
  <2> QED BY <2>1, LeastExists
<1>2. b \in S
  <2> SUFFICES ASSUME b \notin S PROVE FALSE
    OBVIOUS
  <2>1. \A y \in S : y <= b - 1
    OBVIOUS
  <2>2. PICK y \in S : y <= b - 1
    BY <2>1
  <2>3. b - 1 \in bounds
    BY <2>1, <2>2
  <2> QED BY <1>1, <2>3
<1>3. \E x \in S : \A y \in S : y <= x
  BY <1>1, <1>2
<1> QED BY <1>3 DEF Max

-----------------------------------------------------------------------------
(* The table and its parts. *)

Table(rows, last) == last \in Nat /\ DOMAIN rows \subseteq 1..last

Match(rows, f) == {i \in DOMAIN rows : f \in {All, rows[i]}}

\* The rows of a filter from lo up, before hi unless that is 0.
Part(rows, f, lo, hi) == {i \in Match(rows, f) : lo <= i /\ (hi = 0 \/ i < hi)}

\* Rows are added at the end and deleted at the beginning.
Ages(rows, last, later, end) ==
  /\ Table(rows, last) /\ Table(later, end) /\ last <= end
  /\ \A i \in DOMAIN later : i <= last => i \in DOMAIN rows /\ later[i] = rows[i]
  /\ \A i \in DOMAIN rows, j \in DOMAIN rows : i < j /\ i \in DOMAIN later => j \in DOMAIN later

LEMMA PartIsFinite ==
  ASSUME NEW rows, NEW last, Table(rows, last), NEW f, NEW lo, NEW hi
  PROVE  /\ IsFiniteSet(Part(rows, f, lo, hi))
         /\ Cardinality(Part(rows, f, lo, hi)) \in Nat
         /\ Part(rows, f, lo, hi) \subseteq 1..last
<1>1. Part(rows, f, lo, hi) \in SUBSET (1..last)
  BY DEF Part, Match, Table
<1>2. IsFiniteSet(1..last)
  BY FS_Interval DEF Table
<1> QED BY <1>1, <1>2, FS_Subset, FS_CardinalityType

\* What is left of an old part, and that nothing above a row that is left is gone.
LEMMA PartAges ==
  ASSUME NEW rows, NEW last, NEW later, NEW end, Ages(rows, last, later, end),
         NEW f, NEW lo \in 0..last, NEW hi \in 0..last
  PROVE  /\ hi > 0 => Part(later, f, lo, hi) \subseteq Part(rows, f, lo, hi)
         /\ \A r \in Part(later, f, 0, lo) :
              lo > 0 => /\ r \in Part(rows, f, 0, lo)
                        /\ Part(rows, f, lo, hi) \subseteq Part(later, f, lo, hi)
<1>1. hi > 0 => Part(later, f, lo, hi) \subseteq Part(rows, f, lo, hi)
  BY DEF Ages, Part, Match, Table
<1>2. ASSUME NEW r \in Part(later, f, 0, lo), lo > 0
      PROVE  r \in Part(rows, f, 0, lo) /\ Part(rows, f, lo, hi) \subseteq Part(later, f, lo, hi)
  <2>1. r \in Part(rows, f, 0, lo)
    BY <1>2 DEF Ages, Part, Match, Table
  <2>2. ASSUME NEW j \in Part(rows, f, lo, hi) PROVE j \in Part(later, f, lo, hi)
    <3>1. j \in DOMAIN rows /\ r < j /\ r \in DOMAIN rows /\ r \in DOMAIN later /\ j \in 1..last
      BY <1>2, <2>1 DEF Ages, Part, Match, Table
    <3>2. j \in DOMAIN later /\ later[j] = rows[j]
      BY <3>1 DEF Ages
    <3> QED BY <3>2 DEF Part, Match
  <2> QED BY <2>1, <2>2
<1> QED BY <1>1, <1>2

\* One page of rows between where it ends and where it began, unless what lies below
\* is gone.
Segment(rows, last, f, lo, hi) ==
  /\ lo \in 1..last /\ hi \in 0..last
  /\ hi > 0 => lo < hi /\ Cardinality(Part(rows, f, lo, hi)) <= PageSize
  /\ Cardinality(Part(rows, f, lo, hi)) < PageSize => Part(rows, f, 0, lo) = {}

\* While there are rows below lo, n pages of rows are above.
Depth(rows, f, lo, n) ==
  Part(rows, f, 0, lo) # {} => Cardinality(Part(rows, f, lo, 0)) >= n * PageSize

LEMMA PartGrows ==
  ASSUME NEW rows, NEW last, Table(rows, last), NEW later, NEW end, Table(later, end),
         NEW f, NEW lo, NEW hi, Part(rows, f, lo, hi) \subseteq Part(later, f, lo, hi)
  PROVE  Cardinality(Part(rows, f, lo, hi)) <= Cardinality(Part(later, f, lo, hi))
BY PartIsFinite, FS_Subset

LEMMA SegmentAges ==
  ASSUME NEW rows, NEW last, NEW later, NEW end, Ages(rows, last, later, end),
         NEW f, NEW lo, NEW hi, Segment(rows, last, f, lo, hi)
  PROVE  Segment(later, end, f, lo, hi)
<1>1. lo \in 1..last /\ hi \in 0..last /\ Table(rows, last) /\ Table(later, end) /\ last <= end
  BY DEF Segment, Ages
<1>2. lo \in 1..end /\ hi \in 0..end
  BY <1>1 DEF Table
<1>3. hi > 0 => Cardinality(Part(later, f, lo, hi)) <= Cardinality(Part(rows, f, lo, hi))
  BY <1>1, PartAges, PartGrows
<1>4. hi > 0 => lo < hi /\ Cardinality(Part(later, f, lo, hi)) <= PageSize
  BY <1>1, <1>3, PartIsFinite, SizesAssumption DEF Segment
<1>5. ASSUME Cardinality(Part(later, f, lo, hi)) < PageSize, NEW r \in Part(later, f, 0, lo)
      PROVE  FALSE
  <2>1. r \in Part(rows, f, 0, lo) /\ Part(rows, f, lo, hi) \subseteq Part(later, f, lo, hi)
    BY <1>1, <1>5, PartAges
  <2>2. Cardinality(Part(rows, f, lo, hi)) <= Cardinality(Part(later, f, lo, hi))
    BY <1>1, <2>1, PartGrows
  <2> QED BY <1>1, <1>5, <2>1, <2>2, PartIsFinite, SizesAssumption DEF Segment
<1> QED BY <1>2, <1>4, <1>5 DEF Segment

LEMMA DepthAges ==
  ASSUME NEW rows, NEW last, NEW later, NEW end, Ages(rows, last, later, end),
         NEW f, NEW lo \in 1..last, NEW n \in Nat, Depth(rows, f, lo, n)
  PROVE  Depth(later, f, lo, n)
<1> SUFFICES ASSUME NEW r \in Part(later, f, 0, lo)
             PROVE  Cardinality(Part(later, f, lo, 0)) >= n * PageSize
  BY DEF Depth
<1>1. Table(rows, last) /\ Table(later, end)
  BY DEF Ages
<1>2. r \in Part(rows, f, 0, lo) /\ Part(rows, f, lo, 0) \subseteq Part(later, f, lo, 0)
  BY <1>1, PartAges DEF Table
<1>3. Cardinality(Part(rows, f, lo, 0)) <= Cardinality(Part(later, f, lo, 0))
  BY <1>1, <1>2, PartGrows
<1>4. n * PageSize \in Nat
  BY SizesAssumption
<1>5. Cardinality(Part(rows, f, lo, 0)) >= n * PageSize
  BY <1>2 DEF Depth
<1> QED BY <1>1, <1>3, <1>4, <1>5, PartIsFinite

-----------------------------------------------------------------------------
(* What is asked for, and what is answered. *)

Start(q, k) == IF k <= Len(q.cursors) THEN q.cursors[k] ELSE q.before

\* The pages above, one below the other.
QueryOk(rows, last, q) ==
  /\ q = [filter |-> q.filter, cursors |-> q.cursors, before |-> q.before]
  /\ q.cursors \in Seq(Nat) /\ q.before \in Nat
  /\ Start(q, 1) = 0
  /\ \A k \in 1..Len(q.cursors) :
       /\ Segment(rows, last, q.filter, Start(q, k + 1), Start(q, k))
       /\ Depth(rows, q.filter, Start(q, k + 1), k)

\* The rows of an answer are all there were between the first and the last of them and
\* where the page began, and the total counted what is above and below them.
EntriesOk(rows, last, g, lo, hi) ==
  /\ lo \in 1..last /\ hi \in lo..last
  /\ g.query.before \in 0..last
  /\ g.query.before > 0 => hi < g.query.before /\ Part(rows, g.query.filter, hi + 1, g.query.before) = {}
  /\ {i \in Part(rows, g.query.filter, lo, g.query.before) : i <= hi} \subseteq g.entries
  /\ Cardinality(Part(rows, g.query.filter, lo, g.query.before)) < PageSize
       => Part(rows, g.query.filter, 0, lo) = {}
  /\ Part(rows, g.query.filter, 0, lo) # {}
       => Len(g.query.cursors) * PageSize + Cardinality(g.entries) < g.total

AnswerOk(rows, last, g) ==
  /\ QueryOk(rows, last, g.query)
  /\ IsFiniteSet(g.entries) /\ Cardinality(g.entries) <= PageSize
  /\ g.entries # {} => /\ Min(g.entries) \in g.entries /\ Max(g.entries) \in g.entries
                       /\ EntriesOk(rows, last, g, Min(g.entries), Max(g.entries))

LEMMA QueryAges ==
  ASSUME NEW rows, NEW last, NEW later, NEW end, Ages(rows, last, later, end),
         NEW q, QueryOk(rows, last, q)
  PROVE  QueryOk(later, end, q)
<1> SUFFICES ASSUME NEW k \in 1..Len(q.cursors)
             PROVE  /\ Segment(later, end, q.filter, Start(q, k + 1), Start(q, k))
                    /\ Depth(later, q.filter, Start(q, k + 1), k)
  BY DEF QueryOk
<1>1. /\ Segment(rows, last, q.filter, Start(q, k + 1), Start(q, k))
      /\ Depth(rows, q.filter, Start(q, k + 1), k)
      /\ k \in Nat
  BY DEF QueryOk
<1>2. Start(q, k + 1) \in 1..last
  BY <1>1 DEF Segment
<1> QED BY <1>1, <1>2, SegmentAges, DepthAges

LEMMA AnswerAges ==
  ASSUME NEW rows, NEW last, NEW later, NEW end, Ages(rows, last, later, end),
         NEW g, AnswerOk(rows, last, g)
  PROVE  AnswerOk(later, end, g)
<1>1. QueryOk(later, end, g.query)
  BY QueryAges DEF AnswerOk
<1> DEFINE lo == Min(g.entries)
           hi == Max(g.entries)
           f == g.query.filter
           before == g.query.before
<1>2. ASSUME g.entries # {} PROVE EntriesOk(later, end, g, lo, hi)
  <2>1. EntriesOk(rows, last, g, lo, hi)
    BY <1>2 DEF AnswerOk
  <2> HIDE DEF lo, hi
  <2>2. Table(rows, last) /\ Table(later, end) /\ last <= end
    BY DEF Ages
  <2>3. lo \in 1..last /\ hi \in lo..last /\ before \in 0..last
    BY <2>1 DEF EntriesOk
  <2>4. lo \in 1..end /\ hi \in lo..end /\ before \in 0..end
    BY <2>2, <2>3 DEF Table
  <2>5. ASSUME before > 0 PROVE hi < before /\ Part(later, f, hi + 1, before) = {}
    <3>1. hi < before /\ Part(rows, f, hi + 1, before) = {}
      BY <2>1, <2>5 DEF EntriesOk
    <3>2. hi + 1 \in 0..last
      BY <2>2, <2>3, <3>1 DEF Table
    <3>3. Part(later, f, hi + 1, before) \subseteq Part(rows, f, hi + 1, before)
      BY <2>3, <2>5, <3>2, PartAges
    <3> QED BY <3>1, <3>3
  <2>6. {i \in Part(later, f, lo, before) : i <= hi} \subseteq g.entries
    <3>1. ASSUME NEW i \in Part(later, f, lo, before), i <= hi PROVE i \in Part(rows, f, lo, before)
      <4>1. i <= last
        BY <2>2, <2>3, <3>1 DEF Part, Match, Table
      <4> QED BY <3>1, <4>1 DEF Ages, Part, Match
    <3> QED BY <2>1, <3>1 DEF EntriesOk
  <2>7. ASSUME NEW r \in Part(later, f, 0, lo)
        PROVE  /\ r \in Part(rows, f, 0, lo)
               /\ Part(rows, f, lo, before) \subseteq Part(later, f, lo, before)
    BY <2>2, <2>3, <2>7, PartAges DEF Table
  <2>8. Cardinality(Part(later, f, lo, before)) < PageSize => Part(later, f, 0, lo) = {}
    <3> SUFFICES ASSUME Cardinality(Part(later, f, lo, before)) < PageSize,
                        NEW r \in Part(later, f, 0, lo)
                 PROVE  FALSE
      OBVIOUS
    <3>1. Cardinality(Part(rows, f, lo, before)) <= Cardinality(Part(later, f, lo, before))
      BY <2>2, <2>7, PartGrows
    <3>2. Cardinality(Part(rows, f, lo, before)) < PageSize
      BY <2>2, <3>1, PartIsFinite, SizesAssumption
    <3> QED BY <2>1, <2>7, <3>2 DEF EntriesOk
  <2>9. Part(later, f, 0, lo) # {} => Len(g.query.cursors) * PageSize + Cardinality(g.entries) < g.total
    BY <2>1, <2>7 DEF EntriesOk
  <2> QED BY <2>4, <2>5, <2>6, <2>8, <2>9 DEF EntriesOk
<1> QED BY <1>1, <1>2 DEF AnswerOk

-----------------------------------------------------------------------------
(* One page of a query. *)

LEMMA DisjointUnion ==
  ASSUME NEW S, NEW T, NEW U, IsFiniteSet(U), S \subseteq U, T \subseteq U, S \cap T = {}
  PROVE  /\ Cardinality(S) + Cardinality(T) <= Cardinality(U)
         /\ IsFiniteSet(S \cup T) /\ Cardinality(S \cup T) = Cardinality(S) + Cardinality(T)
         /\ Cardinality(S) \in Nat /\ Cardinality(T) \in Nat /\ Cardinality(U) \in Nat
<1>1. IsFiniteSet(S) /\ IsFiniteSet(T)
  BY FS_Subset
<1>2. Cardinality(S) \in Nat /\ Cardinality(T) \in Nat /\ Cardinality(U) \in Nat
  BY <1>1, FS_CardinalityType
<1>3. Cardinality(S \cup T) = Cardinality(S) + Cardinality(T) - Cardinality({})
  BY <1>1, FS_Union
<1>4. Cardinality(S \cup T) = Cardinality(S) + Cardinality(T)
  BY <1>2, <1>3, FS_EmptySet
<1>5. IsFiniteSet(S \cup T) /\ Cardinality(S \cup T) <= Cardinality(U)
  BY FS_Subset
<1> QED BY <1>2, <1>4, <1>5

\* The newest rows are at most a page, nothing is left out above one of them, and a
\* page that is not full is all there is.
LEMMA NewestIsPage ==
  ASSUME NEW n \in Nat, NEW ids \in SUBSET (1..n)
  PROVE  /\ Newest(ids) \subseteq ids /\ IsFiniteSet(Newest(ids))
         /\ Cardinality(Newest(ids)) <= PageSize
         /\ \A i \in Newest(ids), j \in ids : i < j => j \in Newest(ids)
         /\ Cardinality(Newest(ids)) < PageSize => Newest(ids) = ids
         /\ ids # {} => Newest(ids) # {}
<1> DEFINE above(i) == {j \in ids : j > i}
           E == Newest(ids)
<1>1. IsFiniteSet(ids) /\ (\A i \in ids : i \in 1..n /\ i \in Nat) /\ ids \in SUBSET Nat
  <2>1. IsFiniteSet(1..n)
    BY FS_Interval
  <2>2. IsFiniteSet(ids)
    BY <2>1, FS_Subset
  <2> QED BY <2>2
<1>2. \A i \in ids : IsFiniteSet(above(i)) /\ Cardinality(above(i)) \in Nat
  BY <1>1, FS_Subset, FS_CardinalityType
<1>3. E = {i \in ids : Cardinality(above(i)) < PageSize} /\ E \subseteq ids
  BY DEF Newest
<1>4. IsFiniteSet(E) /\ Cardinality(E) \in Nat
  BY <1>1, <1>3, FS_Subset, FS_CardinalityType
<1> HIDE DEF E
<1>5. ASSUME NEW i \in E, NEW j \in ids, i < j PROVE j \in E
  <2>1. above(j) \subseteq above(i)
    <3>1. i \in Nat /\ j \in Nat
      BY <1>1, <1>3
    <3>2. ASSUME NEW k \in above(j) PROVE k \in above(i)
      <4>1. k \in ids /\ k \in Nat /\ k > j
        BY <1>1
      <4> QED BY <1>5, <3>1, <4>1
    <3> QED BY <3>2
  <2>2. Cardinality(above(j)) <= Cardinality(above(i))
    BY <1>2, <1>3, <2>1, FS_Subset
  <2>3. Cardinality(above(i)) < PageSize
    BY <1>3
  <2> HIDE DEF above
  <2> QED BY <1>2, <1>3, <2>2, <2>3, SizesAssumption
<1>6. ASSUME E # {} PROVE Cardinality(E) <= PageSize
  <2> DEFINE m == Min(E)
  <2>1. m \in E /\ \A y \in E : m <= y
    BY <1>1, <1>3, <1>6, MinIsLeast, Zenon
  <2> HIDE DEF m
  <2>2. E = above(m) \cup {m} /\ m \notin above(m)
    <3>1. m \in ids /\ m \in Nat /\ m \notin above(m)
      BY <1>1, <1>3, <2>1
    <3>2. ASSUME NEW y \in E PROVE y \in above(m) \cup {m}
      <4>1. y \in ids /\ y \in Nat /\ m <= y
        BY <1>1, <1>3, <2>1
      <4> QED BY <3>1, <4>1
    <3>3. ASSUME NEW y \in above(m) PROVE y \in E
      BY <1>5, <2>1, <3>1
    <3> QED BY <2>1, <3>1, <3>2, <3>3
  <2>3. Cardinality(above(m)) < PageSize
    BY <1>3, <2>1
  <2>4. Cardinality(E) = Cardinality(above(m)) + 1
    BY <1>2, <1>3, <2>1, <2>2, FS_AddElement
  <2> HIDE DEF above
  <2> QED BY <1>2, <1>3, <2>1, <2>3, <2>4, SizesAssumption
<1>7. Cardinality(E) <= PageSize
  BY <1>6, FS_EmptySet, SizesAssumption
<1>8. ASSUME E # ids PROVE Cardinality(E) >= PageSize
  <2> DEFINE m == Max(ids \ E)
  <2>1. m \in ids \ E /\ \A y \in ids \ E : y <= m
    <3>1. ids \ E \in SUBSET (0..n) /\ ids \ E # {}
      <4>1. \A y \in ids \ E : y \in 0..n
        BY <1>1
      <4>2. ids \ E # {}
        BY <1>3, <1>8
      <4> QED BY <4>1, <4>2
    <3> HIDE DEF E
    <3> QED BY <3>1, MaxIsGreatest
  <2> HIDE DEF m
  <2>2. ASSUME NEW y \in above(m) PROVE y \in E
    <3>1. y \in ids /\ y \in Nat /\ m \in Nat /\ m < y
      BY <1>1, <2>1
    <3> QED BY <2>1, <3>1
  <2>3. Cardinality(above(m)) <= Cardinality(E)
    BY <1>4, <2>2, FS_Subset
  <2>4. ~(Cardinality(above(m)) < PageSize)
    BY <1>3, <2>1
  <2> HIDE DEF above
  <2> QED BY <1>2, <1>4, <2>1, <2>3, <2>4, SizesAssumption
<1>9. Cardinality(E) < PageSize => E = ids
  BY <1>4, <1>8, SizesAssumption
<1>10. ids # {} => E # {}
  BY <1>9, FS_EmptySet, SizesAssumption
<1> QED BY <1>3, <1>4, <1>5, <1>7, <1>9, <1>10 DEF E

\* Where the page of a query begins is 0 on the first page, and a row's id after.
LEMMA Begins ==
  ASSUME NEW rows, NEW last, Table(rows, last), NEW q, QueryOk(rows, last, q)
  PROVE  /\ q.before \in 0..last /\ Len(q.cursors) \in Nat
         /\ (q.before = 0) = (Len(q.cursors) = 0)
         /\ q.before > 0 => Depth(rows, q.filter, q.before, Len(q.cursors))
<1> DEFINE n == Len(q.cursors)
<1>1. n \in Nat /\ q.before \in Nat
  BY DEF QueryOk
<1>2. CASE n = 0
  BY <1>1, <1>2 DEF QueryOk, Start, Table
<1>3. CASE n > 0
  <2>1. n \in 1..Len(q.cursors)
    BY <1>1, <1>3
  <2>2. Start(q, n + 1) = q.before
    BY <1>1 DEF Start
  <2>3. /\ Segment(rows, last, q.filter, q.before, Start(q, n))
        /\ Depth(rows, q.filter, q.before, n)
    BY <2>1, <2>2 DEF QueryOk
  <2> QED BY <1>1, <1>3, <2>3 DEF Segment, Table
<1> QED BY <1>1, <1>2, <1>3

\* The daemon's answer, of the table as it is when it answers.
LEMMA AnswerIsOk ==
  ASSUME Table(audit, lastId), NEW q, QueryOk(audit, lastId, q)
  PROVE  AnswerOk(audit, lastId, Answer(q))
<1> DEFINE f == q.filter
           b == q.before
           n == Len(q.cursors)
           ids == Part(audit, f, 0, b)
           E == Newest(ids)
           lo == Min(E)
           hi == Max(E)
           g == Answer(q)
<1>1. lastId \in Nat /\ b \in 0..lastId /\ n \in Nat /\ (b = 0) = (n = 0)
      /\ (b > 0 => Depth(audit, f, b, n))
  BY Begins DEF Table
<1>2. /\ Matching(f) = Part(audit, f, 0, 0) /\ Matching(f) \subseteq 1..lastId
      /\ ids = Before(Matching(f), b) /\ ids \in SUBSET (1..lastId) /\ ids \subseteq Matching(f)
  BY <1>1 DEF Table, Part, Match, Matching, Before
<1>3. g = [query |-> q, total |-> Cardinality(Matching(f)), entries |-> E]
  BY <1>2 DEF Answer, Counted
<1>4. g.query = q /\ g.total = Cardinality(Matching(f)) /\ g.entries = E
  BY <1>3
<1>5. /\ E \subseteq ids /\ IsFiniteSet(E) /\ Cardinality(E) <= PageSize
      /\ \A i \in E, j \in ids : i < j => j \in E
      /\ Cardinality(E) < PageSize => E = ids
  <2>1. lastId \in Nat /\ ids \in SUBSET (1..lastId)
    BY <1>1, <1>2
  <2> HIDE DEF ids
  <2> QED BY <2>1, NewestIsPage
<1> HIDE DEF E, g
<1>6. ASSUME E # {} PROVE lo \in E /\ hi \in E /\ EntriesOk(audit, lastId, g, lo, hi)
  <2>1. lo \in E /\ \A y \in E : lo <= y
    <3>1. E \in SUBSET Nat
      BY <1>2, <1>5
    <3> QED BY <1>6, <3>1, MinIsLeast
  <2>2. hi \in E /\ \A y \in E : y <= hi
    <3>1. E \in SUBSET (0..lastId)
      BY <1>2, <1>5
    <3> QED BY <1>1, <1>6, <3>1, MaxIsGreatest
  <2> HIDE DEF lo, hi, ids
  <2>3. lo \in 1..lastId /\ hi \in lo..lastId
    BY <1>2, <1>5, <2>1, <2>2
  <2>4. ASSUME b > 0 PROVE hi < b /\ Part(audit, f, hi + 1, b) = {}
    <3>1. hi < b
      BY <1>1, <1>5, <2>2, <2>4 DEF ids, Part
    <3>2. ASSUME NEW r \in Part(audit, f, hi + 1, b) PROVE FALSE
      <4>1. r \in ids /\ hi < r /\ r \in Nat
        BY <1>1, <1>2, <2>3, <2>4 DEF ids, Part, Match, Table
      <4> QED BY <1>5, <2>2, <2>3, <4>1
    <3> QED BY <3>1, <3>2
  <2>5. Part(audit, f, lo, b) = E
    <3>1. ASSUME NEW r \in Part(audit, f, lo, b) PROVE r \in E
      <4>1. r \in ids /\ lo <= r /\ r \in Nat
        BY <2>3 DEF ids, Part, Match, Table
      <4> QED BY <1>5, <2>1, <2>3, <4>1
    <3>2. ASSUME NEW r \in E PROVE r \in Part(audit, f, lo, b)
      BY <1>5, <2>1 DEF ids, Part
    <3> QED BY <3>1, <3>2
  <2>6. ASSUME NEW r \in Part(audit, f, 0, lo), lo > 0 PROVE r \in ids /\ r < lo /\ r \in Matching(f)
    <3>1. lo \in ids
      BY <1>5, <2>1
    <3> QED BY <1>1, <1>2, <2>3, <2>6, <3>1 DEF ids, Part, Match, Table
  <2>7. Cardinality(E) < PageSize => Part(audit, f, 0, lo) = {}
    <3> SUFFICES ASSUME Cardinality(E) < PageSize, NEW r \in Part(audit, f, 0, lo) PROVE FALSE
      OBVIOUS
    <3>1. r \in E /\ r < lo /\ r \in Nat
      BY <1>2, <1>5, <2>3, <2>6
    <3> QED BY <2>1, <2>3, <3>1
  <2>8. ASSUME NEW r \in Part(audit, f, 0, lo)
        PROVE  n * PageSize + Cardinality(E) < Cardinality(Matching(f))
    <3> DEFINE top == IF b = 0 THEN {} ELSE Part(audit, f, b, 0)
               rest == E \cup {r}
    <3>1. r \in ids /\ r < lo /\ r \in Matching(f) /\ r \in Nat
      BY <1>2, <2>3, <2>6
    <3>2. n * PageSize <= Cardinality(top) /\ n * PageSize \in Nat
      <4>1. CASE b = 0
        BY <1>1, <4>1, FS_EmptySet, SizesAssumption
      <4>2. CASE b > 0
        <5>1. Part(audit, f, 0, b) # {}
          BY <3>1 DEF ids
        <5>2. n * PageSize \in Nat
          BY <1>1, SizesAssumption
        <5> QED BY <1>1, <4>2, <5>1, <5>2 DEF Depth
      <4> QED BY <1>1, <4>1, <4>2
    <3>3. r \notin E /\ Cardinality(rest) = Cardinality(E) + 1
      <4>1. r \notin E
        BY <2>1, <2>3, <3>1
      <4> QED BY <1>5, <4>1, FS_AddElement
    <3>4. IsFiniteSet(Matching(f)) /\ top \subseteq Matching(f) /\ rest \subseteq Matching(f)
      <4>1. IsFiniteSet(1..lastId)
        BY <1>1, FS_Interval
      <4>2. IsFiniteSet(Matching(f))
        BY <1>2, <4>1, FS_Subset
      <4>3. top \subseteq Matching(f)
        BY DEF Part, Match, Matching
      <4>4. rest \subseteq Matching(f)
        BY <1>2, <1>5, <3>1 DEF ids
      <4> QED BY <4>2, <4>3, <4>4
    <3>5. top \cap rest = {}
      <4>1. rest \subseteq ids
        BY <1>5, <3>1
      <4>2. ASSUME NEW x \in top, x \in ids PROVE FALSE
        BY <1>1, <1>2, <4>2 DEF ids, Part
      <4> QED BY <4>1, <4>2
    <3> HIDE DEF top, rest
    <3>6. Cardinality(top) + Cardinality(rest) <= Cardinality(Matching(f))
          /\ Cardinality(top) \in Nat /\ Cardinality(rest) \in Nat /\ Cardinality(Matching(f)) \in Nat
      BY <3>4, <3>5, DisjointUnion
    <3>7. Cardinality(E) \in Nat
      BY <1>5, FS_CardinalityType
    <3> QED BY <3>2, <3>3, <3>6, <3>7
  <2>9. {i \in Part(audit, f, lo, b) : i <= hi} \subseteq E
    BY <2>5
  <2> QED BY <1>1, <1>4, <2>1, <2>2, <2>3, <2>4, <2>5, <2>7, <2>8, <2>9 DEF EntriesOk
<1> HIDE DEF lo, hi
<1>7. lo = Min(g.entries) /\ hi = Max(g.entries)
  BY <1>4 DEF lo, hi
<1> QED BY <1>4, <1>5, <1>6, <1>7 DEF AnswerOk, g

-----------------------------------------------------------------------------
(* What is asked for next. *)

LEMMA FilteredIsOk ==
  ASSUME NEW rows, NEW last, NEW f
  PROVE  QueryOk(rows, last, Filtered(f))
<1> DEFINE q == Filtered(f)
<1>1. q = [filter |-> f, cursors |-> <<>>, before |-> 0]
  BY DEF Filtered, First
<1>2. Len(q.cursors) = 0 /\ q.cursors \in Seq(Nat) /\ q.before = 0 /\ Start(q, 1) = 0
  BY <1>1 DEF Start
<1> QED BY <1>1, <1>2 DEF QueryOk

\* The page below: it adjoins the one shown though rows went since it was loaded, and
\* one more page of rows is above it.
LEMMA OlderIsOk ==
  ASSUME Table(audit, lastId), AnswerOk(audit, lastId, page), NEW q \in Older
  PROVE  QueryOk(audit, lastId, q)
<1> DEFINE p == page.query
           n == Len(p.cursors)
           f == p.filter
           b == p.before
           lo == Min(page.entries)
           hi == Max(page.entries)
<1>1. /\ page.entries # {} /\ QueryOk(audit, lastId, p)
      /\ IsFiniteSet(page.entries) /\ Cardinality(page.entries) <= PageSize
      /\ EntriesOk(audit, lastId, page, lo, hi)
  BY DEF Older, AnswerOk
<1>2. q = [p EXCEPT !.cursors = Append(@, b), !.before = lo]
  BY <1>1 DEF Older
<1> HIDE DEF lo, hi
<1>3. /\ lastId \in Nat /\ b \in 0..lastId /\ n \in Nat /\ (b = 0) = (n = 0)
      /\ b > 0 => Depth(audit, f, b, n)
  BY <1>1, Begins DEF Table
<1>4. /\ p = [filter |-> f, cursors |-> p.cursors, before |-> b]
      /\ p.cursors \in Seq(Nat)
      /\ \A k \in 1..n : /\ Segment(audit, lastId, f, Start(p, k + 1), Start(p, k))
                         /\ Depth(audit, f, Start(p, k + 1), k)
      /\ Start(p, 1) = 0
  BY <1>1 DEF QueryOk
<1>5. q = [filter |-> f, cursors |-> Append(p.cursors, b), before |-> lo]
  BY <1>2, <1>4
<1>6. lo \in 1..lastId /\ hi \in lo..lastId
  BY <1>1 DEF EntriesOk
<1>7. /\ q.filter = f /\ q.cursors = Append(p.cursors, b) /\ q.before = lo
      /\ q.cursors \in Seq(Nat) /\ Len(q.cursors) = n + 1 /\ lo \in Nat
  BY <1>3, <1>4, <1>5, <1>6
<1>8. Start(q, n + 2) = lo /\ \A k \in 1..(n + 1) : Start(q, k) = Start(p, k)
  <2>1. Start(q, n + 2) = lo
    BY <1>3, <1>7 DEF Start
  <2>2. ASSUME NEW k \in 1..(n + 1) PROVE Start(q, k) = Start(p, k)
    <3>1. CASE k = n + 1
      BY <1>3, <1>4, <1>7, <3>1 DEF Start
    <3>2. CASE k # n + 1
      BY <1>3, <1>4, <1>7, <3>2 DEF Start
    <3> QED BY <3>1, <3>2
  <2> QED BY <2>1, <2>2
<1>9. /\ IsFiniteSet(Part(audit, f, lo, b)) /\ Cardinality(Part(audit, f, lo, b)) \in Nat
      /\ Cardinality(page.entries) \in Nat
  BY <1>1, PartIsFinite, FS_CardinalityType
<1>10. Segment(audit, lastId, f, lo, b)
  <2>1. ASSUME b > 0 PROVE lo < b /\ Cardinality(Part(audit, f, lo, b)) <= PageSize
    <3>1. hi < b /\ Part(audit, f, hi + 1, b) = {} /\ lo < b
      BY <1>1, <1>3, <1>6, <2>1 DEF EntriesOk
    <3>2. ASSUME NEW i \in Part(audit, f, lo, b) PROVE i \in page.entries
      <4>1. i \in Nat
        BY DEF Part, Match, Table
      <4>2. i <= hi
        BY <1>6, <3>1, <4>1 DEF Part
      <4> QED BY <1>1, <4>2 DEF EntriesOk
    <3>3. Cardinality(Part(audit, f, lo, b)) <= Cardinality(page.entries)
      BY <1>1, <3>2, FS_Subset
    <3> QED BY <1>1, <1>9, <3>1, <3>3, SizesAssumption
  <2> QED BY <1>1, <1>3, <1>6, <2>1 DEF Segment, EntriesOk
<1>11. Depth(audit, f, lo, n + 1)
  <2> SUFFICES ASSUME NEW r \in Part(audit, f, 0, lo)
               PROVE  Cardinality(Part(audit, f, lo, 0)) >= (n + 1) * PageSize
    BY DEF Depth
  <2>1. Cardinality(Part(audit, f, lo, b)) >= PageSize
    BY <1>1, <1>9, SizesAssumption DEF EntriesOk
  <2>2. CASE b = 0
    BY <1>3, <2>1, <2>2, SizesAssumption
  <2>3. CASE b > 0
    <3>1. lo < b
      BY <1>10, <2>3 DEF Segment
    <3>2. r \in Part(audit, f, 0, b)
      BY <1>3, <1>6, <3>1 DEF Part, Match, Table
    <3>3. Cardinality(Part(audit, f, b, 0)) >= n * PageSize
      BY <1>3, <2>3, <3>2 DEF Depth
    <3>4. IsFiniteSet(Part(audit, f, lo, 0))
      BY PartIsFinite
    <3>5. /\ Part(audit, f, lo, b) \subseteq Part(audit, f, lo, 0)
          /\ Part(audit, f, b, 0) \subseteq Part(audit, f, lo, 0)
          /\ Part(audit, f, lo, b) \cap Part(audit, f, b, 0) = {}
      BY <1>3, <1>6, <2>3, <3>1 DEF Part, Match, Table
    <3> DEFINE here == Part(audit, f, lo, b)
               above == Part(audit, f, b, 0)
               both == Part(audit, f, lo, 0)
    <3> HIDE DEF here, above, both
    <3>8. IsFiniteSet(both) /\ here \subseteq both /\ above \subseteq both /\ here \cap above = {}
      BY <3>4, <3>5 DEF here, above, both
    <3>6. /\ Cardinality(Part(audit, f, lo, b)) + Cardinality(Part(audit, f, b, 0))
               <= Cardinality(Part(audit, f, lo, 0))
          /\ Cardinality(Part(audit, f, b, 0)) \in Nat /\ Cardinality(Part(audit, f, lo, 0)) \in Nat
      <4>1. /\ Cardinality(here) + Cardinality(above) <= Cardinality(both)
            /\ Cardinality(above) \in Nat /\ Cardinality(both) \in Nat
        BY <3>8, DisjointUnion
      <4> QED BY <4>1 DEF here, above, both
    <3>7. (n + 1) * PageSize = n * PageSize + PageSize /\ n * PageSize \in Nat
      BY <1>3, SizesAssumption
    <3> QED BY <1>9, <2>1, <3>3, <3>6, <3>7, SizesAssumption
  <2> QED BY <1>3, <2>2, <2>3
<1>12. ASSUME NEW k \in 1..(n + 1)
       PROVE  /\ Segment(audit, lastId, f, Start(q, k + 1), Start(q, k))
              /\ Depth(audit, f, Start(q, k + 1), k)
  <2>1. CASE k \in 1..n
    <3>1. Start(q, k + 1) = Start(p, k + 1) /\ Start(q, k) = Start(p, k)
      BY <1>3, <1>8, <2>1
    <3> QED BY <1>4, <2>1, <3>1
  <2>2. CASE k = n + 1
    <3>1. Start(q, k + 1) = lo /\ Start(q, k) = b
      <4>1. k + 1 = n + 2 /\ k \in 1..(n + 1)
        BY <1>3, <2>2
      <4>2. Start(q, k) = Start(p, n + 1)
        BY <1>8, <2>2, <4>1
      <4>3. Start(p, n + 1) = b
        BY <1>3 DEF Start
      <4> QED BY <1>8, <4>1, <4>2, <4>3
    <3> QED BY <1>10, <1>11, <2>2, <3>1
  <2> QED BY <1>3, <2>1, <2>2
<1>13. Start(q, 1) = 0
  BY <1>3, <1>4, <1>8
<1> QED BY <1>5, <1>7, <1>12, <1>13 DEF QueryOk

\* The pages above the one a press goes back to are those it had above it.
LEMMA NewerIsOk ==
  ASSUME QueryOk(audit, lastId, page.query), NEW q \in Newer
  PROVE  QueryOk(audit, lastId, q)
<1> DEFINE p == page.query
           n == Len(p.cursors)
           kept == SubSeq(p.cursors, 1, n - 1)
<1>1. /\ p = [filter |-> p.filter, cursors |-> p.cursors, before |-> p.before]
      /\ p.cursors \in Seq(Nat)
      /\ \A k \in 1..n : /\ Segment(audit, lastId, p.filter, Start(p, k + 1), Start(p, k))
                         /\ Depth(audit, p.filter, Start(p, k + 1), k)
      /\ Start(p, 1) = 0
  BY DEF QueryOk
<1>2. p.cursors # <<>> /\ q = [p EXCEPT !.cursors = kept, !.before = p.cursors[n]]
  BY DEF Newer
<1>3. n \in Nat \ {0}
  BY <1>1, <1>2
<1>4. /\ kept \in Seq(Nat) /\ Len(kept) = n - 1 /\ p.cursors[n] \in Nat
      /\ \A k \in 1..(n - 1) : kept[k] = p.cursors[k]
  BY <1>1, <1>3
<1> HIDE DEF kept
<1>5. q = [filter |-> p.filter, cursors |-> kept, before |-> p.cursors[n]]
  BY <1>1, <1>2
<1>6. q.filter = p.filter /\ q.cursors = kept /\ q.before = p.cursors[n]
  BY <1>5
<1>7. \A k \in 1..n : Start(q, k) = Start(p, k)
  BY <1>3, <1>4, <1>6 DEF Start
<1>8. ASSUME NEW k \in 1..(n - 1)
      PROVE  /\ Segment(audit, lastId, q.filter, Start(q, k + 1), Start(q, k))
             /\ Depth(audit, q.filter, Start(q, k + 1), k)
  <2>1. k \in 1..n /\ k + 1 \in 1..n
    BY <1>3
  <2> QED BY <1>1, <1>6, <1>7, <2>1
<1>9. Start(q, 1) = 0
  BY <1>1, <1>3, <1>7
<1> QED BY <1>4, <1>5, <1>6, <1>8, <1>9 DEF QueryOk

-----------------------------------------------------------------------------
(* The invariant of the pane. *)

LoadOk(rows, last, w) ==
  /\ {"query", "got"} \subseteq DOMAIN w
  /\ QueryOk(rows, last, w.query) /\ AnswerOk(rows, last, w.got)

\* What is shown, asked for and on its way was asked for by paging down from the top.
PagesInv ==
  /\ AnswerOk(audit, lastId, page)
  /\ task = [t \in Task \cup {Clock} |-> task[t]]
  /\ \A t \in Task \cup {Clock} : LoadOk(audit, lastId, task[t])

LEMMA IdleIsOk ==
  ASSUME NEW rows, NEW last
  PROVE  AnswerOk(rows, last, NoPage) /\ LoadOk(rows, last, Idle)
<1>1. QueryOk(rows, last, First)
  <2>1. Len(First.cursors) = 0 /\ First.cursors \in Seq(Nat) /\ First.before = 0 /\ Start(First, 1) = 0
    BY DEF First, Start
  <2>2. First = [filter |-> First.filter, cursors |-> First.cursors, before |-> First.before]
    BY DEF First
  <2> QED BY <2>1, <2>2 DEF QueryOk
<1>2. NoPage.entries = {} /\ NoPage.query = First
  BY DEF NoPage
<1>3. AnswerOk(rows, last, NoPage)
  BY <1>1, <1>2, FS_EmptySet, SizesAssumption DEF AnswerOk
<1>4. {"query", "got"} \subseteq DOMAIN Idle
      /\ Idle.query = First /\ Idle.got = NoPage
  BY DEF Idle
<1> QED BY <1>1, <1>3, <1>4 DEF LoadOk

\* An append, with the deletion it may end in, ages the table.
LEMMA RecordAges ==
  ASSUME TypeOK, TypeOK', NEW a \in Action, Record(a)
  PROVE  Ages(audit, lastId, audit', lastId')
<1> DEFINE id == lastId + 1
           rows == [i \in DOMAIN audit \cup {id} |-> IF i = id THEN a ELSE audit[i]]
<1>1. lastId' = id /\ audit' = IF appended' = 0 THEN Pruned(rows, id) ELSE rows
  BY DEF Record, AppendRow
<1>2. Table(audit, lastId) /\ Table(audit', lastId') /\ lastId <= lastId'
  <2>1. lastId' = lastId + 1
    BY <1>1
  <2>2. lastId \in Nat /\ DOMAIN audit \subseteq 1..lastId /\ DOMAIN audit' \subseteq 1..lastId'
    BY DEF TypeOK
  <2> QED BY <2>1, <2>2 DEF Table
<1>3. ASSUME NEW i \in DOMAIN rows, i <= lastId PROVE i \in DOMAIN audit /\ rows[i] = audit[i]
  BY <1>3 DEF TypeOK
<1>4. DOMAIN rows = DOMAIN audit \cup {id}
  OBVIOUS
<1> HIDE DEF rows
<1>5. /\ \A i \in DOMAIN audit' : i \in DOMAIN rows /\ audit'[i] = rows[i]
      /\ \A i \in DOMAIN rows, j \in DOMAIN rows :
           i < j /\ i \in DOMAIN audit' => j \in DOMAIN audit'
  <2>1. CASE audit' = rows
    BY <2>1
  <2>2. CASE audit' = Pruned(rows, id) /\ MaxRows # 0
    <3>1. audit' = Restrict(rows, {i \in DOMAIN rows : i > id - MaxRows})
      BY <2>2 DEF Pruned
    <3>2. DOMAIN audit' = {i \in DOMAIN rows : i > id - MaxRows}
          /\ \A i \in DOMAIN audit' : audit'[i] = rows[i]
      BY <3>1 DEF Restrict
    <3>3. \A i \in DOMAIN rows : i \in Int
      BY <1>4 DEF TypeOK
    <3>4. id - MaxRows \in Int
      BY SizesAssumption DEF TypeOK
    <3> QED BY <3>2, <3>3, <3>4
  <2> QED BY <1>1, <2>1, <2>2 DEF Pruned
<1>6. \A i \in DOMAIN audit' : i <= lastId => i \in DOMAIN audit /\ audit'[i] = audit[i]
  BY <1>3, <1>5
<1>7. \A i \in DOMAIN audit, j \in DOMAIN audit : i < j /\ i \in DOMAIN audit' => j \in DOMAIN audit'
  BY <1>4, <1>5
<1> QED BY <1>2, <1>6, <1>7 DEF Ages

\* A step of the daemon leaves the pane as it was; what it holds is still true of the table.
LEMMA DaemonKeeps ==
  ASSUME PagesInv, Ages(audit, lastId, audit', lastId'), UNCHANGED pane
  PROVE  PagesInv'
<1>1. page' = page /\ task' = task
  BY DEF pane
<1>2. AnswerOk(audit', lastId', page')
  BY <1>1, AnswerAges DEF PagesInv
<1>3. ASSUME NEW t \in Task \cup {Clock} PROVE LoadOk(audit', lastId', task'[t])
  <2>1. LoadOk(audit, lastId, task[t])
    BY DEF PagesInv
  <2> QED BY <1>1, <2>1, QueryAges, AnswerAges DEF LoadOk
<1> QED BY <1>1, <1>2, <1>3 DEF PagesInv

\* A step of one press, or of the poll.
LEMMA LoadKeeps ==
  ASSUME PagesInv, NEW t \in Task \cup {Clock}, NEW w, LoadOk(audit, lastId, w),
         task' = [task EXCEPT ![t] = w], UNCHANGED daemon, AnswerOk(audit, lastId, page')
  PROVE  PagesInv'
<1>1. audit' = audit /\ lastId' = lastId
  BY DEF daemon
<1>2. task = [u \in Task \cup {Clock} |-> task[u]]
  BY DEF PagesInv
<1>3. task' = [u \in Task \cup {Clock} |-> IF u = t THEN w ELSE task[u]]
  BY <1>2
<1>4. task' = [u \in Task \cup {Clock} |-> task'[u]]
  BY <1>3
<1>5. ASSUME NEW u \in Task \cup {Clock} PROVE LoadOk(audit, lastId, task'[u])
  BY <1>3 DEF PagesInv
<1> QED BY <1>1, <1>4, <1>5 DEF PagesInv

LEMMA AskingIsOk ==
  ASSUME NEW rows, NEW last, NEW q, QueryOk(rows, last, q), NEW press
  PROVE  LoadOk(rows, last, Asking(q)) /\ LoadOk(rows, last, [Asking(q) EXCEPT !.press = press])
<1> DEFINE asked == Asking(q)
           returning == [asked EXCEPT !.press = press]
<1>1. {"query", "got"} \subseteq DOMAIN Idle /\ Idle.got = NoPage
  BY DEF Idle
<1>2. {"query", "got"} \subseteq DOMAIN asked /\ asked.query = q /\ asked.got = NoPage
  BY <1>1 DEF Asking
<1> HIDE DEF asked
<1>3. {"query", "got"} \subseteq DOMAIN returning /\ returning.query = q /\ returning.got = NoPage
  BY <1>2
<1>4. AnswerOk(rows, last, NoPage)
  BY IdleIsOk
<1> QED BY <1>2, <1>3, <1>4 DEF LoadOk, asked

LEMMA RestIsOk ==
  ASSUME NEW rows, NEW last, NEW press
  PROVE  /\ LoadOk(rows, last, Reloading)
         /\ LoadOk(rows, last, [Idle EXCEPT !.stage = "runs", !.press = press])
<1> DEFINE pressed == [Idle EXCEPT !.stage = "runs", !.press = press]
<1>1. LoadOk(rows, last, Idle)
  BY IdleIsOk
<1>2. {"query", "got"} \subseteq DOMAIN Idle
  BY <1>1 DEF LoadOk
<1>3. /\ {"query", "got"} \subseteq DOMAIN Reloading
      /\ Reloading.query = Idle.query /\ Reloading.got = Idle.got
  BY <1>2 DEF Reloading
<1>4. /\ {"query", "got"} \subseteq DOMAIN pressed
      /\ pressed.query = Idle.query /\ pressed.got = Idle.got
  BY <1>2
<1> QED BY <1>1, <1>3, <1>4 DEF LoadOk

LEMMA PaneKeeps ==
  ASSUME TypeOK, PagesInv, NEW t \in Task \cup {Clock}, Press(t) \/ Step(t)
  PROVE  PagesInv'
<1> DEFINE w == task[t]
<1>1. Table(audit, lastId) /\ AnswerOk(audit, lastId, page) /\ LoadOk(audit, lastId, w)
      /\ QueryOk(audit, lastId, page.query)
  BY DEF TypeOK, PagesInv, Table, AnswerOk
<1>2. LoadOk(audit, lastId, After(t))
  BY IdleIsOk, RestIsOk DEF After
<1>3. CASE Press(t)
  <2>1. PICK press \in Presses : task' = [task EXCEPT ![t] = [Idle EXCEPT !.stage = "runs", !.press = press]]
    BY <1>3 DEF Press
  <2> QED BY <1>1, <1>3, <2>1, RestIsOk, LoadKeeps DEF Press
<1>4. CASE Run(t)
  <2>1. CASE task' = [task EXCEPT ![t] = Reloading]
    BY <1>1, <1>4, <2>1, RestIsOk, LoadKeeps DEF Run
  <2>2. ASSUME NEW q \in Wanted(w.press),
               task' = [task EXCEPT ![t] = [Asking(q) EXCEPT !.press = "then reload"]]
        PROVE  PagesInv'
    <3>1. QueryOk(audit, lastId, q)
      <4>1. q \in Newer \/ q \in Older \/ \E f : q = Filtered(f)
        BY DEF Wanted
      <4> QED BY <1>1, <4>1, NewerIsOk, OlderIsOk, FilteredIsOk
    <3> QED BY <1>1, <1>4, <2>2, <3>1, AskingIsOk, LoadKeeps DEF Run
  <2> QED BY <1>4, <2>1, <2>2 DEF Run
<1>5. CASE Reload(t)
  BY <1>1, <1>5, AskingIsOk, LoadKeeps DEF Reload
<1>6. CASE Serve(t)
  <2> DEFINE served == [w EXCEPT !.stage = "answered", !.got = Answer(w.query)]
  <2>1. task' = [task EXCEPT ![t] = served]
    BY <1>6 DEF Serve
  <2>2. AnswerOk(audit, lastId, Answer(w.query))
    BY <1>1, AnswerIsOk DEF LoadOk
  <2>3. /\ {"query", "got"} \subseteq DOMAIN served
        /\ served.query = w.query /\ served.got = Answer(w.query)
    BY <1>1 DEF LoadOk
  <2>4. LoadOk(audit, lastId, served)
    BY <1>1, <2>2, <2>3 DEF LoadOk
  <2> QED BY <1>1, <1>6, <2>1, <2>4, LoadKeeps DEF Serve
<1>7. CASE Show(t)
  <2>1. AnswerOk(audit, lastId, page')
    BY <1>1, <1>7 DEF Show, LoadOk
  <2> QED BY <1>2, <1>7, <2>1, LoadKeeps DEF Show
<1>8. CASE Fails(t)
  BY <1>1, <1>2, <1>8, LoadKeeps DEF Fails
<1> QED BY <1>3, <1>4, <1>5, <1>6, <1>7, <1>8 DEF Step

\* Every query that is shown, waits to be asked or comes back with an answer describes
\* pages that adjoin in the table as it is now, whatever was appended and deleted
\* since, and whichever presses and polls overlapped (loadAudit, olderAudit, newerAudit).
THEOREM LoadsCorrect == Spec => []PagesInv
<1>1. Init => PagesInv
  <2> SUFFICES ASSUME Init PROVE PagesInv
    OBVIOUS
  <2> QED BY IdleIsOk DEF Init, PagesInv
<1>2. TypeOK /\ TypeOK' /\ PagesInv /\ [Next]_vars => PagesInv'
  <2> SUFFICES ASSUME TypeOK, TypeOK', PagesInv, [Next]_vars PROVE PagesInv'
    OBVIOUS
  <2>1. ASSUME NEW a \in Action, Record(a) PROVE PagesInv'
    BY <2>1, RecordAges, DaemonKeeps DEF Record
  <2>2. CASE Restart
    <3>1. Ages(audit, lastId, audit', lastId')
      BY <2>2 DEF Restart, Ages, Table, TypeOK
    <3> QED BY <2>2, <3>1, DaemonKeeps DEF Restart
  <2>3. ASSUME NEW t \in Task \cup {Clock}, Press(t) \/ Step(t) PROVE PagesInv'
    BY <2>3, PaneKeeps
  <2>4. CASE UNCHANGED vars
    BY <2>4 DEF vars, daemon, pane, PagesInv
  <2> QED BY <2>1, <2>2, <2>3, <2>4 DEF Next
<1> QED BY <1>1, <1>2, TypeCorrect, PTL DEF Spec

\* The parts the properties name.
LEMMA BetweenIsPart ==
  ASSUME TypeOK, NEW f, NEW lo \in Nat, NEW hi \in Nat
  PROVE  /\ Between(f, lo, hi) = Part(audit, f, lo, hi)
         /\ lo > 0 => Before(Matching(f), lo) = Part(audit, f, 0, lo)
BY DEF Between, Before, Matching, Part, Match, TypeOK

\* Paging neither skips nor repeats a row, while rows are added at one end and deleted
\* at the other and loads overlap (register.tsx's cursors, list's before).
THEOREM PagesCorrect == Spec => []PagesAdjoin
<1>1. TypeOK /\ PagesInv => PagesAdjoin
  <2> SUFFICES ASSUME TypeOK, PagesInv PROVE PagesAdjoin
    OBVIOUS
  <2> DEFINE q == page.query
             f == q.filter
             n == Len(q.cursors)
             starting == Append(q.cursors, q.before)
             lo == Min(page.entries)
             hi == Max(page.entries)
  <2>1. /\ QueryOk(audit, lastId, q) /\ lastId \in Nat
        /\ page.entries # {} => EntriesOk(audit, lastId, page, lo, hi)
    BY DEF PagesInv, AnswerOk, TypeOK
  <2>2. q.cursors \in Seq(Nat) /\ q.before \in Nat /\ n \in Nat /\ Start(q, 1) = 0
    BY <2>1 DEF QueryOk
  <2>3. Len(starting) = n + 1 /\ \A k \in 1..(n + 1) : starting[k] = Start(q, k)
    BY <2>2 DEF Start
  <2> HIDE DEF starting, lo, hi
  <2>4. ASSUME NEW k \in 1..n
        PROVE  /\ (starting[k] = 0) = (k = 1) /\ starting[k + 1] > 0
               /\ k > 1 => /\ starting[k + 1] < starting[k]
                           /\ Cardinality(Between(f, starting[k + 1], starting[k])) <= PageSize
               /\ Cardinality(Between(f, starting[k + 1], starting[k])) < PageSize
                    => Before(Matching(f), starting[k + 1]) = {}
    <3>1. Segment(audit, lastId, f, Start(q, k + 1), Start(q, k))
      BY <2>1 DEF QueryOk
    <3>2. starting[k] = Start(q, k) /\ starting[k + 1] = Start(q, k + 1)
      <4> HIDE DEF n
      <4>1. k \in 1..(n + 1) /\ k + 1 \in 1..(n + 1)
        BY <2>2
      <4> QED BY <4>1, <2>3
    <3>3. starting[k + 1] \in 1..lastId /\ starting[k] \in 0..lastId
      BY <3>1, <3>2 DEF Segment
    <3>4. (starting[k] = 0) = (k = 1)
      <4>1. CASE k = 1
        BY <2>2, <3>2, <4>1
      <4>2. CASE k # 1
        <5>1. k - 1 \in 1..n /\ (k - 1) + 1 = k
          BY <2>2, <4>2
        <5>2. Segment(audit, lastId, f, Start(q, (k - 1) + 1), Start(q, k - 1))
          BY <2>1, <5>1 DEF QueryOk
        <5>3. Start(q, k) \in 1..lastId
          BY <5>1, <5>2 DEF Segment
        <5> QED BY <3>2, <4>2, <5>3
      <4> QED BY <4>1, <4>2
    <3>5. /\ Between(f, starting[k + 1], starting[k]) = Part(audit, f, starting[k + 1], starting[k])
          /\ Before(Matching(f), starting[k + 1]) = Part(audit, f, 0, starting[k + 1])
      BY <2>1, <3>3, BetweenIsPart
    <3> QED BY <2>1, <3>1, <3>2, <3>3, <3>4, <3>5 DEF Segment
  <2>5. ASSUME page.entries # {}
        PROVE  /\ q.before > 0 => hi < q.before /\ Between(f, hi + 1, q.before) = {}
               /\ {i \in Between(f, lo, q.before) : i <= hi} \subseteq page.entries
    <3>1. EntriesOk(audit, lastId, page, lo, hi) /\ lo \in Nat /\ hi \in Nat /\ hi + 1 \in Nat
      BY <2>1, <2>5 DEF EntriesOk
    <3>2. /\ Between(f, lo, q.before) = Part(audit, f, lo, q.before)
          /\ Between(f, hi + 1, q.before) = Part(audit, f, hi + 1, q.before)
      BY <2>2, <3>1, BetweenIsPart
    <3> QED BY <3>1, <3>2 DEF EntriesOk
  <2>6. 1..(Len(starting) - 1) = 1..n
    BY <2>2, <2>3
  <2> QED BY <2>4, <2>5, <2>6 DEF PagesAdjoin, starting, lo, hi
<1> QED BY <1>1, TypeCorrect, LoadsCorrect, PTL

\* The view offers older rows while there are any: what it counts as seen stays below
\* the total of the answer (view.tsx's count, list's total).
THEOREM OlderCorrect == Spec => []OlderIsOffered
<1>1. TypeOK /\ PagesInv => OlderIsOffered
  <2> SUFFICES ASSUME TypeOK, PagesInv, page.entries # {},
                      Between(page.query.filter, 1, Min(page.entries)) # {}
               PROVE  OffersOlder
    BY DEF OlderIsOffered
  <2>1. EntriesOk(audit, lastId, page, Min(page.entries), Max(page.entries))
    BY DEF PagesInv, AnswerOk
  <2>2. Min(page.entries) \in Nat /\ lastId \in Nat
    BY <2>1 DEF EntriesOk, TypeOK
  <2>3. Part(audit, page.query.filter, 1, Min(page.entries)) # {}
    BY <2>2, BetweenIsPart
  <2>4. Part(audit, page.query.filter, 0, Min(page.entries)) # {}
    BY <2>2, <2>3 DEF Part, Match, TypeOK
  <2> QED BY <2>1, <2>4 DEF EntriesOk, OffersOlder, Seen
<1> QED BY <1>1, TypeCorrect, LoadsCorrect, PTL
=============================================================================
