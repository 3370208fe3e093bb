------------------------------- MODULE Records -------------------------------
(***************************************************************************)
(* The audit log (src/domain/trust/audit.ts) and its page in the /discover *)
(* pane (plugin/hooks/register.tsx, view.tsx).                             *)
(*                                                                         *)
(* The daemon appends rows with growing ids and, every PruneEvery appends  *)
(* of one process, deletes the old ones.  The pane shows one page: Older   *)
(* asks for what is before the last row it shows and remembers where the   *)
(* page began, Newer goes back, a filter starts over.  Presses and the     *)
(* poll run at once; each reads what is shown, asks the daemon and writes  *)
(* the answer.  A row is its id and its action, which also stands for the  *)
(* server a filter may name; what else a row records is left out.          *)
(***************************************************************************)
EXTENDS Integers, Sequences, FiniteSetsExt, Functions

CONSTANTS Action,      \* what rows record, and a filter may ask for
          All,         \* no filter
          Task,        \* presses that can run at once
          Clock,       \* the poll
          MaxRows,     \* rows to keep; 0 is all
          PruneEvery,
          PageSize,
          MaxId, MaxStarts, MaxPresses    \* bounds of a run

ASSUME SizesAssumption == MaxRows \in Nat /\ PruneEvery \in Nat \ {0} /\ PageSize \in Nat \ {0}

VARIABLES audit,       \* the table: the action of each row, by id
          lastId,      \* the id AUTOINCREMENT gave last
          appended,    \* appends of this process since it pruned last
          starts,      \* restarts so far
          page,        \* the atom drawn: a query and its answer
          task,        \* what each press, and the poll, has left to do
          presses

daemon == <<audit, lastId, appended, starts>>
pane == <<page, task, presses>>
vars == <<daemon, pane>>

\* before = 0 is the newest page; cursors are the befores of the pages above.
First == [filter |-> All, cursors |-> <<>>, before |-> 0]
NoPage == [query |-> First, entries |-> {}, total |-> 0]   \* nothing loaded yet
Idle == [stage |-> "idle", press |-> "none", query |-> First, got |-> NoPage]

Init == /\ audit = <<>> /\ lastId = 0 /\ appended = 0 /\ starts = 0
        /\ page = NoPage
        /\ task = [t \in Task \cup {Clock} |-> Idle]
        /\ presses = 0

TypeOK == /\ lastId \in Nat /\ appended \in 0..(PruneEvery - 1) /\ starts \in Nat
          /\ DOMAIN audit \subseteq 1..lastId
          /\ \A i \in DOMAIN audit : audit[i] \in Action

-----------------------------------------------------------------------------
(* The table. *)

\* Slips no step makes, here and below: each breaks a property (see PROJECT.json).
PrunedShort(rows, last) ==
  IF MaxRows = 0 THEN rows ELSE Restrict(rows, {i \in DOMAIN rows : i >= last - MaxRows})

\* prune(): what is MaxRows ids behind the last one.
Pruned(rows, last) ==
  IF MaxRows = 0 THEN rows ELSE Restrict(rows, {i \in DOMAIN rows : i > last - MaxRows})

AppendRow(action) ==
  LET id == lastId + 1
      rows == [i \in DOMAIN audit \cup {id} |-> IF i = id THEN action ELSE audit[i]]
  IN  /\ lastId' = id
      /\ appended' = (appended + 1) % PruneEvery
      /\ audit' = IF appended' = 0 THEN Pruned(rows, id) ELSE rows

Record(action) == lastId < MaxId /\ AppendRow(action) /\ UNCHANGED <<starts, pane>>

\* The count of appends is not stored.
Restart == /\ starts < MaxStarts
           /\ starts' = starts + 1 /\ appended' = 0
           /\ UNCHANGED <<audit, lastId, pane>>

Matching(filter) == {i \in DOMAIN audit : filter \in {All, audit[i]}}
Before(ids, before) == IF before = 0 THEN ids ELSE {i \in ids : i < before}
Newest(ids) == {i \in ids : Cardinality({j \in ids : j > i}) < PageSize}

CountedBelow(query) == Cardinality(Before(Matching(query.filter), query.before))

\* The total is of the filter alone, the entries are those of the page.
Counted(query) == Cardinality(Matching(query.filter))

Answer(query) ==
  [query |-> query, total |-> Counted(query),
   entries |-> Newest(Before(Matching(query.filter), query.before))]

-----------------------------------------------------------------------------
(* The page. *)

\* Rows on this page and the pages above, as the view counts them.
Seen == Len(page.query.cursors) * PageSize + Cardinality(page.entries)

OffersNewer == page.query.cursors # <<>>
OffersOlder == Seen < page.total

Presses == (IF OffersNewer THEN {"newer"} ELSE {}) \cup (IF OffersOlder THEN {"older"} ELSE {})
             \cup {"reload"} \cup Action \cup {All}

FilteredInPlace(filter) == [page.query EXCEPT !.filter = filter]

\* filterAudit(): the first page of the filter.
Filtered(filter) == [First EXCEPT !.filter = filter]

\* olderAudit(): nothing to load under an empty page.
Older == IF page.entries = {} THEN {}
         ELSE {[page.query EXCEPT !.cursors = Append(@, page.query.before),
                                  !.before = Min(page.entries)]}

\* newerAudit()
Newer == LET cursors == page.query.cursors
         IN  IF cursors = <<>> THEN {}
             ELSE {[page.query EXCEPT !.cursors = SubSeq(cursors, 1, Len(cursors) - 1),
                                      !.before = cursors[Len(cursors)]]}

\* What a press loads, by what is shown when it runs.
Wanted(press) == CASE press = "newer" -> Newer
                   [] press = "older" -> Older
                   [] press = "reload" -> {}
                   [] OTHER -> {Filtered(press)}

Asking(query) == [Idle EXCEPT !.stage = "asks", !.query = query]
Reloading == [Idle EXCEPT !.stage = "reloads"]

\* act() of a press that was offered when it was made; its function runs later.
Press(t) ==
  /\ presses < MaxPresses /\ presses' = presses + 1
  /\ task[t] = Idle
  /\ \E press \in Presses : task' = [task EXCEPT ![t] = [Idle EXCEPT !.stage = "runs", !.press = press]]
  /\ UNCHANGED <<daemon, page>>

Run(t) ==
  /\ task[t].stage = "runs"
  /\ LET wanted == Wanted(task[t].press)
     IN  \/ wanted = {} /\ task' = [task EXCEPT ![t] = Reloading]
         \/ \E query \in wanted :
              task' = [task EXCEPT ![t] = [Asking(query) EXCEPT !.press = "then reload"]]
  /\ UNCHANGED <<daemon, page, presses>>

\* loadView(), after every action and by the clock: the query of what is shown.
Reload(t) ==
  /\ task[t].stage = "reloads" \/ (t = Clock /\ task[t] = Idle)
  /\ task' = [task EXCEPT ![t] = Asking(page.query)]
  /\ UNCHANGED <<daemon, page, presses>>

After(t) == IF task[t].press = "then reload" THEN Reloading ELSE Idle

Serve(t) ==
  /\ task[t].stage = "asks"
  /\ task' = [task EXCEPT ![t].stage = "answered", ![t].got = Answer(task[t].query)]
  /\ UNCHANGED <<daemon, page, presses>>

\* loadAudit() writes the answer with its query, whatever is shown by now.
Show(t) ==
  /\ task[t].stage = "answered"
  /\ page' = task[t].got
  /\ task' = [task EXCEPT ![t] = After(t)]
  /\ UNCHANGED <<daemon, presses>>

\* The daemon is away: act() and the poll swallow the error.
Fails(t) ==
  /\ task[t].stage \in {"asks", "answered"}
  /\ task' = [task EXCEPT ![t] = After(t)]
  /\ UNCHANGED <<daemon, page, presses>>

Step(t) == Run(t) \/ Reload(t) \/ Serve(t) \/ Show(t) \/ Fails(t)

Next == (\E a \in Action : Record(a)) \/ Restart
          \/ (\E t \in Task : Press(t)) \/ (\E t \in Task \cup {Clock} : Step(t))

Spec == Init /\ [][Next]_vars

-----------------------------------------------------------------------------
\* Retention (append, prune): what is deleted is always the oldest, never one of
\* the newest MaxRows rows, and a process leaves at most PruneEvery - 1 rows more
\* than it should, whenever restarts make it forget how many it appended.
KeepsNewest ==
  \E first \in 1..(lastId + 1) :
    /\ DOMAIN audit = first..lastId
    /\ MaxRows > 0 => /\ first = 1 \/ first <= lastId - MaxRows + 1
                      /\ lastId - first + 1 <= MaxRows + (PruneEvery - 1) * (starts + 1)
    /\ MaxRows = 0 => first = 1

\* The rows of one page of the query: from where it ends up to where it began.
Between(filter, last, before) == {i \in Before(Matching(filter), before) : i >= last}

\* Paging neither skips nor repeats (loadAudit, olderAudit, newerAudit): between
\* where a page above the one shown begins and where the next begins there is one
\* page of rows (the newest page grows), unless what lies below is gone; and the
\* page shown has all its rows that were not deleted.  Rows come and go meanwhile,
\* and loads overlap.
PagesAdjoin ==
  LET filter == page.query.filter
      starting == Append(page.query.cursors, page.query.before)
      PageOf(k) == Between(filter, starting[k + 1], starting[k])
  IN  /\ \A k \in 1..(Len(starting) - 1) :
           /\ (starting[k] = 0) = (k = 1) /\ starting[k + 1] > 0
           /\ k > 1 => starting[k + 1] < starting[k] /\ Cardinality(PageOf(k)) <= PageSize
           /\ Cardinality(PageOf(k)) < PageSize => Before(Matching(filter), starting[k + 1]) = {}
      /\ page.entries # {} =>
           /\ page.query.before > 0 => Max(page.entries) < page.query.before
           /\ {i \in Between(filter, Min(page.entries), page.query.before) : i <= Max(page.entries)}
                \subseteq page.entries
           /\ page.query.before > 0 =>
                Between(filter, Max(page.entries) + 1, page.query.before) = {}

\* As long as there are older rows of the filter than those shown, the view offers
\* them: the count it compares (Audit in view.tsx) is never above the total while
\* rows come and retention deletes others (list's total).
OlderIsOffered ==
  page.entries # {} /\ Between(page.query.filter, 1, Min(page.entries)) # {} => OffersOlder
=============================================================================
