--------------------------- MODULE RegistryMirror ---------------------------
(***************************************************************************)
(* domain/registry.ts: the local copy of the MCP Registry, filled page by  *)
(* page and kept up by incremental syncs, while the registry changes,      *)
(* requests fail, the daemon restarts and single lookups refresh rows.     *)
(*                                                                         *)
(* The registry lists the versions of its servers by name, then version,   *)
(* and stamps every change with the time.  Names and times are naturals.   *)
(***************************************************************************)
EXTENDS Integers, Sequences, FiniteSets

CONSTANTS Names,       \* how many server names there are
          Nil,
          PageLimit,
          MaxPages,    \* MAX_PAGES: a sync stops there
          MaxVersions, MaxTime, MaxFaults     \* bounds

Name == 1..Names
Version == 1..MaxVersions
Key == Name \X Version

ASSUME BoundsAssumption == Names \in Nat /\ MaxVersions \in Nat \ {0}
ASSUME PagesArePositive == PageLimit \in Nat \ {0} /\ MaxPages \in Nat \ {0}
ASSUME NilAssumption == Nil \notin Key

\* What the registry lists fits in the pages of one sync (200 000 entries, registry.ts:24):
\* one that is cut short there moves the cursor past what it has not asked for.
ASSUME RegistryFits == Names * MaxVersions <= MaxPages * PageLimit

VARIABLES
  registry,   \* registry[n]: the versions of n with their status and time of change
  clock,
  mirror,     \* registry_servers: NoRow, or the one version the mirror holds of n
  since,      \* registry_updated_since, 0 when it is not set
  synced,     \* whether registry_synced_at is set
  sync,       \* the running sync
  page,       \* the answer to its request, on its way
  look,       \* the answer to a lookup of a latest version, on its way
  ask,        \* the answer to a live search, on its way: the names found
  reply,      \* what the last step answered a search, Nil when it answered none
  raced,      \* names that changed while an answer of the registry was on its way
  faults

rows == <<mirror, since, synced>>
mirrorVars == <<registry, clock, rows, sync, page, look, ask, reply, raced, faults>>
NoReply == UNCHANGED ask /\ reply' = Nil

NoRow == [version |-> 0, status |-> "none", updated |-> 0, latest |-> FALSE]
NoSync == [since |-> 0, after |-> <<0, 0>>, pages |-> 0, newest |-> 0, running |-> FALSE]

------------------------------------------------------------------------------
(* The registry. *)

Entry(n, v) == [name |-> n, version |-> v, status |-> registry[n][v].status,
                updated |-> registry[n][v].updated, latest |-> v = Len(registry[n])]
Before(k, l) == k[1] < l[1] \/ (k[1] = l[1] /\ k[2] < l[2])

\* ?version=latest, or ?updated_since: the entries after the cursor.
Listed(from, after, k) ==
  /\ k[2] \in DOMAIN registry[k[1]] /\ Before(after, k)
  /\ IF from = 0 THEN k[2] = Len(registry[k[1]]) ELSE registry[k[1]][k[2]].updated > from

\* The first of a set of keys, and the last of one.
Page(keys) == {k \in keys : Cardinality({l \in keys : Before(l, k)}) < PageLimit}
LastOf(keys) == CHOOSE k \in keys : \A l \in keys : ~Before(k, l)

Answer(from, after) ==
  LET all == {k \in Key : Listed(from, after, k)}
  IN  [entries |-> {Entry(k[1], k[2]) : k \in Page(all)},
       next |-> IF Page(all) = all THEN Nil ELSE LastOf(Page(all))]

\* An answer is on its way between its request and its transaction; a later change
\* of the latest version, with none on its way, settles the name again.
Races(n, v) == raced' = IF sync.running \/ look # Nil THEN raced \cup {n}
                        ELSE IF v = Len(registry'[n]) THEN raced \ {n} ELSE raced
Tick == clock < MaxTime /\ clock' = clock + 1

\* A new version takes the place of the latest; the old one may be stamped too.
Publish(n) ==
  \E touched \in BOOLEAN :
    /\ Tick /\ Len(registry[n]) < MaxVersions
    /\ registry' = [registry EXCEPT ![n] =
         Append(IF touched /\ @ # <<>> THEN [@ EXCEPT ![Len(@)].updated = clock'] ELSE @,
                [status |-> "active", updated |-> clock'])]
    /\ Races(n, Len(registry'[n]))
    /\ NoReply /\ UNCHANGED <<rows, sync, page, look, faults>>

TakeDown(n) ==
  \E v \in DOMAIN registry[n] :
    /\ Tick /\ registry[n][v].status = "active"
    /\ registry' = [registry EXCEPT ![n][v] = [status |-> "deleted", updated |-> clock']]
    /\ Races(n, v)
    /\ NoReply /\ UNCHANGED <<rows, sync, page, look, faults>>

------------------------------------------------------------------------------
(* The mirror. *)

\* An entry replaces the row when it is the latest, or the version the row has.
Row(e) == [version |-> e.version, status |-> e.status, updated |-> e.updated, latest |-> e.latest]
Replaces(e, row) == row = NoRow \/ e.latest \/ row.version = e.version
Upsert(m, e) == IF Replaces(e, m[e.name]) THEN [m EXCEPT ![e.name] = Row(e)] ELSE m

\* The entries of a page one after the other.  Of a name they are in the order of
\* its versions: the latest is the last, and stays; without it a row takes its own
\* version, and no row the first.  (MCRegistryMirror checks this against Upsert.)
Stays(e, row, es) ==
  IF \E l \in es : l.latest THEN e.latest
  ELSE Replaces(e, row) /\ (row = NoRow => \A l \in es : e.version <= l.version)
UpsertAll(m, entries) ==
  [n \in Name |->
     LET es == {e \in entries : e.name = n}
         stay == {e \in es : Stays(e, m[n], es)}
     IN  IF stay = {} THEN m[n] ELSE Row(CHOOSE e \in stay : TRUE)]

Request(from, after) == page' = Answer(from, after)

\* Daemon start, a search or the sync route; a running sync is joined.
Begin ==
  /\ ~sync.running
  /\ sync' = [NoSync EXCEPT !.since = since, !.newest = since, !.running = TRUE]
  /\ Request(since, <<0, 0>>)

StartSync == Begin /\ NoReply /\ UNCHANGED <<registry, clock, rows, look, raced, faults>>

\* Stale: never synced, or an hour old, which is a matter of time.
SyncIfStale == \/ Begin
               \/ (sync.running \/ synced) /\ UNCHANGED <<sync, page>>

Greatest(times) == CHOOSE t \in times : \A u \in times : u <= t
Newest(entries) == Greatest({sync.newest} \cup {e.updated : e \in entries})

\* A slip a page does not make: the cursor is stored with every page.
EveryPage ==
  /\ page # Nil
  /\ mirror' = UpsertAll(mirror, page.entries)
  /\ since' = Newest(page.entries)
  /\ IF page.next # Nil
     THEN /\ sync' = [sync EXCEPT !.after = page.next, !.pages = @ + 1, !.newest = Newest(page.entries)]
          /\ Request(sync.since, page.next)
          /\ UNCHANGED synced
     ELSE sync' = NoSync /\ page' = Nil /\ synced' = TRUE
  /\ NoReply /\ UNCHANGED <<registry, clock, look, raced, faults>>

\* One page: its entries in one transaction, then the next request, or the end:
\* only then do the cursor and the time of the sync move.
StorePage ==
  /\ page # Nil
  /\ mirror' = UpsertAll(mirror, page.entries)
  /\ IF page.next # Nil /\ sync.pages + 1 < MaxPages
     THEN /\ sync' = [sync EXCEPT !.after = page.next, !.pages = @ + 1, !.newest = Newest(page.entries)]
          /\ Request(sync.since, page.next)
          /\ UNCHANGED <<since, synced>>
     ELSE /\ sync' = NoSync /\ page' = Nil
          /\ since' = Newest(page.entries)
          /\ synced' = TRUE
  /\ NoReply /\ UNCHANGED <<registry, clock, look, raced, faults>>

Fault == faults < MaxFaults /\ faults' = faults + 1

\* A slip the sync does not make: it stays running after an error.
SyncFailsRunning ==
  /\ sync.running /\ page # Nil /\ Fault
  /\ page' = Nil /\ sync' = sync
  /\ NoReply /\ UNCHANGED <<registry, clock, rows, look, raced>>

\* The request fails or times out after 20 s: pages stored so far stay.
SyncFails ==
  /\ sync.running /\ page # Nil /\ Fault
  /\ page' = Nil /\ sync' = NoSync
  /\ NoReply /\ UNCHANGED <<registry, clock, rows, look, raced>>

Restart ==
  /\ (sync.running \/ look # Nil \/ ask # Nil) /\ Fault
  /\ sync' = NoSync /\ page' = Nil /\ look' = Nil /\ ask' = Nil /\ reply' = Nil
  /\ UNCHANGED <<registry, clock, rows, raced>>

\* fetchVersion(name, 'latest'): an answer read now, and stored when it arrives.
LookUp(n) ==
  /\ look = Nil /\ registry[n] # <<>>
  /\ look' = Entry(n, Len(registry[n]))
  /\ NoReply /\ UNCHANGED <<registry, clock, rows, sync, page, raced, faults>>

StoreLookUp ==
  /\ look # Nil
  /\ mirror' = Upsert(mirror, look)
  /\ look' = Nil
  /\ NoReply /\ UNCHANGED <<registry, clock, since, synced, sync, page, raced, faults>>

------------------------------------------------------------------------------
(* Marketplace search: every name matches the query. *)

Latest(n) == registry[n][Len(registry[n])]
Active(n) == registry[n] # <<>> /\ Latest(n).status = "active"

\* A slip the search does not make: entries taken down are found, too.
FoundWithDeleted == {n \in Name : mirror[n] # NoRow}
Found == {n \in Name : mirror[n].status = "active"}

\* The mirror answers once it has synced, the registry before that; either way a
\* stale mirror syncs in the background.
Search ==
  /\ ask = Nil /\ SyncIfStale
  /\ IF synced THEN reply' = [from |-> "mirror", names |-> Found] /\ UNCHANGED ask
               ELSE ask' = {n \in Name : Active(n)} /\ reply' = Nil
  /\ UNCHANGED <<registry, clock, rows, look, raced, faults>>

SearchAnswered ==
  /\ ask # Nil
  /\ reply' = [from |-> "live", names |-> ask] /\ ask' = Nil
  /\ UNCHANGED <<registry, clock, rows, sync, page, look, raced, faults>>

\* The live search failed: the partly filled mirror answers, unless it is empty.
SearchFails ==
  /\ ask # Nil /\ Fault
  /\ reply' = [from |-> IF Found = {} THEN "error" ELSE "partial", names |-> Found] /\ ask' = Nil
  /\ UNCHANGED <<registry, clock, rows, sync, page, look, raced>>

------------------------------------------------------------------------------
MirrorInit ==
  /\ clock = 1
  /\ registry \in [Name -> {<<>>, <<[status |-> "active", updated |-> 1]>>}]
  /\ mirror = [n \in Name |-> NoRow]
  /\ since = 0 /\ synced = FALSE
  /\ sync = NoSync /\ page = Nil /\ look = Nil /\ ask = Nil /\ reply = Nil
  /\ raced = {} /\ faults = 0

MirrorNext == \/ \E n \in Name : Publish(n) \/ TakeDown(n) \/ LookUp(n)
        \/ StartSync \/ StorePage \/ SyncFails \/ Restart \/ StoreLookUp
        \/ Search \/ SearchAnswered \/ SearchFails

MirrorSpec == MirrorInit /\ [][MirrorNext]_mirrorVars

\* A request is answered or times out, and its answer is stored.
MirrorFairSpec == MirrorSpec /\ WF_mirrorVars(StorePage)

------------------------------------------------------------------------------
(* Properties. *)

Current(n) == mirror[n] = Row(Entry(n, Len(registry[n])))
Passed(n) == registry[n] # <<>> /\ Latest(n).updated <= since

\* The next incremental sync asks for nothing older than the cursor, so a server
\* whose latest version is older must be in the mirror as it is: in pages that commit
\* one by one, with restarts and failures between them, and changes of versions that
\* are not the latest (registry.ts:144-216).  Names that changed while an answer was
\* on its way are let off: a change the cursor has overtaken is not asked for again.
CursorCovers == \A n \in Name \ raced : Passed(n) => Current(n)

\* A search of the synced mirror finds exactly the active servers among those the
\* cursor has passed, however they got there (registry.ts:218-234, marketplace.ts:179-216).
SearchesAgree ==
  reply # Nil /\ reply.from = "mirror" =>
    \A n \in Name \ raced : Passed(n) => (n \in reply.names <=> Active(n))

\* Every sync ends, so the next one is not joined to it for good (registry.ts:107-123).
SyncEnds == sync.running ~> ~sync.running
=============================================================================
