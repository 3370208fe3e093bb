----------------------------- MODULE ToolSearch -----------------------------
(***************************************************************************)
(* The tool index and the ranker that searches it: domain/tool-index.ts,   *)
(* domain/ranker.ts, domain/tool-doc.ts and the search_tools tool.         *)
(*                                                                         *)
(* A definition of a tool is its hash: the search document and the text    *)
(* that is embedded are functions of it.  Scores are left open: the ranker *)
(* may order what it scores in any way.                                    *)
(***************************************************************************)
EXTENDS Integers, FiniteSets

CONSTANTS Name,        \* server names
          Tools,       \* how many tool names a server uses: 1..Tools
          Hash,
          Matching,    \* the definitions in which the query's words occur
          Model,       \* embedding models
          None,
          Limit,
          Pool,        \* how many documents the words may bring (options.pool)
          MaxId, MaxInstalls, MaxWrites, MaxFaults     \* bounds

ASSUME Bounds == /\ Matching \subseteq Hash /\ None \notin Model
                 /\ Tools \in Nat /\ Limit \in Nat /\ Pool \in Nat

Tool == 1..Tools

VARIABLES
  servers,     \* servers[n]: NoServer, or the row of the server
  installs,    \* server ids given out
  tools,       \* server_tools, by id
  fts,         \* server_tools_fts: the document of each rowid
  nextId,
  generation,
  provider,    \* the embedding model in use, None without one
  save,        \* save[n]: the save of n that waits for its vectors
  snapshot,    \* what the ranker keeps
  search,      \* the running search
  answer,      \* of the search the last step answered: how many tools it found, how many
               \* match and may be shown, how many it scored and lost since it counted,
               \* and how many the pool leaves room for
  faults

index == <<tools, fts, nextId, generation>>
vars == <<servers, installs, index, provider, save, snapshot, search, answer, faults>>

NoServer == [id |-> 0, quarantined |-> FALSE]
Ids(server) == {i \in DOMAIN tools : tools[i].server = server}
IsInstalled(server) == \E n \in Name : servers[n] # NoServer /\ servers[n].id = server
Quarantined(i) == \E n \in Name : servers[n].quarantined /\ servers[n].id = tools[i].server
Held == {i \in DOMAIN tools : Quarantined(i)}
\* What is not available resolves to no provider.
Providers == Model \cup {None}
LeastOf(a, b) == IF a <= b THEN a ELSE b
Silent == answer' = None

------------------------------------------------------------------------------
(* Saving the tools of a server. *)

Unembedded(row, h) == row.hash # h \/ (provider # None /\ (row.vec = None \/ row.vec.model # provider))

\* New, changed, or without a vector of the model in use.
Dirty(existing, incoming) ==
  {t \in DOMAIN incoming :
     t \in DOMAIN existing => Unembedded(existing[t].row, incoming[t])}

Existing(server) ==
  [t \in {tools[i].name : i \in Ids(server)} |->
     LET i == CHOOSE i \in Ids(server) : tools[i].name = t IN [id |-> i, row |-> tools[i]]]

\* Definitions of which the database has a vector already are not embedded again.
Stored(h) == \E i \in DOMAIN tools : tools[i].hash = h /\ tools[i].vec # None /\ tools[i].vec.model = provider
Missing(incoming, dirty) == IF provider = None THEN {} ELSE {t \in dirty : ~Stored(incoming[t])}

\* A slip the transaction does not make: without a new vector the old one stays.
VectorKept(job, t, embedded) ==
  IF t \in embedded THEN [hash |-> job.incoming[t], model |-> provider]
  ELSE IF t \in DOMAIN job.existing THEN job.existing[t].row.vec ELSE None
Vector(job, t, embedded) ==
  IF t \in embedded THEN [hash |-> job.incoming[t], model |-> provider] ELSE None

Bumps(dirty, removed) == dirty # {} \/ removed # {}

\* The document is a function of the definition alone.
Document(job, t) == job.incoming[t]

\* The transaction writes what was read before the vectors came: an UPDATE of a row
\* deleted since changes nothing, but its document is inserted all the same; an
\* INSERT for a server deleted since fails, and with it the transaction.
Commit(job, embedded) ==
  LET removed == DOMAIN job.existing \ DOMAIN job.incoming
      gone == {job.existing[t].id : t \in removed} \cap DOMAIN tools
      added == job.dirty \ DOMAIN job.existing
      new == [t \in added |-> nextId + Cardinality({u \in added : u < t})]
      id == [t \in job.dirty |-> IF t \in added THEN new[t] ELSE job.existing[t].id]
      Of(i) == CHOOSE t \in job.dirty : id[t] = i
      written == {id[t] : t \in job.dirty}
      live == written \cap (DOMAIN tools \cup {new[t] : t \in added})
      Row(t) == [server |-> job.server, name |-> t, hash |-> job.incoming[t],
                 vec |-> Vector(job, t, embedded)]
  IN IF added # {} /\ ~IsInstalled(job.server) THEN UNCHANGED index
     ELSE /\ nextId + Cardinality(added) <= MaxId + 1
          /\ tools' = [i \in (DOMAIN tools \ gone) \cup live |->
                         IF i \in written THEN Row(Of(i)) ELSE tools[i]]
          /\ fts' = [i \in (DOMAIN fts \ gone) \cup written |->
                       IF i \in written THEN Document(job, Of(i)) ELSE fts[i]]
          /\ nextId' = nextId + Cardinality(added)
          /\ generation < MaxWrites
          /\ generation' = IF Bumps(job.dirty, removed) THEN generation + 1 ELSE generation

\* One save at a time for a server (lifecycle.reindex); it waits when it embeds.
Save(n) ==
  \E names \in SUBSET Tool : \E incoming \in [names -> Hash] :
    LET existing == Existing(servers[n].id)
        dirty == Dirty(existing, incoming)
        job == [server |-> servers[n].id, incoming |-> incoming, existing |-> existing,
                dirty |-> dirty, missing |-> Missing(incoming, dirty)]
    IN /\ servers[n] # NoServer /\ save[n] = None
       /\ IF job.missing = {}
          THEN /\ Commit(job, IF provider = None THEN {} ELSE dirty)
               /\ UNCHANGED save
          ELSE save' = [save EXCEPT ![n] = job] /\ UNCHANGED index
       /\ Silent /\ UNCHANGED <<servers, installs, provider, snapshot, search, faults>>

Embedded(n) ==
  /\ save[n] # None
  /\ Commit(save[n], save[n].dirty)
  /\ save' = [save EXCEPT ![n] = None]
  /\ Silent /\ UNCHANGED <<servers, installs, provider, snapshot, search, faults>>

\* Indexing goes on without the vectors that did not come: a batch, or all of them.
EmbeddingFails(n) ==
  /\ save[n] # None /\ faults < MaxFaults /\ faults' = faults + 1
  /\ \E lost \in SUBSET save[n].missing : lost # {} /\ Commit(save[n], save[n].dirty \ lost)
  /\ save' = [save EXCEPT ![n] = None]
  /\ Silent /\ UNCHANGED <<servers, installs, provider, snapshot, search>>

------------------------------------------------------------------------------
(* Servers come, go and are held back. *)

Install(n) ==
  /\ servers[n] = NoServer /\ installs < MaxInstalls
  /\ installs' = installs + 1
  /\ servers' = [servers EXCEPT ![n] = [id |-> installs + 1, quarantined |-> FALSE]]
  /\ Silent /\ UNCHANGED <<index, provider, save, snapshot, search, faults>>

\* A slip an uninstall does not make: the generation stays.
RemoveQuietly(server) ==
  /\ tools' = [i \in DOMAIN tools \ Ids(server) |-> tools[i]]
  /\ fts' = [i \in DOMAIN fts \ Ids(server) |-> fts[i]]
  /\ UNCHANGED <<nextId, generation>>

\* Deleting a row deletes its document (a trigger).
Remove(server) ==
  /\ tools' = [i \in DOMAIN tools \ Ids(server) |-> tools[i]]
  /\ fts' = [i \in DOMAIN fts \ Ids(server) |-> fts[i]]
  /\ generation' = IF Ids(server) # {} THEN generation + 1 ELSE generation
  /\ UNCHANGED nextId

Uninstall(n) ==
  /\ servers[n] # NoServer
  /\ Remove(servers[n].id)
  /\ servers' = [servers EXCEPT ![n] = NoServer]
  /\ Silent /\ UNCHANGED <<installs, provider, save, snapshot, search, faults>>

SetQuarantined(n) ==
  /\ servers[n] # NoServer
  /\ servers' = [servers EXCEPT ![n].quarantined = ~@]
  /\ Silent /\ UNCHANGED <<installs, index, provider, save, snapshot, search, faults>>

------------------------------------------------------------------------------
(* Searching. *)

Server(i) == CHOOSE n \in Name : servers[n] # NoServer /\ servers[n].id = tools[i].server

\* load() joins documents, tools and servers; the vectors are the model's own.
Documents == [i \in DOMAIN fts \cap DOMAIN tools |-> Server(i)]
Vectors == {i \in DOMAIN tools : provider # None /\ tools[i].vec # None /\ tools[i].vec.model = provider}
Loaded == [generation |-> generation, model |-> provider, serverOf |-> Documents, vectors |-> Vectors]
Matches == {i \in DOMAIN fts : fts[i] \in Matching}
Take(hits, k) == {h \in SUBSET hits : Cardinality(h) = LeastOf(Cardinality(hits), k)}

\* The words bring the best documents, whatever order BM25 gives them.
Lexical == Take(Matches, Pool)

Kept(s) == s # None /\ s.generation = generation /\ s.model = provider

\* A slip the search does not make: it fetches no more than it answers.
CountNothing == 0

\* The tools that are quarantined are counted, to be fetched on top of the limit.
Count == Cardinality(Held)

Search ==
  /\ search = None
  /\ search' = [step |-> "asked", held |-> Held, extra |-> Count, matches |-> {},
                lexical |-> {}, vectors |-> {}]
  /\ Silent /\ UNCHANGED <<servers, installs, index, provider, save, snapshot, faults>>

\* rank(): the snapshot is loaded or kept, the words are matched, the query embedded.
Rank ==
  LET snap == IF Kept(snapshot) THEN snapshot ELSE Loaded
  IN /\ search # None /\ search.step = "asked"
     /\ snapshot' = snap
     /\ IF snap.serverOf = <<>> THEN search' = [search EXCEPT !.step = "ranked"]
        ELSE \E lexical \in Lexical :
               search' = [search EXCEPT !.step = "ranked", !.vectors = snap.vectors,
                            !.matches = Matches, !.lexical = lexical]
     /\ Silent /\ UNCHANGED <<servers, installs, index, provider, save, faults>>

\* A cosine counts when it is above the lowest; a query that is not embedded, or a
\* model the snapshot has no vectors of, adds nothing.
Dense(vectors) == {d \in SUBSET vectors : d = {} \/ d # vectors}

Visible(hits) == {i \in hits \cap DOMAIN tools : ~Quarantined(i)}

\* The hits that are there and not held back by now are answered, up to the limit.
Answer ==
  /\ search # None /\ search.step = "ranked"
  /\ \E dense \in Dense(search.vectors) :
       LET scored == search.lexical \cup dense
           shown == Cardinality(Visible(search.matches \cup dense))
       IN \E hits \in Take(scored, Limit + search.extra) :
            answer' = [found |-> LeastOf(Limit, Cardinality(Visible(hits))),
                       shown |-> shown,
                       lost |-> Cardinality((scored \ Visible(scored)) \ search.held),
                       room |-> IF Cardinality(search.matches) <= Pool THEN shown
                                ELSE Pool - Cardinality(search.held)]
  /\ search' = None
  /\ UNCHANGED <<servers, installs, index, provider, save, snapshot, faults>>

\* The daemon starts again, perhaps with another model.
Restart ==
  /\ faults < MaxFaults /\ faults' = faults + 1
  /\ provider' \in Providers
  /\ save' = [n \in Name |-> None] /\ snapshot' = None /\ search' = None
  /\ Silent /\ UNCHANGED <<servers, installs, index>>

------------------------------------------------------------------------------
Init ==
  /\ servers = [n \in Name |-> NoServer] /\ installs = 0
  /\ tools = <<>> /\ fts = <<>> /\ nextId = 1 /\ generation = 0
  /\ provider \in Providers
  /\ save = [n \in Name |-> None]
  /\ snapshot = None /\ search = None /\ answer = None
  /\ faults = 0

Next == \/ \E n \in Name : Save(n) \/ Embedded(n) \/ EmbeddingFails(n) \/ Install(n)
                           \/ Uninstall(n) \/ SetQuarantined(n)
        \/ Search \/ Rank \/ Answer \/ Restart

Spec == Init /\ [][Next]_vars

------------------------------------------------------------------------------
(* Properties. *)

\* Whatever was read before the vectors came, fails to come or is left over from
\* another model: a row's document and vector are those of its own definition
\* (tool-index.ts:118-177).
IndexedAsDefined ==
  \A i \in DOMAIN tools :
    /\ i \in DOMAIN fts /\ fts[i] = tools[i].hash
    /\ tools[i].vec # None => tools[i].vec.hash = tools[i].hash

\* A snapshot the ranker would keep says what it would load (ranker.ts:289-292), so
\* every write that it depends on moves the generation.
SnapshotIsCurrent == Kept(snapshot) => snapshot = Loaded

\* A search that waits for its query's vector while servers are quarantined and
\* removed answers as many tools as match and may be shown, up to the limit: each
\* tool lost since the quarantined ones were counted costs at most one place
\* (tool-index.ts:271-290).  Where more documents match than the words may bring,
\* the quarantined ones may take places in the pool too.
SearchFills == answer # None => answer.found + answer.lost >= LeastOf(Limit, answer.room)

\* "overfetch by their count so `limit` still fills" (tool-index.ts:270): fails when
\* quarantined tools fill the pool (ranker.ts:215).
LimitStillFills ==
  answer # None /\ answer.lost = 0 => answer.found = LeastOf(Limit, answer.shown)

\* "one row per server_tools row (rowid = id)" (tool-doc.ts:15): fails when a server is
\* uninstalled while its save waits for vectors.
OneDocumentEach == DOMAIN fts = DOMAIN tools
=============================================================================
