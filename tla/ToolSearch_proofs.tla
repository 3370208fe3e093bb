-------------------------- MODULE ToolSearch_proofs --------------------------
(* The tool index, for any servers, tools, definitions and embedding models. *)
EXTENDS ToolSearch, FiniteSetTheorems, TLAPS

\* Whatever rows the job of a save was computed from, its transaction writes row and
\* document of one tool together, and takes both away together.
LEMMA CommitKeepsIndexed ==
  ASSUME IndexedAsDefined, NEW job, NEW embedded, Commit(job, embedded)
  PROVE  IndexedAsDefined'
<1> DEFINE removed == DOMAIN job.existing \ DOMAIN job.incoming
           gone == {job.existing[t].id : t \in removed} \cap DOMAIN tools
           added == job.dirty \ DOMAIN job.existing
           new == [t \in added |-> nextId + Cardinality({u \in added : u < t})]
           id == [t \in job.dirty |-> IF t \in added THEN new[t] ELSE job.existing[t].id]
           Of(i) == CHOOSE t \in job.dirty : id[t] = i
           written == {id[t] : t \in job.dirty}
           live == written \cap (DOMAIN tools \cup {new[t] : t \in added})
           Row(t) == [server |-> job.server, name |-> t, hash |-> job.incoming[t],
                      vec |-> Vector(job, t, embedded)]
<1>1. CASE UNCHANGED index
  BY <1>1 DEF index, IndexedAsDefined
<1>2. CASE ~UNCHANGED index
  <2>1. /\ tools' = [i \in (DOMAIN tools \ gone) \cup live |->
                       IF i \in written THEN Row(Of(i)) ELSE tools[i]]
        /\ fts' = [i \in (DOMAIN fts \ gone) \cup written |->
                     IF i \in written THEN Document(job, Of(i)) ELSE fts[i]]
    BY <1>2 DEF Commit
  <2>2. live \subseteq written
    OBVIOUS
  <2> HIDE DEF gone, live, written, Of
  <2> SUFFICES ASSUME NEW i \in DOMAIN tools'
               PROVE  /\ i \in DOMAIN fts' /\ fts'[i] = tools'[i].hash
                      /\ tools'[i].vec # None => tools'[i].vec.hash = tools'[i].hash
    BY DEF IndexedAsDefined
  <2>3. CASE i \in written
    <3>1. tools'[i] = Row(Of(i)) /\ i \in DOMAIN fts' /\ fts'[i] = job.incoming[Of(i)]
      BY <2>1, <2>3 DEF Document
    <3> QED BY <3>1 DEF Vector
  <2>4. CASE i \notin written
    <3>1. i \in DOMAIN tools \ gone /\ tools'[i] = tools[i]
      BY <2>1, <2>2, <2>4
    <3>2. i \in DOMAIN fts' /\ fts'[i] = fts[i]
      BY <2>1, <2>4, <3>1 DEF IndexedAsDefined
    <3> QED BY <3>1, <3>2 DEF IndexedAsDefined
  <2> QED BY <2>3, <2>4
<1> QED BY <1>1, <1>2

\* Document and vector of a row are those of its own definition, however saves that
\* wait for vectors overlap with uninstalls, restarts and other models (tool-index.ts:118-177).
THEOREM IndexCorrect == Spec => []IndexedAsDefined
<1>1. Init => IndexedAsDefined
  BY DEF Init, IndexedAsDefined
<1>2. IndexedAsDefined /\ [Next]_vars => IndexedAsDefined'
  <2> SUFFICES ASSUME IndexedAsDefined, [Next]_vars PROVE IndexedAsDefined'
    OBVIOUS
  <2>1. ASSUME NEW n \in Name, Save(n) PROVE IndexedAsDefined'
    <3>1. CASE UNCHANGED index
      BY <3>1 DEF index, IndexedAsDefined
    <3>2. CASE \E job, embedded : Commit(job, embedded)
      BY <3>2, CommitKeepsIndexed
    <3> QED BY <2>1, <3>1, <3>2 DEF Save
  <2>2. ASSUME NEW n \in Name, Embedded(n) \/ EmbeddingFails(n) PROVE IndexedAsDefined'
    <3>1. \E job, embedded : Commit(job, embedded)
      BY <2>2 DEF Embedded, EmbeddingFails
    <3> QED BY <3>1, CommitKeepsIndexed
  <2>3. ASSUME NEW n \in Name, Uninstall(n) PROVE IndexedAsDefined'
    <3>1. Remove(servers[n].id)
      BY <2>3 DEF Uninstall
    <3> QED BY <3>1 DEF Remove, IndexedAsDefined
  <2>4. CASE UNCHANGED <<tools, fts>>
    BY <2>4 DEF IndexedAsDefined
  <2> QED
    BY <2>1, <2>2, <2>3, <2>4
    DEF Next, vars, index, Install, SetQuarantined, Search, Rank, Answer, Restart
<1> QED BY <1>1, <1>2, PTL DEF Spec
------------------------------------------------------------------------------
(* The ranker's snapshot. *)

\* Ids are given out in turn, and every row and every save that waits is of one of them.
IdsGiven ==
  /\ installs \in Nat
  /\ servers \in [Name -> [id : Nat, quarantined : BOOLEAN]]
  /\ \A n \in Name : servers[n] = NoServer \/ servers[n].id \in 1..installs
  /\ \A i \in DOMAIN tools : tools[i].server \in 1..installs
  /\ \A n \in Name : save[n] # None => save[n].server \in 1..installs

\* The generation never goes back, and a snapshot of the present one is what would be loaded.
SnapshotInv ==
  /\ generation \in Nat
  /\ snapshot # None => /\ snapshot.generation \in Nat /\ snapshot.generation <= generation
                        /\ snapshot.generation = generation => snapshot = Loaded

Holds(n, i) == servers[n] # NoServer /\ servers[n].id = tools[i].server

\* What a snapshot says depends on the rows, which documents there are, and who holds a row.
LEMMA LoadedAlike ==
  ASSUME DOMAIN tools' = DOMAIN tools, \A i \in DOMAIN tools : tools'[i] = tools[i],
         DOMAIN fts' = DOMAIN fts, provider' = provider, generation' = generation,
         \A i \in DOMAIN tools : \A n \in Name : Holds(n, i)' <=> Holds(n, i)
  PROVE  Loaded' = Loaded
<1>1. ASSUME NEW i \in DOMAIN tools PROVE Server(i)' = Server(i)
  <2>1. \A n \in Name : (servers[n] # NoServer /\ servers[n].id = tools[i].server)'
                          <=> (servers[n] # NoServer /\ servers[n].id = tools[i].server)
    BY DEF Holds
  <2> QED BY <2>1, Zenon DEF Server
<1>2. Documents' = Documents
  BY <1>1 DEF Documents
<1>3. Vectors' = Vectors
  BY DEF Vectors
<1> QED BY <1>2, <1>3 DEF Loaded

\* The transaction of a save writes rows of its server only, and moves the generation
\* unless it leaves rows and documents as they are.
LEMMA CommitMoves ==
  ASSUME NEW job, NEW embedded, Commit(job, embedded), generation \in Nat
  PROVE  /\ \A i \in DOMAIN tools' :
              tools'[i].server = job.server \/ (i \in DOMAIN tools /\ tools'[i] = tools[i])
         /\ \/ generation' = generation + 1
            \/ /\ generation' = generation
               /\ DOMAIN tools' = DOMAIN tools /\ DOMAIN fts' = DOMAIN fts
               /\ \A i \in DOMAIN tools : tools'[i] = tools[i]
<1> DEFINE removed == DOMAIN job.existing \ DOMAIN job.incoming
           gone == {job.existing[t].id : t \in removed} \cap DOMAIN tools
           added == job.dirty \ DOMAIN job.existing
           new == [t \in added |-> nextId + Cardinality({u \in added : u < t})]
           id == [t \in job.dirty |-> IF t \in added THEN new[t] ELSE job.existing[t].id]
           Of(i) == CHOOSE t \in job.dirty : id[t] = i
           written == {id[t] : t \in job.dirty}
           live == written \cap (DOMAIN tools \cup {new[t] : t \in added})
           Row(t) == [server |-> job.server, name |-> t, hash |-> job.incoming[t],
                      vec |-> Vector(job, t, embedded)]
<1>1. CASE UNCHANGED index
  BY <1>1 DEF index
<1>2. CASE ~UNCHANGED index
  <2>1. /\ tools' = [i \in (DOMAIN tools \ gone) \cup live |->
                       IF i \in written THEN Row(Of(i)) ELSE tools[i]]
        /\ fts' = [i \in (DOMAIN fts \ gone) \cup written |->
                     IF i \in written THEN Document(job, Of(i)) ELSE fts[i]]
        /\ generation' = IF Bumps(job.dirty, removed) THEN generation + 1 ELSE generation
    BY <1>2 DEF Commit
  <2>2. live \subseteq written
    OBVIOUS
  <2>3. ~Bumps(job.dirty, removed) => gone = {} /\ written = {}
    BY DEF Bumps
  <2> HIDE DEF gone, live, written, Of
  <2>4. ASSUME NEW i \in DOMAIN tools'
        PROVE  tools'[i].server = job.server \/ (i \in DOMAIN tools /\ tools'[i] = tools[i])
    BY <2>1, <2>2
  <2>5. CASE Bumps(job.dirty, removed)
    BY <2>1, <2>4, <2>5
  <2>6. CASE ~Bumps(job.dirty, removed)
    <3>1. DOMAIN tools' = DOMAIN tools /\ DOMAIN fts' = DOMAIN fts
      BY <2>1, <2>2, <2>3, <2>6
    <3>2. \A i \in DOMAIN tools : tools'[i] = tools[i]
      BY <2>1, <2>2, <2>3, <2>6
    <3> QED BY <2>1, <2>4, <2>6, <3>1, <3>2
  <2> QED BY <2>5, <2>6
<1> QED BY <1>1, <1>2

\* A snapshot stays good when the generation moves on, or nothing it says changes.
LEMMA SnapshotKept ==
  ASSUME SnapshotInv, snapshot' = snapshot,
         generation' = generation + 1 \/ (generation' = generation /\ Loaded' = Loaded)
  PROVE  SnapshotInv'
BY DEF SnapshotInv

\* A commit keeps both invariants.
LEMMA CommitKeepsSnapshot ==
  ASSUME IdsGiven, SnapshotInv, NEW job, NEW embedded, Commit(job, embedded),
         job.server \in 1..installs, UNCHANGED <<servers, installs, provider, snapshot>>,
         \A n \in Name : save'[n] = None \/ save'[n] = save[n]
  PROVE  IdsGiven' /\ SnapshotInv'
<1>1. IdsGiven'
  BY CommitMoves DEF IdsGiven, SnapshotInv
<1>2. CASE generation' = generation + 1
  BY <1>1, <1>2, SnapshotKept
<1>3. CASE generation' # generation + 1
  <2>1. /\ generation' = generation
        /\ DOMAIN tools' = DOMAIN tools /\ DOMAIN fts' = DOMAIN fts
        /\ \A i \in DOMAIN tools : tools'[i] = tools[i]
    BY <1>3, CommitMoves DEF SnapshotInv
  <2>2. \A i \in DOMAIN tools : \A n \in Name : Holds(n, i)' <=> Holds(n, i)
    BY <2>1 DEF Holds
  <2>3. Loaded' = Loaded
    BY <2>1, <2>2, LoadedAlike
  <2> QED BY <1>1, <2>1, <2>3, SnapshotKept
<1> QED BY <1>2, <1>3

\* What a save computes from the rows it reads is of its server and of some of its tools.
LEMMA SaveHasJob ==
  ASSUME NEW n \in Name, Save(n)
  PROVE  \E job : /\ job.server = servers[n].id /\ job.dirty \in SUBSET Tool
                  /\ servers[n] # NoServer
                  /\ \/ (\E embedded : Commit(job, embedded)) /\ UNCHANGED save
                     \/ save' = [save EXCEPT ![n] = job] /\ UNCHANGED index
                  /\ answer' = None /\ UNCHANGED <<servers, installs, provider, snapshot, search>>
<1> DEFINE JobOf(incoming) ==
             LET existing == Existing(servers[n].id)
                 dirty == Dirty(existing, incoming)
             IN [server |-> servers[n].id, incoming |-> incoming, existing |-> existing,
                 dirty |-> dirty, missing |-> Missing(incoming, dirty)]
           Saves(incoming) ==
             LET job == JobOf(incoming)
             IN /\ servers[n] # NoServer
                /\ \/ Commit(job, IF provider = None THEN {} ELSE job.dirty) /\ UNCHANGED save
                   \/ save' = [save EXCEPT ![n] = job] /\ UNCHANGED index
                /\ answer' = None /\ UNCHANGED <<servers, installs, provider, snapshot, search>>
<1>1. PICK names \in SUBSET Tool : \E incoming \in [names -> Hash] : Saves(incoming)
  BY DEF Save, Silent
<1>2. PICK incoming \in [names -> Hash] : Saves(incoming)
  BY <1>1
<1> DEFINE job == JobOf(incoming)
<1>3. job.server = servers[n].id /\ job.dirty \in SUBSET Tool
  BY DEF Dirty
<1> HIDE DEF job
<1> WITNESS job
<1> QED BY <1>2, <1>3 DEF job

LEMMA SaveKeepsSnapshot ==
  ASSUME IdsGiven, SnapshotInv, NEW n \in Name,
         Save(n) \/ Embedded(n) \/ EmbeddingFails(n)
  PROVE  IdsGiven' /\ SnapshotInv'
<1>1. CASE Embedded(n) \/ EmbeddingFails(n)
  <2>1. PICK embedded : Commit(save[n], embedded)
    BY <1>1 DEF Embedded, EmbeddingFails
  <2>2. /\ save[n].server \in 1..installs
        /\ UNCHANGED <<servers, installs, provider, snapshot>>
        /\ save' = [save EXCEPT ![n] = None]
    BY <1>1 DEF Embedded, EmbeddingFails, IdsGiven
  <2>3. \A m \in Name : save'[m] = None \/ save'[m] = save[m]
    BY <2>2
  <2> QED BY <2>1, <2>2, <2>3, CommitKeepsSnapshot
<1>2. CASE Save(n)
  <2>2. PICK job : /\ job.server = servers[n].id
                   /\ servers[n] # NoServer
                   /\ \/ (\E embedded : Commit(job, embedded)) /\ UNCHANGED save
                      \/ save' = [save EXCEPT ![n] = job] /\ UNCHANGED index
                   /\ UNCHANGED <<servers, installs, provider, snapshot>>
    BY <1>2, SaveHasJob
  <2>3. job.server \in 1..installs
    BY <2>2 DEF IdsGiven
  <2>4. CASE (\E embedded : Commit(job, embedded)) /\ UNCHANGED save
    BY <2>2, <2>3, <2>4, CommitKeepsSnapshot
  <2>5. CASE save' = [save EXCEPT ![n] = job] /\ UNCHANGED index
    <3>1. IdsGiven'
      BY <2>2, <2>3, <2>5 DEF IdsGiven, index
    <3>2. Loaded' = Loaded
      BY <2>2, <2>5, LoadedAlike DEF index, Holds
    <3> QED BY <2>2, <2>5, <3>1, <3>2, SnapshotKept DEF index
  <2> QED BY <2>2, <2>4, <2>5
<1> QED BY <1>1, <1>2

LEMMA SnapshotKnown == Spec => [](IdsGiven /\ SnapshotInv)
<1>1. Init => IdsGiven /\ SnapshotInv
  BY DEF Init, IdsGiven, SnapshotInv, NoServer
<1>2. IdsGiven /\ SnapshotInv /\ [Next]_vars => (IdsGiven /\ SnapshotInv)'
  <2> SUFFICES ASSUME IdsGiven, SnapshotInv, [Next]_vars PROVE IdsGiven' /\ SnapshotInv'
    OBVIOUS
  <2>1. ASSUME NEW n \in Name, Save(n) \/ Embedded(n) \/ EmbeddingFails(n)
        PROVE  IdsGiven' /\ SnapshotInv'
    BY <2>1, SaveKeepsSnapshot
  <2>2. ASSUME NEW n \in Name, Install(n) PROVE IdsGiven' /\ SnapshotInv'
    <3>1. /\ servers[n] = NoServer /\ installs' = installs + 1
          /\ servers' = [servers EXCEPT ![n] = [id |-> installs + 1, quarantined |-> FALSE]]
          /\ UNCHANGED <<tools, fts, generation, provider, save, snapshot>>
      BY <2>2 DEF Install, index
    <3>2. \A m \in Name : servers'[m] = servers[m] \/ servers'[m].id = installs + 1
      BY <3>1
    <3>3. IdsGiven'
      BY <3>1, <3>2 DEF IdsGiven
    <3>4. \A i \in DOMAIN tools : \A m \in Name : Holds(m, i)' <=> Holds(m, i)
      <4> SUFFICES ASSUME NEW i \in DOMAIN tools, NEW m \in Name
                   PROVE  Holds(m, i)' <=> Holds(m, i)
        OBVIOUS
      <4>1. tools[i].server \in 1..installs /\ installs \in Nat /\ tools' = tools
        BY <3>1 DEF IdsGiven
      <4>2. CASE m # n
        BY <3>1, <4>1, <4>2 DEF Holds
      <4>3. CASE m = n
        <5>1. ~Holds(m, i)
          BY <3>1, <4>3 DEF Holds
        <5>2. ~Holds(m, i)'
          <6>1. servers'[n] = servers[n] \/ servers'[n].id # tools[i].server
            BY <3>2, <4>1
          <6> QED BY <3>1, <4>1, <4>3, <6>1 DEF Holds
        <5> QED BY <5>1, <5>2
      <4> QED BY <4>2, <4>3
    <3>5. Loaded' = Loaded
      BY <3>1, <3>4, LoadedAlike
    <3> QED BY <3>1, <3>3, <3>5, SnapshotKept
  <2>3. ASSUME NEW n \in Name, Uninstall(n) PROVE IdsGiven' /\ SnapshotInv'
    <3> DEFINE own == Ids(servers[n].id)
    <3>1. /\ tools' = [i \in DOMAIN tools \ own |-> tools[i]]
          /\ fts' = [i \in DOMAIN fts \ own |-> fts[i]]
          /\ generation' = IF own # {} THEN generation + 1 ELSE generation
          /\ servers' = [servers EXCEPT ![n] = NoServer]
          /\ UNCHANGED <<installs, provider, save, snapshot>>
      BY <2>3 DEF Uninstall, Remove
    <3>2. \A m \in Name : servers'[m] = NoServer \/ (m # n /\ servers'[m] = servers[m])
                            \/ servers'[m] = servers[m]
      BY <3>1
    <3>3. IdsGiven'
      BY <3>1, <3>2 DEF IdsGiven, NoServer
    <3>4. CASE own # {}
      BY <3>1, <3>3, <3>4, SnapshotKept
    <3>5. CASE own = {}
      <4>1. /\ DOMAIN tools' = DOMAIN tools /\ DOMAIN fts' = DOMAIN fts
            /\ \A i \in DOMAIN tools : tools'[i] = tools[i]
        BY <3>1, <3>5
      <4>2. \A i \in DOMAIN tools : \A m \in Name : Holds(m, i)' <=> Holds(m, i)
        <5> SUFFICES ASSUME NEW i \in DOMAIN tools, NEW m \in Name
                     PROVE  Holds(m, i)' <=> Holds(m, i)
          OBVIOUS
        <5>1. tools'[i] = tools[i] /\ ~Holds(n, i)
          BY <4>1, <3>5 DEF Ids, Holds
        <5>2. CASE m = n
          <6>1. ~Holds(n, i)'
            <7>1. servers'[n] = NoServer \/ servers'[n] = servers[n]
              BY <3>1
            <7> QED BY <5>1, <7>1 DEF Holds
          <6> QED BY <5>1, <5>2, <6>1
        <5>3. CASE m # n
          BY <3>1, <5>1, <5>3 DEF Holds
        <5> QED BY <5>2, <5>3
      <4>3. Loaded' = Loaded
        BY <3>1, <3>5, <4>1, <4>2, LoadedAlike
      <4> QED BY <3>1, <3>3, <3>5, <4>3, SnapshotKept
    <3> QED BY <3>4, <3>5
  <2>4. ASSUME NEW n \in Name, SetQuarantined(n)
        PROVE  IdsGiven' /\ SnapshotInv'
    <3>1. PICK b \in BOOLEAN : servers' = [servers EXCEPT ![n].quarantined = b]
      <4> WITNESS (~servers[n].quarantined) \in BOOLEAN
      <4> QED BY <2>4, Zenon DEF SetQuarantined
    <3>2. /\ servers[n] # NoServer
          /\ UNCHANGED <<installs, tools, fts, generation, provider, save, snapshot>>
      BY <2>4, Zenon DEF SetQuarantined, index
    <3>3. /\ servers' \in [Name -> [id : Nat, quarantined : BOOLEAN]]
          /\ \A m \in Name : servers'[m].id = servers[m].id
          /\ \A m \in Name : (servers'[m] # NoServer) <=> (servers[m] # NoServer)
      <4>1. servers \in [Name -> [id : Nat, quarantined : BOOLEAN]] /\ servers[n].id # 0
        BY <3>2 DEF IdsGiven
      <4>2. [servers[n] EXCEPT !.quarantined = b] \in [id : Nat, quarantined : BOOLEAN]
        BY <4>1
      <4>3. [servers[n] EXCEPT !.quarantined = b].id = servers[n].id
        BY <4>1
      <4>4. /\ servers'[n] = [servers[n] EXCEPT !.quarantined = b]
            /\ \A m \in Name \ {n} : servers'[m] = servers[m]
            /\ DOMAIN servers' = Name
            /\ servers' = [m \in Name |-> servers'[m]]
        BY <3>1, <4>1
      <4>5. servers'[n] # NoServer
        BY <4>1, <4>3, <4>4 DEF NoServer
      <4>6. servers' \in [Name -> [id : Nat, quarantined : BOOLEAN]]
        BY <4>1, <4>2, <4>4
      <4> QED BY <3>2, <4>3, <4>4, <4>5, <4>6
    <3>4. IdsGiven'
      BY <3>2, <3>3 DEF IdsGiven
    <3>5. \A i \in DOMAIN tools : \A m \in Name : Holds(m, i)' <=> Holds(m, i)
      BY <3>2, <3>3 DEF Holds
    <3>6. Loaded' = Loaded
      BY <3>2, <3>5, LoadedAlike
    <3> QED BY <3>2, <3>4, <3>6, SnapshotKept
  <2>5. CASE UNCHANGED <<servers, installs, index, provider, save, snapshot>>
    <3>1. IdsGiven'
      BY <2>5 DEF IdsGiven, index
    <3>2. Loaded' = Loaded
      BY <2>5, LoadedAlike DEF index, Holds
    <3> QED BY <2>5, <3>1, <3>2, SnapshotKept DEF index
  <2>6. CASE Rank
    <3>1. /\ snapshot' = snapshot \/ snapshot' = Loaded
          /\ UNCHANGED <<servers, installs, index, provider, save>>
      BY <2>6 DEF Rank
    <3>2. IdsGiven'
      BY <3>1 DEF IdsGiven, index
    <3>3. Loaded' = Loaded /\ generation' = generation
      BY <3>1, LoadedAlike DEF index, Holds
    <3>4. CASE snapshot' = Loaded
      <4>1. Loaded.generation = generation
        BY DEF Loaded
      <4> QED BY <3>2, <3>3, <3>4, <4>1 DEF SnapshotInv
    <3> QED BY <3>1, <3>2, <3>3, <3>4, SnapshotKept DEF index
  <2>7. CASE Restart
    BY <2>7 DEF Restart, IdsGiven, SnapshotInv, index
  <2> QED
    BY <2>1, <2>2, <2>3, <2>4, <2>5, <2>6, <2>7 DEF Next, Search, Answer, vars
<1> QED BY <1>1, <1>2, PTL DEF Spec

\* A snapshot the ranker would keep says what it would load, so every write it depends
\* on moves the generation (ranker.ts:289-292).
THEOREM SnapshotCorrect == Spec => []SnapshotIsCurrent
<1>1. SnapshotInv => SnapshotIsCurrent
  BY DEF SnapshotInv, SnapshotIsCurrent, Kept
<1> QED BY <1>1, SnapshotKnown, PTL
------------------------------------------------------------------------------
(* How many tools a search answers. *)

\* There are finitely many rows and documents, and a save writes finitely many.
FiniteInv ==
  /\ IsFiniteSet(DOMAIN tools) /\ IsFiniteSet(DOMAIN fts)
  /\ \A n \in Name : save[n] # None => IsFiniteSet(save[n].dirty)

\* What a running search remembers is finite, and its words brought what matched, or
\* a pool of it.
FoundInv ==
  search # None =>
    /\ IsFiniteSet(search.held) /\ search.extra = Cardinality(search.held)
    /\ IsFiniteSet(search.matches) /\ search.lexical \in Take(search.matches, Pool)
    /\ IsFiniteSet(search.vectors)

\* A commit adds a row and a document for some of the tools it writes.
LEMMA CommitFinite ==
  ASSUME IsFiniteSet(DOMAIN tools), IsFiniteSet(DOMAIN fts), NEW job, NEW embedded,
         Commit(job, embedded), IsFiniteSet(job.dirty)
  PROVE  IsFiniteSet(DOMAIN tools') /\ IsFiniteSet(DOMAIN fts')
<1> DEFINE removed == DOMAIN job.existing \ DOMAIN job.incoming
           gone == {job.existing[t].id : t \in removed} \cap DOMAIN tools
           added == job.dirty \ DOMAIN job.existing
           new == [t \in added |-> nextId + Cardinality({u \in added : u < t})]
           id == [t \in job.dirty |-> IF t \in added THEN new[t] ELSE job.existing[t].id]
           Of(i) == CHOOSE t \in job.dirty : id[t] = i
           written == {id[t] : t \in job.dirty}
           live == written \cap (DOMAIN tools \cup {new[t] : t \in added})
           Row(t) == [server |-> job.server, name |-> t, hash |-> job.incoming[t],
                      vec |-> Vector(job, t, embedded)]
<1>1. CASE UNCHANGED index
  BY <1>1 DEF index
<1>2. CASE ~UNCHANGED index
  <2>1. /\ tools' = [i \in (DOMAIN tools \ gone) \cup live |->
                       IF i \in written THEN Row(Of(i)) ELSE tools[i]]
        /\ fts' = [i \in (DOMAIN fts \ gone) \cup written |->
                     IF i \in written THEN Document(job, Of(i)) ELSE fts[i]]
    BY <1>2 DEF Commit
  <2>2. live \subseteq written
    OBVIOUS
  <2>3. DOMAIN id = job.dirty /\ id = [t \in job.dirty |-> id[t]]
    OBVIOUS
  <2> HIDE DEF id
  <2>4. id \in Surjection(job.dirty, written)
    BY <2>3 DEF Surjection
  <2> HIDE DEF gone, live, written, Of
  <2>5. IsFiniteSet(written)
    BY <2>4, FS_Surjection
  <2>6. IsFiniteSet(DOMAIN tools \cup written) /\ IsFiniteSet(DOMAIN fts \cup written)
    BY <2>5, FS_Union
  <2>7. /\ DOMAIN tools' \in SUBSET (DOMAIN tools \cup written)
        /\ DOMAIN fts' \in SUBSET (DOMAIN fts \cup written)
    BY <2>1, <2>2
  <2> QED BY <2>6, <2>7, FS_Subset
<1> QED BY <1>1, <1>2

LEMMA SaveKeepsFinite ==
  ASSUME FiniteInv, NEW n \in Name, Save(n) \/ Embedded(n) \/ EmbeddingFails(n)
  PROVE  FiniteInv'
<1>1. CASE Embedded(n) \/ EmbeddingFails(n)
  <2>1. PICK embedded : Commit(save[n], embedded)
    BY <1>1 DEF Embedded, EmbeddingFails
  <2>2. IsFiniteSet(save[n].dirty) /\ save' = [save EXCEPT ![n] = None]
    BY <1>1 DEF Embedded, EmbeddingFails, FiniteInv
  <2> QED BY <2>1, <2>2, CommitFinite DEF FiniteInv
<1>2. CASE Save(n)
  <2>1. PICK job : /\ job.dirty \in SUBSET Tool
                   /\ \/ (\E embedded : Commit(job, embedded)) /\ UNCHANGED save
                      \/ save' = [save EXCEPT ![n] = job] /\ UNCHANGED index
    BY <1>2, SaveHasJob
  <2>2. IsFiniteSet(job.dirty)
    <3>1. IsFiniteSet(Tool)
      BY FS_Interval, Bounds DEF Tool
    <3> QED BY <2>1, <3>1, FS_Subset
  <2>3. CASE (\E embedded : Commit(job, embedded)) /\ UNCHANGED save
    BY <2>2, <2>3, CommitFinite DEF FiniteInv
  <2>4. CASE save' = [save EXCEPT ![n] = job] /\ UNCHANGED index
    BY <2>2, <2>4 DEF FiniteInv, index
  <2> QED BY <2>1, <2>3, <2>4
<1> QED BY <1>1, <1>2

LEMMA RankKeepsFound ==
  ASSUME FiniteInv, FoundInv, SnapshotInv, Rank
  PROVE  FoundInv'
<1> DEFINE snap == IF Kept(snapshot) THEN snapshot ELSE Loaded
<1>1. /\ search # None
      /\ \/ search' = [search EXCEPT !.step = "ranked"]
         \/ \E lexical \in Lexical :
              search' = [search EXCEPT !.step = "ranked", !.vectors = snap.vectors,
                           !.matches = Matches, !.lexical = lexical]
  BY DEF Rank
<1>2. snap = Loaded
  BY DEF Kept, SnapshotInv
<1>3. IsFiniteSet(snap.vectors) /\ IsFiniteSet(Matches)
  <2>1. snap.vectors \in SUBSET DOMAIN tools /\ Matches \in SUBSET DOMAIN fts
    BY <1>2 DEF Loaded, Vectors, Matches
  <2> QED BY <2>1, FS_Subset DEF FiniteInv
<1> HIDE DEF snap
<1>4. CASE search' = [search EXCEPT !.step = "ranked"]
  <2>1. /\ search'.held = search.held /\ search'.extra = search.extra
        /\ search'.matches = search.matches /\ search'.lexical = search.lexical
        /\ search'.vectors = search.vectors
    BY <1>4
  <2> QED BY <1>1, <2>1 DEF FoundInv, Take
<1>5. ASSUME NEW lexical \in Lexical,
             search' = [search EXCEPT !.step = "ranked", !.vectors = snap.vectors,
                          !.matches = Matches, !.lexical = lexical]
      PROVE  FoundInv'
  <2>1. /\ search'.held = search.held /\ search'.extra = search.extra
        /\ search'.matches \in {search.matches, Matches}
        /\ search'.lexical \in {search.lexical, lexical}
        /\ search'.vectors \in {search.vectors, snap.vectors}
        /\ \/ search'.matches = Matches /\ search'.lexical = lexical
           \/ search'.matches = search.matches /\ search'.lexical = search.lexical
    BY <1>5
  <2> QED BY <1>1, <1>3, <2>1 DEF FoundInv, Lexical, Take
<1> QED BY <1>1, <1>4, <1>5

\* The elements of two finite sets are no more than those of the one and of the other.
LEMMA UnionBounded ==
  ASSUME NEW S, IsFiniteSet(S), NEW T, IsFiniteSet(T), NEW U \in SUBSET (S \cup T)
  PROVE  /\ IsFiniteSet(U) /\ Cardinality(U) \in Nat
         /\ Cardinality(S) \in Nat /\ Cardinality(T) \in Nat
         /\ Cardinality(U) <= Cardinality(S) + Cardinality(T)
<1>1. /\ IsFiniteSet(S \cup T)
      /\ Cardinality(S \cup T) = Cardinality(S) + Cardinality(T) - Cardinality(S \cap T)
  BY FS_Union
<1>2. IsFiniteSet(U) /\ Cardinality(U) <= Cardinality(S \cup T)
  BY <1>1, FS_Subset
<1>3. S \cap T \in SUBSET S
  OBVIOUS
<1>4. IsFiniteSet(S \cap T)
  BY <1>3, FS_Subset
<1>5. /\ Cardinality(U) \in Nat /\ Cardinality(S) \in Nat /\ Cardinality(T) \in Nat
      /\ Cardinality(S \cap T) \in Nat /\ Cardinality(S \cup T) \in Nat
  BY <1>1, <1>2, <1>4, FS_CardinalityType
<1> QED BY <1>1, <1>2, <1>5

\* Fetching as many more as are held back leaves enough of what may be shown: what is
\* hidden by now is held back, or was lost since.
LEMMA OverfetchFills ==
  ASSUME NEW scored, IsFiniteSet(scored), NEW held, IsFiniteSet(held), NEW hidden,
         NEW hits \in Take(scored, Limit + Cardinality(held)),
         NEW lost, lost = (scored \cap hidden) \ held
  PROVE  LeastOf(Limit, Cardinality(hits \ hidden)) + Cardinality(lost)
           >= LeastOf(Limit, Cardinality(scored \ hidden))
<1>1. /\ hits \in SUBSET scored
      /\ Cardinality(hits) = LeastOf(Cardinality(scored), Limit + Cardinality(held))
  BY DEF Take
<1>2. IsFiniteSet(hits) /\ IsFiniteSet(lost)
  <2>1. lost \in SUBSET scored
    OBVIOUS
  <2> QED BY <1>1, <2>1, FS_Subset
<1>3. /\ Cardinality(lost) \in Nat /\ Cardinality(held) \in Nat /\ Cardinality(scored) \in Nat
      /\ Limit \in Nat
  BY <1>2, FS_CardinalityType, Bounds
<1>4. /\ IsFiniteSet(hits \ hidden) /\ Cardinality(hits \ hidden) \in Nat
      /\ IsFiniteSet(scored \ hidden) /\ Cardinality(scored \ hidden) \in Nat
  <2>1. hits \ hidden \in SUBSET hits /\ scored \ hidden \in SUBSET scored
    OBVIOUS
  <2>2. IsFiniteSet(hits \ hidden) /\ IsFiniteSet(scored \ hidden)
    BY <1>2, <2>1, FS_Subset
  <2> QED BY <2>2, FS_CardinalityType
<1>5. CASE Cardinality(hits) = Cardinality(scored)
  <2>1. hits = scored
    BY <1>1, <1>5, FS_Subset
  <2> QED BY <1>3, <1>4, <2>1 DEF LeastOf
<1>6. CASE Cardinality(hits) = Limit + Cardinality(held)
  <2> DEFINE both == held \cup lost
  <2>1. /\ IsFiniteSet(both) /\ Cardinality(both) \in Nat
        /\ Cardinality(both) <= Cardinality(held) + Cardinality(lost)
    BY <1>2, UnionBounded
  <2>2. hits \in SUBSET ((hits \ hidden) \cup both)
    BY <1>1
  <2> HIDE DEF both
  <2>3. Cardinality(hits) <= Cardinality(hits \ hidden) + Cardinality(both)
    BY <1>4, <2>1, <2>2, UnionBounded
  <2>4. Cardinality(hits \ hidden) + Cardinality(lost) >= Limit
    BY <1>3, <1>4, <1>6, <2>1, <2>3
  <2> QED BY <1>3, <1>4, <2>4 DEF LeastOf
<1> QED BY <1>1, <1>5, <1>6 DEF LeastOf

\* An answer is short of its limit by no more than it lost, and than its pool was short.
LEMMA AnswerFills ==
  ASSUME FoundInv, Answer
  PROVE  SearchFills'
<1>1. search # None
  BY DEF Answer
<1>2. PICK dense \in Dense(search.vectors) :
        \E hits \in Take(search.lexical \cup dense, Limit + search.extra) :
          answer' = [found |-> LeastOf(Limit, Cardinality(Visible(hits))),
                     shown |-> Cardinality(Visible(search.matches \cup dense)),
                     lost |-> Cardinality(((search.lexical \cup dense)
                                             \ Visible(search.lexical \cup dense)) \ search.held),
                     room |-> IF Cardinality(search.matches) <= Pool
                              THEN Cardinality(Visible(search.matches \cup dense))
                              ELSE Pool - Cardinality(search.held)]
  BY Zenon DEF Answer
<1> DEFINE scored == search.lexical \cup dense
           hidden == {i \in scored : i \notin DOMAIN tools \/ Quarantined(i)}
           lost == (scored \cap hidden) \ search.held
<1>3. PICK hits \in Take(scored, Limit + search.extra) :
        answer' = [found |-> LeastOf(Limit, Cardinality(Visible(hits))),
                   shown |-> Cardinality(Visible(search.matches \cup dense)),
                   lost |-> Cardinality((scored \ Visible(scored)) \ search.held),
                   room |-> IF Cardinality(search.matches) <= Pool
                            THEN Cardinality(Visible(search.matches \cup dense))
                            ELSE Pool - Cardinality(search.held)]
  BY <1>2
<1>4. hits \subseteq scored
  BY DEF Take
<1>5. /\ Visible(scored) = scored \ hidden /\ Visible(hits) = hits \ hidden
      /\ (scored \ Visible(scored)) \ search.held = lost
  BY <1>4 DEF Visible
<1>6. /\ IsFiniteSet(search.held) /\ search.extra = Cardinality(search.held)
      /\ IsFiniteSet(search.matches) /\ search.lexical \subseteq search.matches
      /\ Cardinality(search.lexical) = LeastOf(Cardinality(search.matches), Pool)
  BY <1>1 DEF FoundInv, Take
<1>7. IsFiniteSet(scored) /\ IsFiniteSet(search.lexical)
  <2>1. dense \in SUBSET search.vectors /\ search.lexical \in SUBSET search.matches
    BY <1>6 DEF Dense
  <2>2. IsFiniteSet(dense) /\ IsFiniteSet(search.lexical)
    BY <1>1, <1>6, <2>1, FS_Subset DEF FoundInv
  <2> QED BY <2>2, FS_Union
<1> HIDE DEF hidden
<1>8. LeastOf(Limit, Cardinality(hits \ hidden)) + Cardinality(lost)
        >= LeastOf(Limit, Cardinality(scored \ hidden))
  <2> HIDE DEF scored, lost
  <2>1. lost = (scored \cap hidden) \ search.held
    BY DEF lost
  <2> QED BY <1>3, <1>6, <1>7, <2>1, OverfetchFills
<1>9. IsFiniteSet(scored \ hidden) /\ IsFiniteSet(hits \ hidden) /\ IsFiniteSet(lost)
  <2>1. scored \ hidden \in SUBSET scored /\ hits \ hidden \in SUBSET scored /\ lost \in SUBSET scored
    BY <1>4
  <2> QED BY <1>7, <2>1, FS_Subset
<1>10. /\ Cardinality(scored \ hidden) \in Nat /\ Cardinality(lost) \in Nat /\ Limit \in Nat
       /\ Cardinality(hits \ hidden) \in Nat
       /\ Pool \in Nat /\ Cardinality(search.held) \in Nat /\ Cardinality(search.matches) \in Nat
  BY <1>6, <1>9, FS_CardinalityType, Bounds
<1>11. CASE Cardinality(search.matches) <= Pool
  <2>1. search.lexical = search.matches
    BY <1>6, <1>10, <1>11, FS_Subset DEF LeastOf
  <2>2. answer'.room = Cardinality(scored \ hidden)
    BY <1>3, <1>5, <1>11, <2>1
  <2>3. /\ answer'.found = LeastOf(Limit, Cardinality(hits \ hidden))
        /\ answer'.lost = Cardinality(lost)
    BY <1>3, <1>5
  <2> QED BY <1>8, <2>2, <2>3 DEF SearchFills
<1>12. CASE ~(Cardinality(search.matches) <= Pool)
  <2>1. Cardinality(search.lexical) = Pool
    BY <1>6, <1>10, <1>12 DEF LeastOf
  <2>2. Cardinality(search.lexical) <= Cardinality(scored \ hidden) + Cardinality(search.held \cup lost)
    <3>1. search.lexical \in SUBSET ((scored \ hidden) \cup (search.held \cup lost))
      OBVIOUS
    <3>2. IsFiniteSet(search.held \cup lost)
      BY <1>6, <1>9, FS_Union
    <3> HIDE DEF scored, lost
    <3> QED BY <1>9, <3>1, <3>2, UnionBounded
  <2>3. /\ Cardinality(search.held \cup lost) \in Nat
        /\ Cardinality(search.held \cup lost) <= Cardinality(search.held) + Cardinality(lost)
    <3> HIDE DEF lost
    <3> QED BY <1>6, <1>9, UnionBounded
  <2>4. Cardinality(scored \ hidden) + Cardinality(lost) >= Pool - Cardinality(search.held)
    BY <1>10, <2>1, <2>2, <2>3
  <2>5. /\ answer'.found = LeastOf(Limit, Cardinality(hits \ hidden))
        /\ answer'.lost = Cardinality(lost)
        /\ answer'.room = Pool - Cardinality(search.held)
    BY <1>3, <1>5, <1>12
  <2>6. hits = scored \/ Cardinality(hits) = Limit + Cardinality(search.held)
    <3>1. /\ hits \in SUBSET scored
          /\ Cardinality(hits) = LeastOf(Cardinality(scored), Limit + search.extra)
      BY DEF Take
    <3> QED BY <1>6, <1>7, <3>1, FS_Subset DEF LeastOf
  <2>7. CASE hits = scored
    BY <1>10, <2>4, <2>5, <2>7 DEF SearchFills, LeastOf
  <2>8. CASE Cardinality(hits) = Limit + Cardinality(search.held)
    <3>1. Cardinality(hits) <= Cardinality(hits \ hidden) + Cardinality(search.held \cup lost)
      <4>1. hits \in SUBSET ((hits \ hidden) \cup (search.held \cup lost))
        BY <1>4
      <4>2. IsFiniteSet(search.held \cup lost)
        BY <1>6, <1>9, FS_Union
      <4> HIDE DEF lost
      <4> QED BY <1>9, <4>1, <4>2, UnionBounded
    <3>2. Cardinality(hits \ hidden) + Cardinality(lost) >= Limit
      BY <1>10, <2>3, <2>8, <3>1
    <3> QED BY <1>10, <2>5, <3>2 DEF SearchFills, LeastOf
  <2> QED BY <2>6, <2>7, <2>8
<1> QED BY <1>11, <1>12

\* A search answers as many tools as match and may be shown, up to its limit, but for
\* those lost while it waited and the places that held tools take in a pool that is too
\* small (tool-index.ts:270), for any limit and pool and any order the ranker gives.
THEOREM SearchCorrect == Spec => []SearchFills
<1>1. Init => FiniteInv /\ FoundInv /\ SearchFills
  BY FS_EmptySet DEF Init, FiniteInv, FoundInv, SearchFills
<1>2. SnapshotInv /\ FiniteInv /\ FoundInv /\ SearchFills /\ [Next]_vars
        => (FiniteInv /\ FoundInv /\ SearchFills)'
  <2> SUFFICES ASSUME SnapshotInv, FiniteInv, FoundInv, SearchFills, [Next]_vars
               PROVE  FiniteInv' /\ FoundInv' /\ SearchFills'
    OBVIOUS
  <2>1. ASSUME NEW n \in Name, Save(n) \/ Embedded(n) \/ EmbeddingFails(n)
        PROVE  FiniteInv' /\ FoundInv' /\ SearchFills'
    <3>1. search' = search /\ answer' = None
      BY <2>1 DEF Save, Embedded, EmbeddingFails, Silent
    <3> QED BY <2>1, <3>1, SaveKeepsFinite DEF FoundInv, SearchFills
  <2>2. ASSUME NEW n \in Name, Uninstall(n) PROVE FiniteInv' /\ FoundInv' /\ SearchFills'
    <3>1. /\ DOMAIN tools' \in SUBSET DOMAIN tools /\ DOMAIN fts' \in SUBSET DOMAIN fts
          /\ UNCHANGED <<save, search>> /\ answer' = None
      BY <2>2 DEF Uninstall, Remove, Silent
    <3> QED BY <3>1, FS_Subset DEF FiniteInv, FoundInv, SearchFills
  <2>3. CASE UNCHANGED <<index, save, search>> /\ (answer' = None \/ answer' = answer)
    BY <2>3 DEF FiniteInv, FoundInv, SearchFills, index
  <2>4. CASE Search
    <3>1. /\ search' = [step |-> "asked", held |-> Held, extra |-> Count, matches |-> {},
                        lexical |-> {}, vectors |-> {}]
          /\ UNCHANGED <<index, save>> /\ answer' = None
      BY <2>4 DEF Search, Silent
    <3>2. IsFiniteSet(Held)
      <4>1. Held \in SUBSET DOMAIN tools
        BY DEF Held
      <4> QED BY <4>1, FS_Subset DEF FiniteInv
    <3>3. {} \in Take({}, Pool) /\ IsFiniteSet({})
      BY FS_EmptySet, Bounds DEF Take, LeastOf
    <3> QED BY <3>1, <3>2, <3>3 DEF FiniteInv, FoundInv, SearchFills, index, Count
  <2>5. CASE Rank
    <3>1. UNCHANGED <<index, save>> /\ answer' = None
      BY <2>5 DEF Rank, Silent
    <3> QED BY <2>5, <3>1, RankKeepsFound DEF FiniteInv, SearchFills, index
  <2>6. CASE Answer
    <3>1. search' = None /\ UNCHANGED <<index, save>>
      BY <2>6 DEF Answer
    <3> QED BY <2>6, <3>1, AnswerFills DEF FiniteInv, FoundInv, index
  <2>7. CASE Restart
    <3>1. search' = None /\ answer' = None /\ UNCHANGED index /\ save' = [n \in Name |-> None]
      BY <2>7 DEF Restart, Silent
    <3> QED BY <3>1 DEF FiniteInv, FoundInv, SearchFills, index
  <2> QED
    BY <2>1, <2>2, <2>3, <2>4, <2>5, <2>6, <2>7
    DEF Next, Install, SetQuarantined, vars, Silent
<1> QED BY <1>1, <1>2, SnapshotKnown, PTL DEF Spec
=============================================================================
