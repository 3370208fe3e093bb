----------------------------- MODULE SecretStore -----------------------------
(***************************************************************************)
(* The daemon's data at rest: domain/secrets.ts, the stores of             *)
(* domain/trust/secret-store.ts and the start of storage/database.ts.      *)
(*                                                                         *)
(* SQLite keeps, per secret, the name of the store that has the value; the *)
(* keychain and the encrypted file have the values.  No two of the three   *)
(* are written together, so every operation is a row of small writes, and  *)
(* the process may die, or the keychain refuse, between any two.  The code *)
(* is synchronous: nothing else of the daemon runs in between.             *)
(***************************************************************************)
EXTENDS SchemaMigrations

CONSTANTS Server, Key, Value,
          Chunks,       \* how many keychain entries a value needs, 0 when it fits in one
          MaxChunks,    \* bounds them
          Split,        \* what the head entry of a split value holds
          Mixed,        \* a value read back from parts of different values
          Settled,      \* nothing is being written
          OldValue,     \* the values an earlier version may have left
          OldSchemas,   \* the databases an earlier version may have left
          MaxBoots, MaxWrites       \* bounds

ASSUME ValuesDiffer == /\ Absent \notin Value
                       /\ Split \notin Value \cup {Absent}
                       /\ Mixed \notin Value \cup {Absent, Split}
                       /\ Settled \notin Value \cup {Absent, Split, Mixed}
ASSUME ChunkCounts == MaxChunks \in Nat \ {0, 1} /\ Chunks \in [Value -> 0..MaxChunks]
ASSUME LeftBehind == OldValue \subseteq Value /\ \A d \in OldSchemas : Dated(d)

Account == Server \X Key
Stores == {"keyring", "file"}
Files == {"db", "secrets", "key"}     \* agent-discover.db, -secrets.json, -secrets.key

VARIABLES
  pc,       \* "down", "adopt", "open", "migrate", "plain", "move" while starting, "up"
  active,   \* the store the process writes to
  reach,    \* whether this process reaches the keychain
  job,      \* what the running operation does to one account: its next write
  left,     \* the accounts it has still to get to
  rows,     \* server_secrets: NoRow, or the store named and the plaintext column
  ring,     \* the keychain
  file,     \* agent-discover-secrets.json in the data dir
  old,      \* the same file in ~/.claude
  at,       \* where each file is: "none", "legacy", "data"
  rekeyed,  \* a new key file was made although an earlier one had sealed values
  schema,   \* the rest of the database, see SchemaMigrations
  wanted,   \* what an unfinished write is to leave, see Vault
  torn,     \* the accounts a put or a move was cut short of: a copy may be left in either store
  boots, writes

values == <<ring, file, old>>
process == <<pc, active, reach>>
counts == <<boots, writes>>
secretVars == <<process, job, left, rows, values, at, rekeyed, schema, wanted, torn, counts>>

NoRow == [in |-> "none", value |-> Absent]
Row(store) == [in |-> store, value |-> Absent]     \* value = '' once a store has it
Plain(v) == [in |-> "plain", value |-> v]          \* backend IS NULL
\* A value read back mixed is a string like any other, and can be moved on.
Needs(v) == IF v = Mixed THEN 2 ELSE Chunks[v]
NoEntry == [head |-> Absent, count |-> 0, parts |-> [i \in 1..MaxChunks |-> Absent]]
NoSeal == [value |-> Absent, rekeyed |-> FALSE]

------------------------------------------------------------------------------
(* Reading. *)

\* KeyringSecretBackend.get: a missing part makes the value missing; parts
\* written for two values read back as one.
Joined(e) ==
  LET used == {e.parts[i] : i \in 1..e.count}
  IN IF e.head # Split THEN e.head
     ELSE IF Absent \in used THEN Absent
     ELSE IF \E v \in Value : used = {v} /\ Chunks[v] = e.count THEN CHOOSE v \in used : TRUE
     ELSE Mixed
RingGet(a) == Joined(ring[a])

\* A value sealed under another key does not open: decipher.final() throws.
Opens(a) == file[a] = NoSeal \/ file[a].rekeyed = rekeyed
FileGet(a) == file[a].value
Get(store, a) == IF store = "keyring" THEN RingGet(a) ELSE FileGet(a)

Known(a) == rows[a] # NoRow

\* The value of a secret at rest: in the store its row names; a file that was not
\* adopted still has its values.
Recorded(a) ==
  IF rows[a].in \notin Stores THEN rows[a].value
  ELSE IF rows[a].in = "file" /\ at["secrets"] = "legacy" THEN old[a].value
  ELSE Get(rows[a].in, a)

\* get() and the environment of a server read the store the process writes to,
\* whatever the row says; a value that does not open ends them with an error.
Answer(a) == IF ~Known(a) \/ (active = "file" /\ ~Opens(a)) THEN Absent ELSE Get(active, a)
AtHome(a) == rows[a].in = active /\ (active = "file" => at["secrets"] = "data")

------------------------------------------------------------------------------
(* Writing.  A job is the next write to one account: job.at says which, job.v the   *)
(* value it stores, Absent when it removes one, i and upto the parts it goes over. *)

NoJob == [at |-> "none", a |-> Absent, v |-> Absent, i |-> 0, upto |-> 0]
Job(write, a, v) == [at |-> write, a |-> a, v |-> v, i |-> 1, upto |-> 0]

Put(store, a, v) ==
  CASE store = "file" -> Job("file", a, v)
    [] store = "keyring" /\ Needs(v) = 0 -> Job("head", a, v)
    [] OTHER -> [Job("part", a, v) EXCEPT !.upto = Needs(v)]
Drop(store, a, v) == Job(IF store = "keyring" THEN "unhead" ELSE "unfile", a, v)

Other == IF active = "keyring" THEN "file" ELSE "keyring"

\* What follows: plaintext values have their rows written together, a set has its
\* row written next, a move also drops the value from the store it was in.
\* A slip a move does not make: it drops the value before the row is written.
AfterPutDropFirst == CASE pc = "plain" -> NoJob
                       [] pc = "move" -> Drop(Other, job.a, job.v)
                       [] OTHER -> Job("row", job.a, job.v)
AfterPut == IF pc = "plain" THEN NoJob ELSE Job("row", job.a, job.v)
AfterRow == IF pc = "move" THEN Drop(Other, job.a, job.v) ELSE NoJob
AfterDrop == IF pc = "up" THEN Job("row", job.a, job.v) ELSE NoJob

KeepsSQLite == UNCHANGED <<process, left, rows, schema, wanted, torn, counts>>
InRing == KeepsSQLite /\ UNCHANGED <<file, old, at, rekeyed>>
InFile == KeepsSQLite /\ at' = [at EXCEPT !["secrets"] = "data"] /\ UNCHANGED <<ring, old, rekeyed>>

WritePart(a, i, v) == ring' = [ring EXCEPT ![a].parts[i] = v]
WriteHead(a, v, n) == ring' = [ring EXCEPT ![a].head = v, ![a].count = n]

PutPart ==
  /\ job.at = "part"
  /\ WritePart(job.a, job.i, job.v)
  /\ job' = IF job.i < job.upto THEN [job EXCEPT !.i = @ + 1] ELSE Job("head", job.a, job.v)
  /\ InRing

\* The head counts the parts; those a longer value had are dropped after it.
PutHead ==
  LET n == Needs(job.v)
  IN /\ job.at = "head"
     /\ WriteHead(job.a, IF n = 0 THEN job.v ELSE Split, n)
     /\ job' = IF ring[job.a].count <= n THEN AfterPut
               ELSE [job EXCEPT !.at = "rest", !.i = n + 1, !.upto = ring[job.a].count]
     /\ InRing

DropHead ==
  /\ job.at = "unhead"
  /\ WriteHead(job.a, Absent, 0)
  /\ job' = IF ring[job.a].count = 0 THEN AfterDrop
            ELSE [job EXCEPT !.at = "unrest", !.upto = ring[job.a].count]
  /\ InRing

DropChunk ==
  /\ job.at \in {"rest", "unrest"}
  /\ WritePart(job.a, job.i, Absent)
  /\ job' = IF job.i < job.upto THEN [job EXCEPT !.i = @ + 1]
            ELSE IF job.at = "rest" THEN AfterPut ELSE AfterDrop
  /\ InRing

\* The whole file is rewritten and renamed into place: one write.
PutFile ==
  /\ job.at = "file"
  /\ file' = [file EXCEPT ![job.a] = [value |-> job.v, rekeyed |-> rekeyed]]
  /\ job' = AfterPut
  /\ InFile

DropFile ==
  /\ job.at = "unfile"
  /\ job' = AfterDrop
  /\ IF file[job.a] = NoSeal THEN KeepsSQLite /\ UNCHANGED <<values, at, rekeyed>>
     ELSE file' = [file EXCEPT ![job.a] = NoSeal] /\ InFile

\* The row is the last write of set() and delete().
WriteRow ==
  /\ job.at = "row"
  /\ rows' = [rows EXCEPT ![job.a] = IF job.v = Absent THEN NoRow ELSE Row(active)]
  /\ wanted' = IF pc = "up" THEN [wanted EXCEPT ![job.a] = Settled] ELSE wanted
  /\ job' = AfterRow
  /\ UNCHANGED <<process, left, values, at, rekeyed, schema, torn, counts>>

\* An adoption that moved some of the files is not taken up again: every value the
\* rows look for in the file is given up.
Interrupted == pc = "adopt" /\ at["db"] # "legacy" /\ \E f \in Files : at[f] = "legacy"
Abandoned == IF Interrupted
             THEN [a \in Account |-> IF rows[a].in = "file" THEN Absent ELSE wanted[a]]
             ELSE wanted

\* Plaintext values that are put have no row yet; else it is the write in hand.
Cut == IF pc = "plain" THEN {a \in Account : rows[a].in = "plain" /\ a \notin left}
       ELSE {a \in Account : job # NoJob /\ job.a = a}
Quit == job' = NoJob /\ left' = {} /\ torn' = torn \cup Cut
Down == pc' = "down" /\ active' = "file" /\ reach' = FALSE /\ Quit
             /\ UNCHANGED <<rows, values, at, rekeyed, schema, counts>>

Crash == pc # "down" /\ wanted' = Abandoned /\ Down

\* The keychain refuses (locked, denied): the exception ends the operation, and the
\* process when it is still starting.
Fails ==
  /\ job.at \in {"part", "head", "rest", "unhead", "unrest"}
  /\ IF pc = "up" THEN Quit /\ UNCHANGED <<process, rows, values, at, rekeyed, schema, counts>>
                  ELSE Down
  /\ UNCHANGED wanted

------------------------------------------------------------------------------
(* Starting: createContext. *)

\* resolveDbPath: a data dir without a DB adopts the one of 1.x.
Boot ==
  /\ pc = "down" /\ boots < MaxBoots
  /\ boots' = boots + 1
  /\ pc' = IF at["db"] = "legacy" THEN "adopt" ELSE "open"
  /\ reach' \in BOOLEAN
  /\ UNCHANGED <<active, job, left, rows, values, at, rekeyed, schema, wanted, torn, writes>>

\* inUse(): 1.x is still running, and this process does not start.
BootRefused == pc = "adopt" /\ at["db"] = "legacy" /\ Down /\ UNCHANGED wanted

\* adoptLegacyDb renames the DB first, the key last.
Rename(f) ==
  /\ pc = "adopt" /\ at[f] = "legacy"
  /\ f = "secrets" => at["db"] # "legacy"
  /\ f = "key" => at["db"] # "legacy" /\ at["secrets"] # "legacy"
  /\ at' = [at EXCEPT ![f] = "data"]
  /\ IF f = "secrets" THEN file' = old /\ old' = [a \in Account |-> NoSeal]
                      ELSE UNCHANGED <<file, old>>
  /\ UNCHANGED <<process, job, left, rows, ring, rekeyed, schema, wanted, torn, counts>>

\* createDb opens or makes the file and runs the pending migrations in one transaction.
Migrate ==
  /\ pc \in {"adopt", "open"}
  /\ pc = "adopt" => \A f \in Files : at[f] # "legacy"
  /\ pc' = "migrate"
  /\ at' = [at EXCEPT !["db"] = "data"]
  /\ schema' = RunMigrations(schema)
  /\ UNCHANGED <<active, reach, job, left, rows, values, rekeyed, wanted, torn, counts>>

\* A file store makes its key when there is none.
KeyMade(store) ==
  LET made == store = "file" /\ at["key"] # "data"
  IN /\ at' = IF made /\ at["key"] = "none" THEN [at EXCEPT !["key"] = "data"] ELSE at
     /\ rekeyed' = (rekeyed \/ (made /\ at["key"] = "legacy"))

\* resolveSecretBackend: AGENT_DISCOVER_SECRETS forces a store, else the
\* keychain when it answers.
OpenStore(forced) ==
  LET store == IF forced # "file" /\ reach THEN "keyring" ELSE "file"
  IN /\ pc = "migrate"
     /\ forced = "keyring" => reach
     /\ pc' = "plain"
     /\ active' = store
     /\ KeyMade(store)
     /\ left' = {a \in Account : rows[a].in = "plain"}
     /\ UNCHANGED <<reach, job, rows, values, schema, wanted, torn, counts>>

OpenStoreFails == pc = "migrate" /\ ~reach /\ Down /\ UNCHANGED wanted

\* A loop turns to its next account; SQLite gives the rows in no certain order.
Turn(a) ==
  /\ job = NoJob /\ a \in left
  /\ left' = left \ {a}
  /\ UNCHANGED <<process, rows, values, at, rekeyed, schema, wanted, torn, counts>>

\* migratePlaintext: every value goes to the store, then every row.
NextPlain(a) == pc = "plain" /\ Turn(a) /\ job' = Put(active, a, rows[a].value)

PlainDone ==
  /\ pc = "plain" /\ job = NoJob /\ left = {}
  /\ \E a \in Account : rows[a].in = "plain"
  /\ rows' = [a \in Account |-> IF rows[a].in = "plain" THEN Row(active) ELSE rows[a]]
  /\ UNCHANGED <<process, job, left, values, at, rekeyed, schema, wanted, torn, counts>>

\* migrateBackends: the rows of the other store, when that one opens; a row
\* whose value is missing there stays.
Elsewhere == {a \in Account : rows[a].in \in Stores \ {active}}
\* A slip the start does not make: it moves secrets to the keychain only.
MovedToKeyring == IF Other = "keyring" THEN {} ELSE {a \in Elsewhere : Get(Other, a) # Absent}
Moved == IF Other = "keyring" /\ ~reach THEN {} ELSE {a \in Elsewhere : Get(Other, a) # Absent}

MoveStores ==
  /\ pc = "plain" /\ job = NoJob /\ left = {}
  /\ \A a \in Account : rows[a].in # "plain"
  /\ pc' = "move"
  /\ IF Other = "file" /\ Elsewhere # {} THEN KeyMade("file") ELSE UNCHANGED <<at, rekeyed>>
  /\ left' = Moved
  /\ UNCHANGED <<active, reach, job, rows, values, schema, wanted, torn, counts>>

NextMove(a) ==
  /\ pc = "move" /\ (Other = "file" => Opens(a))
  /\ Turn(a)
  /\ job' = Put(active, a, Get(Other, a))

\* source.get() throws, and with it the start.
MoveThrows(a) ==
  /\ pc = "move" /\ Other = "file" /\ ~Opens(a) /\ job = NoJob /\ a \in left
  /\ Down /\ UNCHANGED wanted

Serve ==
  /\ pc = "move" /\ job = NoJob /\ left = {}
  /\ pc' = "up"
  /\ UNCHANGED <<active, reach, job, left, rows, values, at, rekeyed, schema, wanted, torn, counts>>

------------------------------------------------------------------------------
(* Serving. *)

\* A request writes the accounts as: v, or Absent to remove them.
Request(as, v) ==
  /\ pc = "up" /\ job = NoJob /\ left = {}
  /\ writes < MaxWrites /\ writes' = writes + 1
  /\ wanted' = [a \in Account |-> IF a \in as THEN v ELSE wanted[a]]
  /\ UNCHANGED <<process, rows, values, at, rekeyed, schema, torn, boots>>

\* set() compares with what the active store has, not with what the row names ...
Set(a, v) ==
  /\ active = "file" /\ Known(a) => Opens(a)
  /\ Answer(a) # v
  /\ job' = Put(active, a, v) /\ left' = {}
  /\ Request({a}, v)

\* ... and writes nothing when they are equal: a leftover copy swallows the request.
SetSame(a, v) ==
  /\ pc = "up" /\ job = NoJob /\ left = {} /\ Answer(a) = v
  /\ wanted' = [wanted EXCEPT ![a] = IF AtHome(a) THEN Settled ELSE v]
  /\ UNCHANGED <<process, job, left, rows, values, at, rekeyed, schema, torn, counts>>

Delete(a) == job' = Drop(active, a, Absent) /\ left' = {} /\ Request({a}, Absent)

\* Uninstall of a server.
DeleteAll(s) ==
  LET as == {a \in Account : a[1] = s /\ Known(a)}
  IN as # {} /\ job' = NoJob /\ left' = as /\ Request(as, Absent)

NextDelete(a) == pc = "up" /\ Turn(a) /\ job' = Drop(active, a, Absent)

------------------------------------------------------------------------------
\* What an earlier version may have left: nothing; a 1.x DB with plaintext rows;
\* a later one whose rows name the store that has the value.
OldRow == IF schema.version < 8 THEN {NoRow} \cup {Plain(v) : v \in OldValue}
          ELSE {NoRow, Row("keyring"), Row("file")}
Homes == IF schema.version = 0 THEN {"none"} ELSE IF schema.version < 8 THEN {"legacy"}
         ELSE {"legacy", "data"}
Whole(v) == [head |-> IF Chunks[v] = 0 THEN v ELSE Split, count |-> Chunks[v],
             parts |-> [i \in 1..MaxChunks |-> IF i <= Chunks[v] THEN v ELSE Absent]]

SecretInit ==
  /\ pc = "down" /\ active = "file" /\ reach = FALSE /\ job = NoJob /\ left = {}
  /\ schema \in OldSchemas
  /\ \E home \in Homes : \E given \in [Account -> OldValue] :
       /\ rows \in [Account -> OldRow]
       /\ home = "none" => \A a \in Account : ~Known(a)
       /\ ring = [a \in Account |-> IF rows[a].in = "keyring" THEN Whole(given[a]) ELSE NoEntry]
       /\ LET sealed == [a \in Account |-> IF rows[a].in # "file" THEN NoSeal
                                         ELSE [value |-> given[a], rekeyed |-> FALSE]]
              none == [a \in Account |-> NoSeal]
          IN /\ file = IF home = "data" THEN sealed ELSE none
             /\ old = IF home = "legacy" THEN sealed ELSE none
             /\ at = [f \in Files |-> IF f = "db" \/ sealed # none THEN home ELSE "none"]
  /\ rekeyed = FALSE
  /\ wanted = [a \in Account |-> Settled] /\ torn = {}
  /\ boots = 0 /\ writes = 0

SecretNext ==
  \/ PutPart \/ PutHead \/ DropHead \/ DropChunk \/ PutFile \/ DropFile \/ WriteRow
  \/ Crash \/ Fails
  \/ Boot \/ BootRefused \/ Migrate \/ OpenStoreFails \/ PlainDone \/ MoveStores \/ Serve
  \/ \E f \in Files : Rename(f)
  \/ \E forced \in Stores \cup {"none"} : OpenStore(forced)
  \/ \E a \in Account : NextPlain(a) \/ NextMove(a) \/ MoveThrows(a) \/ NextDelete(a)
  \/ \E a \in Account : \E v \in Value : Set(a, v) \/ SetSame(a, v)
  \/ \E a \in Account : Delete(a)
  \/ \E s \in Server : DeleteAll(s)

SecretSpec == SecretInit /\ [][SecretNext]_secretVars

------------------------------------------------------------------------------
(* Properties. *)

RowOf == {NoRow} \cup {Row(s) : s \in Stores} \cup {Plain(v) : v \in Value}
Entry == [head : Value \cup {Absent, Split}, count : 0..MaxChunks,
          parts : [1..MaxChunks -> Value \cup {Absent, Mixed}]]
Seal == [value : Value \cup {Absent, Mixed}, rekeyed : BOOLEAN]
InHand == [at : {"part", "head", "rest", "file", "row", "unhead", "unrest", "unfile"},
           a : Account, v : Value \cup {Absent, Mixed}, i : 1..MaxChunks, upto : 0..MaxChunks]

SecretTypeOK ==
  /\ pc \in {"down", "adopt", "open", "migrate", "plain", "move", "up"}
  /\ active \in Stores /\ reach \in BOOLEAN /\ rekeyed \in BOOLEAN
  /\ job \in InHand \cup {NoJob} /\ left \subseteq Account
  /\ rows \in [Account -> RowOf]
  /\ ring \in [Account -> Entry]
  /\ file \in [Account -> Seal] /\ old \in [Account -> Seal]
  /\ at \in [Files -> {"none", "legacy", "data"}]
  /\ wanted \in [Account -> Value \cup {Absent, Settled}]
  /\ schema \in Database
  /\ torn \subseteq Account

\* Through crashes, refusals of the keychain, moves between the stores and the
\* adoption of the 1.x files, a secret keeps its value: only setting or removing
\* it changes it, and only to what was asked.  What a process that serves reads is
\* that value or, where its store does not have it, none; a write or move cut short
\* may have left a copy in the store the row does not name, and what is read there
\* is left out: see ReadsTheSecret (secrets.ts:62-136, 147-172).
TheVault == INSTANCE Vault WITH
  None <- Absent,
  value <- [a \in Account |-> IF wanted[a] = Settled THEN Recorded(a) ELSE Absent],
  read <- [a \in Account |-> IF /\ pc = "up" /\ wanted[a] = Settled
                                /\ a \in torn => rows[a].in = active
                             THEN Answer(a) ELSE Absent]
KeepsTheVault == TheVault!Spec

\* "One secret's value; null when it is not set" (secrets.ts:129): what is read is
\* the value that was last set, or none.
ReadsTheSecret ==
  pc = "up" =>
    \A a \in Account : Known(a) /\ wanted[a] = Settled => Answer(a) \in {Recorded(a), Absent}

\* A process that serves has moved every secret it can reach into its own store
\* and left no value in SQLite, whatever earlier starts had finished
\* (secrets.ts:62-111).
ServesFromOneStore ==
  pc = "up" =>
    \A a \in Account :
      Known(a) => \/ rows[a].in = active
                  \/ rows[a].in = Other /\ ~reach
                  \/ rows[a].in = Other /\ Get(Other, a) = Absent

\* An upgrade keeps what the user had: an enabled server stays enabled, a remote
\* one keeps its address, its tools stay searchable, and an indexed server that
\* was never pinned is pinned to exactly the tools it had (database.ts:342-537).
Upgraded(d, e) ==
  LET first == "active" \in d.cols \/ d.cols = {}     \* 1.x columns
  IN /\ e.enabled = IF first THEN d.active ELSE d.enabled
     /\ e.url = IF first /\ d.transport \in Remote /\ d.url = Absent THEN d.homepage ELSE d.url
     /\ e.fts = [by |-> "ToolIndex", rows |-> d.tools] \/ d.version >= 10
     /\ IF d.pins # NoPin THEN e.pins = d.pins
        ELSE d.version < 8 /\ d.tools # {} /\ (first \/ d.indexed)
               => e.pins = [tools |-> d.tools, hashed |-> TRUE]
UpgradeKeepsServers ==
  [][schema'.version # schema.version => Upgraded(schema, schema')]_schema
=============================================================================
