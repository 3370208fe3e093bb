-------------------------- MODULE SchemaMigrations --------------------------
(***************************************************************************)
(* The migrations of storage/database.ts on one server row and its tools.  *)
(* A database is a record:                                                 *)
(*   version   _meta.schema_version, or pragma user_version before it      *)
(*   cols      the columns of `servers` that some migration adds or drops  *)
(*   active, enabled, transport, homepage, url, source, indexed            *)
(*             the server's row                                            *)
(*   tools     its rows in server_tools, hashed: they carry a tool_hash    *)
(*   pins      its row in server_pins                                      *)
(*   fts       the tools the full-text table has, and who writes it        *)
(*   vectors   whether stored embeddings are left from another text        *)
(***************************************************************************)
EXTENDS Integers

CONSTANTS Tool, Address,
          Absent, NoPin     \* NULL, and no row

Latest == 11
Remote == {"sse", "streamable-http"}

Column == {"active", "installed", "approval_status", "latest_version", "embedding",
           "embedding_model", "url", "enabled", "registry_name"}
Pins == [tools : SUBSET Tool, hashed : BOOLEAN]
Database ==
  [version : 0..Latest, cols : SUBSET Column,
   active : BOOLEAN, enabled : BOOLEAN, indexed : BOOLEAN,
   transport : Remote \cup {"stdio"}, source : {"registry", "smithery", "local"},
   homepage : Address \cup {Absent}, url : Address \cup {Absent},
   tools : SUBSET Tool, hashed : BOOLEAN, pins : Pins \cup {NoPin},
   fts : [by : {"triggers", "ToolIndex"}, rows : SUBSET Tool], vectors : BOOLEAN]

\* What a version can have left: 1.x has `active`; from 7 on tools are hashed.
Left1x(db) == db.version < 7 /\ (db.cols = {} => db.version = 0)
                             /\ (db.cols # {} => "active" \in db.cols)
Left2x(db) == db.version >= 7 /\ db.cols # {} /\ "active" \notin db.cols /\ db.hashed
Dated(db) == db \in Database /\ (Left1x(db) \/ Left2x(db))

Dropped(db, c) == [db EXCEPT !.cols = @ \ {c}]
Added(db, cs) == [db EXCEPT !.cols = @ \cup cs]

------------------------------------------------------------------------------
(* The migrations.  One runs when the stored version is below its own. *)

Pending(db, version) == version > db.version

\* CREATE TABLE IF NOT EXISTS: a table that is there keeps its columns.
FirstTables(db) ==
  IF Pending(db, 1) /\ db.cols = {} THEN Added(db, {"active", "installed"}) ELSE db

HealthColumns(db) ==
  IF Pending(db, 2) THEN Added(db, {"approval_status", "latest_version"}) ELSE db

NoApprovals(db) == IF Pending(db, 3) THEN Dropped(db, "approval_status") ELSE db

ToolFts(db) ==
  IF Pending(db, 4) THEN [db EXCEPT !.fts = [by |-> "triggers", rows |-> db.tools]] ELSE db

VectorColumns(db) ==
  IF Pending(db, 5) THEN Added(db, {"embedding", "embedding_model"}) ELSE db

\* 1.x called `enabled` active and kept the address of a remote server in
\* `homepage`; a DB whose `active` is gone has been through this already.
FromActive(db) ==
  LET moves == db.transport \in Remote /\ db.url = Absent
  IN [db EXCEPT !.enabled = db.active,
                !.url = IF moves THEN db.homepage ELSE @,
                !.homepage = IF moves THEN Absent ELSE @,
                !.source = IF @ = "smithery" THEN "registry" ELSE @,
                !.indexed = @ \/ db.tools # {}]

ServersSchema(db) ==
  LET d == IF "active" \in db.cols THEN Dropped(FromActive(db), "active") ELSE db
  IN IF ~Pending(db, 7) THEN db
     ELSE [d EXCEPT !.cols = (@ \ {"installed", "latest_version"}) \cup {"url", "enabled"},
                    !.hashed = TRUE]

\* INSERT OR IGNORE: a pin that is there stays.
TrustSchema(db) ==
  IF Pending(db, 8) /\ db.indexed /\ db.tools # {} /\ db.pins = NoPin
  THEN [db EXCEPT !.pins = [tools |-> db.tools, hashed |-> db.hashed]]
  ELSE db

RegistryMirrorTables(db) == IF Pending(db, 9) THEN Added(db, {"registry_name"}) ELSE db

FieldedFts(db) ==
  IF Pending(db, 10)
  THEN [db EXCEPT !.fts = [by |-> "ToolIndex", rows |-> db.tools], !.vectors = FALSE]
  ELSE db

\* 6 and 11 are the table of the old dashboard's presets.
FirstSix(db) == VectorColumns(ToolFts(NoApprovals(HealthColumns(FirstTables(db)))))

\* A slip the list does not make: 8 before 7.
RunPinsFirst(db) ==
  [FieldedFts(RegistryMirrorTables(ServersSchema(TrustSchema(FirstSix(db))))) EXCEPT !.version = Latest]

\* Every version above the stored one, in order.
RunMigrations(db) ==
  [FieldedFts(RegistryMirrorTables(TrustSchema(ServersSchema(FirstSix(db))))) EXCEPT !.version = Latest]
=============================================================================
