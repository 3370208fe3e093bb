# agent-discover: a verification development in TLA+

agent-discover is a local daemon that connects an MCP host to many upstream MCP
servers: it installs them, indexes their tools, pins what the user approved,
quarantines what changed, and proxies calls over pooled connections. This
directory holds TLA+ models of its core, the TLC configurations that check
them, and machine-checked proofs of the properties that matter most.

* `PROJECT.json` lists components, runs, mutants, the map from definitions to
  source lines, findings, hazards and theorems.
* A module is checked with `tlc -config X.cfg M`, a proof with `tlapm M.tla`.

## 1. The system

### How it runs

One Node process, the daemon, serves REST (`/api`) and MCP (`/mcp`). Everything
lives in one event loop: a handler runs without interruption until it awaits
something outside the process (an upstream's answer, an embedding, the end of a
child process). `better-sqlite3` is synchronous, so a statement or transaction
is one indivisible step, but each of them commits on its own. So two things can
interleave: handlers, at awaits that really wait; and a crash or a throwing
write, between any two commits.

### Components, their state, what is hard, what must hold

| component | state | operations | hard part | correctness |
| --- | --- | --- | --- | --- |
| Server lifecycle (`domain/lifecycle.ts`) | `indexing`: one job per name | install, reindex, enable, disable, update, uninstall, approve, setSecret, callTool | handlers that await an index or a close and go on with what they read before | a drifted server is quarantined; hosts know what is exposed; every request is answered |
| Server store (`domain/servers.ts`) | table `servers` | create, update, remove, flags, era verdict | names are reused, ids are not | operations on an id never hit another installation |
| Tool index (`domain/tool-index.ts`) | `server_tools`, FTS, generation | save, remove, get, listEnabled, search | save reads, awaits vectors, writes a difference | the index is the listing |
| Pins and approval (`domain/trust`) | `server_pins` | pin, drift, approve, inspect | first index, reinstallation, stale review | pins move only by consent |
| Connection pool (`domain/pool.ts`) | `conns`, `pending`, `generations`, `failures`, `elicitations` | connect, open, disconnect, probe, callTool, health, sweep, push routing | opens overtaken by reconfiguration; calls that end on an earlier connection | no stale or leaked connection; exact in-flight count; questions go to the right caller |
| MCP calls (`mcp/server.ts`) | `parked` questions, per-process key | startCall, relay, forward | an answer races the expiry; nobody waits for the second question | each question answered exactly once |
| MCP sessions (`mcp/http.ts`) | `sessions` | handle, sweep, notify | a request arrives while its session is swept | a session in use is not closed |
| OAuth (`domain/oauth.ts`) | `states`, `pending`, `waiters`, stored tokens | begin, callback, waitForAuthorization | concurrent sign-ins; refused sign-ins | a completed sign-in leaves nobody waiting; a late tab costs nothing |
| Secrets (`domain/secrets.ts`, `trust/secret-store.ts`) | `server_secrets`, a keychain or a file | set, get, delete, moves between stores | stores and rows are not one transaction | a secret keeps its value through crashes and moves |
| Registry mirror (`domain/registry.ts`) | `registry_servers`, cursor | sync, upsert, fetchVersion | paged sync interrupted; older versions arrive late | no entry is skipped; the latest version wins |
| Audit log (`trust/audit.ts`) | `audit_log` | append, prune, list | retention by id, paging while appending | the newest entries are kept; pages neither skip nor repeat |
| Stdio shim, daemon (`shim.ts`, `daemon.ts`) | lock file, port, process | ensureDaemon, retireOlderDaemon, spawn, shutdown, idle exit | several shims start at once; an owner dies with the lock | no lock left behind; whoever looks finds a daemon |
| Install plans and consent (`domain/install-plan.ts`, `provenance.ts`, `marketplace.ts`, `mcp/tools.ts`) | none between requests; the sealed digest of a question | resolve, plan, check, ask, install, approve | the answer returns in a request that plans again | what is installed or approved is what the user saw |
| Search (`domain/ranker.ts`, `tool-doc.ts`, `embeddings/`) | snapshot of documents and vectors, generation | save, rank, search | waits for vectors on both sides | the snapshot is the index; the limit fills |
| Migrations (`storage/database.ts`) | schema version, columns, 1.x files | adopt, migrate | databases of every age | servers, pins and tools survive an upgrade |
| Pane (`plugin/hooks/`) | atoms: snapshot, detail, plan, audit page | presses, polls | nothing orders tasks | a press hits the server it named; the pane settles |
| Setup file | a file | syncSetupFile | awaits inside a loop | idempotence |

Interaction: REST and MCP handlers and the setup sync call the lifecycle; the
lifecycle calls the pool, the index, the trust hooks and the store; the pool
calls back on `list_changed` (`onToolsChanged`), which starts an index; the
lifecycle's `changed()` fans out to every connected host.

The hazards, each at its line, are in `PROJECT.json`. Components that are not
modelled, and why, are listed there too.

## 2. The plan

| module | models | proofs | run |
| --- | --- | --- | --- |
| `ServerLifecycle` | one server name through install, index, drift, approval, uninstall | all its safety properties | `lifecycle` |
| `ConnectionPool` | the pooled connection to one server | all its safety properties | `pool` |
| `ParkedCalls`, `Conversations` | calls parked on an upstream's question | all its safety properties and the refinement | `parked_calls` |
| `DaemonStart` | shims, lock file, port, upgrade, idle exit | types, the port and the lock | `daemon` |
| `InstallPlans`, `InstallConsent` | plans and the consent to them | all four properties | `install` |
| `DiscoverPane` | the pane's tasks and atoms | all its safety properties | `pane` |
| `Records` | the audit log and its page | all three properties | `records` |
| `RegistryMirror` | the copy of the registry | all its safety properties | `registry` |
| `ToolSearch` | the index, its snapshot, a search | all three properties | `search`, `search_orphans` |
| `SchemaMigrations`, `SecretStore`, `Vault` | the data at rest | all three properties | `secrets` |
| `OAuthSignIn` | sign-ins and who waits for them | all three properties | `signin` |

"Properties" here are those of the passing runs; a run whose result is a violation
checks a statement of the repository that the code does not keep (section 15).
A module's theorems are in `<module>_proofs`. Three proof modules hold those of two
components each: `Outward_proofs` (the connections and the mirror, what the daemon
keeps of others), `UserFacing_proofs` (parked questions and the pane, what a
user is asked and shown) and `Startup_proofs` (the daemon and its data at rest). The
two in each share no state, no name and no fact.

Left, in this order:

1. An abstract specification of the server a user is promised (hidden, exposed,
   quarantined), refined by `ServerLifecycle`.
2. The shim's replay of a session after the daemon was replaced.

Composition: `InstallConsent` builds on the operators of `InstallPlans`,
`SecretStore` on `SchemaMigrations` and, as an implementation, on `Vault`;
`ParkedCalls` implements `Conversations`.
`ServerLifecycle` abstracts the pool to "a listing arrives or fails";
`ConnectionPool` abstracts the lifecycle to the operations that change a
configuration; `ParkedCalls` takes the pool's routing as given;
`InstallConsent` and `DiscoverPane` take a server's tools as a number;
`ToolSearch` takes a listing as given and refines the save of
`ServerLifecycle` down to rowids, documents and vectors.

## 3. `ServerLifecycle`

One server name, since every table row, every `Map` entry and every check of
the lifecycle is keyed by the name or by the row's id; two names share nothing
but the event loop.

State. `srv` is the row of `servers` with the `server_tools` and `server_pins`
rows that cascade with it; `srv.id` tells installations apart (the column is
AUTOINCREMENT). `indexing` is the job the `indexing` map holds, with the row id
it captured and the tool rows it read. `request` is the suspended handler of
each client, with the row it captured. `announced` and `reviewed` belong to the
outside: what a host that lists on every `list_changed` has, and what the
user looked at. (What hosts have is not followed after a failed write that left
them owed a `list_changed`: `announced` is then empty until they are told again.) `unjudged` and `untold` are history: a fault has cut a run short
that still owed the row its verdict, or the hosts their `list_changed`. A catalog maps each tool to the hash of its definition
(`tool-hash.ts` covers the name, description, schema and annotations).

Steps. A handler's run from one real await to the next is one action. The tail
of an index job, from the write transaction to the resolved promise, contains
no such await but five commits, so it is five actions (`SaveTools`,
`MarkIndexed`, `PinFirst`, `SetQuarantined`, `FinishIndex`). `Busy` says that
such a run is going on and keeps all other handlers out, as the event loop
does. Continuations that resume in the same run (`InstallResumes`,
`EnableResumes`, `DropServer`) belong to `Busy` as well, in any order, which
includes the order of the microtask queue. The wait for embeddings is taken
only when a listed tool can need a vector; whether it does is a free choice,
because the provider and the stored vectors are not modelled.

Faults. `Crash` ends the process in any state, between two commits of a run as well.
`WriteFails` is a write of the tail that throws (the transaction, the mark, the pin,
the audit entry of a flagged tool in `trust/index.ts:81`, the quarantine): the job
fails with what is committed. `ApproveCut` is the same between the pins and the
quarantine of an approval. Embeddings, listings and a save for a server that is gone
fail too. What such a cut leaves really is against `docs/SECURITY.md:7`: see
`ChangeIsQuarantined` in section 15. The passing properties carve out exactly that and no more: `unjudged`
is set by those faults alone and ends with the next verdict, approval, installation or
removal, `untold` with the next `list_changed` or restart. Two writes that
throw are left out: `servers.remove()` after `index.remove()`, and
`secrets.deleteAll()` before it; that the process dies between the removal of the
tools and that of the row is in the model.

Two simultaneous uninstalls, where the second one finds the row of a new
installation and removes it by name, are behaviours of the model.

| run | question | result |
| --- | --- | --- |
| `lifecycle` | quarantine, index, calls, what hosts hear, consent, is every handler answered | holds |

Bounds. Two hashes and "absent" are enough to add, change, remove and revert a
tool. Listings of several tools, where one changes while another stays, are
covered by the proofs, which hold for every set of tools and clients. Two
handlers, besides the index job and the upstream's notifications, are one that
starts or joins a job and one that removes or replaces the server meanwhile.
With `MaxId = 2`, a job or a handler outlives the installation it belongs to while the
other goes on with the next one; three installations at once are left to the proofs. The bound
is a guard of `Install`. `RequestsAnswered` is about one of the handlers, since nothing tells
them apart.

Fairness. `IndexStep` and each client's `Resumes` are strongly fair: the SDK
bounds connecting (30 s) and listing (its default request timeout), closing a
child process ends with a kill, an embedding request has its own timeout, and
the event loop starves no callback. Strong, not weak, because a step waits
while another handler's run is going on (`Busy`), which may come back forever.
Nothing is assumed of clients and upstreams.

## 4. `ConnectionPool`

One server name again; the `Map`s of the pool are keyed by it.

State. `conn`, `open` and `failure` are the entries of `conns`, `pending` and
`failures`. The generation counter is compared only with the value an open
read, so it is the Boolean `open.stale`. A client stands for one SDK `Client`
with its process or session: in `alive` until its transport is closed, in
`closing` while this process awaits `close()`. A configuration is the
installation and the number of changes since; its contents do not matter.
`verdict` says that a protocol-era verdict is stored which `priorFor` would
use. `calls` are the tools/call requests, `probe` the index job, `orphans` the
calls this side gave up and the upstream may still work on.

Steps. A handshake (with the close of a client that failed it) is one wait.
What resumes when an open ends, every joined `connect()`, runs before anything
else and is part of `Opened` or `OpenFails`. `Disconnect` is the run of
`disconnect()` up to its await, `Closed` the end of that await, in which an
uninstall goes on to remove the row. Time is free: a backoff ends, a verdict
expires and an idle connection is swept at any moment the code allows.
`Push` is a question the upstream asks during a call; `routed` remembers
where the last step sent one.

Not in the model: a second uninstall while one waits (see `ServerLifecycle`),
the pane's queue of questions, and `closeAll` at exit. Health pings appear as
what they do to the pool, a connect that counts as no call.

| run | question | result |
| --- | --- | --- |
| `pool` | no stale connection, no leaked client, no wedge, exact counts, connections kept, is every connect answered | holds |

Bounds. A client of the pool is the connection, the one being opened, or one of
those closing. Two suffice for an open beside a closing client. The caller runs
beside the index job, the health ping and the pane. `MaxInst = 2` gives a
reinstallation (the last installation stays, so that the system never stops at
its bound), `MaxVer = 1` a change within one; more changes repeat the same
comparison. Several callers, whose calls end on several earlier connections,
are covered by the proofs of `InflightExact` and `RoutedWhenCurrent`; the latter
is proved and no longer run, because one caller cannot break it.

Fairness. A handshake is bounded (30 s), the PATH check too (5 s), and `close`
returns: weak fairness of `OpenStep` and of `Closed(k)`. `ConnectsSettle`
assumes that reconfigurations stop, because an open that is overtaken starts
over; nothing else can repeat forever.

## 5. `ParkedCalls`

A downstream `tools/call` may need several requests: when the upstream asks its
user something, the request ends with the question and an id, the upstream
call stays open in `parked`, and a later request brings the answer.

State. A `Round` is a downstream request being served: `round[d]` is the call
whose result or next question `relay()` awaits. A `call` is a `RunningCall`: in
flight or ended (by itself or by its timeout), aborted or not, its age since
the request or the last progress, and the items of its question queue.
`question` is one `elicitation/create` from the moment it is pushed: queued,
then parked, then answered, or dropped with its call. Its id doubles as the id
of the parked entry, which the code draws afresh. What the user answers is
"given" or "cancel", which also stands for a retry without a usable answer.

Steps. `Ask` is the push: a round that waits takes the question and ends
(`relay` parks it in the same run), otherwise it goes to the queue. `Retry` is
`forward()` with a parked id: it deletes the entry, answers, and relays again,
in one run up to the new wait; the three disjuncts of `Relay` are a result that
is there, a question that is queued, and a wait. That `Promise.race` prefers a
result to a queued question is in `Ended`, which drops the queue. `Expire` is
the timer of a parked question, `AbortRound` a client that gives a request up.
Not in the model: clients that cannot be asked (the pane answers for them), the
sign-in rounds, and the sealing and expiry of the request state; a request with
an id that is not parked gets an error and changes nothing.

| run | question | result |
| --- | --- | --- |
| `parked_calls` | one place per call, no question missed, every round answered; is it a conversation | holds |

`Conversations` is what is promised of such a call. It has no queue, no timers
and no ends of calls, only where the next word of a call goes (`listening`),
the question its user has (`shown`) and what an upstream was told (`answer`). A
round that listens gets a question or a result; a question shown is settled once, and by
then a round listens, another question is shown or nobody listens. The mapping
is in `ParkedCalls`: `Relaying(c)`, `Parked(c)` and the answers. `Start`, `Ask`
and `End` are the code's `StartCall`, a push that is heard and the end of a call
somebody waits for; `Settle` is `Retry` with its three outcomes, and `Expire`.
A push nobody hears, a call that ends unheard, an abort, progress and time are
steps that a client and an upstream do not see.

Bounds. Two rounds are the least that can compete for one call, two calls tell
questions of different calls apart, three questions give one parked and two
queued. A call that is over is used again as a new one. Time is counted in ticks
of the two timeouts, which are equal in the code; one tick each is enough for
either timer to fire first. `Tick` never passes a timer that is due.

Fairness. Timers fire and time passes: weak fairness of `Expire`,
`CallTimesOut` and `Tick`. Neither clients nor upstreams are assumed to answer,
but an upstream that reports progress forever resets its timeout forever
(`resetTimeoutOnProgress`), so `RoundsAnswered` assumes it stops.

## 6. `DaemonStart`

`ensureDaemon` of the shims of several hosts against the daemon they look for.

State. `shim` is where each `ensureDaemon` stands, whether it owns the lock and
which daemon it found. `lock` is the file `daemon-<port>.lock`, with who made it
and whether that shim is dead and the file old. `daemon` has, per process id,
the phase of the process (`starting`, `listening`, `up`, `closing`, `released`)
and its release.

Steps. Shims share files and a port, so one step ends at every await and every
file call: between the `open(lock, 'wx')` that fails, the `stat` and the
`unlink` other processes run. A probe may miss a daemon that is busy for a
second (`Sees`, a fault). The daemon binds the port (`Listen`) before it opens
its context, and closes in the opposite order (`FreePort`, `Exit`). `Init` may
have a daemon running, of the same release, an older one, or one that has no
`/api/shutdown`. Time appears as two facts of the constants in `shim.ts`: a lock
is stale (30 s) only when its owner died, since an owner waits 20 s plus two
probes; and a wait times out only when no daemon is coming. The
retirement of an older daemon is two requests to the port, not to the process that
was found: `FetchToken` and `AskToStop` go to whichever daemon answers by then
(`Accepts`), so that a slow shim stops the one that has replaced it, also
one of its own release.

Left out: what a shim forwards once it is connected.

| run | question | result |
| --- | --- | --- |
| `daemon` | is no lock left behind, does whoever looks find a daemon | holds |

Bounds. Two hosts of one release, three process ids (an older daemon, the one
that replaces it, the one started after that was stopped by a slow shim; an id is used
again when its process is gone), two faults: a host killed with
the lock, and a missed probe or a crash after that. Hosts of two releases are
left out of the run on purpose, see section 15.

Fairness. Processes that run go on (`ShimStep`, `DaemonStep`), time passes
(`LockAges`), and a host whose shim failed starts it again. Nobody is assumed
to start, to fall idle or to fail.

## 7. `InstallPlans` and `InstallConsent`

`InstallPlans` is the pure part: how an entry of a registry becomes the command,
image or endpoint that runs (`BuildInstallPlan`), with what is missing, what
blocks it, whether it is pinned, and what the consent shows (`PlanView`). Text
is abstract: a value is unset, blank, has a placeholder left, or is a token. The
command line of a package is its `command`, the `token` that names what it
loads (package or image, with the version if one is given) and its other `args`.
`Loaded` says what a start loads, which is the current release when the
argument names none, and when it names an image by a tag (`Moving`): the plan calls a
tag pinned and warns that tags are mutable (`install-plan.ts:345` and `:455`), and a
push moves it.

`InstallConsent` puts requests around it. `registry`, `release` and `reachable`
are the outside; `mirror` the local copy of the latest version with its number, renewed
by `Sync`; `row`, `tools`
and `pins` the one local server; `call` the request of a client, which resolves,
looks up a release and decides in steps of their own; `asked` the question it
ended with, with the view the user saw, the sealed digest and the answer.
`install_server` and `enable_server` are requests; the retry repeats the whole
of it. The pane shows a plan and installs in two requests of its own.

Left out: the digest of `tools` (a number), parsing of the registries' answers,
the seal, which is taken to hold, and the ranking of search results.

| run | question | result |
| --- | --- | --- |
| `install` | is what runs what was accepted, does it stay, is a takedown kept out, is an approval for the tools reviewed | holds |

Two properties say what they leave out. `PinnedLoadsAsShown` is about plans shown as
pinned without the warning about tags. `TakenDownStaysOut` takes a version as taken down
when the registry said so to this request, or the mirror's copy was made after it
was (`TakenDown`): while the registry is unreachable, a copy made before the takedown is
planned and installed as active (`marketplace.ts:224`), from the pane as well, and nothing
tells the user that the registry was not asked. That is a hazard in `PROJECT.json`.

Bounds. One client, a command given by hand, and one entry of five shapes (a
package without a version, a pinned one with `NODE_OPTIONS`, a remote endpoint, an image
with a tag and one with a digest),
two moves of the world. A move between
the question and the retry and one after it is the longest the properties need;
`TakenDownStaysOut` and `PinnedLoadsAsShown` both fail within them for
the mutants. The properties are about one request each, and nothing but the
server's name, which is shared here, joins two clients.

## 8. `DiscoverPane`

The `/discover` pane is a program of its own: atoms that a view draws, and
functions that run on a press or by the clock and overlap freely.

State. `server`, `nextId`, `up` stand for the daemon. `snapshot`, `route`,
`detail`, `confirm`, `browse` and `plan` are the atoms, `planValues` and `typed`
the values entered and not yet sent. A `task` is the rest of a function as a
sequence of stages, with the answer of its last request. `reviewed` remembers
the definitions the pane has shown.

Steps. What a function does between two requests is one action; a request is
handled when it is sent (`CallServer`, `Search`, `ShowPlan`, `InstallPlan`) and
its answer written in a later one (`Land`, `Show`, `Viewed`). `Offers` and
`DetailOffers` are what the view draws, so that a press is always one of a
control that is there. The world drifts, installs, uninstalls, stops and starts.

Left out: health, sign-in, re-index and logs (they change none of these atoms),
the notice line, the focus ring.

| run | question | result |
| --- | --- | --- |
| `pane` | does a press change the server it named, does an approval pin what was shown, does the pane settle | holds |

Bounds. Two tasks and the clock, two names, two presses, one move of the world:
a press that races another press, the poll and a change. Ids are not reused, so
a name installed again is another id already with one move.

Fairness. A request is answered or fails, so a task's next step is taken (weak
fairness of `Step`), and the clock goes on. The fetch is the host's; `api()` sets
no timeout of its own, so a daemon that accepted a request and never answers is
outside what `PaneSettles` says.

## 9. `Records`

The audit log in the daemon and its page in the pane, together, since the paging
uses the ids that retention removes.

State. `audit` maps ids to actions, `lastId` is SQLite's AUTOINCREMENT,
`appended` the count that is not stored. `page` is the atom drawn, a query
(filter, cursors of the pages above, `before`) with its answer; `task` is what
each press, and the poll, is doing.

Steps. `Record` appends and, every `PruneEvery` appends of one process, prunes;
`Restart` forgets the count. A press reads the page when it runs (`Asking`), the
daemon answers (`Serve`), the answer is written (`Show`) or the request fails.

| run | question | result |
| --- | --- | --- |
| `records` | does retention keep the newest rows and not many more, do pages adjoin, is Older offered | holds |

Bounds. Pages of two rows, three rows kept, pruning every second append, one restart. So at
most four rows are allowed, and five once a restart has made the count lag
(`3 + (starts + 1)`); six appends reach both, and a table that is pruned too late or not at
all has more. Five rows are three pages, the last of them cut by retention. A press beside the
poll is the overlap the pane has. Actions are symmetric. Proved for all sizes.

## 10. `RegistryMirror`

State. `registry` and `clock` are the MCP Registry. `mirror`, `since` and
`synced` are the row per name and the two entries of `_meta`; `sync` and `page`
the sync that runs and the answer on its way, `look` and `ask` those of a lookup
and of a live search. `raced` collects names that changed while an answer was on
its way.

Steps. A sync is one action per page (`StorePage`, the transaction with the
upserts) and stores the cursor with the last. A lookup of the latest version
refreshes a row (`StoreLookUp`). A search uses the mirror once it was synced and
the registry before that. A page is a set of entries, the first `PageLimit` the
registry lists after the cursor, and `UpsertAll` says for each name which of them
stays; that this is what the code's upserts leave, one after the other in the
registry's order, is the `ASSUME OneByOne` of `MCRegistryMirror`, which TLC
evaluates for every row and every page of up to three versions.

| run | question | result |
| --- | --- | --- |
| `registry` | does the cursor cover what came before it, does a search find what is active, does every sync end | holds |

Bounds. Two names of up to two versions and pages of one entry give a sync of
several pages with a change between them; two changes and one fault. `MaxPages`
is a stop for a registry that never ends its list. `RegistryFits` says that what
is listed fits below it; section 15 says what happens to a sync that is cut short.

`CursorCovers` speaks of the stamp of a name's latest version: a server whose latest
version was stamped up to the cursor is in the mirror as it is, unless it raced.

Fairness. `StorePage`: a request is answered or times out.

What is let off: a change published while an answer is on its way. The cursor
is the newest stamp seen, the registry orders pages by name, so such a change can
stay behind the cursor until the entry changes again. `registry.ts` says nothing
of it, so it is a hazard without a property.

## 11. `ToolSearch`

The index as rows, documents and vectors, and a search over it.

State. `tools` are the rows of `server_tools`, `fts` the documents by rowid,
`generation` the counter in `_meta`, `save` per server a save that waits for its
vectors, with the rows it read. `snapshot` is what the ranker keeps, `search`
the one that runs, `answer` what the last one found, how many tools match and may be
shown, and what it lost.

Steps. `Save` reads and either commits at once or waits; `Embedded` and
`EmbeddingFails` end the wait and commit all rows in one transaction, as the
code does; `Uninstall` and `SetQuarantined` write in between. A search counts
the quarantined tools (`Search`), matches the words and waits for the query's vector
(`Rank`), and filters (`Answer`). Scores are free: any order of the documents that match, and
any of those with a vector. Of the documents that match, the words bring at most `Pool`
(`ranker.ts:215`, 200 in the code), in whatever order BM25 puts them.

`SearchFills` says what that leaves of "so `limit` still fills": what is found, and what
was lost (quarantined or removed while the query's vector was awaited), make up
the limit or the `room`. The room is all that match and may be shown when the pool
takes every match; beyond that, the pool less the tools that were quarantined, since each of
them may have taken a place in it.

| run | question | result |
| --- | --- | --- |
| `search` | are document and vector those of the definition, is the snapshot current, does the limit fill | holds |
| `search_orphans` | is there one document per tool (`tool-doc.ts:15`) | violated, see section 15 |

Bounds. Two servers of one tool and two definitions, one of which matches; limit
1, so that a quarantined tool on top takes the only place, and a pool of 1, so that two
matches are more than it takes. One fault (lost
vectors or a restart). Three saves are enough to change a tool back.

## 12. `SchemaMigrations`, `SecretStore`, `Vault`

`SchemaMigrations` is what the eleven migrations do to one server's row, its
tools, its pins and the text index. `SecretStore` is a start of the daemon and
the life of its secrets: adoption of the 1.x files, migrations, the choice of a
store, the moves into it, then set, get, delete.

State. `rows` is `server_secrets` (which store has the value, or the value in
plain text of an old database), `ring` the keychain, `file` and `old` the
encrypted files, `at` where the files are, `schema` the rest of the database.
SQLite, keychain and file are never written together, and a long value is several
keychain entries and a head that counts them: `job` is the next single write of the
running operation to one account, `left` the accounts it has still to get to.

Steps. A put is `PutPart` for each part, `PutHead`, and `DropChunk` for the parts a
longer value had, or one `PutFile`; a removal is `DropHead` and `DropChunk`, or
`DropFile`; `WriteRow` is the row. `AfterPut`, `AfterRow` and `AfterDrop` are the
order in which a set, a removal and a move string them together. `Crash` stops
the process between two of them, `Fails` is the keychain refusing one. A start is
`Boot`, the renames of an adoption one by one, `Migrate`, `OpenStore` (which may
reach the keychain or not and may be forced to a store), the plaintext values, the
moves; a loop over rows takes them in any order, as SQLite may give them.

The migrations are one operator each, with the test for the stored version
(`Pending`) and the guard of the code in it; `RunMigrations` is their order.

Refinement. `Vault` states the promise without stores: a value changes only
while someone sets or removes it, and then to what was asked.
`TheVault == INSTANCE Vault WITH None <- Absent, value <- ..., read <- ...` maps `value` to
what is in the store the row names (`Recorded`), to nothing while a write is under way,
and `read` to what `get()` returns: that of the store the process writes to, whatever the row says
(`Answer`, `secrets.ts:135` and `:162`). `KeepsTheVault` is checked as a property of the run:
the value changes by requests only, and what is read is the value or, while its store is
out of reach, nothing. `set` compares with what is read and writes nothing when
that is equal (`SetSame`, `secrets.ts:116`); the vault then expects the value asked for.

Two things are let off. An account whose put or move was cut short (`torn`) may have a copy
left in the store its row does not name, and a process that writes to that store reads
it; reads of such accounts count only where the row names the active store
(`ReadsTheSecret` in section 15 is about the others). And an account whose write was
cut short promises nothing until it is written again. Neither do the accounts of
an encrypted file that an interrupted adoption left behind (`Abandoned`, in the
`Crash` that interrupts it and nowhere else): the code does not recover either.

| run | question | result |
| --- | --- | --- |
| `secrets` | is `Vault` implemented, is one store in use, does an upgrade keep servers | holds |

Bounds. One server with two secrets (one of which must stay while the other is
written), values of one entry, of two and of three parts (a longer value over a shorter one
and back), three starts (one that fails, one with the other store, one more),
two writes, four databases to start from: none, a 1.x one with a local and one
with a remote server, and a 2.0 one with a pin the tools have drifted from. The two
secrets are interchangeable: nothing in the model or in its three properties tells
them apart, so the run takes them up to symmetry.

## 13. `OAuthSignIn`

Sign-ins to upstream servers and the calls that wait for them.

State. A sign-in is a number that stands for its state, verifier and URL.
`verifier` and `tokens` are stored under the name, `rows` belong to the
installation, `life` says whether the tokens are fresh or expired; `states`, `pending` are
the maps of `OAuthManager`; `refresh` a refresh of tokens on its way, for a call or for the pane;
`tab` is the user's browser, `exchange` a callback between its awaits, `caller` a call that
was given a URL (and which), refreshes tokens or waits. `settled` is history: a callback has
signed the server in, and no URL of it was handed out since.

Steps. The SDK's `auth()` runs when a request got 401 (`Call`), and when the pane asks for it
(`PaneBegins`, `rest.ts:286`), signed in or not. It either redirects or refreshes. `Redirect`
begins a sign-in: a state, a verifier that replaces the one stored, a URL that replaces the
one handed out. A refresh ends in new tokens (`Refreshed`), in a sign-in with the old tokens
kept or dropped (`SignsInAnew`), in an error (`RefreshFails`), or without an
installation to store anything for (`RefreshOrphaned`). The user decides in a tab at any later
time. A callback checks its state (`Callback`), reads the verifier (`ReadVerifier`), exchanges
the code (`Granted`, `Invalid`, `InvalidClient`, `ExchangeFails`) and completes, each
apart. An invalid grant drops the tokens, an unknown client drops everything
(`oauth.ts:133-142`). A retry of the call waits if a URL is pending (`Retry`).

The SDK is not part of the repository. What `auth()` does is taken from the callbacks it is
given in `oauth.ts`: that it redirects without tokens it can refresh, even when they are valid;
that it reads the tokens and begins to redirect in one step, and has one refresh on its way for
each asker.

| run | question | result |
| --- | --- | --- |
| `signin` | does nobody wait for a server that a callback has signed in, is a woken caller authorized, does a late tab harm | holds |

Bounds. Two servers share nothing but the maps, and are taken up to symmetry; two installations
in all give the reinstallation; three sign-ins are two tabs of one server and one more. One
caller and the pane; several callers are covered by the proofs. One fault.

What the properties leave out, because the code does it. `NobodyWaitsSettled` and
`LateTabsDoNoHarm` speak of the time from a completed callback to the next URL. A sign-in begun
while a server is authorized (the pane's button, or a call with expired tokens) hands out another URL
and stores another verifier: a call that is retried may then wait for that URL, with valid tokens
stored (`server.ts:259`), and an older tab may try its code with that verifier, which costs
the tokens. A refresh that succeeds ends nothing either: a URL handed out before it stays
pending. A callback that read its verifier before another one completed can drop the
tokens of that other one.

A refused sign-in wakes nobody: the caller goes on when its own wait times out
(`WaitTimesOut`, `oauth.ts:205`), which the model has and no property objects to.

## 14. What is proved

Each proof module holds for every value of the constants under the named
`ASSUME`s of its module, which the runs evaluate. The proofs follow the actions
of `Next`: one case per action, and lemmas for those that touch none of an
invariant's variables.

`ServerLifecycle_proofs` (`AbsentAssumption`, "absent" is no hash, and
`MaxIdAssumption`):

* `TypeCorrect`: the type invariant.
* `QuarantineCorrect`: `QuarantineIsDrift`. It is not inductive: between the
  commits of a run the flag lags behind the tools. `QuarantineInv` says where a
  run may be while the two differ (`Judging`), that nobody is removing tools then, that
  a verdict finds the pins of the run, and that nothing but a fault between the commits leaves
  a difference behind (`unjudged`).
* `CallsApproved`: `CallableIsApproved`, from the above and the fact that an
  indexed server is pinned once its run is over, unless it was cut short.
* `ConsentMovesPins`: the action property `PinsMoveByConsent`, from typing: the
  only step besides an approval that writes pins is the first index.
* `SavedCorrect`: `SavedIsListed`. `SavedInv` says that a job that has read the
  rows of the installation it captured finds them unchanged as long as that
  installation exists: no other writer runs for it (one job per name), and an
  uninstall that empties them drops the row in the same run. `IdsInv` (ids are
  used once) makes "the same installation" an equality of ids.
* `AnnouncedCorrect`: `ExposureAnnounced`. `AnnouncedInv` adds that a host is
  behind only while a run that saw the shape change has still to finish or after such a
  run was cut short (`untold`), and that a name without a row has no tools.
* `ToldCorrect`: the action property `ToldIsApproved`. Whatever
  a host is told is in the index and approved with this definition at that
  moment, unless a run was cut short before its verdict. `ExposedInv` says that
  outside the commits of a run, and while no verdict is owed (`unjudged`), what is not held
  back is approved as it is; `SavedInv`, that no handler announces between them.

`Outward_proofs` proves all of the pool's safety properties, for every set of
clients and callers, of which only the callers must be finite (the
cardinality of their calls is counted), and every `MaxInst` and `MaxVer`:

* `PoolTypeCorrect` and `InflightCorrect`: `TypeOK` and `InflightExact`, which
  are inductive only together and with `ClientsInv`. That one gives each client
  its role: the one of an open is alive and nobody's connection, the one in use
  is not closing, a sent call is on a client alive that is not being opened. The
  bounds of the count come from the calls counted, so that typing needs it.
* `NoStrayCorrect`: `NoStrayClient`, from the roles.
* `ConfigCorrect`: `SameInstallationConfig`. `ConfigInv` adds that an open nobody
  overtook has the current configuration or one of an earlier installation.
* `NeverWedgedCorrect`: `NeverWedged`. `VerdictInv` adds that an open without a
  prior verdict, or one that retries, knows that none is stored.
* `RoutedCorrect`: `RoutedWhenCurrent`, from `InflightExact`: one call in flight
  and one elicitor are the same call.
* `CallsKeepTheirConnection`: the action property `CallKeepsConnection`.

and those of `RegistryMirror`, for any number of names, versions and faults, under
`RegistryFits`:

* `CursorCorrect`: `CursorCovers`. `MirrorInv` says of a name that has not raced: its
  row is what the registry has (`Current`), or the entry is newer than the stored
  cursor, or the sync that runs has yet to ask for it, after the key its next page
  starts from. The page on its way has what a request now would be told of
  such names. The newest stamp seen is no argument for a name by itself (the list is
  in the order of names, not of times), which is why the cursor may move only
  with the last page. That there is a last page before `MaxPages` is a count: every page
  but the last takes `PageLimit` of the keys up to its own end. What is the
  least or greatest of a set of keys or times comes from `WFMin`.
* `SearchesCorrect`: `SearchesAgree`, since once a sync has ended a name that has not
  raced is `Current` or newer than the cursor.

`UserFacing_proofs` proves all safety properties of `ParkedCalls` for every
number of rounds, calls and questions and all positive timeouts:

* `ParkedTypeCorrect`: `TypeOK`, with `OfInv` (a waiting question has a call).
* `PlaceCorrect`: `CallInOnePlace`. It is inductive with `WaitInv`: a round waits
  only on a call in flight with an empty queue, so that a call that is over can
  be used again and a retry finds nobody else waiting.
* `QueueCorrect`: `NoMissedQuestion`. `QueueInv` says that the queue of a call
  enumerates its queued questions (`Enumerates`, whose lemmas give what append,
  head and tail do to an enumeration) and is empty once the call is over.
* `AnsweredOnceCorrect`: the action property `AnsweredOnce` of the proof module: an
  upstream keeps the first answer. A retry also parks the head of the queue;
  `QueueInv` shows that this is no answered question.
* `ConversationCorrect`: `KeepsConversation`, the refinement of `Conversations`. Every
  step maps to a step or a stutter under the four invariants above: that a retry
  finds nobody else waiting and no other question shown is `CallInOnePlace`, and
  that the question it brings next was not seen before is `QueueInv`.

and those of `DiscoverPane`, for any tasks, names, definitions and bounds, from
`ClockAssumption` (the poll is a task like the others, and there is a name) and
that the constants differ:

* `PaneTypeCorrect`: `PaneTypeOK`. It is inductive with `Staged`: a task stands
  only at stages whose answer has the shape they read.
* `ActsOnNamedCorrect`: `ActsOnServerNamed`. A press takes the id it acts on from a
  snapshot drawn long before. `PaneInv` says of every id in a snapshot, drawn or on
  its way in a task, that it was given out (`Owned`) and belongs to nobody but
  the name it stands beside (`Follows`), or to no one any more. An id given out later is new, so
  a name installed again is not the one that was drawn.
* `ApprovedShownCorrect`: the action property `ApprovedWasShown`. What a detail
  draws is in `reviewed`, and a task that approves carries the definitions of the
  detail it was started from.

`OAuthSignIn_proofs`, for any number of servers, callers and installations:

* `NobodyWaits`, `LateTabsHarmless` rest on `SignInInv`: a settled server has no verifier, no
  pending URL and no waiter, and no exchange read a verifier of a settled server. The callback
  that completes deletes the three in one run, and only `Redirect` brings
  one of them back, which ends the settled time: that is why it is inductive whatever
  becomes of the tokens.
* `WokenAuthorized`: the action property `WokenIsAuthorized`. `Refreshers` adds that a call that
  refreshes tokens does nothing else, so that no end of a refresh is taken for a wake.

`Records_proofs`, for every `MaxRows`, `PruneEvery` and `PageSize`:

* `TypeCorrect`, and `RetentionCorrect`: `KeepsNewest`. `RetentionInv` says that
  what is kept is an interval of ids, longer than it should be by at most `Slack`
  (the appends earlier processes can have forgotten) plus the present count.
* `LoadsCorrect`: `PagesInv`, and from it `PagesCorrect`: `PagesAdjoin`, and
  `OlderCorrect`: `OlderIsOffered`. The properties speak of the page shown; the
  invariant also of every load, in whichever order they end. Of a query it says
  that each page above is a `Segment` (one page of rows between where it ends and
  where it began, unless nothing is left below) and how many rows are above
  (`Depth`); of an answer, that it has all the rows of its interval and that its
  total counted what is above and below. All of it survives when the log `Ages`:
  rows are added at the end and deleted at the beginning. That a page has a last
  row is the least-element principle (`WFMin` over `<` on the naturals).

`Startup_proofs`, of `DaemonStart`, for any number of shims, processes, releases and
faults:

* `LockCorrect`: `LockHasOwner`. `LockInv` adds that only a shim that spawns or
  waits owns a lock. It does not say that the owner owns the lock that is there:
  a slow shim may unlink another's fresh lock, and the theorem holds all the same.
* `DaemonTypeCorrect`: `TypeOK`, which includes that one daemon at most has the
  port. A daemon gets it only from nobody (`Listen`); all other steps of a process
  keep it or give it up.

and of `SecretStore` and `SchemaMigrations`, for any accounts, values, chunks, starts
and writes, from `ValuesDiffer`, `ChunkCounts` and `LeftBehind` (what an earlier
version left is what its versions can leave, `Dated`):

* `SecretTypeCorrect`: `SecretTypeOK`, and `ServesCorrect`: `ServesFromOneStore`. Both
  are parts of `SecretInv`. `JobInv` says how far the write in hand has got: the
  parts before `job.i` are the value's, a head that is about to be written has all
  its parts (`HasParts`), parts are dropped only beyond those of a whole value
  (`Holds`), a row is written only once the store it will name reads the value
  (`Filed`). `PlainInv`, `MoveInv` and `UpInv` say what the accounts of a phase that are
  done, in hand and `left` have; `FilesInv` that a start that got beyond the adoption
  relies on no value of the file it has not got. The lemma `HoldsReads` is what makes
  it come together: a whole entry reads as its value.
* `UpgradeKeeps`: the action property `UpgradeKeepsServers`, for every record of
  `Database` that some version can have left. Each migration has a lemma of what it
  leaves alone; `Migrated` sums up the eleven.
* `StoreIsVault`: `KeepsTheVault`, the refinement of `Vault`. Every write of a put or a
  drop leaves what the vault sees (`Undisturbed`): it touches one account in one store,
  and under `SecretInv` that account is either being set (and promises nothing) or has its
  row at another place. `WriteRow` is the step that finishes a write (`RowMaps`),
  or, in a move, changes where the same value is; a request and the crash that
  cuts an adoption short begin one (`BeginMaps`). That nobody reads anything but the value is
  `ReadInv`: a secret the row has in the keychain or in plain text has no copy in the file
  unless its put is in hand or was cut short (`CopyInv`), nor in a file still to be
  adopted (`OldInv`); a removal empties the file before the row goes (`EmptiedInv`); and a secret
  nobody writes has a value where its row says (`HomeInv`). Copies in the keychain need no such
  invariant: a process that serves from it has moved every value out of the file (`ServedInv`).

`ToolSearch_proofs`:

* `IndexCorrect`: `IndexedAsDefined`, for all servers, tools and definitions.
* `SnapshotCorrect`: `SnapshotIsCurrent`. `SnapshotInv` says that the generation
  never goes back and that a snapshot of the present one is what would be
  loaded; every step either moves the generation or leaves alone what is loaded.
  That an install leaves it alone needs `IdsGiven`: a server's id is given out
  once, so no tool left in the index belongs to the new one.
* `SearchCorrect`: `SearchFills`. `FiniteInv` says that there are finitely many rows,
  `FoundInv` that a search counted those that were held back when it began and has all
  documents that matched, or a pool of them. `OverfetchFills` is the argument of
  `tool-index.ts:270`: of the first `limit + n` of a finite set at most `n` were held back,
  and the others that are hidden by now were lost since.

`InstallConsent_proofs`, for any clients, entries, shapes and moves of the world,
from `ShapeAssumption` (a package has a version, and an exact version is no open
one), `ManualAssumption` (a command given by hand names no package) and `UnsetIsNoReason`:

* `ConfirmedCorrect`: `InstalledAsConfirmed`, under `~AllowUnconfirmedInstall`: with
  that setting on, servers are installed unasked by intent. `PinnedCorrect`:
  `PinnedLoadsAsShown`. `TakedownCorrect`: `TakenDownStaysOut`. All three rest on
  `ConsentInv`. A question is `Truthful`: its view shows the command, token,
  arguments, URL and loader variables its digest stands for; if that is fixed
  to a release or a digest, it loads what it names, and if it is a tag, the warning is in the view. A reply
  that a request holds is one to such a question, a candidate of which the request was told
  that it had been taken down is deleted, and a row keeps the reply it was installed with. Since the retry's own plan must equal
  the digest, whatever the registries answered in between is either the same or
  asked about again.
* `ReviewCorrect`: the action property `ApprovedAsReviewed`, from `AskedInv`.

Attempted proofs changed four models. `PaneInit` let two servers have one id,
which no table does; `RegistryMirror` allowed a registry without versions and did not
say that the pages suffice; and `CursorCovers` asked that all versions of a name be
stamped up to the cursor where the latest one's stamp is enough. `SecretStore` queued
the writes of all accounts as one sequence built by a fold, which nothing could be
proved of, and gave the accounts of an old file up at any crash of an adoption, also
one that had moved nothing yet: the promise is now the stronger one.

Only model-checked: the liveness properties (`RequestsAnswered`,
`ConnectsSettle`, `RoundsAnswered`, `Recovers`, `PaneSettles`, `SyncEnds`),
which are out of the prover's reach, as is `ENABLED`. So is induction over data; no
safety property of a run needs it any more.
`RoutedWhenCurrent`, `AnsweredOnce`, `ToldIsApproved` and the type invariants
are proved where a proof module is, and are checked by no run of their own; TLC
found no counterexample to them before they were proved.

## 15. Where the code departs from what it says

The run `search_orphans` shows one (`OneDocumentEach`): a server uninstalled while the save of
its tools waits for vectors gets documents in `server_tools_fts` that no tool
belongs to, though `tool-doc.ts:15` has one per tool. Nothing removes them, and
in a search they take places of tools. It is the `findings` entry of `PROJECT.json`.

Seven more statements of the repository are written down in the modules, each beside the property
that says what holds instead. They have no run; TLC refutes each one when its name is added
to the `.cfg` of its module's run.

* `ChangeIsQuarantined` (`docs/SECURITY.md:7`: any later change quarantines the server). The save
  of the tools and the quarantine are separate commits (`lifecycle.ts:212-215`). When the process
  dies or a write throws between them, the changed tools are exposed and callable, and nothing
  judges them until the next index.
* `StopsOnlyOlder` (`rest.ts:148`: a newer shim replaces the daemon). A shim that found an
  older daemon asks whoever answers on the port by then to stop, also the daemon of its own
  release that another shim has started (`shim.ts:88-95`).
* `PinnedIsPinned` (`install-plan.ts:455`: only a digest pins an image). A plan calls an image
  with a tag pinned (`install-plan.ts:345`), though it warns as well.
* `LimitStillFills` (`tool-index.ts:270`: the limit still fills). Quarantined tools can fill the 200
  documents the words bring (`ranker.ts:215`).
* `ReadsTheSecret` (`secrets.ts:129`: one secret's value). A put or move that was cut short leaves
  a copy in the other store; a start with that store reads it (`secrets.ts:135`), and drops
  a `set` equal to it (`secrets.ts:116`).
* `FinishedIsResumed` (`docs/USER-MANUAL.md:193`: finish in the browser and the call resumes). A
  second sign-in of the server replaces the verifier of the link the call was given; the user who
  finishes that link gets an invalid grant, and the call waits on.
* `BeginReturnsTheUrl` (`oauth.ts:159`: `begin()` returns the URL to open). With expired tokens that
  cannot be refreshed a URL is handed out, but `status()` looks at the tokens first and says
  "authorized" (`oauth.ts:154`).

Others are behaviours of the models, found with TLC while these were written.
They have no run of their own; where a hazard of `PROJECT.json` is about one, its
note says so.

* A `list_changed` that comes after the listing of the running job is absorbed
  by it (`lifecycle.ts:201`), against `lifecycle.ts:12`.
* A connection opened while an uninstall awaits the close of the old one
  outlives the row (`pool.ts:273`).
* A backoff outlives its configuration: a corrected secret takes effect up to a
  minute later (`pool.ts:246`), against `lifecycle.ts:266`.
* A question pushed by a call that was given up reaches the next caller
  (`pool.ts:413`), against `docs/API.md:83`.
* An upstream call times out under a question whose own time is not up
  (`pool.ts:470`), against `server.ts:52`.
* The context of a closing daemon is still open when the next one opens the same
  database (`daemon.ts:99`), against the single owner of `README.md:85`.
* Shims of two releases can time out again and again: the newer one retires the
  daemon the older one has just found or started (`shim.ts:123`). It ends when
  one of the hosts stops trying. `Recovers` is therefore checked for one release.
* Values typed for one plan of the pane go with the next one when they were
  entered while it was loading (`register.tsx:645`).
* `deleteAll` reaches only the store in use; a value a move could not take along
  stays in the other (`secrets.ts:148`), though no row names it any more.
* While the registry is unreachable, a copy in the mirror of a version taken down since is
  planned and installed as active (`marketplace.ts:224`).
* A sync that reaches `MAX_PAGES` (200 000 entries, `registry.ts:24`) stores the cursor like
  one that reached the end, past entries it never asked for; no later sync
  brings them until they change. The model excludes it with `RegistryFits`.

Two smaller ones shape a property. The index job is shared by name, not by
installation, so that a reinstallation can be enabled without an index
(`CallableIsApproved` therefore speaks of indexed servers). `uninstall` decides
about its notification by what it read before its await, so that a server
enabled meanwhile goes unannounced (`ExposureAnnounced` therefore speaks of
exposures, not removals).

## 16. Not modelled

* Description hygiene, the request guard and its token, masking and parsing:
  functions of one text, with no state between steps.
* Telemetry, logs, metrics, benchmarks: nothing decides by them.
* MCP sessions (`mcp/http.ts`): what happens to a request of a closing session
  is decided in the SDK; the sweep itself looks only at open responses.
* Setup file: a loop over install, setSecret and enable, whose steps are the
  clients of `ServerLifecycle`.
* Sampling, the embedding services and the SDK's transports: outside; where an
  answer may come, fail or be late, the model that waits for it has that.
* Of the pool, the pane's queue of pushed questions and `closeAll` at exit; of
  the shim, forwarding and the replay of `initialize`; of the pane, drawing, the
  notice line, the logs tab; of the marketplace, the ranking of results.
* Of the store, validation and the columns only shown.
