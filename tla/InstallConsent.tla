--------------------------- MODULE InstallConsent ---------------------------
(***************************************************************************)
(* Consent to what is installed and what is approved (mcp/tools.ts:        *)
(* install_server, enable_server, confirm; transport/rest.ts: the install  *)
(* of the pane; domain/marketplace.ts: resolve, plan).                     *)
(*                                                                         *)
(* A request is stateless: it plans the installation from the registries   *)
(* as they are, asks the user, and ends.  The retry that carries the       *)
(* answer plans again, and the answer holds only if the digest sealed in   *)
(* the question is that of the new plan.  Between the two the registry     *)
(* publishes, takes down, or is out of reach.                              *)
(*                                                                         *)
(* All entries are installed under one local name.  Sealing is in          *)
(* ParkedCalls, the server's tools and their pins in ServerLifecycle: here *)
(* a number stands for the tools listed and one for the tools pinned.      *)
(***************************************************************************)
EXTENDS InstallPlans, FiniteSets

CONSTANTS Client,       \* MCP clients, one request each at a time
          CanElicit,    \* those that can ask their user
          Entry,        \* names in the MCP Registry
          Shape,        \* what a version of an entry declares: [packages, remotes]
          Manual,       \* installations a client can describe by itself
          Loader,       \* LOADER_ENV
          AllowUnconfirmedInstall,
          MaxMoves,     \* bounds the moves of the world and of the pane
          None

ASSUME ElicitAssumption == CanElicit \subseteq Client
\* What is described by hand is a command line or a url, not a package.
ASSUME ManualAssumption == \A input \in Manual : input.token = Unset
ASSUME ShapeAssumption ==
  \A s \in Shape : /\ s.packages \in Seq(Range(s.packages))
                   /\ \A i \in DOMAIN s.packages :
                        /\ "version" \in DOMAIN s.packages[i]
                        /\ Exact(s.packages[i].version) => s.packages[i].version.no # 0

VARIABLES registry,     \* the versions of each entry, the last one the latest
          release,      \* the current release of every package, under every image tag
          reachable,    \* the registries answer
          mirror,       \* the local copy of each entry's latest version, with its number
          row,          \* the installed server
          tools, pins,  \* its tools as listed, and as approved
          call,         \* the request of each client
          asked,        \* the last question each client got, and the user's answer
          shown,        \* the plan on the pane
          moves         \* the moves of the world and of the pane so far

world == <<registry, release, reachable, moves>>
installed == <<row, tools, pins>>
vars == <<world, mirror, installed, call, asked, shown>>

-----------------------------------------------------------------------------
Versions == [server : Shape, status : {"active", "deprecated", "deleted"}]
Pc == {"idle", "resolve", "latest"}
Sources == {"registry", "npm", "pypi"}

\* A version of an entry as an installable candidate, and a package by its name.
Candidate(n, version) ==
  [name |-> n, source |-> "registry", status |-> version.status,
   packages |-> version.server.packages, remotes |-> version.server.remotes]

PackageServer(source, id) ==
  [name |-> id, source |-> source, status |-> "none", remotes |-> <<>>,
   packages |-> <<[type |-> source, id |-> id, stdio |-> TRUE,
                   version |-> [no |-> release, exact |-> TRUE], args |-> <<>>, env |-> {},
                   image |-> "none", otherBase |-> FALSE, owner |-> Unset]>>]

Latest(n) == Candidate(n, registry[n][Len(registry[n])])
Gone == UNION {{<<n, i>> : i \in {i \in DOMAIN registry[n] : registry[n][i].status = "deleted"}}
               : n \in Entry}

\* What a request [source, name, version] can resolve to: a candidate, the
\* registry version it is (0 for a package), and whether it is only the mirror's
\* copy, which answers for the latest version while the registry does not.
Resolved(req) ==
  IF req.source # "registry"
    THEN IF reachable
         THEN {[candidate |-> PackageServer(req.source, req.name), no |-> 0, copy |-> FALSE]} ELSE {}
  ELSE IF reachable
    THEN LET v == IF req.version = 0 THEN Len(registry[req.name]) ELSE req.version
         IN  IF v \in DOMAIN registry[req.name]
             THEN {[candidate |-> Candidate(req.name, registry[req.name][v]), no |-> v,
                    copy |-> FALSE]} ELSE {}
  ELSE IF req.version = 0 /\ mirror[req.name] # None
    THEN {[candidate |-> mirror[req.name].candidate, no |-> mirror[req.name].no, copy |-> TRUE]}
    ELSE {}

\* Whether a version had been taken down, by `gone`, and whether this answer
\* could say so: a copy made before the takedown does not.
TakenDown(found, gone) ==
  IF <<found.candidate.name, found.no>> \notin gone THEN "no"
  ELSE IF found.copy /\ found.candidate.status # "deleted" THEN "untold" ELSE "told"

\* fetchVersion: the latest version, however it was named, refreshes the mirror.
Copied(n) == [mirror EXCEPT ![n] = [candidate |-> Latest(n), no |-> Len(registry[n])]]
Refreshed(req) ==
  IF req.source = "registry" /\ reachable /\ req.version \in {0, Len(registry[req.name])}
  THEN Copied(req.name) ELSE mirror

Plan(candidate, found) == BuildInstallPlan(PinLatest(candidate, release, found), Unset, {})
Plans(candidate) ==
  UNION {LET plan == Plan(candidate, found)
         IN  {Checked(plan, check) : check \in CheckProvenance(plan, candidate)}
         : found \in {reachable, FALSE}}

Requests == [source : {"registry"}, name : Entry, version : {0, 1}]
              \cup [source : {"npm", "pypi"}, name : {"pkg"}, version : {0}]

Idle == [pc |-> "idle"]
Move == moves < MaxMoves /\ moves' = moves + 1

Init == /\ registry \in [Entry -> {<<[server |-> s, status |-> "active"]>> : s \in Shape}]
        /\ release = 1 /\ reachable = TRUE
        /\ mirror = [n \in Entry |-> None]
        /\ row = None /\ tools = 0 /\ pins = 0
        /\ call = [c \in Client |-> Idle]
        /\ asked = [c \in Client |-> None]
        /\ shown = None
        /\ moves = 0

TypeOK ==
  /\ registry \in [Entry -> Seq(Versions)] /\ \A n \in Entry : registry[n] # <<>>
  /\ release \in Nat \ {0} /\ reachable \in BOOLEAN /\ moves \in 0..MaxMoves
  /\ \A c \in Client : call[c].pc \in Pc
  /\ \A c \in Client : asked[c] # None =>
       asked[c].kind \in {"install", "approve"} /\ asked[c].answer \in {"none", "accept", "decline"}
  /\ tools \in Nat /\ pins \in 0..tools
  /\ row = None <=> tools = 0

-----------------------------------------------------------------------------
(* Confirmation. *)

\* A slip: an answer that is not tied to what was asked.
AnsweredAnything(reply, kind, digest) ==
  reply # None /\ reply.kind = kind /\ reply.answer # "none"

\* inputResponses of the retry count only with the state of this very question.
Answered(reply, kind, digest) ==
  reply # None /\ reply.kind = kind /\ reply.digest = digest /\ reply.answer # "none"
Accepted(reply, kind, digest) == Answered(reply, kind, digest) /\ reply.answer = "accept"

\* The question, with what its text shows; `loads` is what a start would load
\* if the user said yes at once.
Question(kind, digest, view, loads) ==
  [kind |-> kind, digest |-> digest, view |-> view, loads |-> loads, answer |-> "none"]

Ask(c, reply, question) ==
  /\ ~Answered(reply, question.kind, question.digest)
  /\ IF c \in CanElicit THEN asked' = [asked EXCEPT ![c] = question] ELSE UNCHANGED asked

-----------------------------------------------------------------------------
(* install_server *)

\* A slip: pins are written, the listing is not.
InstallUnlisted(plan, by, reply, gone) ==
  /\ row' = [input |-> plan.input, pinned |-> plan.pinned, by |-> by, reply |-> reply,
             gone |-> gone]
  /\ pins' = 1 /\ tools' = tools

\* lifecycle.install of the plan's input; its tools are listed and pinned.
Install(plan, by, reply, gone) ==
  /\ row' = [input |-> plan.input, pinned |-> plan.pinned, by |-> by, reply |-> reply,
             gone |-> gone]
  /\ tools' = 1 /\ pins' = 1

\* Everything after the plan is made, in one run.
Decide(c, plan, reply, gone) ==
  /\ call' = [call EXCEPT ![c] = Idle]
  /\ \/ /\ row # None \/ plan.blocked # Unset
        /\ UNCHANGED <<installed, asked>>
     \/ /\ row = None /\ plan.blocked = Unset
        /\ \/ /\ AllowUnconfirmedInstall \/ Accepted(reply, "install", plan.input)
              /\ Install(plan, "client", reply, gone)
              /\ UNCHANGED asked
           \/ /\ ~AllowUnconfirmedInstall
              /\ Ask(c, reply, Question("install", plan.input, PlanView(plan, Loader),
                                        Loaded(plan.input, release)))
              /\ UNCHANGED installed
           \/ /\ ~AllowUnconfirmedInstall
              /\ Answered(reply, "install", plan.input) /\ ~Accepted(reply, "install", plan.input)
              /\ UNCHANGED <<installed, asked>>

\* A request by registry or package name, first or retried with the answer the
\* client holds; it waits for the registry.
StartInstall(c, req, reply) ==
  /\ call[c].pc = "idle"
  /\ call' = [call EXCEPT ![c] = [pc |-> "resolve", req |-> req, reply |-> reply, gone |-> Gone]]
  /\ UNCHANGED <<world, mirror, installed, asked, shown>>

InstallManual(c, input, reply) ==
  /\ call[c].pc = "idle"
  /\ Decide(c, ManualPlan(input), reply, "no")
  /\ UNCHANGED <<world, mirror, shown>>

Resolve(c) ==
  /\ call[c].pc = "resolve"
  /\ mirror' = Refreshed(call[c].req)
  /\ \/ /\ Resolved(call[c].req) = {}
        /\ call' = [call EXCEPT ![c] = Idle]
     \/ \E found \in Resolved(call[c].req) :
          call' = [call EXCEPT ![c] =
            [pc |-> "latest", candidate |-> found.candidate, reply |-> @.reply,
             gone |-> TakenDown(found, @.gone)]]
  /\ UNCHANGED <<world, installed, asked, shown>>

\* The release lookups and provenance checks have answered.
Conclude(c) ==
  /\ call[c].pc = "latest"
  /\ \E plan \in Plans(call[c].candidate) : Decide(c, plan, call[c].reply, call[c].gone)
  /\ UNCHANGED <<world, mirror, shown>>

UserAnswers(c, answer) ==
  /\ asked[c] # None /\ asked[c].answer = "none"
  /\ asked' = [asked EXCEPT ![c].answer = answer]
  /\ UNCHANGED <<world, mirror, installed, call, shown>>

-----------------------------------------------------------------------------
(* enable_server of a quarantined server: the drift report is reviewed. *)

EnableServer(c, reply) ==
  /\ call[c].pc = "idle"
  /\ row # None /\ pins # tools
  /\ \/ /\ Accepted(reply, "approve", tools)
        /\ pins' = tools
        /\ UNCHANGED asked
     \/ /\ Ask(c, reply, Question("approve", tools, tools, <<>>))
        /\ UNCHANGED pins
  /\ UNCHANGED <<world, mirror, row, tools, call, shown>>

-----------------------------------------------------------------------------
(* The pane: GET /api/install/plan, then POST /api/install plans again. *)

PaneShowPlan(req) ==
  /\ Move
  /\ \E found \in Resolved(req) : \E plan \in Plans(found.candidate) :
       shown' = [req |-> req, plan |-> plan]
  /\ mirror' = Refreshed(req)
  /\ UNCHANGED <<registry, release, reachable, installed, call, asked>>

PaneInstall ==
  /\ shown # None /\ shown.plan.blocked = Unset
  /\ \E found \in Resolved(shown.req) : \E plan \in Plans(found.candidate) :
       /\ plan.blocked = Unset /\ row = None
       /\ Install(plan, "pane",
                  [Question("install", shown.plan.input, <<>>, <<>>) EXCEPT !.answer = "accept"],
                  TakenDown(found, Gone))
  /\ mirror' = Refreshed(shown.req)
  /\ shown' = None
  /\ UNCHANGED <<world, call, asked>>

-----------------------------------------------------------------------------
(* The world. *)

Uninstall ==
  /\ Move
  /\ row # None /\ row' = None /\ tools' = 0 /\ pins' = 0
  /\ UNCHANGED <<registry, release, reachable, mirror, call, asked, shown>>

Drift ==
  /\ Move
  /\ row # None /\ tools' = tools + 1
  /\ UNCHANGED <<registry, release, reachable, mirror, row, pins, call, asked, shown>>

Publish(n, shape) ==
  /\ Move
  /\ registry' = [registry EXCEPT ![n] = Append(@, [server |-> shape, status |-> "active"])]
  /\ UNCHANGED <<release, reachable, mirror, installed, call, asked, shown>>

TakeDown(n, i, status) ==
  /\ Move
  /\ registry[n][i].status = "active"
  /\ registry' = [registry EXCEPT ![n][i].status = status]
  /\ UNCHANGED <<release, reachable, mirror, installed, call, asked, shown>>

Release ==
  /\ Move
  /\ release' = release + 1
  /\ UNCHANGED <<registry, reachable, mirror, installed, call, asked, shown>>

\* The mirror's own sync reaches an entry.
Sync(n) ==
  /\ reachable
  /\ mirror' = Copied(n)
  /\ UNCHANGED <<world, installed, call, asked, shown>>

Network ==
  /\ Move
  /\ reachable' = ~reachable
  /\ UNCHANGED <<registry, release, mirror, installed, call, asked, shown>>

Next ==
  \/ \E c \in Client : \E reply \in {None, asked[c]} :
       \/ \E req \in Requests : StartInstall(c, req, reply)
       \/ \E input \in Manual : InstallManual(c, input, reply)
       \/ EnableServer(c, reply)
  \/ \E c \in Client : Resolve(c) \/ Conclude(c) \/ \E a \in {"accept", "decline"} : UserAnswers(c, a)
  \/ \E req \in Requests : PaneShowPlan(req)
  \/ PaneInstall \/ Uninstall \/ Drift \/ Release \/ Network
  \/ \E n \in Entry : \/ Sync(n)
                      \/ \E s \in Shape : Publish(n, s)
                      \/ \E i \in DOMAIN registry[n], st \in {"deprecated", "deleted"} : TakeDown(n, i, st)

Spec == Init /\ [][Next]_vars

-----------------------------------------------------------------------------
\* What an MCP client's request installed is what its user was shown and said
\* yes to: the process or endpoint, and the env vars that decide what it loads,
\* whatever the registries answered between the question and the retry
\* (tools.ts confirm and the digest of install_server).
InstalledAsConfirmed ==
  row # None /\ row.by = "client" =>
    /\ row.reply # None /\ row.reply.kind = "install" /\ row.reply.answer = "accept"
    /\ LET view == row.reply.view
       IN  /\ <<view.transport, view.command, view.token, view.args, view.url>> =
                <<row.input.transport, row.input.command, row.input.token, row.input.args,
                  row.input.url>>
           /\ \A k \in DOMAIN row.input.env \cap Loader :
                row.input.env[k] # Blank => k \in DOMAIN view.loader_env
                                             /\ view.loader_env[k] = row.input.env[k]

\* An installation shown as pinned, without the warning that its image's tag can
\* move, keeps loading what was current when its user read the question, however
\* many releases follow (marketplace.ts plan: an entry without a version is pinned
\* to the current one; install-plan.ts ociReference and its warning).
PinnedLoadsAsShown ==
  row # None /\ row.by = "client" /\ row.pinned
    /\ "tags are mutable" \notin row.reply.view.warnings
      => Loaded(row.input, release) = row.reply.loads

\* install-plan.ts:455 has it that only a digest pins an image: what a plan calls
\* pinned then always loads what was shown (the line the pane marks as such).
PinnedIsPinned ==
  row # None /\ row.by = "client" /\ row.pinned => Loaded(row.input, release) = row.reply.loads

\* A version taken down before a request began is not installed by it, even on a
\* yes given before the takedown, by a client or from the pane (install-plan.ts:
\* deleted entries are blocked).  Not so for a copy made before the takedown, which
\* is all there is to go by while the registry is out of reach.
TakenDownStaysOut == row # None => row.gone # "told"

\* A quarantine is lifted for the very tools the user reviewed, not for those
\* listed by the time the yes arrives (tools.ts enable_server).
ApprovedAsReviewed ==
  [][row # None /\ row' = row /\ pins' # pins =>
       \E c \in Client : /\ asked[c] # None /\ asked[c].kind = "approve"
                         /\ asked[c].answer = "accept" /\ asked[c].view = pins'
                         /\ pins' = tools]_vars
=============================================================================
