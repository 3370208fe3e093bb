--------------------------- MODULE ServerLifecycle ---------------------------
(***************************************************************************)
(* One server name through its life: install, index, pin, enable, drift,   *)
(* quarantine, approval, uninstall and installation again under the same   *)
(* name (domain/lifecycle.ts with servers.ts, tool-index.ts, trust/).      *)
(*                                                                         *)
(* The daemon is one event loop over a synchronous database.  A handler    *)
(* runs without interruption up to an await on something outside the       *)
(* process: the upstream server or the embedding provider.  Such a run is  *)
(* one action, except that what follows a finished listing, and an         *)
(* uninstall past its await, are split at their database commits: a crash  *)
(* or a failing write can fall between two of them.  Busy keeps every      *)
(* other handler out meanwhile.                                            *)
(***************************************************************************)
EXTENDS Naturals

CONSTANTS Tool,      \* names of upstream tools
          Hash,      \* tool_hash values: the definitions a tool can have
          Absent,    \* "no such tool" in a catalog
          Client,    \* callers of the service: MCP handlers, REST routes, setup sync
          MaxId      \* bound: how many times the name is installed

ASSUME AbsentAssumption == Absent \notin Hash
ASSUME MaxIdAssumption == MaxId \in Nat \ {0}

VARIABLES srv,        \* what the database holds under the name
          lastId,     \* AUTOINCREMENT of servers.id
          indexing,   \* the one index job the `indexing` map holds, or NoJob
          request,    \* the suspended handler of each client, or NoRequest
          announced,  \* what a host that re-reads the list on every list_changed has
          reviewed,   \* the tool set (hashes) a user looked at last
          unjudged,   \* history: a fault cut a run that owed the row its verdict
          untold      \* history: a fault cut a run that owed the hosts a list_changed

vars == <<srv, lastId, indexing, request, announced, reviewed, unjudged, untold>>

-----------------------------------------------------------------------------
Catalog == [Tool -> Hash \cup {Absent}]
NoTools == [t \in Tool |-> Absent]

\* A row of `servers` with the rows of server_tools and server_pins that
\* reference it (both cascade on delete).  id 0: the name is not installed.
Server == [id : 0..MaxId, enabled : BOOLEAN, quarantined : BOOLEAN,
           indexed : BOOLEAN, tools : Catalog, pinned : BOOLEAN, pins : Catalog]
NoServer == [id |-> 0, enabled |-> FALSE, quarantined |-> FALSE, indexed |-> FALSE,
             tools |-> NoTools, pinned |-> FALSE, pins |-> NoTools]
Installed == srv.id # 0

\* A run of doIndex: the server row it captured, the listing it got and the
\* tool rows it read before waiting for embeddings.
Waits == {"probing", "listed", "embedding"}
Drain == {"saving", "saved", "marked", "pinned", "judged"}
Job == [pc : {"idle"} \cup Waits \cup Drain, id : 0..MaxId, got : Catalog, existing : Catalog]
NoJob == [pc |-> "idle", id |-> 0, got |-> NoTools, existing |-> NoTools]

\* A suspended handler with the row it captured before the await.
Request == [op : {"none", "install", "enable", "uninstall"},
            pc : {"idle", "waiting", "indexed", "failed", "closing", "dropping"},
            id : 0..MaxId, enabled : BOOLEAN, enable : BOOLEAN]
NoRequest == [op |-> "none", pc |-> "idle", id |-> 0, enabled |-> FALSE, enable |-> FALSE]

TypeOK == /\ srv \in Server
          /\ lastId \in 0..MaxId
          /\ indexing \in Job
          /\ request \in [Client -> Request]
          /\ announced \in Catalog
          /\ reviewed \in Catalog
          /\ unjudged \in BOOLEAN
          /\ untold \in BOOLEAN

Init == /\ srv = NoServer
        /\ lastId = 0
        /\ indexing = NoJob
        /\ request = [c \in Client |-> NoRequest]
        /\ announced = NoTools
        /\ reviewed = NoTools
        /\ unjudged = FALSE
        /\ untold = FALSE

-----------------------------------------------------------------------------
\* The event loop is inside a run that no other handler can interrupt: the
\* tail of an index job, the continuations of the handlers awaiting it, or an
\* uninstall past its await.
Busy == \/ indexing.pc \in Drain
        \/ \E c \in Client : request[c].pc \in {"indexed", "failed", "dropping"}

\* The run has written tools it has yet to judge.
Judging == indexing.pc \in {"saved", "marked", "pinned"}

\* What native tools/list (and search) shows of the server.
Exposed(s) == IF s.enabled /\ ~s.quarantined THEN s.tools ELSE NoTools

\* Slips no action makes, here and below: each breaks a property (see PROJECT.json).
CallableUnlisted(t) == Installed /\ ~srv.quarantined

\* callTool lets the call through.
Callable(t) == /\ Installed
               /\ ~srv.quarantined
               /\ srv.indexed => srv.tools[t] # Absent

\* PinStore.isDrifted: a tool added, removed or changed since the approval.
Drifted(s) == s.pinned /\ s.tools # s.pins

JudgedNotAdded == [srv EXCEPT !.quarantined =
                     srv.pinned /\ \E t \in Tool : srv.pins[t] \notin {Absent, srv.tools[t]}]

\* afterIndex's verdict, stored.
Judged == [srv EXCEPT !.quarantined = Drifted(srv)]

\* changed(fires): hosts re-read the list, after the run that fires it.
Changed(fires) == /\ announced' = IF fires THEN Exposed(srv') ELSE announced
                  /\ untold' = (untold /\ ~fires)

StartedJob == [NoJob EXCEPT !.pc = "probing", !.id = srv.id]

\* reindex(): single flight per NAME.  A caller joins the running job, if any.
JoinIndex == indexing' = IF indexing.pc = "idle" THEN StartedJob ELSE indexing

SettleSuccess(ok) ==
  /\ indexing' = NoJob
  /\ request' = [c \in Client |-> IF request[c].pc = "waiting" /\ ok
                                   THEN [request[c] EXCEPT !.pc = "indexed"] ELSE request[c]]

\* The job's promise settles: `indexing` forgets it, everyone awaiting it resumes.
Settle(ok) ==
  /\ indexing' = NoJob
  /\ request' = [c \in Client |->
                   IF request[c].pc = "waiting"
                     THEN [request[c] EXCEPT !.pc = IF ok THEN "indexed" ELSE "failed"]
                     ELSE request[c]]

Reply(c) == request' = [request EXCEPT ![c] = NoRequest]

-----------------------------------------------------------------------------
(* doIndex *)

\* REST re-index, sign-in callback, boot's indexPending: nobody's state depends on the result.
Reindex ==
  /\ ~Busy
  /\ Installed
  /\ indexing.pc = "idle"
  /\ JoinIndex
  /\ UNCHANGED <<srv, lastId, request, announced, reviewed, unjudged, untold>>

\* The pool's onToolsChanged: the upstream announced tools/list_changed.
ListChanged ==
  /\ ~Busy
  /\ Installed
  /\ JoinIndex
  /\ UNCHANGED <<srv, lastId, request, announced, reviewed, unjudged, untold>>

\* The connection or the listing fails (or times out).
ProbeFails ==
  /\ ~Busy
  /\ indexing.pc = "probing"
  /\ Settle(FALSE)
  /\ UNCHANGED <<srv, lastId, announced, reviewed, unjudged, untold>>

\* tools/list answers with any catalog; the probe may then close its connection.
ListTools ==
  /\ ~Busy
  /\ indexing.pc = "probing"
  /\ \E got \in Catalog : indexing' = [indexing EXCEPT !.pc = "listed", !.got = got]
  /\ UNCHANGED <<srv, lastId, request, announced, reviewed, unjudged, untold>>

\* save() reads the rows of the captured id, then waits only to embed dirty tools.
ReadExisting ==
  /\ ~Busy
  /\ indexing.pc = "listed"
  /\ \E pc \in {"saving"} \cup (IF indexing.got = NoTools THEN {} ELSE {"embedding"}) :
       indexing' = [indexing EXCEPT !.pc = pc,
                      !.existing = IF indexing.id = srv.id THEN srv.tools ELSE NoTools]
  /\ UNCHANGED <<srv, lastId, request, announced, reviewed, unjudged, untold>>

Embedded ==
  /\ ~Busy
  /\ indexing.pc = "embedding"
  /\ indexing' = [indexing EXCEPT !.pc = "saving"]
  /\ UNCHANGED <<srv, lastId, request, announced, reviewed, unjudged, untold>>

Inserts == {t \in Tool : indexing.existing[t] = Absent /\ indexing.got[t] # Absent}
ShapeChanged == indexing.got # indexing.existing

\* The write transaction: only tools that differ from the rows read are written.
SaveTools ==
  /\ indexing.pc = "saving"
  /\ indexing.id = srv.id \/ Inserts = {}
  /\ srv' = IF indexing.id = srv.id
              THEN [srv EXCEPT !.tools = [t \in Tool |->
                      IF indexing.got[t] = indexing.existing[t] THEN @[t] ELSE indexing.got[t]]]
              ELSE srv
  /\ indexing' = [indexing EXCEPT !.pc = "saved"]
  /\ UNCHANGED <<lastId, request, announced, reviewed, unjudged, untold>>

\* An INSERT for a server row that is gone: the foreign key rolls the transaction back.
SaveRefused ==
  /\ indexing.pc = "saving"
  /\ indexing.id # srv.id /\ Inserts # {}
  /\ Settle(FALSE)
  /\ UNCHANGED <<srv, lastId, announced, reviewed, unjudged, untold>>

MarkIndexed ==
  /\ indexing.pc = "saved"
  /\ srv' = IF indexing.id = srv.id THEN [srv EXCEPT !.indexed = TRUE] ELSE srv
  /\ indexing' = [indexing EXCEPT !.pc = "marked"]
  /\ UNCHANGED <<lastId, request, announced, reviewed, unjudged, untold>>

\* afterIndex(require(name)): whatever row has the name now is pinned if it never was.
PinFirst ==
  /\ indexing.pc = "marked"
  /\ Installed
  /\ srv' = IF srv.pinned THEN srv ELSE [srv EXCEPT !.pinned = TRUE, !.pins = srv.tools]
  /\ indexing' = [indexing EXCEPT !.pc = "pinned"]
  /\ UNCHANGED <<lastId, request, announced, reviewed, unjudged, untold>>

\* require(name) throws: the server was uninstalled while its index ran.
IndexedNothing ==
  /\ indexing.pc = "marked"
  /\ ~Installed
  /\ Settle(FALSE)
  /\ UNCHANGED <<srv, lastId, announced, reviewed, unjudged, untold>>

SetQuarantined ==
  /\ indexing.pc = "pinned"
  /\ srv' = Judged
  /\ Changed(srv.enabled /\ srv.quarantined # Judged.quarantined)
  /\ indexing' = [indexing EXCEPT !.pc = "judged"]
  /\ unjudged' = FALSE
  /\ UNCHANGED <<lastId, request, reviewed>>

FinishIndex ==
  /\ indexing.pc = "judged"
  /\ UNCHANGED srv
  /\ Changed(srv.enabled /\ ShapeChanged)
  /\ Settle(TRUE)
  /\ UNCHANGED <<lastId, reviewed, unjudged>>

\* A write of the tail throws: the transaction (which rolls back), markIndexed, pin or
\* the audit entry of a flagged tool, setQuarantined.  The job fails with what is
\* committed; nobody judges it or announces it, and what hosts have is not followed
\* until they are told again.
WriteFails ==
  /\ indexing.pc \in {"saving", "saved", "marked", "pinned"}
  /\ Settle(FALSE)
  /\ unjudged' = (unjudged \/ Judging)
  /\ untold' = (untold \/ Judging)
  /\ announced' = IF untold' THEN NoTools ELSE announced
  /\ UNCHANGED <<srv, lastId, reviewed>>

-----------------------------------------------------------------------------
(* install, enable, disable, approve, uninstall *)

ReusedId == 1
NextId == lastId + 1

\* create() refuses a name that exists; then the new row is indexed.
Install(c) ==
  /\ ~Busy
  /\ request[c].pc = "idle"
  /\ ~Installed
  /\ lastId < MaxId
  /\ lastId' = NextId
  /\ srv' = [NoServer EXCEPT !.id = NextId]
  /\ indexing' = IF indexing.pc = "idle" THEN [StartedJob EXCEPT !.id = NextId] ELSE indexing
  /\ \E enable \in BOOLEAN :
       request' = [request EXCEPT ![c] = [NoRequest EXCEPT !.op = "install", !.pc = "waiting",
                                                           !.enable = enable]]
  /\ unjudged' = FALSE
  /\ UNCHANGED <<announced, reviewed, untold>>

\* enable(), up to its await on the index or to its end.
EnableNow(c) ==
  /\ Installed /\ ~srv.quarantined /\ srv.indexed
  /\ srv' = [srv EXCEPT !.enabled = TRUE]
  /\ Changed(~srv.enabled)
  /\ Reply(c)
  /\ UNCHANGED indexing

EnableAfterIndex(c) ==
  /\ Installed /\ ~srv.quarantined /\ ~srv.indexed
  /\ JoinIndex
  /\ request' = [request EXCEPT ![c] = [NoRequest EXCEPT !.op = "enable", !.pc = "waiting",
                                          !.id = srv.id, !.enabled = srv.enabled]]
  /\ UNCHANGED <<srv, announced, untold>>

Enable(c) ==
  /\ ~Busy
  /\ request[c].pc = "idle"
  /\ EnableNow(c) \/ EnableAfterIndex(c)
  /\ UNCHANGED <<lastId, reviewed, unjudged>>

\* install() resumes: enable if asked to and the index succeeded.
InstallResumes(c) ==
  /\ request[c].op = "install" /\ request[c].pc = "indexed"
  /\ IF request[c].enable /\ Installed /\ ~srv.quarantined
       THEN EnableNow(c) \/ EnableAfterIndex(c)
       ELSE Reply(c) /\ UNCHANGED <<srv, indexing, announced, untold>>
  /\ UNCHANGED <<lastId, reviewed, unjudged>>

\* enable() resumes with the row it captured: it does not look again.
EnableResumes(c) ==
  /\ request[c].op = "enable" /\ request[c].pc = "indexed"
  /\ srv' = IF ~request[c].enabled /\ request[c].id = srv.id
              THEN [srv EXCEPT !.enabled = TRUE] ELSE srv
  /\ Changed(~request[c].enabled)
  /\ Reply(c)
  /\ UNCHANGED <<lastId, indexing, reviewed, unjudged>>

IndexErrorReported(c) ==
  /\ request[c].pc = "failed"
  /\ Reply(c)
  /\ UNCHANGED <<srv, lastId, indexing, announced, reviewed, unjudged, untold>>

Disable ==
  /\ ~Busy
  /\ srv.enabled
  /\ srv' = [srv EXCEPT !.enabled = FALSE]
  /\ Changed(TRUE)
  /\ UNCHANGED <<lastId, indexing, request, reviewed, unjudged>>

ToolsPresent == [t \in {t \in Tool : srv.tools[t] # Absent} |-> srv.tools[t]]
ToolHashes == srv.tools

\* The user opens the trust report (GET trust, or the enable_server prompt).
Review ==
  /\ ~Busy
  /\ Installed
  /\ reviewed' = ToolHashes
  /\ UNCHANGED <<srv, lastId, indexing, request, announced, unjudged, untold>>

ConsentAssumed == TRUE
Consent == reviewed = srv.tools

FiresOnceLifted == srv.enabled /\ ~srv.quarantined
FiresWhenLifting == srv.enabled /\ srv.quarantined

\* approve(): the reviewed hash set must be the current one.
Approve ==
  /\ ~Busy
  /\ Installed
  /\ Consent
  /\ srv' = [srv EXCEPT !.pinned = TRUE, !.pins = srv.tools, !.quarantined = FALSE]
  /\ Changed(FiresWhenLifting)
  /\ unjudged' = FALSE
  /\ UNCHANGED <<lastId, indexing, request, reviewed>>

\* The pins are moved in one commit, the quarantine lifted in the next: the second
\* one throws, or the process dies before it (then Crash follows).
ApproveCut ==
  /\ ~Busy
  /\ Installed
  /\ Consent
  /\ srv' = [srv EXCEPT !.pinned = TRUE, !.pins = srv.tools]
  /\ unjudged' = TRUE
  /\ UNCHANGED <<lastId, indexing, request, announced, reviewed, untold>>

\* uninstall() captures the row, then awaits pool.disconnect.
Uninstall(c) ==
  /\ ~Busy
  /\ request[c].pc = "idle"
  /\ Installed
  /\ request' = [request EXCEPT ![c] = [NoRequest EXCEPT !.op = "uninstall", !.pc = "closing",
                                          !.id = srv.id, !.enabled = srv.enabled]]
  /\ UNCHANGED <<srv, lastId, indexing, announced, reviewed, unjudged, untold>>

\* index.remove(captured id)
DropTools(c) ==
  /\ ~Busy
  /\ request[c].pc = "closing"
  /\ srv' = IF request[c].id = srv.id THEN [srv EXCEPT !.tools = NoTools] ELSE srv
  /\ request' = [request EXCEPT ![c].pc = "dropping"]
  /\ UNCHANGED <<lastId, indexing, announced, reviewed, unjudged, untold>>

\* servers.remove(name) takes whatever row has the name; it throws when there is none.
DropServer(c) ==
  /\ request[c].pc = "dropping"
  /\ srv' = NoServer
  /\ Changed(Installed /\ request[c].enabled)
  /\ Reply(c)
  /\ unjudged' = FALSE
  /\ UNCHANGED <<lastId, indexing, reviewed>>

\* The process dies at any moment, between two commits of a run as well, and starts
\* again: hosts reconnect and list afresh.  Nothing at boot looks at indexed servers.
Crash ==
  /\ indexing' = NoJob
  /\ request' = [c \in Client |-> NoRequest]
  /\ announced' = Exposed(srv)
  /\ unjudged' = (unjudged \/ Judging \/ \E c \in Client : request[c].pc = "dropping")
  /\ untold' = FALSE
  /\ UNCHANGED <<srv, lastId, reviewed>>

-----------------------------------------------------------------------------
IndexStep == \/ ProbeFails \/ ListTools \/ ReadExisting \/ Embedded \/ SaveTools \/ SaveRefused
             \/ MarkIndexed \/ PinFirst \/ IndexedNothing \/ SetQuarantined \/ FinishIndex

Resumes(c) == \/ InstallResumes(c) \/ EnableResumes(c) \/ IndexErrorReported(c)
              \/ DropTools(c) \/ DropServer(c)

Next == \/ Reindex \/ ListChanged \/ IndexStep
        \/ Disable \/ Review \/ Approve
        \/ WriteFails \/ ApproveCut \/ Crash
        \/ \E c \in Client : Install(c) \/ Enable(c) \/ Uninstall(c) \/ Resumes(c)

Spec == Init /\ [][Next]_vars

\* Every await ends (the SDK bounds connect, list and close; the embedding
\* request has its own timeout) and the event loop starves no ready callback.
Fairness == SF_vars(IndexStep) /\ \A c \in Client : SF_vars(Resumes(c))
FairSpec == Spec /\ Fairness

-----------------------------------------------------------------------------
(* Properties.  Outside Busy: in every state another handler can look at. *)
(* What a fault cut short counts until the next verdict (unjudged), or the *)
(* next list_changed (untold), makes up for it.                            *)

\* A server is quarantined exactly while its tools differ from the approved
\* ones: every drift a re-index finds quarantines it, nothing else does, and a
\* revert or an approval lifts it (doIndex, setQuarantined, approve).
QuarantineIsDrift == ~Busy /\ ~unjudged => (srv.quarantined <=> Drifted(srv))

\* What docs/SECURITY.md:7 promises without that exception: any change or addition
\* after the first index quarantines the server.  A run cut between its commits refutes it.
ChangeIsQuarantined ==
  ~Busy /\ srv.indexed /\ srv.pinned /\ (\E t \in Tool : srv.tools[t] \notin {Absent, srv.pins[t]})
    => srv.quarantined

\* Once a server is indexed, callTool lets through only tools the user approved,
\* with the definition that was approved.
CallableIsApproved ==
  ~Busy /\ ~unjudged /\ srv.indexed =>
    \A t \in Tool : Callable(t) => srv.pinned /\ srv.pins[t] # Absent /\ srv.tools[t] = srv.pins[t]

\* The approved set of an installed server moves only to the set the user has
\* reviewed, and only while that is the current one: no index, reinstallation
\* or stale approval moves it (PinStore.pin's two callers).
PinsMoveByConsent ==
  [][srv'.id = srv.id /\ srv.pinned /\ srv'.pins # srv.pins
       => srv'.pins = reviewed /\ srv.tools = reviewed]_vars

\* The index holds exactly the listing it was saved from, although save()
\* writes only the difference to rows it read before an await.
SavedIsListed ==
  indexing.pc \in Drain \ {"saving"} /\ indexing.id = srv.id => srv.tools = indexing.got

\* A host that re-reads the list on every list_changed is never left with other
\* tools than those exposed (every call of changed()).
ExposureAnnounced ==
  ~Busy /\ ~untold /\ Exposed(srv) # NoTools => announced = Exposed(srv)

\* Whatever a host is told on a list_changed, or lists after a restart, is in the
\* index and approved with this very definition at that moment, although enable()
\* and uninstall() announce by what they read before their awaits (changed() in
\* lifecycle.ts and its callers).
ToldIsApproved ==
  [][\A t \in Tool : announced'[t] \notin {Absent, announced[t]} =>
        \/ unjudged'
        \/ /\ srv'.pinned /\ ~srv'.quarantined
           /\ announced'[t] = srv'.pins[t] /\ announced'[t] = srv'.tools[t]]_vars

\* Every install, enable and uninstall of c is answered, also one that joined an
\* index job it did not start.
Answered(c) == request[c].pc # "idle" ~> request[c].pc = "idle"

=============================================================================
