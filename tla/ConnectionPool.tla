--------------------------- MODULE ConnectionPool ---------------------------
(***************************************************************************)
(* The pooled connection to one upstream server (domain/pool.ts), with the *)
(* operations of domain/lifecycle.ts that change what it must connect to:  *)
(* install, update, setSecret, deleteSecret, uninstall.                    *)
(*                                                                         *)
(* One action per run of the event loop: a handler runs until it awaits a  *)
(* handshake, an answer or the end of a client it closes.  What resumes in *)
(* the run that ends an open (every connect() that joined it, the index    *)
(* job's listing) is part of that action.                                  *)
(***************************************************************************)
EXTENDS Naturals, FiniteSets

CONSTANTS Client,    \* identities of SDK clients (an upstream process or session each)
          None,      \* no client
          Caller,    \* callers of callTool
          Pane,      \* the queue the Claude Code pane answers
          MaxInst,   \* bound: installations of the name (the last one stays)
          MaxVer     \* bound: changes of its configuration or secrets

ASSUME NoneAssumption == None \notin Client
ASSUME PaneAssumption == Pane \notin Caller
ASSUME CallerAssumption == IsFiniteSet(Caller)
ASSUME BoundAssumption == MaxInst \in Nat /\ MaxVer \in Nat

VARIABLES installed,  \* the name has a row: resolveConfig does not throw
          config,     \* what resolveConfig returns (or last returned)
          uninstall,  \* the client whose close an uninstall awaits, or None
          verdict,    \* a protocol-era verdict that priorFor would use is stored
          conn,       \* conns: the connection in use, or NoConn
          open,       \* pending: the open in progress, or NoOpen
          failure,    \* failures: the backoff after a failed open
          alive,      \* clients whose transport is not closed yet
          closing,    \* clients this process is closing
          calls,      \* each caller's tools/call
          probe,      \* the index job's use of the pool
          orphans,    \* calls given up on this side that the upstream may still work on
          routed      \* what the last step routed, if it was an elicitation/create push

row == <<installed, config, uninstall>>
users == <<calls, probe, orphans>>
vars == <<row, verdict, conn, open, failure, alive, closing, users, routed>>

-----------------------------------------------------------------------------
\* A configuration is told apart by the installation and its changes since.
Config == [inst : 0..MaxInst, ver : 0..MaxVer]
NoConfig == [inst |-> 0, ver |-> 0]

Connection == [client : Client \cup {None}, config : Config,
               inflight : 0..Cardinality(Caller), elicitors : SUBSET Caller]
NoConn == [client |-> None, config |-> NoConfig, inflight |-> 0, elicitors |-> {}]
Connected == conn.client # None

\* stale: disconnect() has bumped the generation since this open read it.
Open == [pc : {"idle", "first", "retry", "hint", "closing"}, client : Client \cup {None},
         config : Config, prior : BOOLEAN, stale : BOOLEAN]
NoOpen == [pc |-> "idle", client |-> None, config |-> NoConfig, prior |-> FALSE, stale |-> FALSE]
Opening == open.pc # "idle"

\* A backoff with the configuration that failed: "due" once retryAt has passed.
Failure == [state : {"none", "waiting", "due"}, config : Config]
NoFailure == [state |-> "none", config |-> NoConfig]

Call == [pc : {"idle", "connecting", "sent"}, client : Client \cup {None}, elicits : BOOLEAN]
NoCall == [pc |-> "idle", client |-> None, elicits |-> FALSE]

Probe == [pc : {"idle", "connecting", "listing", "closing"}, client : Client \cup {None},
          shared : BOOLEAN]
NoProbe == [pc |-> "idle", client |-> None, shared |-> FALSE]

Route == [of : Caller \cup {Pane}, to : Caller \cup {Pane}, current : BOOLEAN]
NoRoute == [of |-> Pane, to |-> Pane, current |-> FALSE]

TypeOK == /\ installed \in BOOLEAN
          /\ config \in Config
          /\ uninstall \in Client \cup {None}
          /\ verdict \in BOOLEAN
          /\ conn \in Connection
          /\ open \in Open
          /\ failure \in Failure
          /\ alive \in SUBSET Client
          /\ closing \in SUBSET Client
          /\ calls \in [Caller -> Call]
          /\ probe \in Probe
          /\ orphans \in SUBSET (Client \X Caller)
          /\ routed \in Route

Init == /\ installed = FALSE
        /\ config = NoConfig
        /\ uninstall = None
        /\ verdict = FALSE
        /\ conn = NoConn
        /\ open = NoOpen
        /\ failure = NoFailure
        /\ alive = {}
        /\ closing = {}
        /\ calls = [c \in Caller |-> NoCall]
        /\ probe = NoProbe
        /\ orphans = {}
        /\ routed = NoRoute

-----------------------------------------------------------------------------
(* connect, open, disconnect *)

\* open() gets to its handshake: no backoff runs and the name resolves.
MayOpen == installed /\ failure.state # "waiting"
Attempt(k) == [pc |-> "first", client |-> k, config |-> config, prior |-> verdict, stale |-> FALSE]

\* connect() finds neither a connection nor a pending open.
StartOpen == /\ MayOpen
             /\ \E k \in Client \ alive : open' = Attempt(k) /\ alive' = alive \cup {k}

\* Slips no action makes, here and below: each breaks a property (see PROJECT.json).
DisconnectUnguarded == /\ open' = [open EXCEPT !.stale = Opening]
                       /\ conn' = NoConn
                       /\ closing' = closing \cup {conn.client}

DisconnectUncounted == /\ UNCHANGED open
                       /\ conn' = NoConn
                       /\ closing' = IF Connected THEN closing \cup {conn.client} ELSE closing

\* disconnect(), up to its await: an open in progress is outdated, the
\* connection is forgotten and its client closing.
Disconnect == /\ open' = [open EXCEPT !.stale = Opening]
              /\ conn' = NoConn
              /\ closing' = IF Connected THEN closing \cup {conn.client} ELSE closing

\* connect() without a connection: joins the open in progress, or starts one.
\* (When that is refused the caller fails at once and nothing changes.)
JoinOpen == /\ ~Connected
            /\ IF Opening THEN UNCHANGED <<open, alive>> ELSE StartOpen

Waiting == {c \in Caller : calls[c].pc = "connecting"}
OnClient(k) == {c \in Caller : calls[c].pc = "sent" /\ calls[c].client = k}

OpenFailsUnclosed == /\ open' = NoOpen
                     /\ UNCHANGED alive
                     /\ calls' = [c \in Caller |-> IF c \in Waiting THEN NoCall ELSE calls[c]]
                     /\ probe' = IF probe.pc = "connecting" THEN NoProbe ELSE probe

OpenFailsSilently == /\ open' = NoOpen
                     /\ alive' = alive \ {open.client}
                     /\ UNCHANGED <<calls, probe>>

\* The open rejects: everyone who joined it fails.
OpenFails == /\ open' = NoOpen
             /\ alive' = alive \ {open.client}
             /\ calls' = [c \in Caller |-> IF c \in Waiting THEN NoCall ELSE calls[c]]
             /\ probe' = IF probe.pc = "connecting" THEN NoProbe ELSE probe

\* recordFailure(): a sign-in that is needed is no failure; else the backoff
\* starts at once, and finding the command on PATH may delay the rejection.
RecordFailure ==
  \/ OpenFails /\ UNCHANGED failure
  \/ /\ failure' = [state |-> "waiting", config |-> open.config]
     /\ \/ OpenFails
        \/ open' = [open EXCEPT !.pc = "hint"] /\ UNCHANGED <<alive, calls, probe>>

\* This step is no push.
Unrouted == routed' = NoRoute

\* The verdict the failed handshake used is forgotten.
TrustAnyway == UNCHANGED verdict
DropVerdict == verdict' = (verdict /\ ~open.prior)

\* The first handshake fails: retry without the cached verdict, or as legacy
\* when the upstream closed during the in-place probe.
FirstFails ==
  /\ open.pc = "first"
  /\ \/ /\ open' = [open EXCEPT !.pc = "retry"]
        /\ DropVerdict
        /\ UNCHANGED <<failure, alive, calls, probe>>
     \/ ~open.prior /\ RecordFailure /\ UNCHANGED verdict
  /\ UNCHANGED <<row, conn, closing, orphans>>
  /\ Unrouted

RetryFails ==
  /\ open.pc = "retry"
  /\ RecordFailure
  /\ UNCHANGED <<row, verdict, conn, closing, orphans>>
  /\ Unrouted

HintFound ==
  /\ open.pc = "hint"
  /\ OpenFails
  /\ UNCHANGED <<row, verdict, conn, failure, closing, orphans>>
  /\ Unrouted

\* The handshake succeeds and the generation is the one the open read: the
\* verdict found is stored (a re-used legacy one is not dated again) and all
\* who joined go on: calls are sent, the index job lists.
Opened ==
  /\ open.pc \in {"first", "retry"}
  /\ ~open.stale
  /\ failure' = NoFailure
  /\ verdict' \in {installed} \cup (IF open.pc = "first" /\ open.prior THEN {verdict} ELSE {})
  /\ conn' = [client |-> open.client, config |-> open.config, inflight |-> Cardinality(Waiting),
              elicitors |-> {c \in Waiting : calls[c].elicits}]
  /\ open' = NoOpen
  /\ calls' = [c \in Caller |-> IF c \in Waiting
                                  THEN [calls[c] EXCEPT !.pc = "sent", !.client = open.client]
                                  ELSE calls[c]]
  /\ probe' = IF probe.pc = "connecting"
                THEN [probe EXCEPT !.pc = "listing", !.client = open.client] ELSE probe
  /\ UNCHANGED <<row, alive, closing, orphans>>
  /\ Unrouted

\* Reconfigured or removed while connecting: close the client first ...
OpenedStale ==
  /\ open.pc \in {"first", "retry"}
  /\ open.stale
  /\ failure' = NoFailure
  /\ open' = [open EXCEPT !.pc = "closing"]
  /\ closing' = closing \cup {open.client}
  /\ UNCHANGED <<row, verdict, conn, alive, users>>
  /\ Unrouted

\* ... then open again, with the current configuration if there is one.
Reopen ==
  /\ open.pc = "closing"
  /\ closing' = closing \ {open.client}
  /\ IF MayOpen THEN open' = Attempt(open.client) /\ UNCHANGED <<alive, calls, probe>>
                ELSE OpenFails
  /\ UNCHANGED <<row, verdict, conn, failure, orphans>>
  /\ Unrouted

BackoffEnds ==
  /\ failure.state = "waiting"
  /\ failure' = [failure EXCEPT !.state = "due"]
  /\ UNCHANGED <<row, verdict, conn, open, alive, closing, users>>
  /\ Unrouted

\* The time a legacy verdict is trusted for ends.
VerdictExpires ==
  /\ verdict
  /\ verdict' = FALSE
  /\ UNCHANGED <<row, conn, open, failure, alive, closing, users>>
  /\ Unrouted

-----------------------------------------------------------------------------
(* callTool, health, the index job's probe, the idle sweep *)

\* On the connection there is: inflight and the elicitor count at once.
CallNow(c, elicits) ==
  /\ Connected
  /\ calls' = [calls EXCEPT ![c] = [pc |-> "sent", client |-> conn.client, elicits |-> elicits]]
  /\ conn' = [conn EXCEPT !.inflight = @ + 1,
                          !.elicitors = IF elicits THEN @ \cup {c} ELSE @]
  /\ UNCHANGED <<open, alive>>
  /\ Unrouted

CallLater(c, elicits) ==
  /\ JoinOpen
  /\ calls' = [calls EXCEPT ![c] = [pc |-> "connecting", client |-> None, elicits |-> elicits]]
  /\ UNCHANGED conn

CallTool(c) ==
  /\ installed
  /\ calls[c].pc = "idle"
  /\ \E elicits \in BOOLEAN : CallNow(c, elicits) \/ CallLater(c, elicits)
  /\ UNCHANGED <<row, verdict, failure, closing, probe, orphans>>
  /\ Unrouted

LeaveAnyConn(c) ==
  conn' = IF Connected THEN [conn EXCEPT !.inflight = @ - 1, !.elicitors = @ \ {c}] ELSE conn

\* callTool's `finally`, on the connection object it was sent on.
LeaveConn(c) ==
  conn' = IF conn.client = calls[c].client
            THEN [conn EXCEPT !.inflight = @ - 1, !.elicitors = @ \ {c}] ELSE conn

\* An answer or an error; or the caller aborts, or the request times out, which
\* the upstream may not heed.
CallEnds(c) ==
  /\ calls[c].pc = "sent"
  /\ LeaveConn(c)
  /\ calls' = [calls EXCEPT ![c] = NoCall]
  /\ orphans' \in {orphans, orphans \cup {<<calls[c].client, c>>}}
  /\ UNCHANGED <<row, verdict, open, failure, alive, closing, probe>>
  /\ Unrouted

\* health() connects, and neither counts as in flight nor closes what it opened.
Health ==
  /\ installed
  /\ ~Connected /\ ~Opening
  /\ StartOpen
  /\ UNCHANGED <<row, verdict, conn, failure, closing, users>>
  /\ Unrouted

ProbeStart ==
  /\ probe.pc = "idle"
  /\ installed
  /\ \/ /\ Connected
        /\ probe' = [pc |-> "listing", client |-> conn.client, shared |-> TRUE]
        /\ UNCHANGED <<open, alive>>
     \/ /\ JoinOpen
        /\ probe' = [pc |-> "connecting", client |-> None, shared |-> Opening]
  /\ UNCHANGED <<row, verdict, conn, failure, closing, calls, orphans>>
  /\ Unrouted

OpenedHereInUse == ~probe.shared /\ conn.client = probe.client
OpenedHereUnused == ~probe.shared /\ conn.client = probe.client /\ conn.inflight = 0

\* The listing ends: close the connection if this probe opened it and no call uses it.
ProbeEnds ==
  /\ probe.pc = "listing"
  /\ IF OpenedHereUnused
       THEN Disconnect /\ probe' = [probe EXCEPT !.pc = "closing"]
       ELSE probe' = NoProbe /\ UNCHANGED <<conn, open, closing>>
  /\ UNCHANGED <<row, verdict, failure, alive, calls, orphans>>
  /\ Unrouted

SweepIdle ==
  /\ Connected
  /\ conn.inflight = 0
  /\ Disconnect
  /\ UNCHANGED <<row, verdict, failure, alive, users>>
  /\ Unrouted

-----------------------------------------------------------------------------
(* install, update, setSecret, deleteSecret, uninstall *)

Install ==
  /\ ~installed
  /\ config.inst < MaxInst
  /\ installed' = TRUE
  /\ config' = [inst |-> config.inst + 1, ver |-> 0]
  /\ UNCHANGED <<uninstall, verdict, conn, open, failure, alive, closing, users>>
  /\ Unrouted

\* Stored and disconnected in one run; update() and deleteSecret() disconnect
\* also when nothing changed.
Reconfigure ==
  /\ installed
  /\ \E ver \in {config.ver, config.ver + 1} : ver <= MaxVer /\ config' = [config EXCEPT !.ver = ver]
  /\ Disconnect
  /\ UNCHANGED <<installed, uninstall, verdict, failure, alive, users>>
  /\ Unrouted

\* disconnect() first; the row goes once the client it closed is gone.
Uninstall ==
  /\ installed
  /\ uninstall = None
  /\ config.inst < MaxInst
  /\ Disconnect
  /\ IF Connected THEN uninstall' = conn.client /\ UNCHANGED <<installed, verdict>>
                  ELSE installed' = FALSE /\ verdict' = FALSE /\ UNCHANGED uninstall
  /\ UNCHANGED <<config, failure, alive, users>>
  /\ Unrouted

-----------------------------------------------------------------------------
(* The upstream *)

\* The transport of k is closed: what was sent on it fails.
Gone(k) == /\ alive' = alive \ {k}
           /\ calls' = [c \in Caller |-> IF c \in OnClient(k) THEN NoCall ELSE calls[c]]
           /\ probe' = IF probe.client = k THEN NoProbe ELSE probe
           /\ orphans' = {o \in orphans : o[1] # k}

\* onclose forgets the connection, if it is still this client's.
UpstreamCloses(k) ==
  /\ k \in alive \ closing
  /\ k # open.client
  /\ Gone(k)
  /\ conn' = IF conn.client = k THEN NoConn ELSE conn
  /\ UNCHANGED <<row, verdict, open, failure, closing>>
  /\ Unrouted

\* client.close() returns; the uninstall that awaited it removes the row.
Closed(k) ==
  /\ k \in closing
  /\ k # open.client
  /\ Gone(k)
  /\ closing' = closing \ {k}
  /\ IF uninstall = k THEN installed' = FALSE /\ verdict' = FALSE /\ uninstall' = None
                      ELSE UNCHANGED <<installed, verdict, uninstall>>
  /\ UNCHANGED <<config, conn, open, failure>>
  /\ Unrouted

SoleElicitor == IF Connected /\ Cardinality(conn.elicitors) = 1
                  THEN CHOOSE e \in conn.elicitors : TRUE ELSE Pane

\* The caller with the only call in flight, if it can answer; else the pane.
Answerer == IF Connected /\ conn.inflight = 1 /\ Cardinality(conn.elicitors) = 1
              THEN CHOOSE e \in conn.elicitors : TRUE ELSE Pane

\* elicitation/create on client k for a call of c, which the push does not
\* name: the handler looks the connection up by server name.
Push(k, c) ==
  /\ k \in alive
  /\ c \in OnClient(k) \/ <<k, c>> \in orphans
  /\ routed' = [of |-> c,
                to |-> Answerer,
                current |-> c \in OnClient(k) /\ conn.client = k]
  /\ UNCHANGED <<row, verdict, conn, open, failure, alive, closing, users>>

-----------------------------------------------------------------------------
OpenStep == FirstFails \/ RetryFails \/ HintFound \/ Opened \/ OpenedStale \/ Reopen

Next == \/ OpenStep \/ BackoffEnds \/ VerdictExpires
        \/ Health \/ ProbeStart \/ ProbeEnds \/ SweepIdle
        \/ Install \/ Reconfigure \/ Uninstall
        \/ \E c \in Caller : CallTool(c) \/ CallEnds(c)
        \/ \E k \in Client : \/ UpstreamCloses(k) \/ Closed(k)
                             \/ \E c \in Caller : Push(k, c)

Spec == Init /\ [][Next]_vars

\* A handshake ends or times out (30 s), the PATH check too (5 s), and close()
\* returns: the SDK kills a process that does not exit.
Fairness == WF_vars(OpenStep) /\ \A k \in Client : WF_vars(Closed(k))
FairSpec == Spec /\ Fairness

-----------------------------------------------------------------------------
(* Properties *)

\* An open that a reconfiguration overtook is not kept: within an installation
\* the connection in use has the current configuration (open's generation check).
SameInstallationConfig ==
  Connected /\ conn.config.inst = config.inst => conn.config.ver = config.ver

\* No upstream process or session is leaked: one that is not being closed is the
\* connection in use or the one being opened.
NoStrayClient == alive \ closing \subseteq {conn.client, open.client}

\* inflight and elicitors are those of the calls sent on this very connection,
\* also after calls of an earlier connection end late (callTool's finally).
InflightExact ==
  Connected => /\ conn.inflight = Cardinality(OnClient(conn.client))
               /\ conn.elicitors = {c \in OnClient(conn.client) : calls[c].elicits}

\* A connection with a call in flight is dropped only by a reconfiguration, an
\* uninstall or the upstream: never by the idle sweep or the end of an index.
CallKeepsConnection ==
  [][Connected /\ conn.inflight > 0 /\ conn'.client # conn.client
       => Reconfigure \/ Uninstall \/ \E k \in Client : UpstreamCloses(k)]_vars

\* A push made during a call on the connection in use never reaches another caller.
RoutedWhenCurrent == routed.current => routed.to \in {routed.of, Pane}

\* "a stale cached verdict must never wedge a server": no backoff starts while
\* the verdict that may have caused the failure is still stored.
NeverWedged == failure.state # "none" => ~verdict

\* Every call that waits for a connection is sent or fails, unless the server is
\* reconfigured again and again while it connects.
ConnectsSettle ==
  <>[][~Reconfigure]_vars =>
    \A c \in Caller : calls[c].pc = "connecting" ~> calls[c].pc # "connecting"

=============================================================================
